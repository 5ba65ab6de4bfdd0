---------------------- MODULE FolderTransactionsProofs ----------------------
(***************************************************************************)
(* Proofs about FolderTransactions, for any number of calls at the same    *)
(* time, under either database, whatever their statements interleave to.   *)
(***************************************************************************)
EXTENDS FolderTransactions, FoldersProofs

Labels == {"idle", "done", "Select", "UpdateFolder", "FindBelow", "UpdateBelow", "FindFiles",
           "UpdateFiles", "Commit", "Insert"}
Methods == {"none", "MoveFolder", "SoftDeleteFolder", "CreateFolder"}
Replies == {"none", "ok", "failed"}

\* The rows that a transaction has written.
Drafts == UNION {[D -> FolderRecords] : D \in SUBSET FolderIds}

Calls ==
  [pc : Labels, op : Methods, folder : FolderIds \cup {0}, parent : FolderIds \cup {0},
   path : Seq(FolderIds), prefix : Seq(FolderIds), todo : SUBSET (FolderIds \cup FileIds),
   inside : SUBSET FolderIds, rows : Drafts, gone : SUBSET FileIds, stale : BOOLEAN,
   reply : Replies]

\* What a transaction has written ends with the parent too; the new path ends
\* with the new parent, and the prefix of the LIKE with the folder itself.
CallInv(c) ==
  /\ \A f \in DOMAIN c.rows : c.rows[f].state = "live" => RowEnds(c.rows[f])
  /\ c.op \in {"MoveFolder", "CreateFolder"} =>
       c.parent \in FolderIds /\ c.path # <<>> /\ Last(c.path) = c.parent
  /\ c.pc = "Insert" => c.op = "CreateFolder"
  /\ c.pc \notin {"idle", "done", "Insert"} =>
       c.folder \in FolderIds /\ c.op \in {"MoveFolder", "SoftDeleteFolder"}
  /\ c.pc \in {"UpdateFolder", "FindBelow", "UpdateBelow"} =>
       c.prefix # <<>> /\ Last(c.prefix) = c.folder

TypeOK ==
  /\ folders \in Tables /\ files \in [FileIds -> FileRecords] /\ next \in Nat
  /\ tx \in [Txs -> Calls]

IInv ==
  /\ TypeOK /\ EndsWithParent(folders)
  /\ \A t \in Txs : CallInv(tx[t])
-----------------------------------------------------------------------------
(* Lemmas about calls and their private rows.                              *)

LEMMA DraftsType == \A D \in SUBSET FolderIds : \A r \in [D -> FolderRecords] : r \in Drafts
BY DEF Drafts

LEMMA DraftRows ==
  ASSUME NEW r \in Drafts
  PROVE  /\ DOMAIN r \in SUBSET FolderIds /\ r \in [DOMAIN r -> FolderRecords]
         /\ \A f \in DOMAIN r : r[f] \in FolderRecords
BY DEF Drafts

LEMMA WriteType ==
  ASSUME NEW c \in Calls, CallInv(c), NEW f \in FolderIds, NEW row \in FolderRecords,
         row.state = "live" => RowEnds(row)
  PROVE  Write(c, f, row) \in Calls /\ CallInv(Write(c, f, row))
<1> DEFINE D == DOMAIN c.rows \cup {f}
           r == [g \in D |-> IF g = f THEN row ELSE c.rows[g]]
<1>1. c.rows \in Drafts
  BY DEF Calls
<1>2. DOMAIN c.rows \in SUBSET FolderIds /\ \A g \in DOMAIN c.rows : c.rows[g] \in FolderRecords
  BY <1>1, DraftRows
<1>4. D \in SUBSET FolderIds
  BY <1>2
<1>5. r \in [D -> FolderRecords]
  BY <1>2
<1>6. r \in Drafts
  BY <1>4, <1>5, DraftsType
<1>7. \A g \in DOMAIN r : r[g].state = "live" => RowEnds(r[g])
  BY DEF CallInv
<1> HIDE DEF r
<1>8. PICK d : d = Write(c, f, row)
  OBVIOUS
<1>9. d = [c EXCEPT !.rows = r]
  BY <1>8 DEF Write, r
<1>10. d \in Calls
  BY <1>6, <1>9 DEF Calls
<1>11. CallInv(d)
  BY <1>7, <1>9 DEF CallInv, Calls
<1> QED BY <1>8, <1>10, <1>11

LEMMA ViewType ==
  ASSUME IInv, NEW t \in Txs
  PROVE  View(t) \in Tables /\ EndsWithParent(View(t))
<1>1. tx[t].rows \in Drafts /\ CallInv(tx[t]) /\ folders \in Tables
  BY DEF IInv, TypeOK, Calls
<1>2. \A f \in DOMAIN tx[t].rows : tx[t].rows[f] \in FolderRecords
  BY <1>1, DraftRows
<1>3. View(t) \in Tables
  BY <1>1, <1>2 DEF View, Tables
<1>4. \A f \in FolderIds :
        View(t)[f] = IF f \in DOMAIN tx[t].rows THEN tx[t].rows[f] ELSE folders[f]
  BY DEF View
<1> QED BY <1>1, <1>3, <1>4 DEF IInv, EndsWithParent, IsLive, CallInv

LEMMA IdleType == Idle \in Calls /\ CallInv(Idle)
<1>1. <<>> \in Drafts
  <2>1. <<>> = [f \in {} |-> NoFolder]
    OBVIOUS
  <2> QED BY <2>1, DraftsType
<1>2. <<>> \in Seq(FolderIds)
  OBVIOUS
<1>3. Idle \in Calls
  BY <1>1, <1>2 DEF Idle, Calls, Labels, Methods, Replies
<1> QED BY <1>3 DEF Idle, CallInv

LEMMA EndsType ==
  ASSUME NEW c \in Calls, CallInv(c), NEW a \in Replies
  PROVE  Ends(c, a) \in Calls /\ CallInv(Ends(c, a))
<1>1. PICK d : d = Ends(c, a)
  OBVIOUS
<1>2. /\ d.pc = "done" /\ d.op = c.op /\ d.folder = c.folder /\ d.parent = c.parent
      /\ d.path = c.path /\ d.rows = Idle.rows
  BY <1>1, IdleType DEF Ends, Calls
<1>3. d \in Calls
  BY <1>1, IdleType DEF Ends, Calls, Labels
<1>4. CallInv(d)
  BY <1>2, IdleType DEF CallInv
<1> QED BY <1>1, <1>3, <1>4

\* A step of one call that leaves the tables alone.
LEMMA PrivateInv ==
  ASSUME IInv, NEW t \in Txs, NEW c \in Calls, CallInv(c), Private(t, c)
  PROVE  IInv'
<1>1. tx' = [tx EXCEPT ![t] = c] /\ UNCHANGED <<folders, files, next>>
  BY DEF Private, Step, tables
<1>2. TypeOK'
  BY <1>1 DEF IInv, TypeOK
<1>3. EndsWithParent(folders)'
  BY <1>1 DEF IInv, EndsWithParent
<1>4. \A u \in Txs : CallInv(tx[u])'
  BY <1>1 DEF IInv, TypeOK
<1> QED BY <1>2, <1>3, <1>4 DEF IInv

-----------------------------------------------------------------------------
(* Each step.                                                              *)

LEMMA BeginInv ==
  ASSUME IInv, NEW t \in Txs, MoveFolder(t) \/ SoftDeleteFolder(t) \/ CreateFolder(t)
  PROVE  IInv'
<1>0. \A p \in FolderIds : p # 0
  BY DEF FolderIds
<1>1. \A p \in FolderIds : /\ PathIn(folders, p) \in Seq(FolderIds)
                           /\ PathIn(folders, p) # <<>> /\ Last(PathIn(folders, p)) = p
  BY RowType, PathInType DEF PathIn, IInv, TypeOK
<1>2. \E c \in Calls : CallInv(c) /\ Private(t, c)
  <2>1. CASE MoveFolder(t)
    <3>1. PICK f \in FolderIds, p \in FolderIds :
            Begin(t, Asks("MoveFolder", "Select", f, p))
      BY <2>1 DEF MoveFolder
    <3>2. PICK c : c = Asks("MoveFolder", "Select", f, p)
      OBVIOUS
    <3>3. c = [Idle EXCEPT !.op = "MoveFolder", !.pc = "Select", !.folder = f, !.parent = p,
                           !.path = PathIn(folders, p)]
      BY <1>0, <3>2 DEF Asks
    <3>4. /\ c \in Calls /\ c.pc = "Select" /\ c.op = "MoveFolder" /\ c.folder = f
          /\ c.parent = p /\ c.path = PathIn(folders, p) /\ c.rows = Idle.rows
      BY <1>1, <3>3, IdleType DEF Calls, Labels, Methods
    <3>5. CallInv(c)
      BY <1>1, <3>4, IdleType DEF CallInv
    <3> QED BY <3>1, <3>2, <3>4, <3>5 DEF Begin
  <2>2. CASE SoftDeleteFolder(t)
    <3>1. PICK f \in FolderIds : Begin(t, Asks("SoftDeleteFolder", "Select", f, 0))
      BY <2>2 DEF SoftDeleteFolder
    <3>2. PICK c : c = Asks("SoftDeleteFolder", "Select", f, 0)
      OBVIOUS
    <3>3. c = [Idle EXCEPT !.op = "SoftDeleteFolder", !.pc = "Select", !.folder = f,
                           !.parent = 0, !.path = <<>>]
      BY <3>2 DEF Asks
    <3>4. /\ c \in Calls /\ c.pc = "Select" /\ c.op = "SoftDeleteFolder" /\ c.folder = f
          /\ c.rows = Idle.rows
      <4>1. <<>> \in Seq(FolderIds)
        OBVIOUS
      <4> QED BY <3>3, <4>1, IdleType DEF Calls, Labels, Methods
    <3>5. CallInv(c)
      BY <3>4, IdleType DEF CallInv
    <3> QED BY <3>1, <3>2, <3>4, <3>5 DEF Begin
  <2>3. CASE CreateFolder(t)
    <3>1. PICK p \in FolderIds : Begin(t, Asks("CreateFolder", "Insert", 0, p))
      BY <2>3 DEF CreateFolder
    <3>2. PICK c : c = Asks("CreateFolder", "Insert", 0, p)
      OBVIOUS
    <3>3. c = [Idle EXCEPT !.op = "CreateFolder", !.pc = "Insert", !.folder = 0, !.parent = p,
                           !.path = PathIn(folders, p)]
      BY <1>0, <3>2 DEF Asks
    <3>4. /\ c \in Calls /\ c.pc = "Insert" /\ c.op = "CreateFolder"
          /\ c.parent = p /\ c.path = PathIn(folders, p) /\ c.rows = Idle.rows
      BY <1>1, <3>3, IdleType DEF Calls, Labels, Methods
    <3>5. CallInv(c)
      BY <1>1, <3>4, IdleType DEF CallInv
    <3> QED BY <3>1, <3>2, <3>4, <3>5 DEF Begin
  <2> QED BY <2>1, <2>2, <2>3
<1> QED BY <1>2, PrivateInv

\* The steps that read, and those that only choose what comes next.
LEMMA ReadInv ==
  ASSUME IInv, NEW t \in Txs,
         Select(t) \/ FindBelow(t) \/ EndBelow(t) \/ FindFiles(t) \/ UpdateFiles(t)
           \/ EndFiles(t) \/ Conflict(t) \/ Fault(t)
  PROVE  IInv'
<1> DEFINE c == tx[t]
<1>1. c \in Calls /\ CallInv(c) /\ folders \in Tables
  BY DEF IInv, TypeOK
<1>2. CASE Private(t, Ends(c, "failed"))
  BY <1>1, <1>2, EndsType, PrivateInv DEF Replies
<1>3. CASE Select(t) /\ ~ Private(t, Ends(c, "failed"))
  <2>1. PICK d : /\ d = [Goto(c, "UpdateFolder") EXCEPT !.prefix = PathIn(folders, c.folder)]
                 /\ Private(t, d) /\ c.pc = "Select"
    BY <1>3 DEF Select, At
  <2>2. c.folder \in FolderIds
    BY <1>1, <2>1 DEF CallInv
  <2>3. /\ PathIn(folders, c.folder) \in Seq(FolderIds) /\ PathIn(folders, c.folder) # <<>>
        /\ Last(PathIn(folders, c.folder)) = c.folder
    BY <1>1, <2>2, RowType, PathInType DEF PathIn
  <2>4. /\ d \in Calls /\ d.pc = "UpdateFolder" /\ d.folder = c.folder /\ d.op = c.op
        /\ d.prefix = PathIn(folders, c.folder) /\ d.rows = c.rows /\ d.parent = c.parent
        /\ d.path = c.path
    BY <1>1, <2>1, <2>3 DEF Goto, Calls, Labels
  <2>5. CallInv(d)
    BY <1>1, <2>1, <2>3, <2>4 DEF CallInv
  <2> QED BY <2>1, <2>4, <2>5, PrivateInv
<1>4. CASE FindBelow(t)
  <2>1. PICK d : /\ d = [Goto(c, "UpdateBelow") EXCEPT !.todo = {f \in FolderIds : Matches(t, f)}]
                 /\ Private(t, d) /\ c.pc = "FindBelow"
    BY <1>4 DEF FindBelow, At
  <2>2. /\ d \in Calls /\ d.pc = "UpdateBelow" /\ d.folder = c.folder /\ d.op = c.op
        /\ d.prefix = c.prefix /\ d.rows = c.rows /\ d.parent = c.parent /\ d.path = c.path
    BY <1>1, <2>1 DEF Goto, Calls, Labels
  <2>3. CallInv(d)
    BY <1>1, <2>1, <2>2 DEF CallInv
  <2> QED BY <2>1, <2>2, <2>3, PrivateInv
<1>5. CASE EndBelow(t) \/ EndFiles(t)
  <2>1. PICK l \in {"Commit", "FindFiles"} :
          Private(t, Goto(c, l)) /\ c.pc \in {"UpdateBelow", "UpdateFiles"}
    BY <1>5 DEF EndBelow, EndFiles, At
  <2>2. PICK d : d = Goto(c, l)
    OBVIOUS
  <2>3. /\ d \in Calls /\ d.pc = l /\ d.folder = c.folder /\ d.op = c.op
        /\ d.prefix = c.prefix /\ d.rows = c.rows /\ d.parent = c.parent /\ d.path = c.path
    BY <1>1, <2>2 DEF Goto, Calls, Labels
  <2>4. CallInv(d)
    BY <1>1, <2>1, <2>3 DEF CallInv
  <2> QED BY <2>1, <2>2, <2>3, <2>4, PrivateInv
<1>6. CASE FindFiles(t)
  <2>1. PICK in \in SUBSET FolderIds, todo \in SUBSET FileIds :
          /\ Private(t, [Goto(c, "UpdateFiles") EXCEPT !.inside = in, !.todo = todo])
          /\ c.pc = "FindFiles"
    <3>1. c.folder \in FolderIds
      BY <1>1, <1>6 DEF FindFiles, At, CallInv
    <3>2. PICK in, todo :
            /\ in = {c.folder} \cup {f \in FolderIds : /\ Exists(View(t), f)
                                                      /\ IsPrefix(c.prefix, View(t)[f].path)}
            /\ todo = {f \in LiveFiles(t) : files[f].folder \in in}
      OBVIOUS
    <3>3. in \in SUBSET FolderIds /\ todo \in SUBSET FileIds
      BY <3>1, <3>2 DEF LiveFiles
    <3>4. /\ Private(t, [Goto(c, "UpdateFiles") EXCEPT !.inside = in, !.todo = todo])
          /\ c.pc = "FindFiles"
      BY <1>6, <3>2 DEF FindFiles, At
    <3> QED BY <3>3, <3>4
  <2>2. PICK d : d = [Goto(c, "UpdateFiles") EXCEPT !.inside = in, !.todo = todo]
    OBVIOUS
  <2>3. /\ d \in Calls /\ d.pc = "UpdateFiles" /\ d.folder = c.folder /\ d.op = c.op
        /\ d.prefix = c.prefix /\ d.rows = c.rows /\ d.parent = c.parent /\ d.path = c.path
    BY <1>1, <2>2 DEF Goto, Calls, Labels
  <2>4. CallInv(d)
    BY <1>1, <2>1, <2>3 DEF CallInv
  <2> QED BY <2>1, <2>2, <2>3, <2>4, PrivateInv
<1>7. CASE UpdateFiles(t)
  <2>1. PICK f \in c.todo :
          LET d == [c EXCEPT !.todo = c.todo \ {f}]
          IN  Private(t, IF f \in LiveFiles(t) /\ files[f].folder \in c.inside
                         THEN [d EXCEPT !.gone = c.gone \cup {f}] ELSE d)
    BY <1>1, <1>7 DEF UpdateFiles, Calls
  <2>2. PICK d : d = IF f \in LiveFiles(t) /\ files[f].folder \in c.inside
                     THEN [[c EXCEPT !.todo = c.todo \ {f}] EXCEPT !.gone = c.gone \cup {f}]
                     ELSE [c EXCEPT !.todo = c.todo \ {f}]
    OBVIOUS
  <2>3. Private(t, d)
    BY <1>1, <2>1, <2>2
  <2>4. /\ d \in Calls /\ d.pc = c.pc /\ d.folder = c.folder /\ d.op = c.op
        /\ d.prefix = c.prefix /\ d.rows = c.rows /\ d.parent = c.parent /\ d.path = c.path
    BY <1>1, <2>2 DEF Calls, LiveFiles
  <2>5. CallInv(d)
    BY <1>1, <2>4 DEF CallInv
  <2> QED BY <2>3, <2>4, <2>5, PrivateInv
<1> QED BY <1>2, <1>3, <1>4, <1>5, <1>6, <1>7 DEF Conflict, Fault

\* The steps that write rows that nobody else sees yet.
LEMMA UpdateFolderInv ==
  ASSUME IInv, NEW t \in Txs, UpdateFolder(t)
  PROVE  IInv'
<1> DEFINE c   == tx[t]
           row == View(t)[c.folder]
           new == IF c.op = "MoveFolder"
                  THEN [row EXCEPT !.parent = c.parent, !.path = c.path]
                  ELSE [row EXCEPT !.state = "deleted"]
           d   == Goto(c, "FindBelow")
<1>1. c \in Calls /\ CallInv(c) /\ c.pc = "UpdateFolder" /\ c.folder \in FolderIds
  BY DEF IInv, TypeOK, UpdateFolder, At, CallInv
<1>2. row \in FolderRecords
  BY <1>1, ViewType, RowType
<1>3. new \in FolderRecords /\ (new.state = "live" => RowEnds(new))
  <2>1. CASE c.op = "MoveFolder"
    <3>1. c.parent \in FolderIds /\ c.path \in Seq(FolderIds) /\ c.path # <<>>
          /\ Last(c.path) = c.parent
      BY <1>1, <2>1 DEF CallInv, Calls
    <3>2. new \in FolderRecords /\ new.parent = c.parent /\ new.path = c.path
      BY <1>2, <2>1, <3>1 DEF FolderRecords
    <3> QED BY <3>1, <3>2 DEF RowEnds
  <2>2. CASE c.op # "MoveFolder"
    BY <1>2, <2>2 DEF FolderRecords
  <2> QED BY <2>1, <2>2
<1>4. d \in Calls /\ CallInv(d)
  <2>1. /\ d \in Calls /\ d.pc = "FindBelow" /\ d.folder = c.folder /\ d.op = c.op
        /\ d.prefix = c.prefix /\ d.rows = c.rows /\ d.parent = c.parent /\ d.path = c.path
    BY <1>1 DEF Goto, Calls, Labels
  <2> HIDE DEF d
  <2> QED BY <1>1, <2>1 DEF CallInv
<1>5. Private(t, Write(d, c.folder, new))
  BY DEF UpdateFolder
<1> HIDE DEF new, d
<1> QED BY <1>1, <1>3, <1>4, <1>5, WriteType, PrivateInv

LEMMA UpdateBelowInv ==
  ASSUME IInv, NEW t \in Txs, UpdateBelow(t)
  PROVE  IInv'
<1> DEFINE c == tx[t]
<1>1. c \in Calls /\ CallInv(c) /\ c.pc = "UpdateBelow" /\ c.folder \in FolderIds
      /\ c.prefix \in Seq(FolderIds) /\ c.prefix # <<>> /\ Last(c.prefix) = c.folder
  BY DEF IInv, TypeOK, UpdateBelow, At, CallInv, Calls
<1>2. PICK f \in c.todo :
        Private(t, IF Matches(t, f)
                   THEN Write([c EXCEPT !.todo = c.todo \ {f}], f, RowBelow(c, View(t)[f]))
                   ELSE [c EXCEPT !.todo = c.todo \ {f}])
  BY <1>1 DEF UpdateBelow, Calls
<1>3. PICK d : d = [c EXCEPT !.todo = c.todo \ {f}]
  OBVIOUS
<1>4. d \in Calls /\ CallInv(d)
  <2>1. /\ d \in Calls /\ d.pc = c.pc /\ d.folder = c.folder /\ d.op = c.op
        /\ d.prefix = c.prefix /\ d.rows = c.rows /\ d.parent = c.parent /\ d.path = c.path
    BY <1>1, <1>3 DEF Calls
  <2> QED BY <1>1, <2>1 DEF CallInv
<1>5. CASE ~ Matches(t, f)
  BY <1>2, <1>3, <1>4, <1>5, PrivateInv
<1>6. CASE Matches(t, f)
  <2> DEFINE row == View(t)[f]
             r   == Append(c.path, c.folder)
                      \o SubSeq(row.path, Len(c.prefix) + 1, Len(row.path))
             new == RowBelow(c, row)
  <2>1. f \in FolderIds /\ IsLive(View(t), f) /\ IsPrefix(c.prefix, row.path)
    BY <1>6 DEF Matches, IsLive
  <2>2. row \in FolderRecords /\ row.path \in Seq(FolderIds) /\ RowEnds(row)
    BY <2>1, ViewType, RowType DEF EndsWithParent
  <2>3. /\ Append(c.path, c.folder) \in Seq(FolderIds) /\ Append(c.path, c.folder) # <<>>
        /\ Last(Append(c.path, c.folder)) = c.folder
    BY <1>1, PathInType DEF Calls
  <2>4. r \in Seq(FolderIds) /\ r # <<>> /\ Last(r) = Last(row.path)
    <3>1. PICK s, old, n : s = row.path /\ old = c.prefix /\ n = Append(c.path, c.folder)
      OBVIOUS
    <3>2. /\ s \in Seq(FolderIds) /\ old \in Seq(FolderIds) /\ n \in Seq(FolderIds)
          /\ old # <<>> /\ n # <<>> /\ Last(n) = Last(old) /\ IsPrefix(old, s)
      BY <1>1, <2>1, <2>2, <2>3, <3>1
    <3>3. LET q == n \o SubSeq(s, Len(old) + 1, Len(s))
          IN  q \in Seq(FolderIds) /\ q # <<>> /\ Last(q) = Last(s)
      BY <3>2, Spliced
    <3> QED BY <3>1, <3>3
  <2>5. new = IF c.op = "MoveFolder" THEN [row EXCEPT !.path = r]
                                     ELSE [row EXCEPT !.state = "deleted"]
    BY <2>2 DEF RowBelow, FolderRecords
  <2> HIDE DEF r, new, row
  <2>6. new \in FolderRecords /\ (new.state = "live" => RowEnds(new))
    <3>1. CASE c.op = "MoveFolder"
      <4>1. new \in FolderRecords /\ new.parent = row.parent /\ new.path = r
        BY <2>2, <2>4, <2>5, <3>1 DEF FolderRecords
      <4> QED BY <2>2, <2>4, <4>1 DEF RowEnds
    <3>2. CASE c.op # "MoveFolder"
      BY <2>2, <2>5, <3>2 DEF FolderRecords
    <3> QED BY <3>1, <3>2
  <2>7. Private(t, Write(d, f, new))
    BY <1>2, <1>3, <1>6 DEF new, row
  <2>8. Write(d, f, new) \in Calls /\ CallInv(Write(d, f, new))
    BY <1>4, <2>1, <2>6, WriteType
  <2> QED BY <2>7, <2>8, PrivateInv
<1> QED BY <1>5, <1>6

\* The steps that commit: everybody else's snapshot may become stale.
LEMMA CommittedInv ==
  ASSUME IInv, NEW t \in Txs, NEW c \in Calls, CallInv(c), Committed(t, c),
         folders' \in Tables, EndsWithParent(folders'), files' \in [FileIds -> FileRecords],
         next' \in Nat
  PROVE  IInv'
<1>1. tx' = [u \in Txs |-> IF u = t THEN c
                           ELSE [tx[u] EXCEPT !.stale = At(u, "UpdateFolder") \/ tx[u].stale]]
  BY DEF Committed, IInv, TypeOK, Calls
<1>2. ASSUME NEW u \in Txs PROVE tx'[u] \in Calls /\ CallInv(tx'[u])
  <2>1. CASE u = t
    BY <1>1, <2>1
  <2>2. CASE u # t
    <3>1. PICK b \in BOOLEAN : tx'[u] = [tx[u] EXCEPT !.stale = b]
      <4>1. (At(u, "UpdateFolder") \/ tx[u].stale) \in BOOLEAN
        BY DEF At
      <4> QED BY <1>1, <2>2, <4>1
    <3>2. PICK d : d = [tx[u] EXCEPT !.stale = b]
      OBVIOUS
    <3>3. tx[u] \in Calls /\ CallInv(tx[u])
      BY DEF IInv, TypeOK
    <3>4. /\ d \in Calls /\ d.pc = tx[u].pc /\ d.folder = tx[u].folder /\ d.op = tx[u].op
          /\ d.prefix = tx[u].prefix /\ d.rows = tx[u].rows /\ d.parent = tx[u].parent
          /\ d.path = tx[u].path
      BY <3>2, <3>3 DEF Calls
    <3>5. CallInv(d)
      BY <3>3, <3>4 DEF CallInv
    <3> QED BY <3>1, <3>2, <3>4, <3>5
  <2> QED BY <2>1, <2>2
<1>3. tx' \in [Txs -> Calls]
  BY <1>1, <1>2
<1>4. \A u \in Txs : CallInv(tx[u])'
  BY <1>2
<1>5. TypeOK'
  BY <1>3 DEF TypeOK
<1>6. EndsWithParent(folders)'
  OBVIOUS
<1> QED BY <1>4, <1>5, <1>6 DEF IInv

LEMMA InsertInv ==
  ASSUME IInv, NEW t \in Txs, Insert(t)
  PROVE  IInv'
<1> DEFINE c == tx[t]
<1>1. /\ c \in Calls /\ CallInv(c) /\ folders \in Tables /\ EndsWithParent(folders)
      /\ files \in [FileIds -> FileRecords]
  BY DEF IInv, TypeOK
<1>2. c.parent \in FolderIds /\ c.path \in Seq(FolderIds) /\ c.path # <<>>
      /\ Last(c.path) = c.parent
  BY <1>1 DEF Insert, At, CallInv, Calls
<1>3. next \in FolderIds /\ next' = next + 1 /\ next' \in Nat /\ files' = files
  BY DEF Insert, IInv, TypeOK
<1>4. CASE Exists(folders, next)
  <2>1. PICK d : d = Ends(c, "failed")
    OBVIOUS
  <2>2. d \in Calls /\ CallInv(d)
    BY <1>1, <2>1, EndsType DEF Replies
  <2>3. tx' = [tx EXCEPT ![t] = d] /\ folders' = folders
    BY <1>4, <2>1 DEF Insert, Step
  <2>4. TypeOK'
    BY <1>1, <1>3, <2>2, <2>3 DEF IInv, TypeOK
  <2>5. \A u \in Txs : CallInv(tx[u])'
    BY <2>2, <2>3 DEF IInv, TypeOK
  <2>6. EndsWithParent(folders)'
    BY <1>1, <2>3
  <2> QED BY <2>4, <2>5, <2>6 DEF IInv
<1>5. CASE ~ Exists(folders, next)
  <2>1. folders' = Created(folders, next, c.parent, c.path, TRUE)
    BY <1>5 DEF Insert
  <2>2. folders' \in Tables /\ EndsWithParent(folders')
    BY <1>1, <1>2, <1>3, <2>1, CreatedTable, CreatedEnds
  <2>3. PICK d : d = [c EXCEPT !.folder = next]
    OBVIOUS
  <2>4. /\ d \in Calls /\ d.pc = c.pc /\ d.op = c.op /\ d.rows = c.rows
        /\ d.parent = c.parent /\ d.path = c.path /\ d.folder = next /\ d.prefix = c.prefix
    BY <1>1, <1>3, <2>3 DEF Calls
  <2>5. c.pc = "Insert"
    BY DEF Insert, At
  <2>6. CallInv(d)
    BY <1>1, <2>4, <2>5 DEF CallInv
  <2>7. PICK a \in Replies : Committed(t, Ends(d, a))
    BY <1>5, <2>3 DEF Insert, Outcomes, Replies
  <2>8. Ends(d, a) \in Calls /\ CallInv(Ends(d, a))
    BY <2>4, <2>6, EndsType
  <2> QED BY <1>1, <1>3, <2>2, <2>7, <2>8, CommittedInv
<1> QED BY <1>4, <1>5

LEMMA CommitInv ==
  ASSUME IInv, NEW t \in Txs, Commit(t)
  PROVE  IInv'
<1>1. tx[t] \in Calls /\ CallInv(tx[t]) /\ files \in [FileIds -> FileRecords] /\ next \in Nat
  BY DEF IInv, TypeOK
<1>2. PICK a \in Replies : Committed(t, Ends(tx[t], a))
  BY DEF Commit, Outcomes, Replies
<1>3. folders' \in Tables /\ EndsWithParent(folders') /\ next' = next
  BY ViewType DEF Commit
<1>4. files' \in [FileIds -> FileRecords]
  BY <1>1 DEF Commit, FileRecords
<1>5. Ends(tx[t], a) \in Calls /\ CallInv(Ends(tx[t], a))
  BY <1>1, EndsType
<1> QED BY <1>1, <1>2, <1>3, <1>4, <1>5, CommittedInv

LEMMA Initially == Init => IInv
<1> SUFFICES ASSUME Init PROVE IInv
  OBVIOUS
<1>1. PICK s \in Settings :
        /\ folders = s.folders /\ files = s.files /\ next = s.next
  BY DEF Init
<1>2. folders \in Tables /\ files \in [FileIds -> FileRecords] /\ next \in Nat
  BY <1>1, TransactionsAssumption DEF FolderIds
<1>3. EndsWithParent(folders)
  BY <1>1, TransactionsAssumption DEF EndsWithParent, RowEnds
<1>4. tx = [t \in Txs |-> Idle]
  BY DEF Init
<1> QED BY <1>2, <1>3, <1>4, IdleType DEF IInv, TypeOK

LEMMA NextInv == IInv /\ [Next]_vars => IInv'
<1> SUFFICES ASSUME IInv, [Next]_vars PROVE IInv'
  OBVIOUS
<1>1. CASE UNCHANGED vars
  BY <1>1 DEF vars, IInv, TypeOK, EndsWithParent
<1> QED BY <1>1, BeginInv, ReadInv, UpdateFolderInv, UpdateBelowInv, InsertInv, CommitInv
        DEF Next, Serves

LEMMA Invariance == Spec => []IInv
BY Initially, NextInv, PTL DEF Spec

\* The tables and the rows that transactions have not committed keep their types.
THEOREM TypeCorrect == Spec => []TypeOK
BY Invariance, PTL DEF IInv

\* Whatever the statements of calls interleave to, under either database, a
\* folder that is left live under a deleted parent is out of reach.
THEOREM OrphansOutOfReach == Spec => []OrphansAreLocked
<1>1. IInv => OrphansAreLocked
  BY OrphanUnresolved DEF IInv, TypeOK, OrphansAreLocked
<1> QED BY <1>1, Invariance, PTL
-----------------------------------------------------------------------------
(* SQLite: a transaction is one step.  What a transaction has read is what   *)
(* the tables hold until it commits, for nobody else writes from its first   *)
(* write on, and before that a commit of another makes its snapshot stale.   *)

SQLite == \A s \in Settings : s.engine = "sqlite"

\* The tables after the first UPDATE, which the rows below the folder are
\* looked for in, and after the whole call.
AfterFirst(c) ==
  [folders EXCEPT ![c.folder] = IF c.op = "MoveFolder"
     THEN [folders[c.folder] EXCEPT !.parent = c.parent, !.path = c.path]
     ELSE [folders[c.folder] EXCEPT !.state = "deleted"]]
AfterAll(c) ==
  IF c.op = "MoveFolder" THEN Moved(folders, c.folder, c.parent, c.path)
                         ELSE Deleted(folders, c.folder)

\* The rows the third statement is to update, and the files that go with them.
RowsBelow(c) ==
  {g \in FolderIds : /\ IsLive(AfterFirst(c), g)
                     /\ IsPrefix(PathIn(folders, c.folder), AfterFirst(c)[g].path)}
FilesWithin(c) ==
  {f \in FileIds : files[f].state = "live" /\ files[f].folder \in Subtree(c.folder)}

\* Where a call has not written yet, or does not any more.
Unwritten == {"idle", "done", "Insert", "Select", "UpdateFolder"}

\* The rows as the statements of a call see them.
Seen(c) ==
  [f \in FolderIds |-> IF f \in DOMAIN c.rows THEN c.rows[f] ELSE folders[f]]

\* What a transaction has read is still so, and what it has written is so much
\* of its call's effect as it has come to.
Progress(c) ==
  /\ c.pc \in Unwritten => c.rows = <<>> /\ c.gone = {}
  /\ c.pc \notin Unwritten => c.folder \in DOMAIN c.rows /\ ~ c.stale
  /\ c.pc = "UpdateFolder" \/ c.pc \notin Unwritten =>
       c.stale \/ (IsLive(folders, c.folder) /\ c.prefix = PathIn(folders, c.folder))
  /\ c.pc = "FindBelow" => Seen(c) = AfterFirst(c)
  /\ c.pc = "UpdateBelow" =>
       /\ c.todo \subseteq RowsBelow(c)
       /\ Seen(c) = [g \in FolderIds |-> IF g \in c.todo THEN AfterFirst(c)[g]
                                                         ELSE AfterAll(c)[g]]
  /\ c.pc \in {"FindFiles", "UpdateFiles", "Commit"} => Seen(c) = AfterAll(c)
  /\ c.pc \in {"FindBelow", "UpdateBelow", "FindFiles"} => c.gone = {}
  /\ c.pc \in {"FindFiles", "UpdateFiles"} => c.op = "SoftDeleteFolder"
  /\ c.pc = "UpdateFiles" =>
       c.inside = Subtree(c.folder) /\ c.gone \cup c.todo = FilesWithin(c)
  /\ c.pc = "Commit" =>
       c.gone = IF c.op = "MoveFolder" THEN {} ELSE FilesWithin(c)

SqliteInv ==
  /\ engine = "sqlite"
  /\ \A t, u \in Txs : Writing(t) /\ Writing(u) => t = u
  /\ \A t \in Txs : Progress(tx[t])

LEMMA ViewSeen == \A t \in Txs : View(t) = Seen(tx[t])
BY DEF View, Seen

\* The facts about a call that every step needs.
LEMMA SqliteCall ==
  ASSUME IInv, SqliteInv, NEW t \in Txs
  PROVE  /\ tx[t] \in Calls /\ CallInv(tx[t]) /\ Progress(tx[t])
         /\ folders \in Tables /\ files \in [FileIds -> FileRecords]
         /\ tx \in [Txs -> Calls] /\ engine = "sqlite"
BY DEF IInv, TypeOK, SqliteInv

\* The updates of the third statement, and no other, are left after the first.
LEMMA RowsDone ==
  ASSUME folders \in Tables, NEW c, c.folder \in FolderIds,
         c.op \in {"MoveFolder", "SoftDeleteFolder"},
         IsLive(folders, c.folder), c.prefix = PathIn(folders, c.folder),
         NEW g \in FolderIds
  PROVE  AfterAll(c)[g] = IF g \in RowsBelow(c) THEN RowBelow(c, AfterFirst(c)[g])
                                                ELSE AfterFirst(c)[g]
<1> PICK f, u : f = c.folder /\ u = AfterFirst(c)
  OBVIOUS
<1>1. folders[g] \in FolderRecords /\ folders[f] \in FolderRecords /\ f \in FolderIds
  BY DEF Tables
<1>2. g \in RowsBelow(c) <=> IsLive(u, g) /\ IsPrefix(PathIn(folders, f), u[g].path)
  BY DEF RowsBelow
<1>3. CASE c.op = "MoveFolder"
  <2>1. u = [folders EXCEPT ![f].parent = c.parent, ![f].path = c.path]
    BY <1>1, <1>3 DEF AfterFirst, Tables
  <2>2. AfterAll(c) = [h \in FolderIds |->
          IF IsLive(u, h) /\ IsPrefix(PathIn(folders, f), u[h].path)
          THEN [u[h] EXCEPT !.path = Append(c.path, f)
                  \o SubSeq(@, Len(PathIn(folders, f)) + 1, Len(@))]
          ELSE u[h]]
    BY <1>3, <2>1 DEF AfterAll, Moved
  <2>3. RowBelow(c, u[g]) = [u[g] EXCEPT !.path = Append(c.path, f)
                               \o SubSeq(@, Len(c.prefix) + 1, Len(@))]
    BY <1>3 DEF RowBelow
  <2> QED BY <1>2, <2>2, <2>3
<1>4. CASE c.op = "SoftDeleteFolder"
  <2>1. u = [folders EXCEPT ![f] = [folders[f] EXCEPT !.state = "deleted"]]
    BY <1>4 DEF AfterFirst
  <2>2. /\ u[f] = [folders[f] EXCEPT !.state = "deleted"]
        /\ g # f => u[g] = folders[g]
    BY <1>1, <2>1 DEF Tables
  <2>3. ~ IsLive(u, f)
    BY <1>1, <2>2 DEF IsLive, FolderRecords
  <2>4. AfterAll(c)[g] = IF IsLive(folders, g) /\ g \in {f} \cup Below(folders, f)
                         THEN [folders[g] EXCEPT !.state = "deleted"] ELSE folders[g]
    BY <1>4 DEF AfterAll, Deleted
  <2>5. RowBelow(c, u[g]) = [u[g] EXCEPT !.state = "deleted"]
    BY <1>4 DEF RowBelow
  <2>6. CASE g = f
    BY <1>2, <2>2, <2>3, <2>4, <2>6
  <2>7. CASE g # f
    <3>1. IsLive(folders, g) =>
            (g \in Below(folders, f) <=> IsPrefix(PathIn(folders, f), folders[g].path))
      BY DEF Below, IsLive, Exists
    <3>2. IsLive(u, g) <=> IsLive(folders, g)
      BY <2>2, <2>7 DEF IsLive
    <3> QED BY <1>2, <2>2, <2>4, <2>5, <2>7, <3>1, <3>2
  <2> QED BY <2>6, <2>7
<1> QED BY <1>3, <1>4

\* A step that leaves the tables alone has to look at its own call, and at
\* whether it is the first to write.
LEMMA StepProgress ==
  ASSUME IInv, SqliteInv, NEW t \in Txs, NEW d, Step(t, d), Progress(d),
         UNCHANGED <<folders, files>>,
         d.rows # <<>> \/ d.gone # {} => Writing(t) \/ MayWrite(t)
  PROVE  SqliteInv'
<1>1. /\ tx' = [tx EXCEPT ![t] = d] /\ tx \in [Txs -> Calls] /\ engine = "sqlite"
      /\ UNCHANGED <<engine, folders, files>>
  BY SqliteCall DEF Step
<1>2. \A u \in Txs : tx'[u] = IF u = t THEN d ELSE tx[u]
  BY <1>1
<1>3. ASSUME NEW u \in Txs PROVE Progress(tx[u])'
  <2>1. Progress(tx'[u])
    BY <1>2 DEF SqliteInv
  <2>2. Seen(tx[u])' = Seen(tx'[u]) /\ AfterFirst(tx[u])' = AfterFirst(tx'[u])
    BY <1>1 DEF Seen, AfterFirst
  <2>3. AfterAll(tx[u])' = AfterAll(tx'[u])
    BY <1>1 DEF AfterAll
  <2>4. RowsBelow(tx[u])' = RowsBelow(tx'[u])
    BY <1>1, <2>2 DEF RowsBelow
  <2>5. /\ Subtree(tx[u].folder)' = Subtree(tx'[u].folder)
        /\ FilesWithin(tx[u])' = FilesWithin(tx'[u])
    BY <1>1 DEF Subtree, FilesWithin
  <2> QED
    BY <1>1, <2>1, <2>2, <2>3, <2>4, <2>5 DEF Progress
<1>4. \A u, v \in Txs : (Writing(u) /\ Writing(v))' => u = v
  <2>1. \A u \in Txs \ {t} : Writing(u)' <=> Writing(u)
    BY <1>2 DEF Writing
  <2>2. Writing(t)' => \A u \in Txs \ {t} : ~ Writing(u)
    BY <1>1, <1>2 DEF Writing, MayWrite, SqliteInv
  <2>3. \A u, v \in Txs \ {t} : (Writing(u) /\ Writing(v)) => u = v
    BY DEF SqliteInv
  <2> QED BY <2>1, <2>2, <2>3
<1> QED BY <1>1, <1>3, <1>4 DEF SqliteInv

LEMMA PrivateProgress ==
  ASSUME IInv, SqliteInv, NEW t \in Txs, NEW d, Private(t, d), Progress(d),
         d.rows # <<>> \/ d.gone # {} => Writing(t) \/ MayWrite(t)
  PROVE  SqliteInv'
BY StepProgress DEF Private, tables

\* A step that changes the tables is one of a call that writes alone; the
\* others have written nothing, and those that have read know it.
LEMMA CommittedProgress ==
  ASSUME IInv, SqliteInv, NEW t \in Txs, NEW d, Committed(t, d),
         d.pc = "done", d.rows = <<>>, d.gone = {},
         \A u \in Txs \ {t} : ~ Writing(u)
  PROVE  SqliteInv'
<1>1. \A u \in Txs : tx[u] \in Calls /\ Progress(tx[u])
  BY SqliteCall
<1>2. \A u \in Txs : tx'[u] = IF u = t THEN d
                              ELSE [tx[u] EXCEPT !.stale = At(u, "UpdateFolder") \/ @]
  BY DEF Committed
<1>3. ASSUME NEW u \in Txs
      PROVE  /\ tx'[u].pc \in Unwritten /\ tx'[u].rows = <<>> /\ tx'[u].gone = {}
             /\ tx'[u].pc = "UpdateFolder" => tx'[u].stale
  <2>1. CASE u = t
    BY <1>2, <2>1 DEF Unwritten
  <2>2. CASE u # t
    <3>1. PICK c : c = tx[u]
      OBVIOUS
    <3>2. c.rows = <<>> /\ c.gone = {} /\ c \in Calls /\ Progress(c)
      BY <1>1, <2>2, <3>1 DEF Writing
    <3>3. DOMAIN c.rows = {}
      BY <3>2
    <3>4. c.pc \in Unwritten
      BY <3>2, <3>3 DEF Progress
    <3>5. tx'[u] = [c EXCEPT !.stale = (c.pc = "UpdateFolder") \/ c.stale]
      BY <1>2, <2>2, <3>1 DEF At
    <3>6. /\ tx'[u].pc = c.pc /\ tx'[u].rows = c.rows /\ tx'[u].gone = c.gone
          /\ tx'[u].stale = ((c.pc = "UpdateFolder") \/ c.stale)
      BY <3>2, <3>5 DEF Calls
    <3> QED BY <3>2, <3>4, <3>6
  <2> QED BY <2>1, <2>2
<1>4. \A u \in Txs : Progress(tx[u])'
  BY <1>3 DEF Progress, Unwritten
<1>5. \A u \in Txs : ~ Writing(u)'
  BY <1>3 DEF Writing
<1> QED BY <1>4, <1>5, SqliteCall DEF SqliteInv, Committed

LEMMA EndsProgress ==
  ASSUME NEW c, NEW a
  PROVE  /\ Progress(Ends(c, a))
         /\ Ends(c, a).pc = "done" /\ Ends(c, a).rows = <<>> /\ Ends(c, a).gone = {}
<1>1. Ends(c, a).pc = "done" /\ Ends(c, a).rows = <<>> /\ Ends(c, a).gone = {}
  BY DEF Ends, Idle
<1> QED BY <1>1 DEF Progress, Unwritten
LEMMA SqliteBegin ==
  ASSUME IInv, SqliteInv, NEW t \in Txs,
         MoveFolder(t) \/ SoftDeleteFolder(t) \/ CreateFolder(t)
  PROVE  SqliteInv'
<1>1. PICK op, pc, f, p : pc \in {"Select", "Insert"} /\ Private(t, Asks(op, pc, f, p))
  BY DEF MoveFolder, SoftDeleteFolder, CreateFolder, Begin
<1>2. PICK d : d = Asks(op, pc, f, p)
  OBVIOUS
<1>3. d.pc = pc /\ d.rows = <<>> /\ d.gone = {}
  BY <1>2 DEF Asks, Idle
<1>4. Progress(d)
  BY <1>1, <1>3 DEF Progress, Unwritten
<1> QED BY <1>1, <1>2, <1>3, <1>4, PrivateProgress

LEMMA SqliteEnd ==
  ASSUME IInv, SqliteInv, NEW t \in Txs, Conflict(t) \/ Fault(t)
  PROVE  SqliteInv'
<1>1. PICK d : d = Ends(tx[t], "failed")
  OBVIOUS
<1>2. Private(t, d)
  BY <1>1 DEF Conflict, Fault
<1>3. Progress(d) /\ d.rows = <<>> /\ d.gone = {}
  BY <1>1, EndsProgress
<1> QED BY <1>2, <1>3, PrivateProgress

LEMMA SqliteSelect ==
  ASSUME IInv, SqliteInv, NEW t \in Txs, Select(t)
  PROVE  SqliteInv'
<1> PICK c : c = tx[t]
  OBVIOUS
<1>1. /\ c \in Calls /\ Progress(c) /\ c.pc = "Select"
      /\ c.rows = <<>> /\ c.gone = {}
  BY SqliteCall DEF Select, At, Progress, Unwritten
<1>2. CASE IsLive(folders, c.folder)
  <2>1. PICK d : d = [Goto(c, "UpdateFolder") EXCEPT !.prefix = PathIn(folders, c.folder)]
    OBVIOUS
  <2>2. /\ d.pc = "UpdateFolder" /\ d.rows = <<>> /\ d.gone = {}
        /\ d.folder = c.folder /\ d.prefix = PathIn(folders, c.folder)
    BY <1>1, <2>1 DEF Goto, Calls
  <2>3. Progress(d)
    BY <1>2, <2>2 DEF Progress, Unwritten
  <2>4. Private(t, d)
    BY <1>2, <2>1 DEF Select
  <2> QED BY <2>2, <2>3, <2>4, PrivateProgress
<1>3. CASE ~ IsLive(folders, c.folder)
  <2>1. PICK d : d = Ends(c, "failed")
    OBVIOUS
  <2>2. Progress(d) /\ d.rows = <<>> /\ d.gone = {}
    BY <2>1, EndsProgress
  <2>3. Private(t, d)
    BY <1>3, <2>1 DEF Select
  <2> QED BY <2>2, <2>3, PrivateProgress
<1> QED BY <1>2, <1>3

\* What the first UPDATE leaves of the call, and what is then seen.
LEMMA WriteSeen ==
  ASSUME NEW c \in Calls, NEW f \in FolderIds, NEW row, NEW d, d = Write(c, f, row)
  PROVE  /\ \A g \in FolderIds : Seen(d)[g] = IF g = f THEN row ELSE Seen(c)[g]
         /\ f \in DOMAIN d.rows /\ d.rows # <<>>
         /\ \A g \in DOMAIN c.rows : g \in DOMAIN d.rows
         /\ d.pc = c.pc /\ d.op = c.op /\ d.folder = c.folder /\ d.gone = c.gone
         /\ d.parent = c.parent /\ d.path = c.path
         /\ d.prefix = c.prefix /\ d.stale = c.stale /\ d.todo = c.todo
<1> PICK rows : rows = [g \in DOMAIN c.rows \cup {f} |-> IF g = f THEN row ELSE c.rows[g]]
  OBVIOUS
<1>1. d = [c EXCEPT !.rows = rows]
  BY DEF Write
<1>2. /\ d.rows = rows /\ d.pc = c.pc /\ d.op = c.op /\ d.folder = c.folder
      /\ d.gone = c.gone /\ d.parent = c.parent /\ d.path = c.path
      /\ d.prefix = c.prefix /\ d.stale = c.stale /\ d.todo = c.todo
  BY <1>1 DEF Calls
<1>3. DOMAIN rows = DOMAIN c.rows \cup {f}
  OBVIOUS
<1>4. rows # <<>>
  BY <1>3
<1>5. \A g \in FolderIds : Seen(d)[g] = IF g = f THEN row ELSE Seen(c)[g]
  BY <1>2, <1>3 DEF Seen
<1> QED BY <1>2, <1>3, <1>4, <1>5

\* The effect of a call is that of what it was asked.
LEMMA SameCall ==
  ASSUME NEW c, NEW d, d.op = c.op, d.folder = c.folder, d.parent = c.parent,
         d.path = c.path
  PROVE  /\ AfterFirst(d) = AfterFirst(c) /\ AfterAll(d) = AfterAll(c)
         /\ RowsBelow(d) = RowsBelow(c) /\ FilesWithin(d) = FilesWithin(c)
<1>1. AfterFirst(d) = AfterFirst(c)
  <2>1. CASE c.op = "MoveFolder"
    BY <2>1 DEF AfterFirst
  <2>2. CASE c.op # "MoveFolder"
    BY <2>2 DEF AfterFirst
  <2> QED BY <2>1, <2>2
<1>2. AfterAll(d) = AfterAll(c)
  BY DEF AfterAll
<1>3. RowsBelow(d) = RowsBelow(c)
  BY <1>1 DEF RowsBelow
<1>4. FilesWithin(d) = FilesWithin(c)
  BY DEF FilesWithin
<1> QED BY <1>1, <1>2, <1>3, <1>4

LEMMA SameSeen ==
  ASSUME NEW c, NEW d, d.rows = c.rows
  PROVE  Seen(d) = Seen(c)
BY DEF Seen

LEMMA SqliteUpdateFolder ==
  ASSUME IInv, SqliteInv, NEW t \in Txs, UpdateFolder(t)
  PROVE  SqliteInv'
<1> PICK c, f : c = tx[t] /\ f = c.folder
  OBVIOUS
<1>1. /\ c \in Calls /\ CallInv(c) /\ Progress(c) /\ c.pc = "UpdateFolder"
      /\ f \in FolderIds /\ folders \in Tables /\ MayWrite(t)
      /\ c.op \in {"MoveFolder", "SoftDeleteFolder"}
  BY SqliteCall DEF UpdateFolder, At, CallInv
<1>2. /\ c.rows = <<>> /\ c.gone = {} /\ ~ c.stale
      /\ IsLive(folders, f) /\ c.prefix = PathIn(folders, f)
  BY <1>1, SqliteCall DEF Progress, Unwritten, MayWrite
<1>3. \A g \in FolderIds : Seen(c)[g] = folders[g]
  <2>1. DOMAIN c.rows = {}
    BY <1>2
  <2> QED BY <2>1 DEF Seen
<1>4. PICK e : e = Goto(c, "FindBelow")
  OBVIOUS
<1>5. /\ e \in Calls /\ e.pc = "FindBelow" /\ e.op = c.op /\ e.folder = f
      /\ e.gone = {} /\ e.parent = c.parent /\ e.path = c.path
      /\ e.prefix = c.prefix /\ ~ e.stale /\ e.rows = c.rows
  BY <1>1, <1>2, <1>4 DEF Goto, Calls, Labels
<1>6. PICK row : row = IF c.op = "MoveFolder"
                     THEN [folders[f] EXCEPT !.parent = c.parent, !.path = c.path]
                     ELSE [folders[f] EXCEPT !.state = "deleted"]
  OBVIOUS
<1>7. PICK d : d = Write(e, f, row)
  OBVIOUS
<1>8. Private(t, d)
  BY <1>1, <1>3, <1>4, <1>6, <1>7, ViewSeen DEF UpdateFolder
<1>9. /\ \A g \in FolderIds : Seen(d)[g] = IF g = f THEN row ELSE Seen(e)[g]
      /\ f \in DOMAIN d.rows /\ d.pc = "FindBelow" /\ d.op = c.op /\ d.folder = f
      /\ d.gone = {} /\ d.parent = c.parent /\ d.path = c.path
      /\ d.prefix = c.prefix /\ ~ d.stale
  BY <1>1, <1>5, <1>7, WriteSeen
<1>10. Seen(d) = AfterFirst(d)
  <2>1. Seen(e) = Seen(c)
    BY <1>5, SameSeen
  <2>2. AfterFirst(c) = [folders EXCEPT ![f] = row]
    BY <1>6 DEF AfterFirst
  <2>3. AfterFirst(c) = [g \in FolderIds |-> IF g = f THEN row ELSE folders[g]]
    BY <1>1, <2>2 DEF Tables
  <2>4. AfterFirst(d) = AfterFirst(c)
    BY <1>9, SameCall
  <2>5. DOMAIN Seen(d) = FolderIds /\ Seen(d) = [g \in DOMAIN Seen(d) |-> Seen(d)[g]]
    BY DEF Seen
  <2>6. \A g \in FolderIds : Seen(d)[g] = IF g = f THEN row ELSE folders[g]
    BY <1>3, <1>9, <2>1
  <2>7. Seen(d) = [g \in FolderIds |-> IF g = f THEN row ELSE folders[g]]
    BY <2>5, <2>6
  <2> QED BY <2>3, <2>4, <2>7
<1>11. Progress(d)
  BY <1>2, <1>9, <1>10 DEF Progress, Unwritten
<1> QED BY <1>1, <1>8, <1>11, PrivateProgress

LEMMA SqliteFindBelow ==
  ASSUME IInv, SqliteInv, NEW t \in Txs, FindBelow(t)
  PROVE  SqliteInv'
<1> PICK c : c = tx[t]
  OBVIOUS
<1>1. /\ c \in Calls /\ CallInv(c) /\ Progress(c) /\ c.pc = "FindBelow"
      /\ c.folder \in FolderIds /\ folders \in Tables
      /\ c.op \in {"MoveFolder", "SoftDeleteFolder"}
  BY SqliteCall DEF FindBelow, At, CallInv
<1>2. /\ c.folder \in DOMAIN c.rows /\ c.gone = {} /\ ~ c.stale
      /\ IsLive(folders, c.folder) /\ c.prefix = PathIn(folders, c.folder)
      /\ Seen(c) = AfterFirst(c)
  BY <1>1 DEF Progress, Unwritten
<1>3. {g \in FolderIds : Matches(t, g)} = RowsBelow(c)
  BY <1>2, ViewSeen DEF Matches, RowsBelow
<1>0. PICK d : d = [Goto(c, "UpdateBelow") EXCEPT !.todo = RowsBelow(c)]
  OBVIOUS
<1>4. /\ d.pc = "UpdateBelow" /\ d.op = c.op /\ d.folder = c.folder
      /\ d.gone = {} /\ d.parent = c.parent /\ d.path = c.path
      /\ d.prefix = c.prefix /\ ~ d.stale /\ d.rows = c.rows /\ d.todo = RowsBelow(c)
  BY <1>0, <1>1, <1>2 DEF Goto, Calls
<1>5. Private(t, d)
  BY <1>0, <1>3 DEF FindBelow
<1>6. AfterFirst(d) = AfterFirst(c)
  BY <1>4, SameCall
<1>7. AfterAll(d) = AfterAll(c) /\ RowsBelow(d) = RowsBelow(c) /\ Seen(d) = Seen(c)
  BY <1>4, SameCall, SameSeen
<1>8. \A g \in FolderIds : g \notin RowsBelow(c) => AfterAll(c)[g] = AfterFirst(c)[g]
  BY <1>1, <1>2, RowsDone
<1>9. Seen(d) = [g \in FolderIds |-> IF g \in d.todo THEN AfterFirst(d)[g]
                                                     ELSE AfterAll(d)[g]]
  <2>1. Seen(d) = [g \in FolderIds |-> Seen(d)[g]]
    BY DEF Seen
  <2> QED BY <1>2, <1>4, <1>6, <1>7, <1>8, <2>1
<1>10. Progress(d)
  BY <1>2, <1>4, <1>7, <1>9 DEF Progress, Unwritten
<1>11. Writing(t)
  BY <1>2 DEF Writing
<1> QED BY <1>5, <1>10, <1>11, PrivateProgress
LEMMA SqliteUpdateBelow ==
  ASSUME IInv, SqliteInv, NEW t \in Txs, UpdateBelow(t)
  PROVE  SqliteInv'
<1> PICK c : c = tx[t]
  OBVIOUS
<1>1. /\ c \in Calls /\ CallInv(c) /\ Progress(c) /\ c.pc = "UpdateBelow"
      /\ c.folder \in FolderIds /\ folders \in Tables
      /\ c.op \in {"MoveFolder", "SoftDeleteFolder"}
  BY SqliteCall DEF UpdateBelow, At, CallInv
<1>2. /\ c.folder \in DOMAIN c.rows /\ c.gone = {} /\ ~ c.stale
      /\ IsLive(folders, c.folder) /\ c.prefix = PathIn(folders, c.folder)
      /\ c.todo \subseteq RowsBelow(c)
      /\ Seen(c) = [g \in FolderIds |-> IF g \in c.todo THEN AfterFirst(c)[g]
                                                        ELSE AfterAll(c)[g]]
  BY <1>1 DEF Progress, Unwritten
<1>3. PICK f \in c.todo :
        Private(t, IF Matches(t, f)
                   THEN Write([c EXCEPT !.todo = @ \ {f}], f, RowBelow(c, View(t)[f]))
                   ELSE [c EXCEPT !.todo = @ \ {f}])
  BY DEF UpdateBelow
<1>4. f \in FolderIds /\ f \in RowsBelow(c) /\ Seen(c)[f] = AfterFirst(c)[f]
  BY <1>2, <1>3 DEF RowsBelow
<1>5. Matches(t, f)
  BY <1>2, <1>4, ViewSeen DEF Matches, RowsBelow, IsLive
<1>6. RowBelow(c, View(t)[f]) = AfterAll(c)[f]
  BY <1>1, <1>2, <1>4, RowsDone, ViewSeen
<1>7. PICK e : e = [c EXCEPT !.todo = @ \ {f}]
  OBVIOUS
<1>8. /\ e \in Calls /\ e.pc = "UpdateBelow" /\ e.op = c.op /\ e.folder = c.folder
      /\ e.gone = {} /\ e.parent = c.parent /\ e.path = c.path
      /\ e.prefix = c.prefix /\ ~ e.stale /\ e.rows = c.rows /\ e.todo = c.todo \ {f}
  BY <1>1, <1>2, <1>7 DEF Calls
<1>9. PICK d : d = Write(e, f, AfterAll(c)[f])
  OBVIOUS
<1>10. Private(t, d)
  BY <1>3, <1>5, <1>6, <1>7, <1>9
<1>11. /\ \A g \in FolderIds : Seen(d)[g] = IF g = f THEN AfterAll(c)[f] ELSE Seen(e)[g]
       /\ d.folder \in DOMAIN d.rows /\ d.pc = "UpdateBelow" /\ d.op = c.op
       /\ d.folder = c.folder /\ d.gone = {} /\ d.parent = c.parent /\ d.path = c.path
       /\ d.prefix = c.prefix /\ ~ d.stale /\ d.todo = c.todo \ {f}
  BY <1>2, <1>4, <1>8, <1>9, WriteSeen
<1>12. /\ AfterFirst(d) = AfterFirst(c) /\ AfterAll(d) = AfterAll(c)
       /\ RowsBelow(d) = RowsBelow(c) /\ Seen(e) = Seen(c)
  BY <1>8, <1>11, SameCall, SameSeen
<1>13. Seen(d) = [g \in FolderIds |-> IF g \in d.todo THEN AfterFirst(d)[g]
                                                      ELSE AfterAll(d)[g]]
  <2>1. DOMAIN Seen(d) = FolderIds /\ Seen(d) = [g \in DOMAIN Seen(d) |-> Seen(d)[g]]
    BY DEF Seen
  <2>2. \A g \in FolderIds : Seen(d)[g] = IF g \in d.todo THEN AfterFirst(c)[g]
                                                          ELSE AfterAll(c)[g]
    BY <1>2, <1>11, <1>12
  <2> QED BY <1>12, <2>1, <2>2
<1>14. Progress(d)
  BY <1>2, <1>11, <1>12, <1>13 DEF Progress, Unwritten
<1>15. Writing(t)
  BY <1>2 DEF Writing
<1> QED BY <1>10, <1>14, <1>15, PrivateProgress

LEMMA SqliteEndBelow ==
  ASSUME IInv, SqliteInv, NEW t \in Txs, EndBelow(t)
  PROVE  SqliteInv'
<1> PICK c : c = tx[t]
  OBVIOUS
<1>1. /\ c \in Calls /\ CallInv(c) /\ Progress(c) /\ c.pc = "UpdateBelow" /\ c.todo = {}
      /\ c.op \in {"MoveFolder", "SoftDeleteFolder"} /\ folders \in Tables
  BY SqliteCall DEF EndBelow, At, CallInv
<1>2. /\ c.folder \in DOMAIN c.rows /\ c.gone = {} /\ ~ c.stale
      /\ IsLive(folders, c.folder) /\ c.prefix = PathIn(folders, c.folder)
      /\ Seen(c) = [g \in FolderIds |-> AfterAll(c)[g]]
  BY <1>1 DEF Progress, Unwritten
<1>3. Seen(c) = AfterAll(c)
  BY <1>1, <1>2 DEF AfterAll, Moved, Deleted
<1>4. PICK d : d = Goto(c, IF c.op = "MoveFolder" THEN "Commit" ELSE "FindFiles")
  OBVIOUS
<1>5. /\ d.pc = (IF c.op = "MoveFolder" THEN "Commit" ELSE "FindFiles")
      /\ d.op = c.op /\ d.folder = c.folder
      /\ d.gone = {} /\ d.parent = c.parent /\ d.path = c.path
      /\ d.prefix = c.prefix /\ ~ d.stale /\ d.rows = c.rows
  BY <1>1, <1>2, <1>4 DEF Goto, Calls
<1>6. Private(t, d)
  BY <1>4 DEF EndBelow
<1>7. Seen(d) = AfterAll(d)
  BY <1>3, <1>5, SameCall, SameSeen
<1>8. Progress(d)
  BY <1>1, <1>2, <1>5, <1>7 DEF Progress, Unwritten
<1>9. Writing(t)
  BY <1>2 DEF Writing
<1> QED BY <1>6, <1>8, <1>9, PrivateProgress
\* A deletion leaves every row where it is, so that the subquery finds the
\* folders it was about.
LEMMA DeletedStays ==
  ASSUME folders \in Tables, NEW f \in FolderIds, NEW g \in FolderIds
  PROVE  /\ Deleted(folders, f)[g].path = folders[g].path
         /\ Exists(Deleted(folders, f), g) <=> Exists(folders, g)
<1>1. folders[g] \in FolderRecords
  BY DEF Tables
<1>2. \/ Deleted(folders, f)[g] = folders[g]
      \/ /\ IsLive(folders, g)
         /\ Deleted(folders, f)[g] = [folders[g] EXCEPT !.state = "deleted"]
  BY DEF Deleted
<1> QED BY <1>1, <1>2 DEF FolderRecords, Exists, IsLive

LEMMA SqliteFindFiles ==
  ASSUME IInv, SqliteInv, NEW t \in Txs, FindFiles(t)
  PROVE  SqliteInv'
<1> PICK c : c = tx[t]
  OBVIOUS
<1>1. /\ c \in Calls /\ CallInv(c) /\ Progress(c) /\ c.pc = "FindFiles"
      /\ folders \in Tables /\ c.folder \in FolderIds
  BY SqliteCall DEF FindFiles, At, CallInv, Progress
<1>2. /\ c.folder \in DOMAIN c.rows /\ c.gone = {} /\ ~ c.stale
      /\ IsLive(folders, c.folder) /\ c.prefix = PathIn(folders, c.folder)
      /\ Seen(c) = AfterAll(c) /\ c.op = "SoftDeleteFolder"
  BY <1>1 DEF Progress, Unwritten
<1>3. View(t) = Deleted(folders, c.folder)
  BY <1>2, ViewSeen DEF AfterAll
<1>4. {c.folder} \cup {f \in FolderIds : Exists(View(t), f)
                                         /\ IsPrefix(c.prefix, View(t)[f].path)}
        = Subtree(c.folder)
  <2>1. \A f \in FolderIds : (Exists(View(t), f) /\ IsPrefix(c.prefix, View(t)[f].path))
                               <=> f \in Below(folders, c.folder)
    BY <1>1, <1>2, <1>3, DeletedStays DEF Below
  <2>2. Below(folders, c.folder) \subseteq FolderIds
    BY DEF Below
  <2> QED BY <2>1, <2>2 DEF Subtree
<1>5. {f \in LiveFiles(t) : files[f].folder \in Subtree(c.folder)} = FilesWithin(c)
  BY <1>2 DEF LiveFiles, FilesWithin
<1>6. PICK d : d = [Goto(c, "UpdateFiles") EXCEPT !.inside = Subtree(c.folder),
                                                 !.todo = FilesWithin(c)]
  OBVIOUS
<1>7. /\ d.pc = "UpdateFiles" /\ d.op = c.op /\ d.folder = c.folder
      /\ d.gone = {} /\ d.parent = c.parent /\ d.path = c.path
      /\ d.prefix = c.prefix /\ ~ d.stale /\ d.rows = c.rows
      /\ d.inside = Subtree(c.folder) /\ d.todo = FilesWithin(c)
  BY <1>1, <1>2, <1>6 DEF Goto, Calls
<1>8. Private(t, d)
  BY <1>4, <1>5, <1>6 DEF FindFiles
<1>9. Seen(d) = AfterAll(d) /\ FilesWithin(d) = FilesWithin(c)
  BY <1>2, <1>7, SameCall, SameSeen
<1>10. Progress(d)
  BY <1>1, <1>2, <1>7, <1>9 DEF Progress, Unwritten
<1>11. Writing(t)
  BY <1>2 DEF Writing
<1> QED BY <1>8, <1>10, <1>11, PrivateProgress

LEMMA SqliteUpdateFiles ==
  ASSUME IInv, SqliteInv, NEW t \in Txs, UpdateFiles(t)
  PROVE  SqliteInv'
<1> PICK c : c = tx[t]
  OBVIOUS
<1>1. /\ c \in Calls /\ Progress(c) /\ c.pc = "UpdateFiles"
  BY SqliteCall DEF UpdateFiles, At
<1>2. /\ c.folder \in DOMAIN c.rows /\ ~ c.stale
      /\ IsLive(folders, c.folder) /\ c.prefix = PathIn(folders, c.folder)
      /\ Seen(c) = AfterAll(c) /\ c.op = "SoftDeleteFolder"
      /\ c.inside = Subtree(c.folder) /\ c.gone \cup c.todo = FilesWithin(c)
  BY <1>1 DEF Progress, Unwritten
<1>3. PICK f \in c.todo :
        Private(t, IF f \in LiveFiles(t) /\ files[f].folder \in c.inside
                   THEN [[c EXCEPT !.todo = @ \ {f}] EXCEPT !.gone = @ \cup {f}]
                   ELSE [c EXCEPT !.todo = @ \ {f}])
  BY DEF UpdateFiles
<1>4. PICK d : d = IF f \in LiveFiles(t) /\ files[f].folder \in c.inside
                   THEN [[c EXCEPT !.todo = @ \ {f}] EXCEPT !.gone = @ \cup {f}]
                   ELSE [c EXCEPT !.todo = @ \ {f}]
  OBVIOUS
<1>5. (f \in LiveFiles(t) /\ files[f].folder \in c.inside) \/ f \in c.gone
  BY <1>2, <1>3 DEF LiveFiles, FilesWithin
<1>6. /\ d.pc = "UpdateFiles" /\ d.op = c.op /\ d.folder = c.folder
      /\ d.parent = c.parent /\ d.path = c.path
      /\ d.prefix = c.prefix /\ ~ d.stale /\ d.rows = c.rows /\ d.inside = c.inside
      /\ d.todo = c.todo \ {f} /\ d.gone \in {c.gone, c.gone \cup {f}}
      /\ f \in d.gone
  <2>1. CASE f \in LiveFiles(t) /\ files[f].folder \in c.inside
    BY <1>1, <1>2, <1>4, <2>1 DEF Calls
  <2>2. CASE ~ (f \in LiveFiles(t) /\ files[f].folder \in c.inside)
    BY <1>1, <1>2, <1>4, <1>5, <2>2 DEF Calls
  <2> QED BY <2>1, <2>2
<1>7. d.gone \cup d.todo = c.gone \cup c.todo
  BY <1>3, <1>6
<1>8. /\ Seen(d) = AfterAll(d) /\ FilesWithin(d) = FilesWithin(c)
  BY <1>2, <1>6, SameCall, SameSeen
<1>9. Progress(d)
  BY <1>2, <1>6, <1>7, <1>8 DEF Progress, Unwritten
<1>10. Writing(t)
  BY <1>2 DEF Writing
<1>11. Private(t, d)
  BY <1>3, <1>4
<1> QED BY <1>9, <1>10, <1>11, PrivateProgress

LEMMA SqliteEndFiles ==
  ASSUME IInv, SqliteInv, NEW t \in Txs, EndFiles(t)
  PROVE  SqliteInv'
<1> PICK c : c = tx[t]
  OBVIOUS
<1>1. /\ c \in Calls /\ Progress(c) /\ c.pc = "UpdateFiles" /\ c.todo = {}
  BY SqliteCall DEF EndFiles, At
<1>2. /\ c.folder \in DOMAIN c.rows /\ ~ c.stale
      /\ IsLive(folders, c.folder) /\ c.prefix = PathIn(folders, c.folder)
      /\ Seen(c) = AfterAll(c) /\ c.op = "SoftDeleteFolder"
      /\ c.gone = FilesWithin(c)
  BY <1>1 DEF Progress, Unwritten
<1>3. PICK d : d = Goto(c, "Commit")
  OBVIOUS
<1>4. /\ d.pc = "Commit" /\ d.op = c.op /\ d.folder = c.folder
      /\ d.gone = c.gone /\ d.parent = c.parent /\ d.path = c.path
      /\ d.prefix = c.prefix /\ ~ d.stale /\ d.rows = c.rows
  BY <1>1, <1>2, <1>3 DEF Goto, Calls
<1>5. Private(t, d)
  BY <1>1, <1>2, <1>3 DEF EndFiles
<1>6. Seen(d) = AfterAll(d) /\ FilesWithin(d) = FilesWithin(c)
  BY <1>2, <1>4, SameCall, SameSeen
<1>7. Progress(d)
  BY <1>2, <1>4, <1>6 DEF Progress, Unwritten
<1>8. Writing(t)
  BY <1>2 DEF Writing
<1> QED BY <1>5, <1>7, <1>8, PrivateProgress

\* Nobody else writes when a call writes to the tables.
LEMMA OneWriter ==
  ASSUME IInv, SqliteInv, NEW t \in Txs, Writing(t) \/ MayWrite(t)
  PROVE  \A u \in Txs \ {t} : ~ Writing(u)
BY DEF SqliteInv, MayWrite

LEMMA SqliteInsert ==
  ASSUME IInv, SqliteInv, NEW t \in Txs, Insert(t)
  PROVE  SqliteInv'
<1> PICK c : c = tx[t]
  OBVIOUS
<1>1. \A u \in Txs \ {t} : ~ Writing(u)
  BY OneWriter DEF Insert
<1>2. CASE Exists(folders, next)
  <2>1. PICK d : d = Ends(c, "failed")
    OBVIOUS
  <2>2. d.pc = "done" /\ d.rows = <<>> /\ d.gone = {} /\ Progress(d)
    BY <2>1, EndsProgress
  <2>3. Step(t, d) /\ UNCHANGED <<folders, files>>
    BY <1>2, <2>1 DEF Insert
  <2> QED BY <2>2, <2>3, StepProgress
<1>3. CASE ~ Exists(folders, next)
  <2>1. PICK reply : Committed(t, Ends([c EXCEPT !.folder = next], reply))
    BY <1>3 DEF Insert
  <2>2. PICK d : d = Ends([c EXCEPT !.folder = next], reply)
    OBVIOUS
  <2>3. d.pc = "done" /\ d.rows = <<>> /\ d.gone = {} /\ Committed(t, d)
    BY <2>1, <2>2, EndsProgress
  <2> QED BY <1>1, <2>3, CommittedProgress
<1> QED BY <1>2, <1>3

LEMMA SqliteCommit ==
  ASSUME IInv, SqliteInv, NEW t \in Txs, Commit(t)
  PROVE  SqliteInv'
<1>1. Progress(tx[t]) /\ tx[t].pc = "Commit"
  BY SqliteCall DEF Commit, At
<1>2. Writing(t)
  BY <1>1 DEF Progress, Unwritten, Writing
<1>3. \A u \in Txs \ {t} : ~ Writing(u)
  BY <1>2, OneWriter
<1>4. PICK reply : Committed(t, Ends(tx[t], reply))
  BY DEF Commit
<1>5. PICK d : d = Ends(tx[t], reply)
  OBVIOUS
<1>6. d.pc = "done" /\ d.rows = <<>> /\ d.gone = {}
  BY <1>5, EndsProgress
<1> QED BY <1>3, <1>4, <1>5, <1>6, CommittedProgress

LEMMA SqliteStep ==
  ASSUME IInv, SqliteInv, Next
  PROVE  SqliteInv'
<1>1. PICK t \in Txs : MoveFolder(t) \/ SoftDeleteFolder(t) \/ CreateFolder(t)
                       \/ Serves(t) \/ Fault(t)
  BY DEF Next
<1>2. CASE Serves(t)
  BY <1>1, <1>2, SqliteInsert, SqliteSelect, SqliteUpdateFolder, SqliteFindBelow,
     SqliteUpdateBelow, SqliteEndBelow, SqliteFindFiles, SqliteUpdateFiles,
     SqliteEndFiles, SqliteCommit, SqliteEnd DEF Serves
<1> QED BY <1>1, <1>2, SqliteBegin, SqliteEnd

LEMMA SqliteInit ==
  ASSUME SQLite, Init
  PROVE  SqliteInv
<1>1. engine = "sqlite" /\ \A t \in Txs : tx[t] = Idle
  BY DEF SQLite, Init
<1>2. \A t \in Txs : Progress(tx[t]) /\ ~ Writing(t)
  BY <1>1 DEF Progress, Writing, Unwritten, Idle
<1> QED BY <1>1, <1>2 DEF SqliteInv

LEMMA SqliteStutters ==
  ASSUME IInv, SqliteInv, UNCHANGED vars
  PROVE  SqliteInv'
<1>1. engine' = engine /\ tx' = tx /\ UNCHANGED <<folders, files, apart>>
  BY DEF vars
<1>2. CASE Txs = {}
  BY <1>1, <1>2 DEF SqliteInv
<1>3. CASE Txs # {}
  <2>1. PICK t \in Txs : TRUE
    BY <1>3
  <2>2. PICK d : d = tx[t]
    OBVIOUS
  <2>3. Step(t, d)
    BY <1>1, <2>1, <2>2, SqliteCall DEF Step
  <2>4. Progress(d) /\ (d.rows # <<>> \/ d.gone # {} => Writing(t))
    BY <2>1, <2>2 DEF SqliteInv, Writing
  <2> QED BY <1>1, <2>1, <2>3, <2>4, StepProgress
<1> QED BY <1>2, <1>3

LEMMA SqliteInvariance == SQLite => (Spec => []SqliteInv)
<1> SUFFICES ASSUME SQLite PROVE Spec => []SqliteInv
  OBVIOUS
<1>1. Init => SqliteInv
  BY SqliteInit
<1>2. IInv /\ SqliteInv /\ [Next]_vars => SqliteInv'
  BY SqliteStep, SqliteStutters
<1> QED BY <1>1, <1>2, Invariance, PTL DEF Spec
-----------------------------------------------------------------------------
(* What a step tells of a call.                                             *)

\* A call has no answer before it has ended.
NoAnswerYet == \A t \in Txs : tx[t].pc # "done" => tx[t].reply = "none"

\* A step that leaves the tables alone does not answer that all went well.
Quiet(t, d) == d.reply = "none" \/ (d.reply = "failed" /\ d.pc = "done")

LEMMA QuietSteps ==
  ASSUME IInv, NoAnswerYet, NEW t \in Txs,
         \/ MoveFolder(t) \/ SoftDeleteFolder(t) \/ CreateFolder(t)
         \/ Serves(t) /\ ~ Insert(t) /\ ~ Commit(t)
         \/ Fault(t)
  PROVE  \E d : Private(t, d) /\ Quiet(t, d)
<1>1. PICK c : c = tx[t] /\ c \in Calls
  BY DEF IInv, TypeOK
<1>2. c.pc # "done" => c.reply = "none"
  BY <1>1 DEF NoAnswerYet
<1>3. ASSUME MoveFolder(t) \/ SoftDeleteFolder(t) \/ CreateFolder(t)
      PROVE  \E d : Private(t, d) /\ Quiet(t, d)
  <2>1. PICK op, pc, f, p : Private(t, Asks(op, pc, f, p))
    BY <1>3 DEF MoveFolder, SoftDeleteFolder, CreateFolder, Begin
  <2>2. Asks(op, pc, f, p).reply = "none"
    BY DEF Asks, Idle
  <2> QED BY <2>1, <2>2 DEF Quiet
<1>4. ASSUME Private(t, Ends(c, "failed"))
      PROVE  \E d : Private(t, d) /\ Quiet(t, d)
  <2>1. Ends(c, "failed").reply = "failed" /\ Ends(c, "failed").pc = "done"
    BY DEF Ends, Idle
  <2> QED BY <1>4, <2>1 DEF Quiet
<1>5. ASSUME NEW d, Private(t, d), d.reply = c.reply, c.pc # "done"
      PROVE  \E e : Private(t, e) /\ Quiet(t, e)
  BY <1>2, <1>5 DEF Quiet
<1>6. \A f, row : \A e \in Calls : Write(e, f, row).reply = e.reply
  BY DEF Write, Calls
<1>7. ASSUME NEW label \in Labels
      PROVE  Goto(c, label) \in Calls /\ Goto(c, label).reply = c.reply
  BY <1>1 DEF Goto, Calls
<1>8. CASE Select(t)
  <2>1. CASE IsLive(folders, c.folder)
    <3>1. PICK d : d = [Goto(c, "UpdateFolder") EXCEPT !.prefix = PathIn(folders, c.folder)]
      OBVIOUS
    <3>2. d.reply = c.reply
      BY <3>1, <1>7 DEF Calls, Labels
    <3>3. Private(t, d) /\ c.pc # "done"
      BY <1>1, <1>8, <2>1, <3>1 DEF Select, At
    <3> QED BY <1>5, <3>2, <3>3
  <2>2. CASE ~ IsLive(folders, c.folder)
    BY <1>1, <1>4, <1>8, <2>2 DEF Select
  <2> QED BY <2>1, <2>2
<1>9. CASE UpdateFolder(t)
  <2>1. PICK row : Private(t, Write(Goto(c, "FindBelow"), c.folder, row)) /\ c.pc # "done"
    BY <1>1, <1>9 DEF UpdateFolder, At
  <2>2. Write(Goto(c, "FindBelow"), c.folder, row).reply = c.reply
    BY <1>6, <1>7 DEF Labels
  <2> QED BY <1>5, <2>1, <2>2
<1>10. CASE FindBelow(t)
  <2>1. PICK todo : /\ Private(t, [Goto(c, "UpdateBelow") EXCEPT !.todo = todo])
                    /\ c.pc # "done"
    BY <1>1, <1>10 DEF FindBelow, At
  <2>2. [Goto(c, "UpdateBelow") EXCEPT !.todo = todo].reply = c.reply
    BY <1>7 DEF Labels, Calls
  <2> QED BY <1>5, <2>1, <2>2
<1>11. CASE UpdateBelow(t)
  <2>1. PICK f, row, e :
          /\ e = [c EXCEPT !.todo = @ \ {f}]
          /\ Private(t, Write(e, f, row)) \/ Private(t, e)
          /\ c.pc # "done"
    BY <1>1, <1>11 DEF UpdateBelow, At
  <2>2. e \in Calls /\ e.reply = c.reply
    BY <1>1, <2>1 DEF Calls
  <2>3. Write(e, f, row).reply = c.reply
    BY <1>6, <2>2
  <2> QED BY <1>5, <2>1, <2>2, <2>3
<1>12. CASE EndBelow(t)
  <2>1. PICK label \in Labels : Private(t, Goto(c, label)) /\ c.pc # "done"
    BY <1>1, <1>12 DEF EndBelow, At, Labels
  <2> QED BY <1>5, <1>7, <2>1
<1>13. CASE FindFiles(t)
  <2>1. PICK inside, todo :
          /\ Private(t, [Goto(c, "UpdateFiles") EXCEPT !.inside = inside, !.todo = todo])
          /\ c.pc # "done"
    BY <1>1, <1>13 DEF FindFiles, At
  <2>2. [Goto(c, "UpdateFiles") EXCEPT !.inside = inside, !.todo = todo].reply = c.reply
    BY <1>7 DEF Labels, Calls
  <2> QED BY <1>5, <2>1, <2>2
<1>14. CASE UpdateFiles(t)
  <2>1. PICK f \in c.todo :
          /\ \/ Private(t, [[c EXCEPT !.todo = @ \ {f}] EXCEPT !.gone = @ \cup {f}])
             \/ Private(t, [c EXCEPT !.todo = @ \ {f}])
          /\ c.pc # "done"
    BY <1>1, <1>14 DEF UpdateFiles, At
  <2>2. /\ [c EXCEPT !.todo = @ \ {f}].reply = c.reply
        /\ [[c EXCEPT !.todo = @ \ {f}] EXCEPT !.gone = @ \cup {f}].reply = c.reply
    BY <1>1 DEF Calls
  <2> QED BY <1>5, <2>1, <2>2
<1>15. CASE EndFiles(t)
  <2>1. Private(t, Goto(c, "Commit")) /\ c.pc # "done"
    BY <1>1, <1>15 DEF EndFiles, At
  <2> QED BY <1>5, <1>7, <2>1 DEF Labels
<1>16. CASE Conflict(t) \/ Fault(t)
  BY <1>1, <1>4, <1>16 DEF Conflict, Fault
<1> QED BY <1>3, <1>8, <1>9, <1>10, <1>11, <1>12, <1>13, <1>14, <1>15, <1>16 DEF Serves

\* Then no call that ran has the answer "ok", and there is none before the end.
LEMMA QuietAnswers ==
  ASSUME IInv, NoAnswerYet, NEW t \in Txs, NEW d, Step(t, d), Quiet(t, d)
  PROVE  NoAnswerYet' /\ \A u \in Txs : Running(u) => tx'[u].reply # "ok"
<1>1. \A u \in Txs : tx'[u] = IF u = t THEN d ELSE tx[u]
  BY DEF Step, IInv, TypeOK
<1> QED BY <1>1 DEF NoAnswerYet, Quiet, Running

\* A step that changes the tables answers nobody but its own call.
LEMMA CommittedAnswers ==
  ASSUME IInv, NoAnswerYet, NEW t \in Txs, NEW d, Committed(t, d), d.pc = "done"
  PROVE  NoAnswerYet' /\ \A u \in Txs \ {t} : Running(u) => tx'[u].reply # "ok"
<1>1. /\ tx'[t] = d
      /\ \A u \in Txs \ {t} : tx'[u].reply = tx[u].reply /\ tx'[u].pc = tx[u].pc
  BY DEF Committed, IInv, TypeOK, Calls
<1> QED BY <1>1 DEF NoAnswerYet, Running
\* What a step does, as CallsAreOneStep asks.
Effects ==
  /\ <<folders, files>>' # <<folders, files>> => \E t \in Txs : Running(t) /\ OneStep(t)
  /\ \A t \in Txs : Running(t) /\ tx'[t].reply = "ok" => OneStep(t)

LEMMA InsertIsOneStep ==
  ASSUME IInv, SqliteInv, NoAnswerYet, NEW t \in Txs, Insert(t)
  PROVE  NoAnswerYet' /\ Effects
<1>1. /\ tx[t].op = "CreateFolder" /\ tx[t].pc = "Insert" /\ next \in FolderIds
      /\ tx[t] \in Calls /\ files' = files
  BY SqliteCall DEF Insert, At, CallInv
<1>2. CASE Exists(folders, next)
  <2>1. Step(t, Ends(tx[t], "failed")) /\ folders' = folders
    BY <1>2 DEF Insert
  <2>2. Quiet(t, Ends(tx[t], "failed"))
    BY DEF Quiet, Ends, Idle
  <2>3. NoAnswerYet' /\ \A u \in Txs : Running(u) => tx'[u].reply # "ok"
    BY <2>1, <2>2, QuietAnswers
  <2> QED BY <1>1, <2>1, <2>3 DEF Effects
<1>3. CASE ~ Exists(folders, next)
  <2>1. OneStep(t)
    <3>1. folders' = Created(folders, next, tx[t].parent, tx[t].path, TRUE)
      BY <1>3 DEF Insert
    <3> QED BY <1>1, <1>3, <3>1 DEF OneStep
  <2>2. PICK reply : Committed(t, Ends([tx[t] EXCEPT !.folder = next], reply))
    BY <1>3 DEF Insert
  <2>3. Ends([tx[t] EXCEPT !.folder = next], reply).pc = "done"
    BY EndsProgress
  <2>4. NoAnswerYet' /\ \A u \in Txs \ {t} : Running(u) => tx'[u].reply # "ok"
    BY <2>2, <2>3, CommittedAnswers
  <2>5. Running(t)
    BY <1>1 DEF Running
  <2> QED BY <2>1, <2>4, <2>5 DEF Effects
<1> QED BY <1>2, <1>3

LEMMA CommitIsOneStep ==
  ASSUME IInv, SqliteInv, NoAnswerYet, NEW t \in Txs, Commit(t)
  PROVE  NoAnswerYet' /\ Effects
<1> PICK c : c = tx[t]
  OBVIOUS
<1>1. /\ c \in Calls /\ CallInv(c) /\ Progress(c) /\ c.pc = "Commit"
      /\ c.op \in {"MoveFolder", "SoftDeleteFolder"}
      /\ files \in [FileIds -> FileRecords]
  BY SqliteCall DEF Commit, At, CallInv
<1>2. /\ IsLive(folders, c.folder) /\ Seen(c) = AfterAll(c)
      /\ c.gone = IF c.op = "MoveFolder" THEN {} ELSE FilesWithin(c)
  BY <1>1 DEF Progress, Unwritten
<1>3. folders' = AfterAll(c)
  BY <1>2, ViewSeen DEF Commit
<1>4. files' = [f \in FileIds |-> IF f \in c.gone THEN [files[f] EXCEPT !.state = "deleted"]
                                                  ELSE files[f]]
  BY DEF Commit
<1>5. OneStep(t)
  <2>1. CASE c.op = "MoveFolder"
    <3>1. files' = files
      BY <1>1, <1>2, <1>4, <2>1
    <3>2. folders' = Moved(folders, c.folder, c.parent, c.path)
      BY <1>3, <2>1 DEF AfterAll
    <3> QED BY <1>2, <2>1, <3>1, <3>2 DEF OneStep
  <2>2. CASE c.op = "SoftDeleteFolder"
    <3>1. folders' = Deleted(folders, c.folder)
      BY <1>3, <2>2 DEF AfterAll
    <3>2. \A f \in FileIds : f \in c.gone <=> files[f].state = "live"
                                              /\ files[f].folder \in Subtree(c.folder)
      BY <1>2, <2>2 DEF FilesWithin
    <3>3. files' = [f \in FileIds |->
            IF files[f].state = "live" /\ files[f].folder \in Subtree(c.folder)
            THEN [files[f] EXCEPT !.state = "deleted"] ELSE files[f]]
      BY <1>4, <3>2
    <3> QED BY <1>2, <2>2, <3>1, <3>3 DEF OneStep
  <2> QED BY <1>1, <2>1, <2>2
<1>6. PICK reply : Committed(t, Ends(c, reply))
  BY DEF Commit
<1>7. Ends(c, reply).pc = "done"
  BY EndsProgress
<1>8. NoAnswerYet' /\ \A u \in Txs \ {t} : Running(u) => tx'[u].reply # "ok"
  BY <1>6, <1>7, CommittedAnswers
<1>9. Running(t)
  BY <1>1 DEF Running
<1> QED BY <1>5, <1>8, <1>9 DEF Effects

LEMMA StepIsOneStep ==
  ASSUME IInv, SqliteInv, NoAnswerYet, Next
  PROVE  NoAnswerYet' /\ Effects
<1>1. PICK t \in Txs : MoveFolder(t) \/ SoftDeleteFolder(t) \/ CreateFolder(t)
                       \/ Serves(t) \/ Fault(t)
  BY DEF Next
<1>2. CASE Insert(t) \/ Commit(t)
  BY <1>2, InsertIsOneStep, CommitIsOneStep
<1>3. CASE ~ Insert(t) /\ ~ Commit(t)
  <2>1. PICK d : Private(t, d) /\ Quiet(t, d)
    BY <1>1, <1>3, QuietSteps
  <2>2. Step(t, d) /\ UNCHANGED <<folders, files>>
    BY <2>1 DEF Private, tables
  <2>3. NoAnswerYet' /\ \A u \in Txs : Running(u) => tx'[u].reply # "ok"
    BY <2>1, <2>2, QuietAnswers
  <2> QED BY <2>2, <2>3 DEF Effects
<1> QED BY <1>2, <1>3

\* Under SQLite the tables change by the whole effect of one call at a time, and
\* a call that succeeds has had it: MoveFolder, SoftDeleteFolder and CreateFolder
\* are the single steps that FolderService takes them for, whatever calls run
\* side by side.
THEOREM SqliteCallsAreOneStep == SQLite => (Spec => CallsAreOneStep)
<1> SUFFICES ASSUME SQLite PROVE Spec => CallsAreOneStep
  OBVIOUS
<1>1. Init => NoAnswerYet
  BY DEF Init, NoAnswerYet, Idle
<1>2. IInv /\ SqliteInv /\ NoAnswerYet /\ [Next]_vars => NoAnswerYet'
  <2>1. UNCHANGED vars /\ NoAnswerYet => NoAnswerYet'
    BY DEF vars, NoAnswerYet
  <2> QED BY <2>1, StepIsOneStep
<1>3. IInv /\ SqliteInv /\ NoAnswerYet /\ [Next]_vars =>
        [engine = "sqlite" \/ apart => Effects]_vars
  BY StepIsOneStep
<1>4. Spec => []NoAnswerYet
  BY <1>1, <1>2, Invariance, SqliteInvariance, PTL DEF Spec
<1>5. Spec => [][engine = "sqlite" \/ apart => Effects]_vars
  BY <1>3, <1>4, Invariance, SqliteInvariance, PTL DEF Spec
<1> QED BY <1>5 DEF CallsAreOneStep, Effects
=============================================================================
