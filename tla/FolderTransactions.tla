------------------------- MODULE FolderTransactions -------------------------
(***************************************************************************)
(* What FolderService takes as one step: the transactions of MoveFolder    *)
(* and SoftDeleteFolder, statement by statement and row by row, and the    *)
(* INSERT of CreateFolder, under both databases.                           *)
(*                                                                         *)
(* PostgreSQL runs them under READ COMMITTED.  A statement sees what was   *)
(* committed before it began and the writes of its own transaction; the    *)
(* rows it finds it then updates in some order: it waits for a transaction *)
(* that has written the row, looks at the condition again and writes the   *)
(* newest version.  A cycle of waits is broken by an error in one of them. *)
(* The foreign key locks a parent's row against deletion only, so it makes *)
(* nobody here wait.                                                       *)
(*                                                                         *)
(* SQLite (WAL, deferred transactions) has one writer.  A transaction that *)
(* has read and then writes fails at once if another one is writing, or    *)
(* has committed since.                                                    *)
(***************************************************************************)
EXTENDS Folders

CONSTANTS
  Txs,      \* the calls, each with a connection of its own
  MaxFile,  \* bound: ids of files
  Settings, \* databases and tables at the start, see below
  Faults    \* whether a connection may fail

FileIds     == 1 .. MaxFile
FileRecords == [state : {"absent", "live", "deleted"}, folder : FolderIds \cup {0}]

\* apart: only calls about unrelated folders meet; next: the next id that the
\* database gives to a folder.  PostgreSQL's sequence does not know of the row
\* of the root, which EnsureRootFolder inserts with its id.  The tables are such
\* that a live row's path ends with its parent, as the statements write it.
ASSUME TransactionsAssumption ==
  /\ MaxFile \in Nat /\ Faults \in BOOLEAN
  /\ \A s \in Settings :
       /\ s.engine \in {"sqlite", "postgres"} /\ s.apart \in BOOLEAN
       /\ s.folders \in Tables /\ s.files \in [FileIds -> FileRecords]
       /\ s.next \in FolderIds
       /\ \A f \in FolderIds : IsLive(s.folders, f) /\ s.folders[f].parent # 0 =>
            /\ s.folders[f].path # <<>>
            /\ Last(s.folders[f].path) = s.folders[f].parent

VARIABLES
  engine,  \* the database,
  apart,   \* and which calls meet
  folders, \* table folders, what is committed
  files,   \* table files, what is committed
  next,    \* the next folder id
  tx       \* the calls and their transactions

vars   == <<engine, apart, folders, files, next, tx>>
tables == <<folders, files, next>>

\* rows and gone are what a transaction has written and not committed: rows of
\* folders, and files it marks as deleted.  prefix is the one of its LIKEs,
\* todo the rows that its present statement has still to update, inside the
\* folders of the subquery; stale: SQLite's snapshot is not the newest.
Idle == [pc |-> "idle", op |-> "none", folder |-> 0, parent |-> 0, path |-> <<>>,
         prefix |-> <<>>, todo |-> {}, inside |-> {}, rows |-> <<>>, gone |-> {},
         stale |-> FALSE, reply |-> "none"]

Init ==
  /\ \E s \in Settings :
       /\ engine = s.engine /\ apart = s.apart
       /\ folders = s.folders /\ files = s.files /\ next = s.next
  /\ tx = [t \in Txs |-> Idle]
-----------------------------------------------------------------------------
(* What the databases do. *)

At(t, label) == tx[t].pc = label
Running(t)   == tx[t].pc \notin {"idle", "done"}

\* The newest versions that a statement of t may see or write.
View(t) == [f \in FolderIds |-> IF f \in DOMAIN tx[t].rows THEN tx[t].rows[f]
                                                           ELSE folders[f]]
LiveFiles(t) == {f \in FileIds : files[f].state = "live"} \ tx[t].gone

Writing(u)   == tx[u].rows # <<>> \/ tx[u].gone # {}
Write(c, f, row) ==
  [c EXCEPT !.rows = [g \in DOMAIN c.rows \cup {f} |-> IF g = f THEN row ELSE c.rows[g]]]

Holds(u, label, f) ==
  IF label = "UpdateFiles" THEN f \in tx[u].gone ELSE f \in DOMAIN tx[u].rows

\* The row is written by another transaction that has not ended.
Locked(t, label, f) == \E u \in Txs \ {t} : Holds(u, label, f)

\* What t has to lock next.
Wanted(t) ==
  CASE At(t, "UpdateFolder")                -> {tx[t].folder}
    [] tx[t].pc \in {"UpdateBelow", "UpdateFiles"} -> tx[t].todo
    [] OTHER                                -> {}

WaitsFor(t, u) == t # u /\ \E f \in Wanted(t) : Holds(u, tx[t].pc, f)

Deadlocked(t) ==
  \E S \in SUBSET Txs : t \in S /\ \A u \in S : \E v \in S : WaitsFor(u, v)

\* SQLite's single write lock, and the snapshot of a transaction that read.
MayWrite(t) ==
  engine = "sqlite" =>
    ~tx[t].stale /\ \A u \in Txs \ {t} : ~Writing(u)

Step(t, c)     == tx' = [tx EXCEPT ![t] = c] /\ UNCHANGED <<engine, apart>>
Private(t, c)  == Step(t, c) /\ UNCHANGED tables
Goto(c, label) == [c EXCEPT !.pc = label]

\* Mutant: no Rollback is deferred, the connection keeps its locks.
EndsHolding(c, reply) == [c EXCEPT !.pc = "done", !.reply = reply]

\* Ends the transaction, and forgets what it held.
Ends(c, reply) ==
  [Idle EXCEPT !.pc = "done", !.op = c.op, !.folder = c.folder,
               !.parent = c.parent, !.path = c.path, !.reply = reply]

\* After a commit, the snapshots of those who have only read are old.
Committed(t, c) ==
  /\ tx' = [u \in Txs |-> IF u = t THEN c
                          ELSE [tx[u] EXCEPT !.stale = At(u, "UpdateFolder") \/ @]]
  /\ UNCHANGED <<engine, apart>>

\* What a call may be answered when its change is committed: the answer of the
\* database may be lost, then the call fails and the change stays.
Outcomes == {"ok"} \cup (IF Faults THEN {"failed"} ELSE {})
-----------------------------------------------------------------------------
(* The calls. *)

Subtree(f) == {f} \cup Below(folders, f)

\* The folders that a call is about, and those its statements may change.
Named(c)   == {c.folder, c.parent} \ {0}
Changes(c) == IF c.op = "CreateFolder" THEN {} ELSE Subtree(c.folder)

Meets(c, d) == Named(c) \cap Changes(d) # {} \/ Named(d) \cap Changes(c) # {}

\* The handler has read the path of the parent, and calls.
Begin(t, c) ==
  /\ At(t, "idle")
  /\ apart => \A u \in Txs : Running(u) => ~Meets(c, tx[u])
  /\ Private(t, c)

Asks(op, pc, f, p) ==
  [Idle EXCEPT !.op = op, !.pc = pc, !.folder = f, !.parent = p,
               !.path = IF p = 0 THEN <<>> ELSE PathIn(folders, p)]

\* Not into its own subtree, which FolderService covers.
MoveFolder(t) == \E f, p \in FolderIds :
  /\ IsLive(folders, f) /\ IsLive(folders, p) /\ p \notin Subtree(f)
  /\ Begin(t, Asks("MoveFolder", "Select", f, p))

SoftDeleteFolder(t) == \E f \in FolderIds :
  IsLive(folders, f) /\ Begin(t, Asks("SoftDeleteFolder", "Select", f, 0))

CreateFolder(t) == \E p \in FolderIds :
  IsLive(folders, p) /\ Begin(t, Asks("CreateFolder", "Insert", 0, p))

\* One statement, no transaction around it: SQLite waits for the writer.
\* PostgreSQL's sequence may give an id that is taken.
Insert(t) ==
  LET c == tx[t]
  IN  /\ At(t, "Insert") /\ MayWrite(t) /\ next \in FolderIds
      /\ next' = next + 1
      /\ IF Exists(folders, next)
         THEN Step(t, Ends(c, "failed")) /\ UNCHANGED folders
         ELSE /\ folders' = Created(folders, next, c.parent, c.path, TRUE)
              /\ \E reply \in Outcomes :
                   Committed(t, Ends([c EXCEPT !.folder = next], reply))
      /\ UNCHANGED files

\* The first statement of both transactions: the path, for the prefix.
Select(t) ==
  LET c == tx[t]
  IN  /\ At(t, "Select")
      /\ Private(t, IF IsLive(folders, c.folder)
                    THEN [Goto(c, "UpdateFolder") EXCEPT
                            !.prefix = PathIn(folders, c.folder)]
                    ELSE Ends(c, "failed"))

\* Mutant: the path was read with another connection, before the transaction.
UpdateFolderUnread(t) ==
  LET c   == tx[t]
      row == View(t)[c.folder]
  IN  /\ At(t, "UpdateFolder") /\ ~Locked(t, "UpdateFolder", c.folder)
      /\ engine = "sqlite" => \A u \in Txs \ {t} : ~Writing(u)
      /\ Private(t, Write(Goto(c, "FindBelow"), c.folder,
           IF c.op = "MoveFolder"
           THEN [row EXCEPT !.parent = c.parent, !.path = c.path]
           ELSE [row EXCEPT !.state = "deleted"]))

\* The second: the folder's own row, by its id alone.
UpdateFolder(t) ==
  LET c   == tx[t]
      row == View(t)[c.folder]
  IN  /\ At(t, "UpdateFolder") /\ MayWrite(t)
      /\ ~Locked(t, "UpdateFolder", c.folder)
      /\ Private(t, Write(Goto(c, "FindBelow"), c.folder,
           IF c.op = "MoveFolder"
           THEN [row EXCEPT !.parent = c.parent, !.path = c.path]
           ELSE [row EXCEPT !.state = "deleted"]))

\* The condition of the third: path LIKE prefix and not deleted.
Matches(t, f) == IsLive(View(t), f) /\ IsPrefix(tx[t].prefix, View(t)[f].path)

FindBelow(t) ==
  /\ At(t, "FindBelow")
  /\ Private(t, [Goto(tx[t], "UpdateBelow") EXCEPT
                   !.todo = {f \in FolderIds : Matches(t, f)}])

\* Mutant: the text after the prefix is cut one id late.
RowBelowShort(c, row) ==
  IF c.op = "MoveFolder"
  THEN [row EXCEPT !.path = Append(c.path, c.folder)
                              \o SubSeq(@, Len(c.prefix) + 2, Len(@))]
  ELSE [row EXCEPT !.state = "deleted"]

RowBelow(c, row) ==
  IF c.op = "MoveFolder"
  THEN [row EXCEPT !.path = Append(c.path, c.folder)
                              \o SubSeq(@, Len(c.prefix) + 1, Len(@))]
  ELSE [row EXCEPT !.state = "deleted"]

\* The third, one row at a time.
UpdateBelow(t) ==
  LET c == tx[t]
  IN  /\ At(t, "UpdateBelow")
      /\ \E f \in c.todo :
           /\ ~Locked(t, "UpdateBelow", f)
           /\ LET d == [c EXCEPT !.todo = @ \ {f}]
              IN  Private(t, IF Matches(t, f)
                             THEN Write(d, f, RowBelow(c, View(t)[f])) ELSE d)

EndBelow(t) ==
  /\ At(t, "UpdateBelow") /\ tx[t].todo = {}
  /\ Private(t, Goto(tx[t], IF tx[t].op = "MoveFolder" THEN "Commit" ELSE "FindFiles"))

\* The fourth, of a deletion: the subquery finds deleted folders as well.
FindFiles(t) ==
  LET in == {tx[t].folder} \cup
            {f \in FolderIds : Exists(View(t), f) /\ IsPrefix(tx[t].prefix, View(t)[f].path)}
  IN  /\ At(t, "FindFiles")
      /\ Private(t, [Goto(tx[t], "UpdateFiles") EXCEPT !.inside = in,
                       !.todo = {f \in LiveFiles(t) : files[f].folder \in in}])

UpdateFiles(t) ==
  LET c == tx[t]
  IN  /\ At(t, "UpdateFiles")
      /\ \E f \in c.todo :
           /\ ~Locked(t, "UpdateFiles", f)
           /\ LET d == [c EXCEPT !.todo = @ \ {f}]
              IN  Private(t, IF f \in LiveFiles(t) /\ files[f].folder \in c.inside
                             THEN [d EXCEPT !.gone = @ \cup {f}] ELSE d)

EndFiles(t) ==
  /\ At(t, "UpdateFiles") /\ tx[t].todo = {}
  /\ Private(t, Goto(tx[t], "Commit"))

Commit(t) ==
  /\ At(t, "Commit")
  /\ folders' = View(t)
  /\ files' = [f \in FileIds |-> IF f \in tx[t].gone
                                 THEN [files[f] EXCEPT !.state = "deleted"]
                                 ELSE files[f]]
  /\ \E reply \in Outcomes : Committed(t, Ends(tx[t], reply))
  /\ UNCHANGED next

\* tx.Rollback, after an error that the locks make.
Conflict(t) ==
  /\ \/ engine = "postgres" /\ Running(t) /\ Deadlocked(t)
     \/ engine = "sqlite" /\ At(t, "UpdateFolder") /\ ~MayWrite(t)
  /\ Private(t, Ends(tx[t], "failed"))

\* After any other error: a failed connection, SQLite's waiting time.
Fault(t) ==
  /\ Faults /\ Running(t)
  /\ Private(t, Ends(tx[t], "failed"))

Serves(t) ==
  \/ Insert(t) \/ Select(t) \/ UpdateFolder(t) \/ FindBelow(t) \/ UpdateBelow(t)
  \/ EndBelow(t) \/ FindFiles(t) \/ UpdateFiles(t) \/ EndFiles(t) \/ Commit(t)
  \/ Conflict(t)

Next ==
  \E t \in Txs :
    MoveFolder(t) \/ SoftDeleteFolder(t) \/ CreateFolder(t) \/ Serves(t) \/ Fault(t)

Spec == Init /\ [][Next]_vars

\* The databases go on with every statement that has not to wait.
FairSpec == Spec /\ \A t \in Txs : WF_vars(Serves(t))
-----------------------------------------------------------------------------
\* What the call of t does when it is one step.
OneStep(t) ==
  LET c == tx[t]
  IN  \/ /\ c.op = "MoveFolder" /\ IsLive(folders, c.folder)
         /\ folders' = Moved(folders, c.folder, c.parent, c.path)
         /\ files' = files
      \/ /\ c.op = "SoftDeleteFolder" /\ IsLive(folders, c.folder)
         /\ folders' = Deleted(folders, c.folder)
         /\ files' = [f \in FileIds |->
              IF files[f].state = "live" /\ files[f].folder \in Subtree(c.folder)
              THEN [files[f] EXCEPT !.state = "deleted"] ELSE files[f]]
      \/ /\ c.op = "CreateFolder"
         /\ \E f \in FolderIds :
              /\ ~Exists(folders, f)
              /\ folders' = Created(folders, f, c.parent, c.path, TRUE)
         /\ files' = files

\* Under SQLite, and under PostgreSQL while only calls about unrelated folders
\* meet, the tables change by the whole effect of one call at a time, that of a
\* call on a live folder, and a call that succeeds has had it: the steps that
\* FolderService is made of.
CallsAreOneStep ==
  [][engine = "sqlite" \/ apart =>
       /\ <<folders, files>>' # <<folders, files>> => \E t \in Txs : Running(t) /\ OneStep(t)
       /\ \A t \in Txs : Running(t) /\ tx'[t].reply = "ok" => OneStep(t)]_vars

\* Under either database and for any calls: a folder that is left live under a
\* deleted parent is out of reach, whatever the statements interleave to.
OrphansAreLocked ==
  \A f \in FolderIds :
    IsLive(folders, f) /\ folders[f].parent # 0
      /\ ~IsLive(folders, folders[f].parent) => ~Resolves(folders, f)

\* No call waits for ever: not for a lock, and not two for each other.
CallsEnd == \A t \in Txs : Running(t) ~> At(t, "done")

\* A move takes along what is below: at rest, the path of a live folder that no
\* call was about is its parent's path followed by the parent, wherever its
\* ancestors were moved to.
MovesTakeAlong ==
  (\A t \in Txs : ~Running(t)) =>
    \A f \in FolderIds \ {tx[t].folder : t \in Txs} :
      IsLive(folders, f) /\ folders[f].parent # 0 =>
        folders[f].path = PathIn(folders, folders[f].parent)
=============================================================================
