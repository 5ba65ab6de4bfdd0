------------------------ MODULE FolderServiceProofs ------------------------
(***************************************************************************)
(* Proofs about FolderService, for any number of requests, folders and     *)
(* files and any tables to start from.  Whatever calls meet or fail and    *)
(* wherever folders are moved: its type invariant, that a path ends with   *)
(* the parent of its folder, and that a live folder under a deleted parent *)
(* is out of reach.  While handlers do not overlap and no folder moves     *)
(* below itself: that paths are the tree's, that nothing live is left      *)
(* below a deleted folder, and that a creator keeps access.                *)
(***************************************************************************)
EXTENDS FolderService, FoldersProofs

\* What a handler has read: its arguments name folders, and the path it is
\* about to write ends with the folder it is to be in.
HandlerInv(h) ==
  /\ h.pc \notin {"idle", "done"} =>
       /\ h.op \in DOMAIN Required
       /\ h.op # "DeleteFolder" => h.parent \in FolderIds
       /\ h.op \in {"MoveFolder", "DeleteFolder"} => h.folder \in FolderIds
  /\ h.pc \in {"TargetPermission", "MoveFolder"} => h.op = "MoveFolder"
  /\ h.pc = "SoftDeleteFolder" => h.op = "DeleteFolder"
  /\ h.pc \in {"GetFolder", "InsertFolder", "GetEffective", "SetUserPermission",
               "CreateFile"} => h.op # "DeleteFolder"
  /\ h.pc \in {"InsertFolder", "MoveFolder", "CreateFile"} =>
       h.path # <<>> /\ Last(h.path) = h.parent
  /\ h.pc \in {"GetEffective", "SetUserPermission"} => h.folder \in FolderIds

IInv ==
  /\ TypeOK
  /\ EndsWithParent(folders)
  /\ \A r \in Requests : HandlerInv(req[r])

-----------------------------------------------------------------------------
(* Lemmas about the handlers' records and about steps in general.          *)

LEMMA RpcNames ==
  DOMAIN Required = {"CreateFolder", "MoveFolder", "DeleteFolder", "UploadFile"}
BY DEF Required

LEMMA Replied ==
  ASSUME NEW h \in Handlers,
         NEW c \in {"none", "ok", "PermissionDenied", "NotFound", "Internal"}
  PROVE  Reply(h, c) \in Handlers /\ HandlerInv(Reply(h, c))
<1>1. Reply(h, c) \in Handlers
  BY DEF Handlers, Reply, Labels
<1>2. Reply(h, c).pc = "done"
  BY DEF Handlers, Reply
<1> QED BY <1>1, <1>2 DEF HandlerInv

\* A handler that goes on with what it has.
LEMMA GoneOn ==
  ASSUME NEW h \in Handlers, NEW l \in Labels
  PROVE  /\ Goto(h, l) \in Handlers /\ Goto(h, l).pc = l
         /\ Goto(h, l).op = h.op /\ Goto(h, l).folder = h.folder
         /\ Goto(h, l).parent = h.parent /\ Goto(h, l).path = h.path
BY DEF Handlers, Goto

\* A step of handler r keeps the invariant if the tables keep theirs and the
\* handler is left with a record that has its own.
LEMMA StepInv ==
  ASSUME IInv, NEW r \in Requests, NEW h \in Handlers, Becomes(r, h), HandlerInv(h),
         folders' \in Tables, EndsWithParent(folders'),
         perms' \in Bitmasks, files' \in [FileIds -> FileRecords]
  PROVE  IInv'
<1>1. /\ req' \in [Requests -> Handlers]
      /\ \A q \in Requests : req'[q] = IF q = r THEN h ELSE req[q]
  BY DEF Becomes, IInv, TypeOK
<1>2. \A q \in Requests : HandlerInv(req'[q])
  BY <1>1 DEF IInv
<1>3. TypeOK'
  BY <1>1 DEF TypeOK, FileRecords, FileIds, Tables, Bitmasks, Handlers
<1> QED BY <1>2, <1>3 DEF IInv, EndsWithParent

\* A call that only reads can break nothing but its handler's own invariant.
LEMMA ReadInv ==
  ASSUME IInv, NEW r \in Requests, NEW h \in Handlers, Becomes(r, h), HandlerInv(h),
         UNCHANGED tables
  PROVE  IInv'
<1>1. folders' = folders /\ perms' = perms /\ files' = files
  BY DEF tables
<1>2. /\ folders' \in Tables /\ EndsWithParent(folders')
      /\ perms' \in Bitmasks /\ files' \in [FileIds -> FileRecords]
  BY <1>1 DEF IInv, TypeOK
<1> QED BY <1>2, StepInv

LEMMA BeginInv ==
  ASSUME IInv, NEW r \in Requests,
         CreateFolder(r) \/ MoveFolder(r) \/ DeleteFolder(r) \/ UploadFile(r)
  PROVE  IInv'
<1> DEFINE Asks(f, p, inherit) ==
             {[Idle EXCEPT !.op = "CreateFolder", !.parent = p, !.inherit = inherit],
              [Idle EXCEPT !.op = "MoveFolder", !.folder = f, !.parent = p],
              [Idle EXCEPT !.op = "DeleteFolder", !.folder = f],
              [Idle EXCEPT !.op = "UploadFile", !.parent = p]}
<1>1. \E f \in FolderIds, p \in FolderIds, inherit \in BOOLEAN :
        \E h \in Asks(f, p, inherit) : Becomes(r, Goto(h, "Permission")) /\ UNCHANGED tables
  BY DEF CreateFolder, MoveFolder, DeleteFolder, UploadFile, Begin, Known, Exists
<1>2. ASSUME NEW f \in FolderIds, NEW p \in FolderIds, NEW inherit \in BOOLEAN,
             NEW h \in Asks(f, p, inherit)
      PROVE  Goto(h, "Permission") \in Handlers /\ HandlerInv(Goto(h, "Permission"))
  <2>1. Idle \in Handlers
    BY EmptySeq DEF Idle, Handlers, Labels
  <2>2. h \in Handlers
    <3>1. CASE h = [Idle EXCEPT !.op = "CreateFolder", !.parent = p, !.inherit = inherit]
      BY <2>1, <3>1, RpcNames DEF Handlers
    <3>2. CASE h = [Idle EXCEPT !.op = "MoveFolder", !.folder = f, !.parent = p]
      BY <2>1, <3>2, RpcNames DEF Handlers
    <3>3. CASE h = [Idle EXCEPT !.op = "DeleteFolder", !.folder = f]
      BY <2>1, <3>3, RpcNames DEF Handlers
    <3>4. CASE h = [Idle EXCEPT !.op = "UploadFile", !.parent = p]
      BY <2>1, <3>4, RpcNames DEF Handlers
    <3> QED BY <3>1, <3>2, <3>3, <3>4
  <2>3. /\ h.op \in DOMAIN Required
        /\ h.op # "DeleteFolder" => h.parent \in FolderIds
        /\ h.op \in {"MoveFolder", "DeleteFolder"} => h.folder \in FolderIds
    BY <2>1, RpcNames, ZenonT(60) DEF Handlers
  <2>4. "Permission" \in Labels
    BY DEF Labels
  <2> HIDE DEF Asks
  <2> QED BY <2>2, <2>3, <2>4, GoneOn DEF HandlerInv
<1> HIDE DEF Asks
<1> QED BY <1>1, <1>2, ReadInv

\* A handler goes on to a label at which it has nothing more to know.
LEMMA PermissionInv ==
  ASSUME IInv, NEW r \in Requests, Permission(r) \/ TargetPermission(r) PROVE IInv'
<1> DEFINE h == req[r]
           next == CASE h.op = "MoveFolder"   -> "TargetPermission"
                     [] h.op = "DeleteFolder" -> "SoftDeleteFolder"
                     [] OTHER                 -> "GetFolder"
<1>1. h \in Handlers /\ HandlerInv(h)
  BY DEF IInv, TypeOK
<1>2. CASE Permission(r)
  <2>1. /\ h.pc = "Permission" /\ UNCHANGED tables
        /\ \/ \E c \in {"Internal", "PermissionDenied"} : Becomes(r, Reply(h, c))
           \/ Becomes(r, Goto(h, next))
    BY <1>2 DEF Permission, Checks, Reads, At
  <2>2. Goto(h, next) \in Handlers /\ HandlerInv(Goto(h, next))
    BY <1>1, <2>1, RpcNames DEF Goto, Handlers, HandlerInv, Labels
  <2> HIDE DEF next
  <2> QED BY <1>1, <2>1, <2>2, Replied, ReadInv
<1>3. CASE TargetPermission(r)
  <2>1. /\ h.pc = "TargetPermission" /\ UNCHANGED tables
        /\ \/ \E c \in {"Internal", "PermissionDenied"} : Becomes(r, Reply(h, c))
           \/ Becomes(r, Goto(h, "GetFolder"))
    BY <1>3 DEF TargetPermission, Checks, Reads, At
  <2>2. Goto(h, "GetFolder") \in Handlers /\ HandlerInv(Goto(h, "GetFolder"))
    BY <1>1, <2>1, RpcNames DEF Goto, Handlers, HandlerInv, Labels
  <2> QED BY <1>1, <2>1, <2>2, Replied, ReadInv
<1> QED BY <1>2, <1>3

\* The path that a handler is going to write ends with the folder it names.
LEMMA GetFolderInv ==
  ASSUME IInv, NEW r \in Requests, GetFolder(r) PROVE IInv'
<1> DEFINE h    == req[r]
           next == CASE h.op = "CreateFolder" -> "InsertFolder"
                     [] h.op = "MoveFolder"   -> "MoveFolder"
                     [] h.op = "UploadFile"   -> "CreateFile"
           g    == [Goto(h, next) EXCEPT !.path = NewPath(folders, h.parent)]
<1>1. h \in Handlers /\ HandlerInv(h) /\ h.pc = "GetFolder" /\ folders \in Tables
  BY DEF IInv, TypeOK, GetFolder, Reads, At
<1>2. UNCHANGED tables
      /\ ((\E c \in {"Internal", "NotFound"} : Becomes(r, Reply(h, c))) \/ Becomes(r, g))
  BY DEF GetFolder, Reads
<1>3. h.parent \in FolderIds /\ h.op \in {"CreateFolder", "MoveFolder", "UploadFile"}
  BY <1>1, RpcNames DEF HandlerInv
<1>4. /\ NewPath(folders, h.parent) \in Seq(FolderIds)
      /\ NewPath(folders, h.parent) # <<>>
      /\ Last(NewPath(folders, h.parent)) = h.parent
  BY <1>1, <1>3, RowType, PathInType DEF NewPath, PathIn
<1>5. next \in {"InsertFolder", "MoveFolder", "CreateFile"} /\ next \in Labels
      /\ (next = "MoveFolder" => h.op = "MoveFolder")
  BY <1>3 DEF Labels
<1>6. /\ g \in Handlers /\ g.pc = next /\ g.op = h.op /\ g.folder = h.folder
      /\ g.parent = h.parent /\ g.path = NewPath(folders, h.parent)
  BY <1>1, <1>4, <1>5 DEF Goto, Handlers
<1> HIDE DEF next, g
<1>7. HandlerInv(g)
  BY <1>1, <1>3, <1>4, <1>5, <1>6 DEF HandlerInv
<1> HIDE DEF h
<1> QED BY <1>1, <1>2, <1>6, <1>7, Replied, ReadInv

LEMMA InsertFolderInv ==
  ASSUME IInv, NEW r \in Requests, InsertFolder(r) PROVE IInv'
<1> DEFINE h == req[r]
<1>1. /\ h \in Handlers /\ HandlerInv(h) /\ h.pc = "InsertFolder"
      /\ folders \in Tables /\ EndsWithParent(folders)
      /\ perms \in Bitmasks /\ files \in [FileIds -> FileRecords]
  BY DEF IInv, TypeOK, InsertFolder, At
<1>2. PICK f \in FolderIds :
        /\ folders' = Created(folders, f, h.parent, h.path, h.inherit)
        /\ Becomes(r, IF h.inherit THEN [Reply(h, "ok") EXCEPT !.folder = f]
                      ELSE [Goto(h, "GetEffective") EXCEPT !.folder = f])
        /\ UNCHANGED <<perms, files>>
  BY DEF InsertFolder
<1>3. /\ h.parent \in FolderIds /\ h.path \in Seq(FolderIds) /\ h.inherit \in BOOLEAN
      /\ h.path # <<>> /\ Last(h.path) = h.parent
      /\ h.op # "DeleteFolder" /\ h.op \in DOMAIN Required
  BY <1>1 DEF HandlerInv, Handlers
<1>4. folders' \in Tables /\ EndsWithParent(folders')
  BY <1>1, <1>2, <1>3, CreatedTable, CreatedEnds
<1>5. ASSUME NEW g \in {[Reply(h, "ok") EXCEPT !.folder = f],
                        [Goto(h, "GetEffective") EXCEPT !.folder = f]}
      PROVE  g \in Handlers /\ HandlerInv(g)
  <2>1. CASE g = [Reply(h, "ok") EXCEPT !.folder = f]
    <3>1. g \in Handlers /\ g.pc = "done"
      BY <1>1, <2>1 DEF Reply, Handlers, Labels
    <3> QED BY <3>1 DEF HandlerInv
  <2>2. CASE g = [Goto(h, "GetEffective") EXCEPT !.folder = f]
    <3>1. /\ g \in Handlers /\ g.pc = "GetEffective" /\ g.op = h.op
          /\ g.parent = h.parent /\ g.folder = f
      BY <1>1, <2>2 DEF Goto, Handlers, Labels
    <3> QED BY <1>3, <3>1 DEF HandlerInv
  <2> QED BY <2>1, <2>2
<1> HIDE DEF h
<1> QED BY <1>1, <1>2, <1>4, <1>5, StepInv

LEMMA GetEffectiveInv ==
  ASSUME IInv, NEW r \in Requests, GetEffective(r) PROVE IInv'
<1> DEFINE h == req[r]
           bits == Effective(folders, perms, h.parent)
           g == [Goto(h, "SetUserPermission") EXCEPT !.bits = bits]
<1>1. /\ h \in Handlers /\ HandlerInv(h) /\ h.pc = "GetEffective"
      /\ folders \in Tables /\ perms \in Bitmasks
  BY DEF IInv, TypeOK, GetEffective, Reads, At
<1>2. UNCHANGED tables /\ (Becomes(r, Reply(h, "Internal")) \/ Becomes(r, g))
  BY DEF GetEffective, Reads
<1>3. bits \in SUBSET Bits
  BY <1>1, EffectiveType DEF HandlerInv
<1> HIDE DEF bits
<1>4. /\ g \in Handlers /\ g.pc = "SetUserPermission" /\ g.op = h.op
      /\ g.parent = h.parent /\ g.folder = h.folder
  BY <1>1, <1>3 DEF Goto, Handlers, Labels
<1> HIDE DEF g
<1>5. HandlerInv(g)
  BY <1>1, <1>4 DEF HandlerInv
<1> HIDE DEF h
<1> QED BY <1>1, <1>2, <1>4, <1>5, Replied, ReadInv

LEMMA SetUserPermissionInv ==
  ASSUME IInv, NEW r \in Requests, SetUserPermission(r) PROVE IInv'
<1>1. /\ req[r] \in Handlers /\ HandlerInv(req[r]) /\ req[r].pc = "SetUserPermission"
      /\ perms' = [perms EXCEPT ![req[r].folder] = req[r].bits]
      /\ Becomes(r, Reply(req[r], "ok")) /\ UNCHANGED <<folders, files>>
  BY DEF IInv, TypeOK, SetUserPermission, At, GrantedTo
<1>2. req[r].folder \in FolderIds /\ req[r].bits \in SUBSET Bits
  BY <1>1 DEF HandlerInv, Handlers
<1>3. perms' \in Bitmasks
  BY <1>1, <1>2 DEF Bitmasks, IInv, TypeOK
<1>4. folders' \in Tables /\ EndsWithParent(folders') /\ files' \in [FileIds -> FileRecords]
  BY <1>1 DEF IInv, TypeOK
<1> QED BY <1>1, <1>3, <1>4, Replied, StepInv

LEMMA MoveRowsInv ==
  ASSUME IInv, NEW r \in Requests, MoveRows(r) PROVE IInv'
<1> DEFINE h == req[r]
<1>1. /\ h \in Handlers /\ HandlerInv(h) /\ h.pc = "MoveFolder"
      /\ folders \in Tables /\ EndsWithParent(folders)
      /\ perms' \in Bitmasks /\ files' \in [FileIds -> FileRecords]
  BY DEF IInv, TypeOK, MoveRows, At
<1>2. /\ h.parent \in FolderIds /\ h.folder \in FolderIds /\ h.path \in Seq(FolderIds)
      /\ h.path # <<>> /\ Last(h.path) = h.parent
  BY <1>1 DEF HandlerInv, Handlers
<1>3. \/ /\ folders' = Moved(folders, h.folder, h.parent, h.path)
         /\ Becomes(r, Reply(h, "ok"))
      \/ folders' = folders /\ Becomes(r, Reply(h, "Internal"))
  BY DEF MoveRows
<1>4. folders' \in Tables /\ EndsWithParent(folders')
  <2>1. Moved(folders, h.folder, h.parent, h.path) \in Tables
    BY <1>1, <1>2, MovedType
  <2>2. EndsWithParent(Moved(folders, h.folder, h.parent, h.path))
    BY <1>1, <1>2, MovedEnds
  <2> QED BY <1>1, <1>3, <2>1, <2>2
<1> HIDE DEF h
<1> QED BY <1>1, <1>3, <1>4, Replied, StepInv

LEMMA SoftDeleteFolderInv ==
  ASSUME IInv, NEW r \in Requests, SoftDeleteFolder(r) PROVE IInv'
<1> DEFINE h == req[r]
<1>1. /\ h \in Handlers /\ HandlerInv(h) /\ h.pc = "SoftDeleteFolder"
      /\ folders \in Tables /\ EndsWithParent(folders)
      /\ perms' \in Bitmasks /\ files \in [FileIds -> FileRecords]
  BY DEF IInv, TypeOK, SoftDeleteFolder, At
<1>2. h.folder \in FolderIds
  BY <1>1, RpcNames DEF HandlerInv
<1>3. \/ /\ folders' = Deleted(folders, h.folder)
         /\ files' = FilesDeleted(h.folder)
         /\ Becomes(r, Reply(h, "ok"))
      \/ /\ folders' = folders /\ files' = files /\ Becomes(r, Reply(h, "Internal"))
  BY DEF SoftDeleteFolder
<1>4. folders' \in Tables /\ EndsWithParent(folders')
  <2>1. /\ Deleted(folders, h.folder) \in Tables
        /\ EndsWithParent(Deleted(folders, h.folder))
    BY <1>1, <1>2, DeletedTable, DeletedEnds
  <2> QED BY <1>1, <1>3, <2>1
<1>5. files' \in [FileIds -> FileRecords]
  <2>1. ASSUME NEW row \in FileRecords
        PROVE  [row EXCEPT !.state = "deleted"] \in FileRecords
    BY DEF FileRecords
  <2>2. FilesDeleted(h.folder) \in [FileIds -> FileRecords]
    BY <1>1, <2>1 DEF FilesDeleted
  <2> QED BY <1>1, <1>3, <2>2
<1> HIDE DEF h
<1> QED BY <1>1, <1>3, <1>4, <1>5, Replied, StepInv

LEMMA CreateFileInv ==
  ASSUME IInv, NEW r \in Requests, CreateFile(r) PROVE IInv'
<1> DEFINE h == req[r]
<1>1. /\ h \in Handlers /\ files \in [FileIds -> FileRecords]
      /\ perms' \in Bitmasks /\ folders' \in Tables /\ EndsWithParent(folders')
      /\ Becomes(r, Reply(h, "ok"))
  BY DEF IInv, TypeOK, CreateFile
<1>2. \E f \in FileIds :
        files' = [files EXCEPT ![f] = [state |-> "live", folder |-> h.parent, path |-> h.path]]
  BY DEF CreateFile
<1>3. files' \in [FileIds -> FileRecords]
  <2>1. [state |-> "live", folder |-> h.parent, path |-> h.path] \in FileRecords
    BY <1>1 DEF FileRecords, Handlers
  <2> QED BY <1>1, <1>2, <2>1
<1> HIDE DEF h
<1> QED BY <1>1, <1>3, Replied, StepInv

LEMMA FaultInv ==
  ASSUME IInv, NEW r \in Requests, Fault(r) PROVE IInv'
<1>1. req[r] \in Handlers /\ Becomes(r, Reply(req[r], "Internal")) /\ UNCHANGED tables
  BY DEF IInv, TypeOK, Fault
<1> QED BY <1>1, Replied, ReadInv

LEMMA Initially == Init => IInv
<1> SUFFICES ASSUME Init PROVE IInv
  OBVIOUS
<1>1. Seeds \in Tables /\ perms \in Bitmasks
  BY ServiceAssumption DEF Init
<1>2. EndsWithParent(folders)
  BY ServiceAssumption DEF Init, EndsWithParent, RowEnds, IsLive
<1>3. Idle \in Handlers /\ HandlerInv(Idle)
  BY EmptySeq DEF Idle, Handlers, Labels, HandlerInv
<1>4. files \in [FileIds -> FileRecords]
  BY EmptySeq DEF Init, FileRecords
<1> QED BY <1>1, <1>2, <1>3, <1>4 DEF Init, IInv, TypeOK

LEMMA NextInv == IInv /\ [Next]_vars => IInv'
<1> SUFFICES ASSUME IInv, [Next]_vars PROVE IInv'
  OBVIOUS
<1>1. CASE UNCHANGED vars
  BY <1>1 DEF vars, IInv, TypeOK, EndsWithParent
<1>2. ASSUME NEW r \in Requests,
             CreateFolder(r) \/ MoveFolder(r) \/ DeleteFolder(r) \/ UploadFile(r)
      PROVE  IInv'
  BY <1>2, BeginInv
<1> QED BY <1>1, <1>2, PermissionInv, GetFolderInv, InsertFolderInv, GetEffectiveInv,
       SetUserPermissionInv, MoveRowsInv, SoftDeleteFolderInv, CreateFileInv,
       FaultInv DEF Next

LEMMA Invariance == Spec => []IInv
BY Initially, NextInv, PTL DEF Spec
-----------------------------------------------------------------------------
(* The theorems.                                                           *)

\* Every reachable state has the types the module declares; the bits that a
\* handler reads are the user's, for folders of any depth.
THEOREM TypeCorrect == Spec => []TypeOK
<1>1. IInv => TypeOK
  BY DEF IInv
<1> QED BY <1>1, Invariance, PTL

\* The path of a live folder ends with its parent, however calls interleave.
THEOREM PathsEndWithParents == Spec => []ParentIsLast
<1>1. IInv => ParentIsLast
  BY DEF IInv, EndsWithParent, RowEnds, ParentIsLast
<1> QED BY <1>1, Invariance, PTL

\* A folder that stays live under a deleted parent is out of reach.
THEOREM OrphansOutOfReach == Spec => []OrphansAreLocked
<1>1. IInv => OrphansAreLocked
  BY OrphanUnresolved DEF IInv, TypeOK, OrphansAreLocked
<1> QED BY <1>1, Invariance, PTL

-----------------------------------------------------------------------------
(* Handlers one at a time.  From tables that are a tree, and without moves  *)
(* into a folder's own subtree, every call keeps the tree: what the races    *)
(* break is broken by the races alone.  Calls may still fail.                *)

OneAtATime == MaxInFlight = 1 /\ ~SubtreeMoves /\ Tree(Seeds)

\* What a handler has read is still true, for nobody else writes.
FreshInv(h) ==
  /\ h.pc \in {"InsertFolder", "MoveFolder", "CreateFile"} =>
       IsLive(folders, h.parent) /\ h.path = PathIn(folders, h.parent)
  /\ h.op = "MoveFolder" /\ h.pc \notin {"idle", "done"} =>
       h.parent # h.folder /\ h.parent \notin Below(folders, h.folder)
  /\ h.pc \in {"InsertFolder", "GetEffective", "SetUserPermission"} =>
       h.op = "CreateFolder"

SerialInv ==
  /\ IInv
  /\ Tree(folders)
  /\ \A g \in FileIds : files[g].state = "live" => IsLive(folders, files[g].folder)
  /\ \A q, r \in InFlight : q = r
  /\ \A r \in Requests : FreshInv(req[r])

LEMMA RepliedFresh ==
  ASSUME NEW h \in Handlers, NEW c \in {"none", "ok", "PermissionDenied", "NotFound", "Internal"}
  PROVE  Reply(h, c) \in Handlers /\ Reply(h, c).pc = "done" /\ FreshInv(Reply(h, c))
<1>1. Reply(h, c) \in Handlers /\ Reply(h, c).pc = "done"
  BY DEF Handlers, Reply, Labels
<1> QED BY <1>1 DEF FreshInv

\* A handler begins only when no other runs.
LEMMA NobodyElse ==
  ASSUME OneAtATime, NEW r \in Requests, NEW h, Begin(r, h),
         \A p, q \in InFlight : p = q
  PROVE  InFlight = {}
<1>1. Cardinality(InFlight) < 1
  BY DEF Begin, OneAtATime
<1>2. SUFFICES ASSUME NEW q \in InFlight PROVE FALSE
  OBVIOUS
<1>3. InFlight = {q}
  BY <1>2
<1>4. Cardinality({q}) = 1
  BY FS_Singleton
<1> QED BY <1>1, <1>3, <1>4

\* A step of handler r that leaves the tables alone.
LEMMA SerialRead ==
  ASSUME SerialInv, IInv', NEW r \in Requests, NEW h \in Handlers, Becomes(r, h),
         UNCHANGED tables, FreshInv(h), InFlight \subseteq {r}
  PROVE  SerialInv'
<1>1. \A q \in Requests : req'[q] = IF q = r THEN h ELSE req[q]
  BY DEF Becomes, SerialInv, IInv, TypeOK
<1>2. folders' = folders /\ files' = files
  BY DEF tables
<1>3. \A q \in Requests : FreshInv(req[q])'
  BY <1>1, <1>2 DEF SerialInv, FreshInv, Below, PathIn
<1>4. InFlight' \subseteq {r}
  BY <1>1 DEF InFlight
<1> QED BY <1>2, <1>3, <1>4 DEF SerialInv, Tree, InTree, PathIn

\* A step of handler r that writes: the others know nothing that it changes.
LEMMA SerialWrite ==
  ASSUME SerialInv, IInv', NEW r \in Requests, NEW h \in Handlers, Becomes(r, h),
         r \in InFlight, h.pc = "done" \/ (h.pc = "GetEffective" /\ h.op = "CreateFolder"),
         Tree(folders)',
         \A g \in FileIds : files'[g].state = "live" => IsLive(folders', files'[g].folder)
  PROVE  SerialInv'
<1>1. \A q \in Requests : req'[q] = IF q = r THEN h ELSE req[q]
  BY DEF Becomes, SerialInv, IInv, TypeOK
<1>2. ASSUME NEW q \in Requests PROVE FreshInv(req[q])'
  <2>1. CASE q = r
    BY <1>1, <2>1 DEF FreshInv
  <2>2. CASE q # r
    BY <1>1, <2>2 DEF FreshInv, SerialInv, InFlight
  <2> QED BY <2>1, <2>2
<1>3. \A p, q \in InFlight' : p = q
  BY <1>1 DEF SerialInv, InFlight
<1> QED BY <1>2, <1>3 DEF SerialInv

LEMMA SerialBegin ==
  ASSUME OneAtATime, SerialInv, IInv', NEW r \in Requests,
         CreateFolder(r) \/ MoveFolder(r) \/ DeleteFolder(r) \/ UploadFile(r)
  PROVE  SerialInv'
<1>1. \E h \in Handlers :
        /\ Begin(r, h)
        /\ h.op = "MoveFolder" =>
             h.parent # h.folder /\ h.parent \notin Below(folders, h.folder)
  <2>1. Idle \in Handlers
    BY EmptySeq DEF Idle, Handlers, Labels
  <2>2. CASE CreateFolder(r)
    <3>1. PICK p \in Known, inherit \in BOOLEAN :
            Begin(r, [Idle EXCEPT !.op = "CreateFolder", !.parent = p, !.inherit = inherit])
      BY <2>2 DEF CreateFolder
    <3>2. [Idle EXCEPT !.op = "CreateFolder", !.parent = p, !.inherit = inherit] \in Handlers
      BY <2>1, RpcNames DEF Handlers, Known
    <3>3. [Idle EXCEPT !.op = "CreateFolder", !.parent = p, !.inherit = inherit].op # "MoveFolder"
      BY <2>1 DEF Handlers
    <3> QED BY <3>1, <3>2, <3>3
  <2>3. CASE MoveFolder(r)
    <3>1. PICK f \in Known, p \in Known :
            /\ p # f /\ p \notin Below(folders, f)
            /\ Begin(r, [Idle EXCEPT !.op = "MoveFolder", !.folder = f, !.parent = p])
      BY <2>3 DEF MoveFolder, OneAtATime
    <3> DEFINE h == [Idle EXCEPT !.op = "MoveFolder", !.folder = f, !.parent = p]
    <3>2. h \in Handlers
      BY <2>1, RpcNames DEF Handlers, Known
    <3>3. h.parent = p /\ h.folder = f
      BY <2>1 DEF Handlers
    <3> QED BY <3>1, <3>2, <3>3
  <2>4. CASE DeleteFolder(r)
    <3>1. PICK f \in Known : Begin(r, [Idle EXCEPT !.op = "DeleteFolder", !.folder = f])
      BY <2>4 DEF DeleteFolder
    <3>2. [Idle EXCEPT !.op = "DeleteFolder", !.folder = f] \in Handlers
      BY <2>1, RpcNames DEF Handlers, Known
    <3>3. [Idle EXCEPT !.op = "DeleteFolder", !.folder = f].op # "MoveFolder"
      BY <2>1 DEF Handlers
    <3> QED BY <3>1, <3>2, <3>3
  <2>5. CASE UploadFile(r)
    <3>1. PICK p \in Known : Begin(r, [Idle EXCEPT !.op = "UploadFile", !.parent = p])
      BY <2>5 DEF UploadFile
    <3>2. [Idle EXCEPT !.op = "UploadFile", !.parent = p] \in Handlers
      BY <2>1, RpcNames DEF Handlers, Known
    <3>3. [Idle EXCEPT !.op = "UploadFile", !.parent = p].op # "MoveFolder"
      BY <2>1 DEF Handlers
    <3> QED BY <3>1, <3>2, <3>3
  <2> QED BY <2>2, <2>3, <2>4, <2>5
<1>2. PICK h \in Handlers :
        /\ Begin(r, h)
        /\ h.op = "MoveFolder" =>
             h.parent # h.folder /\ h.parent \notin Below(folders, h.folder)
  BY <1>1
<1>3. InFlight = {}
  BY <1>2, NobodyElse DEF SerialInv
<1>4. /\ Goto(h, "Permission") \in Handlers /\ Goto(h, "Permission").pc = "Permission"
      /\ Goto(h, "Permission").op = h.op /\ Goto(h, "Permission").folder = h.folder
      /\ Goto(h, "Permission").parent = h.parent
  BY GoneOn DEF Labels
<1>5. FreshInv(Goto(h, "Permission"))
  BY <1>2, <1>4 DEF FreshInv
<1>6. Becomes(r, Goto(h, "Permission")) /\ UNCHANGED tables
  BY <1>2 DEF Begin
<1> QED BY <1>3, <1>4, <1>5, <1>6, SerialRead

LEMMA SerialPermission ==
  ASSUME SerialInv, IInv', NEW r \in Requests, Permission(r) \/ TargetPermission(r)
  PROVE  SerialInv'
<1> DEFINE h == req[r]
           next == CASE h.op = "MoveFolder"   -> "TargetPermission"
                     [] h.op = "DeleteFolder" -> "SoftDeleteFolder"
                     [] OTHER                 -> "GetFolder"
<1>1. h \in Handlers /\ FreshInv(h) /\ IInv
  BY DEF SerialInv, IInv, TypeOK
<1>2. h.pc \in {"Permission", "TargetPermission"} /\ UNCHANGED tables
  BY DEF Permission, TargetPermission, Checks, Reads, At
<1>3. InFlight \subseteq {r}
  BY <1>2 DEF SerialInv, InFlight
<1>4. \/ \E c \in {"Internal", "PermissionDenied"} : Becomes(r, Reply(h, c))
      \/ \E l \in {"TargetPermission", "SoftDeleteFolder", "GetFolder"} : Becomes(r, Goto(h, l))
  BY DEF Permission, TargetPermission, Checks, Reads
<1>5. ASSUME NEW l \in {"TargetPermission", "SoftDeleteFolder", "GetFolder"}
      PROVE  Goto(h, l) \in Handlers /\ FreshInv(Goto(h, l))
  <2>1. l \in Labels
    BY DEF Labels
  <2>2. /\ Goto(h, l) \in Handlers /\ Goto(h, l).pc = l
        /\ Goto(h, l).op = h.op /\ Goto(h, l).folder = h.folder
        /\ Goto(h, l).parent = h.parent
    BY <1>1, <2>1, GoneOn
  <2> QED BY <1>1, <1>2, <2>2 DEF FreshInv
<1>6. ASSUME NEW c \in {"Internal", "PermissionDenied"}
      PROVE  Reply(h, c) \in Handlers /\ FreshInv(Reply(h, c))
  BY <1>1, RepliedFresh
<1> HIDE DEF h
<1> QED BY <1>2, <1>3, <1>4, <1>5, <1>6, SerialRead

\* The path that is read stays right, for nobody moves the parent meanwhile.
LEMMA SerialGetFolder ==
  ASSUME SerialInv, IInv', NEW r \in Requests, GetFolder(r)
  PROVE  SerialInv'
<1> DEFINE h    == req[r]
           next == CASE h.op = "CreateFolder" -> "InsertFolder"
                     [] h.op = "MoveFolder"   -> "MoveFolder"
                     [] h.op = "UploadFile"   -> "CreateFile"
           g    == [Goto(h, next) EXCEPT !.path = NewPath(folders, h.parent)]
<1>1. /\ h \in Handlers /\ FreshInv(h) /\ HandlerInv(h) /\ h.pc = "GetFolder"
      /\ folders \in Tables /\ UNCHANGED tables
  BY DEF SerialInv, IInv, TypeOK, GetFolder, Reads, At
<1>2. InFlight \subseteq {r}
  BY <1>1 DEF SerialInv, InFlight
<1>3. h.parent \in FolderIds /\ h.op \in {"CreateFolder", "MoveFolder", "UploadFile"}
  BY <1>1, RpcNames DEF HandlerInv
<1>4. \/ \E c \in {"Internal", "NotFound"} : Becomes(r, Reply(h, c))
      \/ IsLive(folders, h.parent) /\ Becomes(r, g)
  BY DEF GetFolder, Reads
<1>5. next \in Labels
  BY <1>3 DEF Labels
<1>6. NewPath(folders, h.parent) \in Seq(FolderIds)
  BY <1>1, <1>3, RowType, PathInType DEF NewPath, PathIn
<1>7. /\ g \in Handlers /\ g.op = h.op /\ g.folder = h.folder
      /\ g.parent = h.parent /\ g.path = PathIn(folders, h.parent)
  BY <1>1, <1>5, <1>6 DEF Goto, Handlers, NewPath
<1>8. g.pc = "InsertFolder" => h.op = "CreateFolder"
  BY <1>1, <1>3, <1>5, <1>6 DEF Goto, Handlers
<1>9. g.pc \notin {"GetEffective", "SetUserPermission"}
  BY <1>1, <1>3, <1>5, <1>6 DEF Goto, Handlers
<1> HIDE DEF next, g
<1>10. ASSUME IsLive(folders, h.parent) PROVE FreshInv(g)
  BY <1>1, <1>7, <1>8, <1>9, <1>10 DEF FreshInv
<1>11. ASSUME NEW c \in {"Internal", "NotFound"}
      PROVE  Reply(h, c) \in Handlers /\ FreshInv(Reply(h, c))
  BY <1>1, RepliedFresh
<1> HIDE DEF h
<1> QED BY <1>1, <1>2, <1>4, <1>7, <1>10, <1>11, SerialRead

LEMMA SerialInsertFolder ==
  ASSUME SerialInv, IInv', NEW r \in Requests, InsertFolder(r)
  PROVE  SerialInv'
<1> DEFINE h == req[r]
<1>1. /\ h \in Handlers /\ FreshInv(h) /\ HandlerInv(h) /\ h.pc = "InsertFolder"
      /\ folders \in Tables /\ Tree(folders) /\ files' = files
  BY DEF SerialInv, IInv, TypeOK, InsertFolder, At
<1>2. r \in InFlight
  BY <1>1 DEF InFlight
<1>3. PICK f \in FolderIds :
        /\ ~ Exists(folders, f)
        /\ folders' = Created(folders, f, h.parent, h.path, h.inherit)
        /\ Becomes(r, IF h.inherit THEN [Reply(h, "ok") EXCEPT !.folder = f]
                      ELSE [Goto(h, "GetEffective") EXCEPT !.folder = f])
  BY DEF InsertFolder, IsNextFolder
<1>4. /\ h.parent \in FolderIds /\ IsLive(folders, h.parent)
      /\ h.path = PathIn(folders, h.parent) /\ h.inherit \in BOOLEAN
      /\ h.path \in Seq(FolderIds)
  BY <1>1 DEF FreshInv, IsLive, Handlers
<1>5. Tree(folders')
  BY <1>1, <1>3, <1>4, CreatedTree
<1>6. ASSUME NEW g \in FolderIds, IsLive(folders, g) PROVE IsLive(folders', g)
  <2>1. g # f
    BY <1>3, <1>6 DEF Exists, IsLive
  <2>2. folders'[g] = folders[g]
    BY <1>1, <1>3, <2>1 DEF Created, Tables
  <2> QED BY <1>6, <2>2 DEF IsLive
<1>7. \A g \in FileIds : files'[g].state = "live" => IsLive(folders', files'[g].folder)
  BY <1>1, <1>6 DEF SerialInv, IsLive
<1>8. ASSUME NEW g \in {[Reply(h, "ok") EXCEPT !.folder = f],
                        [Goto(h, "GetEffective") EXCEPT !.folder = f]}
      PROVE  /\ g \in Handlers
             /\ g.pc = "done" \/ (g.pc = "GetEffective" /\ g.op = "CreateFolder")
  <2>1. CASE g = [Reply(h, "ok") EXCEPT !.folder = f]
    BY <1>1, <2>1 DEF Reply, Handlers, Labels
  <2>2. CASE g = [Goto(h, "GetEffective") EXCEPT !.folder = f]
    BY <1>1, <2>2 DEF Goto, Handlers, Labels, FreshInv
  <2> QED BY <2>1, <2>2
<1> HIDE DEF h
<1> QED BY <1>2, <1>3, <1>5, <1>7, <1>8, SerialWrite

LEMMA SerialGrant ==
  ASSUME SerialInv, IInv', NEW r \in Requests, GetEffective(r) \/ SetUserPermission(r)
  PROVE  SerialInv'
<1> DEFINE h == req[r]
           bits == Effective(folders, perms, h.parent)
           g == [Goto(h, "SetUserPermission") EXCEPT !.bits = bits]
<1>1. /\ h \in Handlers /\ FreshInv(h) /\ HandlerInv(h)
      /\ folders \in Tables /\ perms \in Bitmasks /\ Tree(folders)
  BY DEF SerialInv, IInv, TypeOK
<1>2. CASE GetEffective(r)
  <2>1. /\ UNCHANGED tables /\ h.pc = "GetEffective"
        /\ Becomes(r, Reply(h, "Internal")) \/ Becomes(r, g)
    BY <1>2 DEF GetEffective, Reads, At
  <2>2. bits \in SUBSET Bits
    BY <1>1, <2>1, EffectiveType DEF HandlerInv
  <2> HIDE DEF bits
  <2>3. g \in Handlers /\ g.pc = "SetUserPermission" /\ g.op = h.op
    BY <1>1, <2>2 DEF Goto, Handlers, Labels
  <2> HIDE DEF g
  <2>4. FreshInv(g)
    BY <1>1, <2>1, <2>3 DEF FreshInv
  <2>5. InFlight \subseteq {r}
    BY <2>1 DEF SerialInv, InFlight
  <2> HIDE DEF h
  <2> QED BY <1>1, <2>1, <2>3, <2>4, <2>5, RepliedFresh, SerialRead
<1>3. CASE SetUserPermission(r)
  <2>1. /\ h.pc = "SetUserPermission" /\ Becomes(r, Reply(h, "ok"))
        /\ folders' = folders /\ files' = files
    BY <1>3 DEF SetUserPermission, At
  <2>2. r \in InFlight
    BY <2>1 DEF InFlight
  <2>3. Tree(folders')
    BY <1>1, <2>1
  <2>4. \A f \in FileIds : files'[f].state = "live" => IsLive(folders', files'[f].folder)
    BY <2>1 DEF SerialInv
  <2> HIDE DEF h
  <2> QED BY <1>1, <2>1, <2>2, <2>3, <2>4, RepliedFresh, SerialWrite
<1> QED BY <1>2, <1>3

LEMMA SerialMoveRows ==
  ASSUME SerialInv, IInv', NEW r \in Requests, MoveRows(r)
  PROVE  SerialInv'
<1> DEFINE h == req[r]
<1>1. /\ h \in Handlers /\ FreshInv(h) /\ HandlerInv(h) /\ h.pc = "MoveFolder"
      /\ folders \in Tables /\ Tree(folders) /\ files' = files
  BY DEF SerialInv, IInv, TypeOK, MoveRows, At
<1>2. r \in InFlight
  BY <1>1 DEF InFlight
<1>3. /\ h.op = "MoveFolder" /\ h.folder \in FolderIds
      /\ h.parent \in FolderIds /\ IsLive(folders, h.parent)
      /\ h.path = PathIn(folders, h.parent) /\ h.path \in Seq(FolderIds)
      /\ h.parent # h.folder /\ h.parent \notin Below(folders, h.folder)
  BY <1>1 DEF FreshInv, HandlerInv, IsLive, Handlers
<1>4. \/ /\ IsLive(folders, h.folder)
         /\ folders' = Moved(folders, h.folder, h.parent, h.path)
         /\ Becomes(r, Reply(h, "ok"))
      \/ folders' = folders /\ Becomes(r, Reply(h, "Internal"))
  BY DEF MoveRows
<1>5. Tree(folders')
  BY <1>1, <1>3, <1>4, MovedTree
<1>6. \A g \in FolderIds : folders'[g].state = folders[g].state
  BY <1>1, <1>3, <1>4, MovedType
<1>7. \A g \in FileIds : files'[g].state = "live" => IsLive(folders', files'[g].folder)
  BY <1>1, <1>6 DEF SerialInv, IsLive
<1> HIDE DEF h
<1> QED BY <1>1, <1>2, <1>4, <1>5, <1>7, RepliedFresh, SerialWrite

LEMMA SerialSoftDelete ==
  ASSUME SerialInv, IInv', NEW r \in Requests, SoftDeleteFolder(r)
  PROVE  SerialInv'
<1> DEFINE h == req[r]
<1>1. /\ h \in Handlers /\ FreshInv(h) /\ HandlerInv(h) /\ h.pc = "SoftDeleteFolder"
      /\ folders \in Tables /\ Tree(folders) /\ files \in [FileIds -> FileRecords]
  BY DEF SerialInv, IInv, TypeOK, SoftDeleteFolder, At
<1>2. r \in InFlight
  BY <1>1 DEF InFlight
<1>3. h.folder \in FolderIds
  BY <1>1, RpcNames DEF HandlerInv
<1>4. \/ /\ folders' = Deleted(folders, h.folder)
         /\ files' = FilesDeleted(h.folder)
         /\ Becomes(r, Reply(h, "ok"))
      \/ /\ folders' = folders /\ files' = files /\ Becomes(r, Reply(h, "Internal"))
  BY DEF SoftDeleteFolder
<1>5. Tree(folders')
  BY <1>1, <1>3, <1>4, DeletedTree
<1>6. ASSUME NEW g \in FileIds, files'[g].state = "live"
      PROVE  IsLive(folders', files'[g].folder)
  <2>1. CASE folders' = folders /\ files' = files
    BY <1>6, <2>1 DEF SerialInv
  <2>2. CASE folders' = Deleted(folders, h.folder) /\ files' = FilesDeleted(h.folder)
    <3>1. /\ files[g].state = "live" /\ files'[g] = files[g]
          /\ files[g].folder \notin {h.folder} \cup Below(folders, h.folder)
      BY <1>1, <1>6, <2>2 DEF FilesDeleted, FileRecords
    <3>2. IsLive(folders, files[g].folder)
      BY <3>1 DEF SerialInv
    <3> HIDE DEF h
    <3> QED BY <1>1, <1>3, <2>2, <3>1, <3>2, DeletedTable DEF IsLive
  <2> QED BY <1>4, <2>1, <2>2
<1> HIDE DEF h
<1> QED BY <1>1, <1>2, <1>4, <1>5, <1>6, RepliedFresh, SerialWrite

LEMMA SerialCreateFile ==
  ASSUME SerialInv, IInv', NEW r \in Requests, CreateFile(r)
  PROVE  SerialInv'
<1> DEFINE h == req[r]
<1>1. /\ h \in Handlers /\ FreshInv(h) /\ h.pc = "CreateFile"
      /\ Tree(folders) /\ folders' = folders /\ files \in [FileIds -> FileRecords]
      /\ Becomes(r, Reply(h, "ok"))
  BY DEF SerialInv, IInv, TypeOK, CreateFile, At
<1>2. r \in InFlight
  BY <1>1 DEF InFlight
<1>3. PICK f \in FileIds :
        files' = [files EXCEPT ![f] = [state |-> "live", folder |-> h.parent, path |-> h.path]]
  BY DEF CreateFile
<1>4. IsLive(folders, h.parent)
  BY <1>1 DEF FreshInv
<1>5. \A g \in FileIds : files'[g].state = "live" => IsLive(folders', files'[g].folder)
  BY <1>1, <1>3, <1>4 DEF SerialInv
<1>6. Tree(folders')
  BY <1>1
<1> HIDE DEF h
<1> QED BY <1>1, <1>2, <1>5, <1>6, RepliedFresh, SerialWrite

LEMMA SerialFault ==
  ASSUME SerialInv, IInv', NEW r \in Requests, Fault(r)
  PROVE  SerialInv'
<1>1. /\ req[r] \in Handlers /\ Becomes(r, Reply(req[r], "Internal"))
      /\ UNCHANGED tables /\ InFlight \subseteq {r}
  BY DEF SerialInv, IInv, TypeOK, Fault
<1> QED BY <1>1, RepliedFresh, SerialRead

LEMMA SerialInit == OneAtATime /\ Init => SerialInv
<1> SUFFICES ASSUME OneAtATime, Init PROVE SerialInv
  OBVIOUS
<1>1. IInv
  BY Initially
<1>2. Tree(folders) /\ \A g \in FileIds : files[g].state # "live"
  BY DEF OneAtATime, Init
<1>3. \A r \in Requests : req[r].pc = "idle" /\ req[r].op = "none"
  BY DEF Init, Idle
<1> QED BY <1>1, <1>2, <1>3 DEF SerialInv, FreshInv, InFlight

LEMMA SerialNext == OneAtATime /\ SerialInv /\ IInv' /\ [Next]_vars => SerialInv'
<1> SUFFICES ASSUME OneAtATime, SerialInv, IInv', [Next]_vars PROVE SerialInv'
  OBVIOUS
<1>1. CASE UNCHANGED vars
  <2>1. folders' = folders /\ files' = files /\ req' = req
    BY <1>1 DEF vars
  <2>2. InFlight' = InFlight /\ \A r \in Requests : FreshInv(req[r])'
    BY <2>1 DEF InFlight, SerialInv, FreshInv, Below, PathIn
  <2> QED BY <2>1, <2>2 DEF SerialInv, Tree, InTree, PathIn
<1>2. CASE Next
  <2>1. PICK r \in Requests :
          \/ CreateFolder(r) \/ MoveFolder(r) \/ DeleteFolder(r) \/ UploadFile(r)
          \/ Permission(r) \/ TargetPermission(r) \/ GetFolder(r)
          \/ InsertFolder(r) \/ GetEffective(r) \/ SetUserPermission(r)
          \/ MoveRows(r) \/ SoftDeleteFolder(r) \/ CreateFile(r) \/ Fault(r)
    BY <1>2 DEF Next
  <2>2. CASE CreateFolder(r) \/ MoveFolder(r) \/ DeleteFolder(r) \/ UploadFile(r)
    BY <2>2, SerialBegin
  <2> QED BY <2>1, <2>2, SerialPermission, SerialGetFolder, SerialInsertFolder, SerialGrant,
         SerialMoveRows, SerialSoftDelete, SerialCreateFile, SerialFault
<1> QED BY <1>1, <1>2

LEMMA SerialInvariance == OneAtATime => (Spec => []SerialInv)
<1> SUFFICES ASSUME OneAtATime PROVE Spec => []SerialInv
  OBVIOUS
<1>1. Init => SerialInv
  BY SerialInit
<1>2. SerialInv /\ IInv' /\ [Next]_vars => SerialInv'
  BY SerialNext
<1> QED BY <1>1, <1>2, Invariance, PTL DEF Spec

\* Of calls that run one at a time, whether or not calls on the database fail:
\* the path of a live folder is its parent's followed by the parent.
THEOREM SerialPathsAreHierarchical == OneAtATime => (Spec => []PathsAreHierarchical)
<1> SUFFICES ASSUME OneAtATime PROVE Spec => []PathsAreHierarchical
  OBVIOUS
<1>1. SerialInv => PathsAreHierarchical
  BY DEF SerialInv, Tree, InTree, PathsAreHierarchical
<1>2. Spec => []SerialInv
  BY SerialInvariance
<1> QED BY <1>1, <1>2, PTL

\* And no live folder or file is under a deleted folder.
THEOREM SerialNothingOutlives == OneAtATime => (Spec => []NothingOutlivesItsFolder)
<1> SUFFICES ASSUME OneAtATime PROVE Spec => []NothingOutlivesItsFolder
  OBVIOUS
<1>1. SerialInv => NothingOutlivesItsFolder
  BY DEF SerialInv, Tree, InTree, NothingOutlivesItsFolder
<1>2. Spec => []SerialInv
  BY SerialInvariance
<1> QED BY <1>1, <1>2, PTL

-----------------------------------------------------------------------------
(* Whoever creates a folder keeps the permissions they have on its parent. *)

\* A row of permissions is one of a folder, by the table's foreign key.
RowsHaveFolders ==
  \A p \in SeedPerms : \A f \in FolderIds : ~ Exists(Seeds, f) => p[f] = {}

\* What a handler that creates a folder knows: the parent is in reach, and once
\* the new row is there it is below the parent and in reach too.
CreatorInv(h) ==
  /\ h.pc # "done" => h.reply = "none"
  /\ h.pc = "CreateFile" => h.op = "UploadFile"
  /\ h.op = "CreateFolder" /\ h.pc \in {"GetFolder", "InsertFolder"} =>
       Resolves(folders, h.parent)
  /\ h.pc \in {"GetEffective", "SetUserPermission"} =>
       /\ Resolves(folders, h.parent) /\ Resolves(folders, h.folder)
       /\ folders[h.folder].path = PathIn(folders, h.parent)
       /\ ~ folders[h.folder].inherit
       /\ h.folder \notin ToSet(PathIn(folders, h.parent))
  /\ h.pc = "SetUserPermission" => h.bits = Effective(folders, perms, h.parent)

AccessInv ==
  /\ SerialInv
  /\ \A f \in FolderIds : ~ Exists(folders, f) => perms[f] = {}
  /\ \A r \in Requests : CreatorInv(req[r])

\* What CreatorKeepsAccess says of one handler.
Keeps(r) ==
  req[r].op = "CreateFolder" /\ ~ At(r, "done") /\ req'[r].reply = "ok" =>
    /\ Resolves(folders', req'[r].folder)
    /\ Effective(folders', perms', req'[r].folder)
         = Effective(folders', perms', req[r].parent)

LEMMA AccessRead ==
  ASSUME AccessInv, SerialInv', NEW r \in Requests, NEW h \in Handlers, Becomes(r, h),
         UNCHANGED tables, CreatorInv(h), h.reply # "ok"
  PROVE  AccessInv' /\ \A q \in Requests : Keeps(q)
<1>1. \A q \in Requests : req'[q] = IF q = r THEN h ELSE req[q]
  BY DEF Becomes, AccessInv, SerialInv, IInv, TypeOK
<1>2. folders' = folders /\ perms' = perms
  BY DEF tables
<1>3. \A q \in Requests : CreatorInv(req[q])'
  BY <1>1, <1>2 DEF AccessInv, CreatorInv
<1>4. \A q \in Requests : req[q].pc # "done" => req'[q].reply # "ok"
  BY <1>1 DEF AccessInv, CreatorInv
<1> QED BY <1>2, <1>3, <1>4 DEF AccessInv, Exists, Keeps, At

LEMMA AccessWrite ==
  ASSUME AccessInv, SerialInv', NEW r \in Requests, NEW h \in Handlers, Becomes(r, h),
         r \in InFlight, CreatorInv(h)', Keeps(r),
         \A f \in FolderIds : ~ Exists(folders', f) => perms'[f] = {}
  PROVE  AccessInv' /\ \A q \in Requests : Keeps(q)
<1>1. \A q \in Requests : req'[q] = IF q = r THEN h ELSE req[q]
  BY DEF Becomes, AccessInv, SerialInv, IInv, TypeOK
<1>2. ASSUME NEW q \in Requests PROVE CreatorInv(req[q])' /\ Keeps(q)
  <2>1. CASE q = r
    BY <1>1, <2>1 DEF CreatorInv
  <2>2. CASE q # r
    <3>1. req'[q] = req[q] /\ req[q].pc \in {"idle", "done"}
      BY <1>1, <2>2 DEF AccessInv, SerialInv, InFlight
    <3>2. req[q].pc # "done" => req[q].reply = "none"
      BY DEF AccessInv, CreatorInv
    <3> QED BY <3>1, <3>2 DEF CreatorInv, Keeps, At
  <2> QED BY <2>1, <2>2
<1> QED BY <1>2 DEF AccessInv

LEMMA RepliedAccess ==
  ASSUME NEW h \in Handlers, NEW c \in {"none", "ok", "PermissionDenied", "NotFound", "Internal"}
  PROVE  /\ Reply(h, c) \in Handlers /\ Reply(h, c).pc = "done"
         /\ Reply(h, c).reply = c /\ Reply(h, c).op = h.op
         /\ CreatorInv(Reply(h, c)) /\ CreatorInv(Reply(h, c))'
<1>1. /\ Reply(h, c) \in Handlers /\ Reply(h, c).pc = "done"
      /\ Reply(h, c).reply = c /\ Reply(h, c).op = h.op
  BY DEF Handlers, Reply, Labels
<1> QED BY <1>1 DEF CreatorInv

LEMMA AccessBegin ==
  ASSUME AccessInv, SerialInv', NEW r \in Requests,
         CreateFolder(r) \/ MoveFolder(r) \/ DeleteFolder(r) \/ UploadFile(r)
  PROVE  AccessInv' /\ \A q \in Requests : Keeps(q)
<1> DEFINE Asks(f, p, inherit) ==
             {[Idle EXCEPT !.op = "CreateFolder", !.parent = p, !.inherit = inherit],
              [Idle EXCEPT !.op = "MoveFolder", !.folder = f, !.parent = p],
              [Idle EXCEPT !.op = "DeleteFolder", !.folder = f],
              [Idle EXCEPT !.op = "UploadFile", !.parent = p]}
<1>1. \E f \in FolderIds, p \in FolderIds, inherit \in BOOLEAN :
        \E h \in Asks(f, p, inherit) : Becomes(r, Goto(h, "Permission")) /\ UNCHANGED tables
  BY DEF CreateFolder, MoveFolder, DeleteFolder, UploadFile, Begin, Known, Exists
<1>2. PICK f \in FolderIds, p \in FolderIds, inherit \in BOOLEAN :
        \E h \in Asks(f, p, inherit) : Becomes(r, Goto(h, "Permission")) /\ UNCHANGED tables
  BY <1>1
<1>3. PICK h \in Asks(f, p, inherit) : Becomes(r, Goto(h, "Permission")) /\ UNCHANGED tables
  BY <1>2
<1>4. Idle \in Handlers /\ Idle.reply = "none"
  BY EmptySeq DEF Idle, Handlers, Labels
<1>5. h \in Handlers /\ h.reply = "none"
  <2>1. CASE h = [Idle EXCEPT !.op = "CreateFolder", !.parent = p, !.inherit = inherit]
    BY <1>4, <2>1, RpcNames DEF Handlers
  <2>2. CASE h = [Idle EXCEPT !.op = "MoveFolder", !.folder = f, !.parent = p]
    BY <1>4, <2>2, RpcNames DEF Handlers
  <2>3. CASE h = [Idle EXCEPT !.op = "DeleteFolder", !.folder = f]
    BY <1>4, <2>3, RpcNames DEF Handlers
  <2>4. CASE h = [Idle EXCEPT !.op = "UploadFile", !.parent = p]
    BY <1>4, <2>4, RpcNames DEF Handlers
  <2> QED BY <2>1, <2>2, <2>3, <2>4
<1>6. /\ Goto(h, "Permission") \in Handlers /\ Goto(h, "Permission").pc = "Permission"
      /\ Goto(h, "Permission").reply = "none"
  BY <1>5 DEF Goto, Handlers, Labels
<1>7. CreatorInv(Goto(h, "Permission"))
  BY <1>6 DEF CreatorInv
<1> QED BY <1>3, <1>6, <1>7, AccessRead

LEMMA AccessPermission ==
  ASSUME AccessInv, SerialInv', NEW r \in Requests, Permission(r) \/ TargetPermission(r)
  PROVE  AccessInv' /\ \A q \in Requests : Keeps(q)
<1> DEFINE h == req[r]
<1>1. h \in Handlers /\ CreatorInv(h) /\ HandlerInv(h)
  BY DEF AccessInv, SerialInv, IInv, TypeOK
<1>2. h.pc \in {"Permission", "TargetPermission"} /\ UNCHANGED tables
  BY DEF Permission, TargetPermission, Checks, Reads, At
<1>3. \/ \E c \in {"Internal", "PermissionDenied"} : Becomes(r, Reply(h, c))
      \/ \E l \in {"TargetPermission", "SoftDeleteFolder", "GetFolder"} :
           /\ Becomes(r, Goto(h, l))
           /\ h.op = "CreateFolder" => Resolves(folders, h.parent)
  <2>1. CASE Permission(r)
    BY <2>1 DEF Permission, Checks, Reads
  <2>2. CASE TargetPermission(r)
    BY <1>1, <2>2 DEF TargetPermission, Checks, Reads, At, HandlerInv
  <2> QED BY <2>1, <2>2
<1>4. ASSUME NEW l \in {"TargetPermission", "SoftDeleteFolder", "GetFolder"},
             h.op = "CreateFolder" => Resolves(folders, h.parent)
      PROVE  Goto(h, l) \in Handlers /\ CreatorInv(Goto(h, l)) /\ Goto(h, l).reply # "ok"
  <2>1. /\ Goto(h, l) \in Handlers /\ Goto(h, l).pc = l
        /\ Goto(h, l).op = h.op /\ Goto(h, l).parent = h.parent
        /\ Goto(h, l).reply = h.reply
    BY <1>1 DEF Goto, Handlers, Labels
  <2> QED BY <1>1, <1>2, <1>4, <2>1 DEF CreatorInv
<1>5. ASSUME NEW c \in {"Internal", "PermissionDenied"}
      PROVE  Reply(h, c) \in Handlers /\ CreatorInv(Reply(h, c)) /\ Reply(h, c).reply # "ok"
  BY <1>1, RepliedAccess
<1> HIDE DEF h
<1> QED BY <1>2, <1>3, <1>4, <1>5, AccessRead

LEMMA AccessGetFolder ==
  ASSUME AccessInv, SerialInv', NEW r \in Requests, GetFolder(r)
  PROVE  AccessInv' /\ \A q \in Requests : Keeps(q)
<1> DEFINE h    == req[r]
           next == CASE h.op = "CreateFolder" -> "InsertFolder"
                     [] h.op = "MoveFolder"   -> "MoveFolder"
                     [] h.op = "UploadFile"   -> "CreateFile"
           g    == [Goto(h, next) EXCEPT !.path = NewPath(folders, h.parent)]
<1>1. /\ h \in Handlers /\ CreatorInv(h) /\ HandlerInv(h) /\ h.pc = "GetFolder"
      /\ folders \in Tables /\ UNCHANGED tables
  BY DEF AccessInv, SerialInv, IInv, TypeOK, GetFolder, Reads, At
<1>2. h.parent \in FolderIds /\ h.op \in {"CreateFolder", "MoveFolder", "UploadFile"}
  BY <1>1, RpcNames DEF HandlerInv
<1>3. (\E c \in {"Internal", "NotFound"} : Becomes(r, Reply(h, c))) \/ Becomes(r, g)
  BY DEF GetFolder, Reads
<1>4. /\ next \in Labels \cap {"InsertFolder", "MoveFolder", "CreateFile"}
      /\ next = "InsertFolder" => h.op = "CreateFolder"
      /\ next = "CreateFile" => h.op = "UploadFile"
  BY <1>2 DEF Labels
<1>5. NewPath(folders, h.parent) \in Seq(FolderIds)
  BY <1>1, <1>2, RowType, PathInType DEF NewPath, PathIn
<1>6. /\ g \in Handlers /\ g.pc = next /\ g.op = h.op /\ g.folder = h.folder
      /\ g.parent = h.parent /\ g.reply = h.reply
  BY <1>1, <1>4, <1>5 DEF Goto, Handlers
<1> HIDE DEF next, g
<1>7. CreatorInv(g) /\ g.reply # "ok"
  BY <1>1, <1>4, <1>6 DEF CreatorInv
<1>8. ASSUME NEW c \in {"Internal", "NotFound"}
      PROVE  Reply(h, c) \in Handlers /\ CreatorInv(Reply(h, c)) /\ Reply(h, c).reply # "ok"
  BY <1>1, RepliedAccess
<1> HIDE DEF h
<1> QED BY <1>1, <1>3, <1>6, <1>7, <1>8, AccessRead

\* The new row has the bits of its parent if it inherits; the handler goes on
\* to give it some if it does not.
LEMMA AccessInsertFolder ==
  ASSUME AccessInv, SerialInv', NEW r \in Requests, InsertFolder(r)
  PROVE  AccessInv' /\ \A q \in Requests : Keeps(q)
<1> DEFINE h == req[r]
<1>1. /\ h \in Handlers /\ CreatorInv(h) /\ HandlerInv(h) /\ FreshInv(h)
      /\ h.pc = "InsertFolder" /\ folders \in Tables /\ folders' \in Tables
      /\ perms \in Bitmasks /\ perms' = perms
  BY DEF AccessInv, SerialInv, IInv, TypeOK, InsertFolder, At
<1>2. r \in InFlight
  BY <1>1 DEF InFlight
<1>3. PICK f \in FolderIds :
        /\ ~ Exists(folders, f)
        /\ folders' = Created(folders, f, h.parent, h.path, h.inherit)
        /\ Becomes(r, IF h.inherit THEN [Reply(h, "ok") EXCEPT !.folder = f]
                      ELSE [Goto(h, "GetEffective") EXCEPT !.folder = f])
  BY DEF InsertFolder, IsNextFolder
<1>4. /\ h.parent \in FolderIds /\ h.op = "CreateFolder" /\ h.inherit \in BOOLEAN
      /\ h.path = PathIn(folders, h.parent) /\ Resolves(folders, h.parent)
  BY <1>1 DEF FreshInv, CreatorInv, IsLive, Handlers
<1> DEFINE p == h.parent
           chain == PathIn(folders, p)
<1>5. chain \in Seq(FolderIds) /\ Len(chain) \in Nat
  BY <1>1, <1>4, RowType, PathInType DEF PathIn
<1>6. /\ f \notin ToSet(chain) /\ p # f /\ PathIn(folders', p) = chain
      /\ Resolves(folders', p) /\ Resolves(folders', f)
  BY <1>1, <1>3, <1>4, CreatedResolves
<1>7. /\ folders'[f].state = "live" /\ folders'[f].path = chain
      /\ folders'[f].inherit = h.inherit
      /\ \A g \in FolderIds \ {f} : folders'[g] = folders[g]
  BY <1>1, <1>3, <1>4 DEF Created, Tables
<1>8. \A g \in FolderIds : ~ Exists(folders', g) => perms'[g] = {}
  BY <1>1, <1>7 DEF AccessInv, Exists
<1>9. perms'[f] = {}
  BY <1>1, <1>3 DEF AccessInv
<1>10. ASSUME h.inherit
       PROVE  Effective(folders', perms', f) = Effective(folders', perms', p)
  <2>1. /\ Inherits(folders') \in [FolderIds -> BOOLEAN] /\ Inherits(folders')[f]
    BY <1>1, <1>7, <1>10 DEF Inherits, Tables, FolderRecords
  <2>2. PathIn(folders', f) = Append(chain, f)
    BY <1>7 DEF PathIn
  <2>3. Walked(Append(chain, f), Inherits(folders'), perms') =
          AfterBreak(Walked(chain, Inherits(folders'), perms'),
                     Inherits(folders')[f], Len(chain) + 1) \cup perms'[f]
    <3>1. perms' \in [FolderIds -> SUBSET Bits]
      BY <1>1 DEF Bitmasks
    <3> HIDE DEF chain
    <3> QED BY <1>5, <2>1, <3>1, WalkedOfAppend, ZenonT(60)
  <2>4. Walked(Append(chain, f), Inherits(folders'), perms') =
          Walked(chain, Inherits(folders'), perms')
    BY <1>9, <2>1, <2>3 DEF AfterBreak
  <2> QED BY <1>6, <2>2, <2>4, SMTT(30) DEF Effective
<1> HIDE DEF chain
<1>11. CASE h.inherit
  <2>0. PICK g : g = [Reply(h, "ok") EXCEPT !.folder = f]
    OBVIOUS
  <2>1. /\ g \in Handlers /\ g.pc = "done" /\ g.folder = f
    BY <1>1, <2>0 DEF Reply, Handlers, Labels
  <2>2. Becomes(r, g)
    BY <1>3, <1>11, <2>0
  <2>3. req'[r] = g
    BY <2>2 DEF Becomes, AccessInv, SerialInv, IInv, TypeOK
  <2>4. CreatorInv(g)'
    BY <2>1 DEF CreatorInv
  <2>5. Keeps(r)
    BY <1>6, <1>10, <1>11, <2>1, <2>3 DEF Keeps
  <2> HIDE DEF h
  <2> QED BY <1>2, <1>8, <2>1, <2>2, <2>4, <2>5, AccessWrite
<1>12. CASE ~ h.inherit
  <2>0. PICK g : g = [Goto(h, "GetEffective") EXCEPT !.folder = f]
    OBVIOUS
  <2>1. /\ g \in Handlers /\ g.pc = "GetEffective" /\ g.folder = f
        /\ g.parent = p /\ g.reply = h.reply
    BY <1>1, <2>0 DEF Goto, Handlers, Labels
  <2>2. Becomes(r, g)
    BY <1>3, <1>12, <2>0
  <2>3. req'[r] = g
    BY <2>2 DEF Becomes, AccessInv, SerialInv, IInv, TypeOK
  <2>4. CreatorInv(g)'
    BY <1>1, <1>6, <1>7, <1>12, <2>1 DEF CreatorInv
  <2>5. Keeps(r)
    BY <1>1, <2>1, <2>3 DEF Keeps, CreatorInv
  <2> HIDE DEF h
  <2> QED BY <1>2, <1>8, <2>1, <2>2, <2>4, <2>5, AccessWrite
<1> QED BY <1>11, <1>12

\* Past the break the new folder has the row that is written for it, and that
\* is what its creator has on the parent.
LEMMA AccessGrant ==
  ASSUME AccessInv, SerialInv', NEW r \in Requests, GetEffective(r) \/ SetUserPermission(r)
  PROVE  AccessInv' /\ \A q \in Requests : Keeps(q)
<1> DEFINE h == req[r]
           f == h.folder
           p == h.parent
           bits == Effective(folders, perms, p)
           g == [Goto(h, "SetUserPermission") EXCEPT !.bits = bits]
<1>1. /\ h \in Handlers /\ CreatorInv(h) /\ HandlerInv(h)
      /\ h.pc \in {"GetEffective", "SetUserPermission"}
      /\ folders \in Tables /\ perms \in Bitmasks /\ perms' \in Bitmasks
  BY DEF AccessInv, SerialInv, IInv, TypeOK, GetEffective, SetUserPermission, Reads, At
<1>2. f \in FolderIds /\ p \in FolderIds
  BY <1>1 DEF HandlerInv
<1>3. bits \subseteq Bits
  BY <1>1, <1>2, EffectiveType
<1>4. CASE GetEffective(r)
  <2>1. UNCHANGED tables /\ (Becomes(r, Reply(h, "Internal")) \/ Becomes(r, g))
    BY <1>4 DEF GetEffective, Reads
  <2> HIDE DEF bits
  <2>2. /\ g \in Handlers /\ g.pc = "SetUserPermission" /\ g.op = h.op
        /\ g.reply = h.reply /\ g.folder = f /\ g.parent = p /\ g.bits = bits
    BY <1>1, <1>3 DEF Goto, Handlers, Labels
  <2> HIDE DEF g
  <2>3. CreatorInv(g) /\ g.reply # "ok"
    BY <1>1, <2>2 DEF CreatorInv, bits
  <2> HIDE DEF h
  <2> QED BY <1>1, <2>1, <2>2, <2>3, RepliedAccess, AccessRead
<1>5. CASE SetUserPermission(r)
  <2> DEFINE chain == PathIn(folders, p)
  <2>1. /\ h.pc = "SetUserPermission" /\ Becomes(r, Reply(h, "ok"))
        /\ folders' = folders /\ perms' = [perms EXCEPT ![f] = h.bits]
    BY <1>5 DEF SetUserPermission, GrantedTo, At
  <2>2. /\ h.bits = bits /\ Resolves(folders, f) /\ f \notin ToSet(chain)
        /\ folders[f].path = chain /\ ~ folders[f].inherit
    BY <1>1, <2>1 DEF CreatorInv
  <2>3. r \in InFlight
    BY <2>1 DEF InFlight
  <2>4. \A x \in FolderIds : ~ Exists(folders', x) => perms'[x] = {}
    BY <1>1, <2>1, <2>2 DEF AccessInv, Resolves, Bitmasks
  <2>5. chain \in Seq(FolderIds) /\ Len(chain) \in Nat /\ Len(chain) + 1 > 1
    <3>1. folders[p].path \in Seq(FolderIds) /\ Len(chain) = Len(folders[p].path) + 1
      BY <1>1, <1>2, RowType, PathInType DEF PathIn
    <3> QED BY <1>2, <3>1, PathInType DEF PathIn
  <2>6. /\ Inherits(folders) \in [FolderIds -> BOOLEAN] /\ ~ Inherits(folders)[f]
    BY <1>1, <1>2, <2>2 DEF Inherits, Tables, FolderRecords
  <2>7. ToSet(chain) \subseteq FolderIds
    BY <2>5 DEF ToSet
  <2>8. \A x \in ToSet(chain) : perms'[x] = perms[x]
    BY <1>1, <2>1, <2>2, <2>7 DEF Bitmasks
  <2>9. perms'[f] = bits
    BY <1>1, <1>2, <2>1, <2>2 DEF Bitmasks
  <2>10. PathIn(folders, f) = Append(chain, f)
    BY <2>2 DEF PathIn
  <2> HIDE DEF chain
  <2>11. Walked(chain, Inherits(folders), perms') = Walked(chain, Inherits(folders), perms)
    BY <1>1, <2>5, <2>6, <2>8, WalkedAgrees DEF Bitmasks
  <2>12. Walked(chain, Inherits(folders), perms') = bits
    BY <2>11 DEF Effective, chain
  <2>13. Walked(Append(chain, f), Inherits(folders), perms') =
           AfterBreak(Walked(chain, Inherits(folders), perms'),
                      Inherits(folders)[f], Len(chain) + 1) \cup perms'[f]
    BY <1>1, <1>2, <2>5, <2>6, WalkedOfAppend DEF Bitmasks
  <2>14. Walked(Append(chain, f), Inherits(folders), perms') = bits
    <3> HIDE DEF bits
    <3> QED BY <2>5, <2>6, <2>9, <2>12, <2>13 DEF AfterBreak
  <2>15. Effective(folders', perms', f) = Effective(folders', perms', p)
    BY <2>1, <2>10, <2>12, <2>14 DEF Effective, chain
  <2>16. req'[r] = Reply(h, "ok") /\ Reply(h, "ok").folder = f
    BY <1>1, <2>1 DEF Becomes, AccessInv, SerialInv, IInv, TypeOK, Reply, Handlers
  <2>17. Keeps(r)
    BY <2>1, <2>2, <2>15, <2>16 DEF Keeps
  <2> HIDE DEF h
  <2> QED BY <1>1, <2>1, <2>3, <2>4, <2>17, RepliedAccess, AccessWrite
<1> QED BY <1>4, <1>5

\* The other writes are not a CreateFolder's.
LEMMA AccessOther ==
  ASSUME AccessInv, SerialInv', NEW r \in Requests,
         MoveRows(r) \/ SoftDeleteFolder(r) \/ CreateFile(r)
  PROVE  AccessInv' /\ \A q \in Requests : Keeps(q)
<1> DEFINE h == req[r]
<1>1. /\ h \in Handlers /\ CreatorInv(h) /\ HandlerInv(h) /\ FreshInv(h)
      /\ h.pc \in {"MoveFolder", "SoftDeleteFolder", "CreateFile"}
      /\ folders \in Tables /\ perms' = perms
  BY DEF AccessInv, SerialInv, IInv, TypeOK, MoveRows, SoftDeleteFolder, CreateFile, At
<1>2. r \in InFlight /\ h.op # "CreateFolder"
  BY <1>1 DEF InFlight, HandlerInv, CreatorInv
<1>3. \E c \in {"ok", "Internal"} : Becomes(r, Reply(h, c))
  BY DEF MoveRows, SoftDeleteFolder, CreateFile
<1>4. \A g \in FolderIds : Exists(folders, g) => Exists(folders', g)
  <2>1. CASE folders' = folders
    BY <2>1
  <2>2. CASE folders' = Moved(folders, h.folder, h.parent, h.path) /\ h.pc = "MoveFolder"
    <3>1. h.folder \in FolderIds /\ h.parent \in FolderIds /\ h.path \in Seq(FolderIds)
      BY <1>1, <2>2 DEF HandlerInv, Handlers
    <3> HIDE DEF h
    <3>2. \A g \in FolderIds : folders'[g].state = folders[g].state
      BY <1>1, <2>2, <3>1, MovedType
    <3> QED BY <3>2 DEF Exists
  <2>3. CASE folders' = Deleted(folders, h.folder) /\ h.pc = "SoftDeleteFolder"
    <3>1. h.folder \in FolderIds
      BY <1>1, <2>3 DEF HandlerInv
    <3> HIDE DEF h
    <3> QED BY <1>1, <2>3, <3>1, DeletedTable DEF Exists
  <2> QED BY <2>1, <2>2, <2>3 DEF MoveRows, SoftDeleteFolder, CreateFile, At
<1>5. \A g \in FolderIds : ~ Exists(folders', g) => perms'[g] = {}
  BY <1>1, <1>4 DEF AccessInv
<1>6. Keeps(r)
  BY <1>2 DEF Keeps
<1> HIDE DEF h
<1> QED BY <1>1, <1>2, <1>3, <1>5, <1>6, RepliedAccess, AccessWrite

LEMMA AccessFault ==
  ASSUME AccessInv, SerialInv', NEW r \in Requests, Fault(r)
  PROVE  AccessInv' /\ \A q \in Requests : Keeps(q)
<1>1. req[r] \in Handlers /\ Becomes(r, Reply(req[r], "Internal")) /\ UNCHANGED tables
  BY DEF AccessInv, SerialInv, IInv, TypeOK, Fault
<1> QED BY <1>1, RepliedAccess, AccessRead

LEMMA AccessInit == OneAtATime /\ RowsHaveFolders /\ Init => AccessInv
<1> SUFFICES ASSUME OneAtATime, RowsHaveFolders, Init PROVE AccessInv
  OBVIOUS
<1>1. SerialInv
  BY SerialInit
<1>2. \A f \in FolderIds : ~ Exists(folders, f) => perms[f] = {}
  BY DEF RowsHaveFolders, Init
<1>3. \A r \in Requests : req[r].pc = "idle" /\ req[r].op = "none" /\ req[r].reply = "none"
  BY DEF Init, Idle
<1> QED BY <1>1, <1>2, <1>3 DEF AccessInv, CreatorInv

LEMMA AccessNext ==
  ASSUME AccessInv, SerialInv', [Next]_vars
  PROVE  AccessInv' /\ [\A r \in Requests : Keeps(r)]_vars
<1>1. CASE UNCHANGED vars
  <2>1. folders' = folders /\ perms' = perms /\ req' = req
    BY <1>1 DEF vars
  <2>2. \A r \in Requests : CreatorInv(req[r])'
    BY <2>1 DEF AccessInv, CreatorInv
  <2> QED BY <1>1, <2>1, <2>2 DEF AccessInv
<1>2. CASE Next
  <2>1. PICK r \in Requests :
          \/ CreateFolder(r) \/ MoveFolder(r) \/ DeleteFolder(r) \/ UploadFile(r)
          \/ Permission(r) \/ TargetPermission(r) \/ GetFolder(r)
          \/ InsertFolder(r) \/ GetEffective(r) \/ SetUserPermission(r)
          \/ MoveRows(r) \/ SoftDeleteFolder(r) \/ CreateFile(r) \/ Fault(r)
    BY <1>2 DEF Next
  <2>2. AccessInv' /\ \A q \in Requests : Keeps(q)
    <3>1. CASE CreateFolder(r) \/ MoveFolder(r) \/ DeleteFolder(r) \/ UploadFile(r)
      BY <3>1, AccessBegin
    <3> QED BY <2>1, <3>1, AccessPermission, AccessGetFolder, AccessInsertFolder, AccessGrant,
           AccessOther, AccessFault
  <2> QED BY <2>2
<1> QED BY <1>1, <1>2

\* Of calls that run one at a time: whoever creates a folder has on it, when
\* the call returns, the permissions they have on its parent, at any depth and
\* past any breaks of inheritance above it.
THEOREM SerialCreatorKeepsAccess ==
  OneAtATime /\ RowsHaveFolders => (Spec => CreatorKeepsAccess)
<1> SUFFICES ASSUME OneAtATime, RowsHaveFolders PROVE Spec => CreatorKeepsAccess
  OBVIOUS
<1>1. Init => AccessInv
  BY AccessInit
<1>2. AccessInv /\ SerialInv' /\ [Next]_vars => AccessInv'
  BY AccessNext
<1>3. AccessInv /\ SerialInv' /\ [Next]_vars =>
        [\A r \in Requests :
           (/\ req[r].op = "CreateFolder" /\ ~At(r, "done")
            /\ req'[r].reply = "ok") =>
             LET f == req'[r].folder
             IN  /\ Resolves(folders', f)
                 /\ Effective(folders', perms', f)
                      = Effective(folders', perms', req[r].parent)]_vars
  BY AccessNext DEF Keeps
<1>4. Spec => []SerialInv
  BY SerialInvariance
<1> QED BY <1>1, <1>2, <1>3, <1>4, PTL DEF Spec, CreatorKeepsAccess
=============================================================================
