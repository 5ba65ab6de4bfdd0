--------------------------- MODULE FolderService ---------------------------
(***************************************************************************)
(* The folder service's CreateFolder, MoveFolder and DeleteFolder and, of  *)
(* the file service, what an upload and the move of a file do with paths:  *)
(* concurrent handlers over the folders, permissions and files tables.  A  *)
(* handler reads the path of a folder in one call and writes it in a later *)
(* one; MoveFolder and SoftDeleteFolder are transactions, one action each. *)
(* One user makes the calls; the permission check is one action (what its  *)
(* three queries may see is module EffectivePermissions).                  *)
(***************************************************************************)
EXTENDS Folders

CONSTANTS
  Requests,     \* the calls a behaviour makes: each is served by a handler
  Seeds,        \* the folders table at the start
  SeedPerms,    \* the user's bits at the start are one of these
  Operations,   \* the RPCs the clients of this instance call
  SubtreeMoves, \* whether they ask to move a folder into its own subtree
  Faults,       \* whether a call on the database may fail
  MaxFile,      \* bound: ids of files
  MaxInFlight   \* bound: handlers running at the same time

FileIds == 1 .. MaxFile

\* The bits asked for; UploadFile's is the one that Admin does not replace.
Required == [CreateFolder |-> "CreateFolder", MoveFolder |-> "MoveFolder",
             DeleteFolder |-> "DeleteFolder", UploadFile |-> "Create"]

ASSUME ServiceAssumption ==
  /\ Seeds \in Tables /\ SeedPerms \subseteq Bitmasks
  /\ \A f \in FolderIds : Seeds[f].state # "deleted"
  /\ \A f \in FolderIds : Seeds[f].state = "live" /\ f # Root =>
       Seeds[f].path # <<>> /\ Seeds[f].parent = Last(Seeds[f].path)
  /\ Seeds[Root].path = <<>> /\ Seeds[Root].parent = 0
  /\ Operations \subseteq DOMAIN Required
  /\ SubtreeMoves \in BOOLEAN /\ Faults \in BOOLEAN
  /\ MaxFile \in Nat /\ MaxInFlight \in Nat

VARIABLES
  folders, \* table folders
  perms,   \* the user's rows of table permissions
  files,   \* table files: state, folder_id, path
  req      \* the handlers: program counter, arguments and locals

vars   == <<folders, perms, files, req>>
tables == <<folders, perms, files>>

FileRecords == [state : {"absent", "live", "deleted"},
                folder : FolderIds \cup {0}, path : Seq(FolderIds)]

Labels == {"idle", "done", "Permission", "TargetPermission", "GetFolder",
           "InsertFolder", "GetEffective", "SetUserPermission", "MoveFolder",
           "SoftDeleteFolder", "CreateFile"}

Handlers ==
  [pc : Labels, op : DOMAIN Required \cup {"none"}, folder : FolderIds \cup {0},
   parent : FolderIds \cup {0}, inherit : BOOLEAN, path : Seq(FolderIds),
   bits : SUBSET Bits, reply : {"none", "ok", "PermissionDenied", "NotFound", "Internal"}]

Idle == [pc |-> "idle", op |-> "none", folder |-> 0, parent |-> 0,
         inherit |-> TRUE, path |-> <<>>, bits |-> {}, reply |-> "none"]

Init ==
  /\ folders = Seeds
  /\ perms \in SeedPerms
  /\ files = [f \in FileIds |-> [state |-> "absent", folder |-> 0, path |-> <<>>]]
  /\ req = [r \in Requests |-> Idle]
-----------------------------------------------------------------------------
InFlight == {r \in Requests : req[r].pc \notin {"idle", "done"}}

At(r, label)   == req[r].pc = label
Goto(h, label) == [h EXCEPT !.pc = label]
Reply(h, code) == [h EXCEPT !.pc = "done", !.reply = code]
Becomes(r, h)  == req' = [req EXCEPT ![r] = h]
Reads(r, label, h) == At(r, label) /\ Becomes(r, h) /\ UNCHANGED tables

\* The next id of the AUTOINCREMENT columns.
IsNextFolder(f) == f \in FolderIds /\ ~Exists(folders, f)
                   /\ \A g \in 1 .. f - 1 : Exists(folders, g)
IsNextFile(f)   == f \in FileIds /\ files[f].state = "absent"
                   /\ \A g \in 1 .. f - 1 : files[g].state # "absent"

Known == {f \in FolderIds : Exists(folders, f)}

\* parent is the folder that the new folder or file will be in.
Begin(r, h) ==
  /\ At(r, "idle")
  /\ Cardinality(InFlight) < MaxInFlight
  /\ h.op \in Operations
  /\ Becomes(r, Goto(h, "Permission"))
  /\ UNCHANGED tables

CreateFolder(r) == \E p \in Known, inherit \in BOOLEAN :
  Begin(r, [Idle EXCEPT !.op = "CreateFolder", !.parent = p, !.inherit = inherit])

MoveFolder(r) == \E f, p \in Known :
  /\ SubtreeMoves \/ (p # f /\ p \notin Below(folders, f))
  /\ Begin(r, [Idle EXCEPT !.op = "MoveFolder", !.folder = f, !.parent = p])

DeleteFolder(r) == \E f \in Known :
  Begin(r, [Idle EXCEPT !.op = "DeleteFolder", !.folder = f])

UploadFile(r) == \E p \in Known :
  Begin(r, [Idle EXCEPT !.op = "UploadFile", !.parent = p])

\* HasPermission, or Has for a file: an error when the chain does not resolve.
Granted(f, bit, bypass) ==
  LET bits == Effective(folders, perms, f)
  IN  bit \in bits \/ (bypass /\ "Admin" \in bits)

Checks(r, label, f, bit, bypass, h) ==
  Reads(r, label,
        IF ~Resolves(folders, f) THEN Reply(req[r], "Internal")
        ELSE IF Granted(f, bit, bypass) THEN h
        ELSE Reply(req[r], "PermissionDenied"))

Permission(r) ==
  LET h == req[r]
      f == IF h.op \in {"CreateFolder", "UploadFile"} THEN h.parent ELSE h.folder
  IN  Checks(r, "Permission", f, Required[h.op], h.op # "UploadFile",
             Goto(h, CASE h.op = "MoveFolder"   -> "TargetPermission"
                       [] h.op = "DeleteFolder" -> "SoftDeleteFolder"
                       [] OTHER                 -> "GetFolder"))

\* MoveFolder asks for CreateFolder on the target as well.
TargetPermission(r) ==
  Checks(r, "TargetPermission", req[r].parent, "CreateFolder", TRUE,
         Goto(req[r], "GetFolder"))

\* Mutant: the id appended is that of the parent's parent.
NewPathUp(t, p) == Append(t[p].path, t[p].parent)

NewPath(t, p) == PathIn(t, p)

\* The path for the new row is computed from what is read here.
GetFolder(r) ==
  LET h == req[r]
  IN  Reads(r, "GetFolder",
            IF ~IsLive(folders, h.parent)
            THEN Reply(h, IF h.op = "UploadFile" THEN "Internal" ELSE "NotFound")
            ELSE [Goto(h, CASE h.op = "CreateFolder" -> "InsertFolder"
                            [] h.op = "MoveFolder"   -> "MoveFolder"
                            [] h.op = "UploadFile"   -> "CreateFile")
                    EXCEPT !.path = NewPath(folders, h.parent)])

\* The parent is not looked at again: it may have moved or gone.
InsertFolder(r) ==
  LET h == req[r]
  IN  /\ At(r, "InsertFolder")
      /\ \E f \in FolderIds :
           /\ IsNextFolder(f)
           /\ folders' = Created(folders, f, h.parent, h.path, h.inherit)
           /\ Becomes(r, IF h.inherit THEN [Reply(h, "ok") EXCEPT !.folder = f]
                         ELSE [Goto(h, "GetEffective") EXCEPT !.folder = f])
      /\ UNCHANGED <<perms, files>>

\* A folder that does not inherit: the creator's bits on the parent are read,
GetEffective(r) ==
  LET h == req[r]
  IN  Reads(r, "GetEffective",
            IF Resolves(folders, h.parent)
            THEN [Goto(h, "SetUserPermission") EXCEPT
                    !.bits = Effective(folders, perms, h.parent)]
            ELSE Reply(h, "Internal"))

\* Mutant: the row is written for the parent.
GrantedToParent(h) == [perms EXCEPT ![h.parent] = h.bits]

GrantedTo(h) == [perms EXCEPT ![h.folder] = h.bits]

\* and written for the new folder.
SetUserPermission(r) ==
  /\ At(r, "SetUserPermission")
  /\ perms' = GrantedTo(req[r])
  /\ Becomes(r, Reply(req[r], "ok"))
  /\ UNCHANGED <<folders, files>>

\* The transaction of MoveFolder fails if the folder was deleted meanwhile.
MoveRows(r) ==
  LET h == req[r]
  IN  /\ At(r, "MoveFolder")
      /\ IF IsLive(folders, h.folder)
         THEN /\ folders' = Moved(folders, h.folder, h.parent, h.path)
              /\ Becomes(r, Reply(h, "ok"))
         ELSE Becomes(r, Reply(h, "Internal")) /\ UNCHANGED folders
      /\ UNCHANGED <<perms, files>>

\* The files of the folders deleted with it, of those deleted before too.
FilesDeleted(f) ==
  [g \in FileIds |->
    IF files[g].state = "live" /\ files[g].folder \in {f} \cup Below(folders, f)
    THEN [files[g] EXCEPT !.state = "deleted"] ELSE files[g]]

SoftDeleteFolder(r) ==
  LET h == req[r]
  IN  /\ At(r, "SoftDeleteFolder")
      /\ IF IsLive(folders, h.folder)
         THEN /\ folders' = Deleted(folders, h.folder)
              /\ files' = FilesDeleted(h.folder)
              /\ Becomes(r, Reply(h, "ok"))
         ELSE Becomes(r, Reply(h, "Internal")) /\ UNCHANGED <<folders, files>>
      /\ UNCHANGED perms

\* The rest of UploadFile is module FileVersions.
CreateFile(r) ==
  LET h == req[r]
  IN  /\ At(r, "CreateFile")
      /\ \E f \in FileIds :
           /\ IsNextFile(f)
           /\ files' = [files EXCEPT ![f] =
                          [state |-> "live", folder |-> h.parent, path |-> h.path]]
      /\ Becomes(r, Reply(h, "ok"))
      /\ UNCHANGED <<folders, perms>>

\* A failed call: a transaction is rolled back, earlier calls stay.  A statement
\* that is done though its answer is lost is its action, and this one next; of
\* a handler's last statement only the reply would differ.
Fault(r) ==
  /\ Faults
  /\ r \in InFlight
  /\ Becomes(r, Reply(req[r], "Internal"))
  /\ UNCHANGED tables

Next ==
  \E r \in Requests :
    \/ CreateFolder(r) \/ MoveFolder(r) \/ DeleteFolder(r) \/ UploadFile(r)
    \/ Permission(r) \/ TargetPermission(r) \/ GetFolder(r)
    \/ InsertFolder(r) \/ GetEffective(r) \/ SetUserPermission(r)
    \/ MoveRows(r) \/ SoftDeleteFolder(r) \/ CreateFile(r) \/ Fault(r)

Spec == Init /\ [][Next]_vars
-----------------------------------------------------------------------------
(* However the handlers interleave, and wherever folders are moved. *)

\* The tables and the handlers have the shapes declared above.
TypeOK ==
  /\ folders \in Tables
  /\ perms \in Bitmasks
  /\ files \in [FileIds -> FileRecords]
  /\ req \in [Requests -> Handlers]

\* The path of a live folder ends with its parent: the two columns are
\* written together, and the rewriting of the paths below a folder that moves
\* keeps their last id, in a cycle too.
ParentIsLast ==
  \A f \in FolderIds :
    IsLive(folders, f) /\ folders[f].parent # 0 =>
      folders[f].path # <<>> /\ Last(folders[f].path) = folders[f].parent

\* A folder that stays live under a deleted parent is out of reach: every
\* permission check on it fails.  This is what contains the races below.
OrphansAreLocked ==
  \A f \in FolderIds :
    IsLive(folders, f) /\ folders[f].parent # 0
      /\ ~IsLive(folders, folders[f].parent) => ~Resolves(folders, f)

-----------------------------------------------------------------------------
(* Of handlers that run one at a time, fail where they may, and move no      *)
(* folder into its own subtree.                                              *)

Quiet == InFlight = {}

\* The path of a live folder is its parent's path followed by the parent.
PathsAreHierarchical ==
  \A f \in FolderIds :
    IsLive(folders, f) /\ folders[f].parent # 0 =>
      folders[f].path = PathIn(folders, folders[f].parent)

\* No live folder or file is under a deleted folder.
NothingOutlivesItsFolder ==
  /\ \A f \in FolderIds :
       IsLive(folders, f) /\ folders[f].parent # 0 =>
         IsLive(folders, folders[f].parent)
  /\ \A g \in FileIds :
       files[g].state = "live" => IsLive(folders, files[g].folder)

\* Whoever creates a folder has on it, when the call returns, the permissions
\* they have on its parent, inherited or as a row of their own.
CreatorKeepsAccess ==
  [][\A r \in Requests :
       (/\ req[r].op = "CreateFolder" /\ ~At(r, "done")
        /\ req'[r].reply = "ok") =>
         LET f == req'[r].folder
         IN  /\ Resolves(folders', f)
             /\ Effective(folders', perms', f)
                  = Effective(folders', perms', req[r].parent)]_vars

\* A folder that its creator made without inheritance has a row for them.
BrokenFoldersAreGranted ==
  Quiet => \A f \in FolderIds :
    IsLive(folders, f) /\ ~folders[f].inherit => perms[f] # {}

\* The path of a file is that of its folder followed by the folder.
FilePathsAreCurrent ==
  \A g \in FileIds :
    files[g].state = "live" => files[g].path = PathIn(folders, files[g].folder)
=============================================================================
