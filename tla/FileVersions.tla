--------------------------- MODULE FileVersions ---------------------------
(***************************************************************************)
(* The file service of the server: UploadFile, UploadVersion, ModifyFile,  *)
(* DeleteFile, SetRetentionPolicy and DownloadFile, run by concurrent gRPC *)
(* handlers over the files and versions tables and the content-addressable *)
(* store (CAS).  No handler opens a transaction, so every call it makes on *)
(* the database or the store is one action here and the calls of different *)
(* handlers interleave.                                                    *)
(*                                                                         *)
(* Data is abstracted: a content stands for a byte stream and for its      *)
(* SHA-256 hash and URI at once (the store's names are its hashes), a      *)
(* folder is flat (the hierarchy is module FolderService), the caller's    *)
(* effective permissions are the constant Grants (how they are computed is *)
(* module EffectivePermissions), 0 is the NULL version_id.                 *)
(***************************************************************************)
EXTENDS Integers, FiniteSets

CONSTANTS
  Requests,      \* the calls a behaviour makes: each is served by a handler
  Folders, Names, Contents,
  None,          \* no folder, name or content
  Grants,        \* Grants[d]: permission bits the caller has on folder d
  Retentions,    \* values of version_retention (0 keeps every version)
  ForeignKeys,   \* whether a statement's connection enforces foreign keys
  Operations,    \* the RPCs the clients of this instance call
  Faults,        \* whether a call on the database or the store may fail
  NumSeeds,      \* number of files present at the start
  Seeds,         \* those files, each as UploadFile leaves it
  MaxFile,       \* bound: ids of files
  MaxVersion,    \* bound: ids of versions
  MaxInFlight    \* bound: handlers running at the same time

FileIds    == 1 .. MaxFile
VersionIds == 1 .. MaxVersion

\* The permission each RPC asks for on the folder.
Required == [UploadFile |-> "Create", UploadVersion |-> "Write",
             ModifyFile |-> "Rename", DeleteFile |-> "Delete",
             SetRetentionPolicy |-> "Admin", DownloadFile |-> "Read"]

Bits == {"Create", "Write", "Rename", "Delete", "Admin", "Read"}

ASSUME ConstantsAssumption ==
  /\ MaxFile \in Nat /\ MaxVersion \in Nat \ {0} /\ MaxInFlight \in Nat
  /\ Retentions \subseteq Nat /\ ForeignKeys \subseteq BOOLEAN
  /\ Faults \in BOOLEAN
  /\ Operations \subseteq DOMAIN Required \cup {"DeleteFolder"}
  /\ None \notin Folders /\ None \notin Names /\ None \notin Contents
  /\ Grants \in [Folders -> SUBSET Bits]
  /\ NumSeeds \in Nat /\ NumSeeds <= MaxFile /\ NumSeeds <= MaxVersion
  /\ Seeds \in [1 .. NumSeeds ->
                 [folder : Folders, name : Names, content : Contents]]

VARIABLES
  files,       \* table files: one row per id
  nextFile,    \* its AUTOINCREMENT counter
  versions,    \* table versions: one row per id
  nextVersion, \* its AUTOINCREMENT counter
  folders,     \* table folders: live, version_retention
  cas,         \* the contents in the store
  req          \* the handlers: program counter, arguments and locals

vars   == <<files, nextFile, versions, nextVersion, folders, cas, req>>
tables == <<files, nextFile, versions, nextVersion, folders, cas>>

-----------------------------------------------------------------------------
(* Rows and handlers. *)

FileRecords ==
  [state : {"absent", "live", "deleted"}, name : Names \cup {None},
   folder : Folders \cup {None}, storage : Contents \cup {None},
   version : VersionIds \cup {0}]

VersionRecords ==
  [state : {"absent", "stored", "pruned"}, file : FileIds \cup {0},
   num : VersionIds \cup {0}, hash : Contents \cup {None}]

\* A handler's program counter is the call it makes next.
Labels == {"idle", "done", "Permission", "GetFileByName", "Store", "GetFolder",
           "CreateFile", "ListVersions", "CreateVersion", "UpdateFileVersion",
           "GetVersionRetention", "SelectKept", "DeleteOldVersions",
           "RenameFile", "GetTarget", "MoveFile", "GetUpdatedFile",
           "SoftDeleteFile", "SetRetentionPolicy", "FindVersion", "Retrieve"}

Replies == {"none", "ok", "PermissionDenied", "AlreadyExists", "NotFound",
            "Internal"}

Handlers ==
  [pc : Labels, op : DOMAIN Required \cup {"none"}, reply : Replies,
   file : FileIds \cup {0}, version : VersionIds \cup {0},
   folder : Folders \cup {None}, target : Folders \cup {None},
   name : Names \cup {None}, content : Contents \cup {None},
   num : VersionIds \cup {0}, lastN : Nat, keep : SUBSET VersionIds]

Idle == [pc |-> "idle", op |-> "none", reply |-> "none", file |-> 0,
         version |-> 0, folder |-> None, target |-> None, name |-> None,
         content |-> None, num |-> 0, lastN |-> 0, keep |-> {}]

Init ==
  /\ files = [f \in FileIds |->
       IF f <= NumSeeds
       THEN [state |-> "live", name |-> Seeds[f].name, version |-> f,
             folder |-> Seeds[f].folder, storage |-> Seeds[f].content]
       ELSE [state |-> "absent", name |-> None, version |-> 0,
             folder |-> None, storage |-> None]]
  /\ nextFile = NumSeeds + 1
  /\ versions = [v \in VersionIds |->
       IF v <= NumSeeds
       THEN [state |-> "stored", file |-> v, num |-> 1,
             hash |-> Seeds[v].content]
       ELSE [state |-> "absent", file |-> 0, num |-> 0, hash |-> None]]
  /\ nextVersion = NumSeeds + 1
  /\ folders \in [Folders -> [live : {TRUE}, retention : Retentions]]
  /\ cas = {Seeds[i].content : i \in 1 .. NumSeeds}
  /\ req = [r \in Requests |-> Idle]

-----------------------------------------------------------------------------
(* What the queries read. *)

Live(f) == files[f].state = "live"

\* GetFileByName: some live file of the folder has the name.
NameTaken(d, n) ==
  \E f \in FileIds : Live(f) /\ files[f].folder = d /\ files[f].name = n

\* ListVersions.
VersionsOf(f) ==
  {v \in VersionIds : versions[v].state = "stored" /\ versions[v].file = f}

\* Mutant: counts the rows instead of reading their numbers.
IsNextNumberByCount(rows, n) == n = Cardinality(rows) + 1

\* The new version is vN, N one more than the greatest among the rows read.
IsNextNumber(rows, n) ==
  /\ \A v \in rows : versions[v].num < n
  /\ n = 1 \/ \E v \in rows : versions[v].num = n - 1

Newer(f, v) == {w \in VersionsOf(f) : w > v}

\* Mutants: the list in ascending order; one version too many.
KeepListOldest(f, n) ==
  {v \in VersionsOf(f) : Cardinality(VersionsOf(f) \ Newer(f, v)) <= n}
KeepListOneMore(f, n) == {v \in VersionsOf(f) : Cardinality(Newer(f, v)) <= n}

\* The versions to keep: version_id DESC LIMIT n.
KeepList(f, n) == {v \in VersionsOf(f) : Cardinality(Newer(f, v)) < n}

\* Does a statement that sets version_id to v satisfy the foreign key, on a
\* connection that enforces them (fk) or does not?
KeyHolds(fk, v) == fk => versions[v].state = "stored"

\* Mutant: no foreign key from files to versions.
DeleteHoldsUnchecked(fk, S) == TRUE

\* The same for a DELETE of the versions in S: no row may point to them.
DeleteHolds(fk, S) == fk => \A f \in FileIds : files[f].version \notin S
-----------------------------------------------------------------------------
(* Handlers.  Goto and Reply give the handler's record after a call that is *)
(* followed by another, and after the last one.                             *)

InFlight == {r \in Requests : req[r].pc \notin {"idle", "done"}}

At(r, label)   == req[r].pc = label
Goto(h, label) == [h EXCEPT !.pc = label]
Reply(h, code) == [h EXCEPT !.pc = "done", !.reply = code]
Becomes(r, h)  == req' = [req EXCEPT ![r] = h]

\* A call that only reads.
Reads(r, label, h) == At(r, label) /\ Becomes(r, h) /\ UNCHANGED tables

\* GetFile, the first call of an RPC on a file.  Its folder, and the content
\* a download of version 0 will serve, are remembered from here on.
GetFile(h) ==
  IF Live(h.file)
  THEN [Goto(h, "Permission") EXCEPT
          !.folder  = files[h.file].folder,
          !.content = IF h.op = "DownloadFile" THEN files[h.file].storage ELSE @]
  ELSE Reply(h, "NotFound")

\* A call arrives: an RPC on a folder starts with the permission check.
Begin(r, h) ==
  /\ At(r, "idle")
  /\ Cardinality(InFlight) < MaxInFlight
  /\ h.op \in Operations
  /\ Becomes(r, IF h.file = 0 THEN Goto(h, "Permission") ELSE GetFile(h))
  /\ UNCHANGED tables

\* What a client can ask: about any folder, and about any file there ever was.
KnownFiles == 1 .. nextFile - 1

UploadFile(r) == \E d \in Folders, n \in Names, c \in Contents :
  Begin(r, [Idle EXCEPT !.op = "UploadFile", !.folder = d, !.name = n,
                        !.content = c])

UploadVersion(r) == \E f \in KnownFiles, c \in Contents :
  Begin(r, [Idle EXCEPT !.op = "UploadVersion", !.file = f, !.content = c])

\* A new name, a new folder, new metadata or none of them.  The metadata, here a
\* content, is a column that is not modelled: what matters of it is the permission
\* it asks for, and that only matters without a name and a folder.
ModifyFile(r) ==
  \E f \in KnownFiles, n \in Names \cup {None}, d \in Folders \cup {None},
     m \in Contents \cup {None} :
    /\ m # None => n = None /\ d = None
    /\ Begin(r, [Idle EXCEPT !.op = "ModifyFile", !.file = f, !.name = n,
                             !.target = d, !.content = m])

DeleteFile(r) == \E f \in KnownFiles :
  Begin(r, [Idle EXCEPT !.op = "DeleteFile", !.file = f])

SetRetention(r) == \E d \in Folders, n \in Retentions :
  Begin(r, [Idle EXCEPT !.op = "SetRetentionPolicy", !.folder = d, !.lastN = n])

\* Version 0 asks for the default; the id of any file's version may be given.
DownloadFile(r) == \E f \in KnownFiles, v \in 0 .. nextVersion - 1 :
  Begin(r, [Idle EXCEPT !.op = "DownloadFile", !.file = f, !.version = v])

\* Mutants: a read permission is enough for all; a code no RPC defines.
CheckedRead(h, granted) == IF "Read" \in Grants[h.folder] THEN granted
                           ELSE Reply(h, "PermissionDenied")
CheckedUnknown(h, granted) == Reply(h, "Unknown")

\* What a call asks for: a ModifyFile that neither renames nor moves the file
\* has to be allowed to write for new metadata, and nothing for none.
Asked(h) ==
  IF h.op = "ModifyFile" /\ h.name = None /\ h.target = None
  THEN IF h.content = None THEN {} ELSE {"Write"}
  ELSE {Required[h.op]}

\* GetUserEffectivePermissions on the remembered folder and Has: no bit, the
\* administrator's included, stands for another.  A deleted folder is an error.
Checked(h, granted) ==
  IF ~folders[h.folder].live THEN Reply(h, "Internal")
  ELSE IF Asked(h) \subseteq Grants[h.folder] THEN granted
  ELSE Reply(h, "PermissionDenied")

\* Where each RPC goes once the permission is there.  ModifyFile asks for none
\* on the folder it moves to.
AfterPermission(h) ==
  CASE h.op = "UploadFile"         -> "GetFileByName"
    [] h.op = "UploadVersion"      -> "Store"
    [] h.op = "ModifyFile"         -> IF h.name # None THEN "RenameFile"
                                      ELSE IF h.target # None THEN "GetTarget"
                                      ELSE "GetUpdatedFile"
    [] h.op = "DeleteFile"         -> "SoftDeleteFile"
    [] h.op = "SetRetentionPolicy" -> "SetRetentionPolicy"
    [] h.op = "DownloadFile"       -> IF h.version = 0 THEN "Retrieve"
                                                       ELSE "FindVersion"

Permission(r) ==
  LET h == req[r]
  IN  Reads(r, "Permission", Checked(h, Goto(h, AfterPermission(h))))

-----------------------------------------------------------------------------
(* UploadFile and UploadVersion. *)

\* Mutant: the result of GetFileByName is not looked at.
GetFileByNameUnread(r) == Reads(r, "GetFileByName", Goto(req[r], "Store"))

\* Only a nil error refuses the upload: when the query itself fails the
\* handler goes on as if the name were free.
GetFileByName(r) ==
  LET h     == req[r]
      taken == NameTaken(h.folder, h.name)
  IN  /\ At(r, "GetFileByName")
      /\ \/ taken /\ Becomes(r, Reply(h, "AlreadyExists"))
         \/ (~taken \/ Faults) /\ Becomes(r, Goto(h, "Store"))
      /\ UNCHANGED tables

\* Mutant: the handler goes on before the storing goroutine has a result.
StoredUnawaited(c) == {cas, cas \cup {c}}

Stored(c) == {cas \cup {c}}

\* uploadStreamToCAS, seen from the handler: it returns once the whole stream
\* is in the store (module UploadStream has the inside of it).
Store(r) ==
  /\ At(r, "Store")
  /\ cas' \in Stored(req[r].content)
  /\ Becomes(r, Goto(req[r], IF req[r].op = "UploadFile" THEN "GetFolder"
                                                         ELSE "ListVersions"))
  /\ UNCHANGED <<files, nextFile, versions, nextVersion, folders>>

\* After the stream: the folder may have been deleted meanwhile.
GetFolder(r) ==
  LET h == req[r]
  IN  Reads(r, "GetFolder", IF folders[h.folder].live
                            THEN Goto(h, "CreateFile") ELSE Reply(h, "Internal"))

\* A row whose version_id is still NULL; its first version will be v1.
CreateFile(r) ==
  LET h == req[r]
  IN  /\ At(r, "CreateFile")
      /\ nextFile <= MaxFile
      /\ files' = [files EXCEPT ![nextFile] =
                     [state |-> "live", name |-> h.name, folder |-> h.folder,
                      storage |-> h.content, version |-> 0]]
      /\ nextFile' = nextFile + 1
      /\ Becomes(r, [Goto(h, "CreateVersion") EXCEPT !.file = nextFile,
                                                     !.num = 1])
      /\ UNCHANGED <<versions, nextVersion, folders, cas>>

\* UploadVersion's choice of vN.  The query's error is dropped, and rows.Err()
\* is not asked for: a query that fails reads as an empty list, one that breaks
\* off as a part of it, in the order of created_at, whose second two versions
\* may share.
ListVersions(r) ==
  /\ At(r, "ListVersions")
  /\ \E rows \in SUBSET VersionsOf(req[r].file), n \in VersionIds :
       /\ rows = VersionsOf(req[r].file) \/ Faults
       /\ IsNextNumber(rows, n)
       /\ Becomes(r, [Goto(req[r], "CreateVersion") EXCEPT !.num = n])
  /\ UNCHANGED tables

CreateVersion(r) ==
  LET h == req[r]
  IN  /\ At(r, "CreateVersion")
      /\ nextVersion <= MaxVersion
      /\ versions' = [versions EXCEPT ![nextVersion] =
                        [state |-> "stored", file |-> h.file, num |-> h.num,
                         hash |-> h.content]]
      /\ nextVersion' = nextVersion + 1
      /\ Becomes(r, [Goto(h, "UpdateFileVersion") EXCEPT !.version = nextVersion])
      /\ UNCHANGED <<files, nextFile, folders, cas>>

\* Mutants: storage_path is left alone; nothing is written; the row comes back.
LinkedNoPath(h)   == [files EXCEPT ![h.file].version = h.version]
LinkedNothing(h)  == files
LinkedRestored(h) == [files EXCEPT ![h.file] =
                        [@ EXCEPT !.version = h.version, !.storage = h.content,
                                  !.state = "live"]]

\* One UPDATE of version_id and storage_path, whatever the row's state.
Linked(h) == [files EXCEPT ![h.file] =
                [@ EXCEPT !.version = h.version, !.storage = h.content]]

\* It fails on a foreign key that does not hold.  UploadFile ends here.
UpdateFileVersion(r) ==
  LET h == req[r]
  IN  /\ At(r, "UpdateFileVersion")
      /\ \E fk \in ForeignKeys :
           IF KeyHolds(fk, h.version)
           THEN /\ files' = Linked(h)
                /\ Becomes(r, IF h.op = "UploadFile" THEN Reply(h, "ok")
                              ELSE Goto(h, "GetVersionRetention"))
           ELSE Becomes(r, Reply(h, "Internal")) /\ UNCHANGED files
      /\ UNCHANGED <<nextFile, versions, nextVersion, folders, cas>>

\* Of the remembered folder; the error is dropped too: 0, and a query that
\* fails, keep every version.
GetVersionRetention(r) ==
  LET h == req[r]
      n == folders[h.folder].retention
  IN  /\ At(r, "GetVersionRetention")
      /\ \/ n > 0 /\ Becomes(r, [Goto(h, "SelectKept") EXCEPT !.lastN = n])
         \/ (n = 0 \/ Faults) /\ Becomes(r, Reply(h, "ok"))
      /\ UNCHANGED tables

\* DeleteOldVersions, first statement: the ids to keep, the newest first.  Here
\* too a query that breaks off ends the list early.
SelectKept(r) ==
  LET h == req[r]
  IN  \E n \in 0 .. h.lastN :
        /\ n = h.lastN \/ Faults
        /\ LET keep == KeepList(h.file, n)
           IN  Reads(r, "SelectKept",
                     IF keep = {} THEN Reply(h, "ok")
                     ELSE [Goto(h, "DeleteOldVersions") EXCEPT !.keep = keep])

\* Second statement: delete every version of the file that is not in that
\* list.  Its error is dropped; a foreign key that fails deletes nothing.
DeleteOldVersions(r) ==
  LET old == VersionsOf(req[r].file) \ req[r].keep
  IN  /\ At(r, "DeleteOldVersions")
      /\ \E fk \in ForeignKeys :
           versions' = [v \in VersionIds |->
                         IF v \in old /\ DeleteHolds(fk, old)
                         THEN [versions[v] EXCEPT !.state = "pruned"]
                         ELSE versions[v]]
      /\ Becomes(r, Reply(req[r], "ok"))
      /\ UNCHANGED <<files, nextFile, nextVersion, folders, cas>>

-----------------------------------------------------------------------------
(* ModifyFile: each update is a statement of its own. *)

\* One UPDATE of the handler's file row.
Updates(r, label, row, h) ==
  /\ At(r, label)
  /\ files' = [files EXCEPT ![req[r].file] = row]
  /\ Becomes(r, h)
  /\ UNCHANGED <<nextFile, versions, nextVersion, folders, cas>>

RenameFile(r) ==
  LET h == req[r]
  IN  Updates(r, "RenameFile", [files[h.file] EXCEPT !.name = h.name],
              Goto(h, IF h.target # None THEN "GetTarget" ELSE "GetUpdatedFile"))

\* Mutant: a deleted folder is accepted.
GetTargetAny(r) == Reads(r, "GetTarget", Goto(req[r], "MoveFile"))

\* A target that is gone is refused, but a new name has been written by then.
GetTarget(r) ==
  LET h == req[r]
  IN  Reads(r, "GetTarget", IF folders[h.target].live
                            THEN Goto(h, "MoveFile") ELSE Reply(h, "NotFound"))

MoveFile(r) ==
  LET h == req[r]
  IN  Updates(r, "MoveFile", [files[h.file] EXCEPT !.folder = h.target],
              Goto(h, "GetUpdatedFile"))

\* The last GetFile, for the response.
GetUpdatedFile(r) ==
  LET h == req[r]
  IN  Reads(r, "GetUpdatedFile",
            Reply(h, IF Live(h.file) THEN "ok" ELSE "Internal"))

-----------------------------------------------------------------------------
(* DeleteFile, SetRetentionPolicy, DownloadFile. *)

SoftDeleteFile(r) ==
  LET h == req[r]
  IN  Updates(r, "SoftDeleteFile", [files[h.file] EXCEPT !.state = "deleted"],
              Reply(h, "ok"))

\* The update does not look whether the folder is deleted.
SetRetentionPolicy(r) ==
  /\ At(r, "SetRetentionPolicy")
  /\ folders' = [folders EXCEPT ![req[r].folder].retention = req[r].lastN]
  /\ Becomes(r, Reply(req[r], "ok"))
  /\ UNCHANGED <<files, nextFile, versions, nextVersion, cas>>

\* Mutant: the version is looked up among those of every file.
DownloadableAny(f) == {v \in VersionIds : versions[v].state = "stored"}

Downloadable(f) == VersionsOf(f)

FindVersion(r) ==
  LET h == req[r]
  IN  Reads(r, "FindVersion",
            IF h.version \in Downloadable(h.file)
            THEN [Goto(h, "Retrieve") EXCEPT !.content = versions[h.version].hash]
            ELSE Reply(h, "NotFound"))

\* RetrieveByURI.
Retrieve(r) ==
  LET h == req[r]
  IN  Reads(r, "Retrieve", Reply(h, IF h.content \in cas THEN "ok" ELSE "Internal"))

(***************************************************************************)
(* The folder service's DeleteFolder, on a folder without subfolders: one   *)
(* transaction deletes the folder and the files in it.                      *)
(***************************************************************************)
DeleteFolder(d) ==
  /\ "DeleteFolder" \in Operations
  /\ Cardinality(InFlight) < MaxInFlight
  /\ folders[d].live
  /\ folders' = [folders EXCEPT ![d].live = FALSE]
  /\ files' = [f \in FileIds |->
                 IF Live(f) /\ files[f].folder = d
                 THEN [files[f] EXCEPT !.state = "deleted"]
                 ELSE files[f]]
  /\ UNCHANGED <<nextFile, versions, nextVersion, cas, req>>

(***************************************************************************)
(* A failed call.  The handler returns Internal and undoes nothing of what  *)
(* its earlier calls wrote; a crash of the server leaves the same tables,   *)
(* with no reply.  A statement that is committed though its answer is lost  *)
(* is its action and then the fault of the next call: the handler makes     *)
(* none, and the tables are the same (a last call's reply is not, which no  *)
(* property is about).  DeleteOldVersions' errors are dropped; the three    *)
(* calls excluded here say above what their failure does.                   *)
(***************************************************************************)
Fault(r) ==
  /\ Faults
  /\ r \in InFlight
  /\ req[r].pc \notin {"GetFileByName", "ListVersions", "GetVersionRetention"}
  /\ Becomes(r, Reply(req[r], IF req[r].pc \in {"SelectKept", "DeleteOldVersions"}
                              THEN "ok" ELSE "Internal"))
  /\ UNCHANGED tables

\* Every call was answered and the clients make no more.
Finished == (\A r \in Requests : At(r, "done")) /\ UNCHANGED vars

Next ==
  \/ \E r \in Requests :
       \/ UploadFile(r) \/ UploadVersion(r) \/ ModifyFile(r)
       \/ DeleteFile(r) \/ SetRetention(r) \/ DownloadFile(r)
       \/ Permission(r) \/ GetFileByName(r) \/ Store(r)
       \/ GetFolder(r) \/ CreateFile(r) \/ ListVersions(r) \/ CreateVersion(r)
       \/ UpdateFileVersion(r) \/ GetVersionRetention(r) \/ SelectKept(r)
       \/ DeleteOldVersions(r) \/ RenameFile(r) \/ GetTarget(r) \/ MoveFile(r)
       \/ GetUpdatedFile(r) \/ SoftDeleteFile(r) \/ SetRetentionPolicy(r)
       \/ FindVersion(r) \/ Retrieve(r) \/ Fault(r)
  \/ \E d \in Folders : DeleteFolder(d)
  \/ Finished

Spec == Init /\ [][Next]_vars
-----------------------------------------------------------------------------
(* However the handlers interleave and wherever they fail. *)

\* The rows, counters and handlers have the shapes declared above.
TypeOK ==
  /\ files \in [FileIds -> FileRecords]
  /\ nextFile \in 1 .. MaxFile + 1
  /\ versions \in [VersionIds -> VersionRecords]
  /\ nextVersion \in 1 .. MaxVersion + 1
  /\ folders \in [Folders -> [live : BOOLEAN, retention : Nat]]
  /\ cas \subseteq Contents
  /\ req \in [Requests -> Handlers]

\* No row of either table names a content that the store does not have: both
\* uploads store the whole stream before they write any row.
RowsHaveContent ==
  /\ \A f \in FileIds :
       files[f].state # "absent" => files[f].storage \in cas
  /\ \A v \in VersionIds :
       versions[v].state # "absent" => versions[v].hash \in cas

\* The content a file serves by default is the content of the version it
\* points to, and that version is its own, whichever upload linked last and
\* even after retention deleted the version's row.
PointerMatchesContent ==
  \A f \in FileIds :
    LET v == files[f].version
    IN  v # 0 => /\ versions[v].state # "absent"
                 /\ versions[v].file = f
                 /\ versions[v].hash = files[f].storage

\* c was uploaded to file f, as its seed or by a call.
Uploaded(f, c) ==
  \/ f <= NumSeeds /\ Seeds[f].content = c
  \/ \E u \in Requests : /\ req[u].op \in {"UploadFile", "UploadVersion"}
                          /\ req[u].file = f /\ req[u].content = c

\* A download that was served got a content uploaded to that very file, though
\* it names the version by an id of the caller's choice.
DownloadsServeTheFile ==
  \A r \in Requests :
    (req[r].op = "DownloadFile" /\ req[r].reply = "ok") =>
      Uploaded(req[r].file, req[r].content)

\* Deletion is final: a handler that read a file before it was deleted does
\* not bring the row back, and the id of a pruned version is not used again.
DeletionIsFinal ==
  [][/\ \A f \in FileIds :
          files[f].state = "deleted" => files'[f].state = "deleted"
     /\ \A v \in VersionIds :
          versions[v].state = "pruned" => versions'[v] = versions[v]]_vars

-----------------------------------------------------------------------------
(* Of handlers that run one at a time and do not fail.  Each is also asked   *)
(* of concurrent or failing handlers, where the code breaks it.             *)

Quiet == InFlight = {}

\* Two live files of a folder never have the same name: UploadFile refuses a
\* name that is taken before it streams the content.
NamesUnique ==
  \A f, g \in FileIds :
    (/\ Live(f) /\ Live(g)
     /\ files[f].folder = files[g].folder
     /\ files[f].name = files[g].name) => f = g

\* UploadFile creates a file only under a name that is free at that moment: the
\* lookup before the stream is worth something as long as calls are serial
\* (upload.go:98, upload.go:125).
UploadsTakeFreeNames ==
  [][\A f \in FileIds :
       files[f].state = "absent" /\ files'[f].state = "live" =>
         ~NameTaken(files'[f].folder, files'[f].name)]_vars

\* Two versions of a file never have the same name vN, the ones that retention
\* deleted included.
VersionNumbersUnique ==
  \A v, w \in VersionIds :
    (/\ versions[v].state # "absent" /\ versions[w].state # "absent"
     /\ versions[v].file = versions[w].file
     /\ versions[v].num = versions[w].num) => v = w

\* Between calls, what DownloadFile serves for version 0 is the version that
\* was created last.
DefaultIsLatest ==
  Quiet => \A f \in FileIds : Live(f) => Newer(f, files[f].version) = {}

\* The current version of a file is a row of the versions table: retention
\* never deletes it.
CurrentVersionKept ==
  \A f \in FileIds :
    files[f].version # 0 => versions[files[f].version].state = "stored"

\* Between calls every live file has a current version: no row is left as
\* CreateFile wrote it.
FilesHaveVersions ==
  Quiet => \A f \in FileIds : Live(f) => files[f].version # 0

\* No file outlives its folder: DeleteFolder deletes the files with it, and no
\* call puts a live file into a deleted folder.
NoFileOutlivesItsFolder ==
  \A f \in FileIds : Live(f) => folders[files[f].folder].live

\* The step that prunes a file ends with min(N, what was there) versions, N
\* the retention it read, and every version it deletes is older than every
\* version it leaves.
PruneLeavesLastN ==
  [][\A r \in Requests :
       (At(r, "DeleteOldVersions") /\ req'[r].pc = "done") =>
         LET had  == VersionsOf(req[r].file)
             left == VersionsOf(req[r].file)'
             n    == req[r].lastN
         IN  /\ Cardinality(left) =
                   IF Cardinality(had) < n THEN Cardinality(had) ELSE n
             /\ \A v \in had \ left, w \in left : v < w]_vars

\* A live file is renamed, moved, given another version or deleted by a file
\* call only while the caller has the permission for that on the folder the
\* file is in.
WritesAreGranted ==
  [][req' # req => \A f \in FileIds :
       LET old == files[f]
           new == files'[f]
       IN  old.state = "live" =>
             /\ new.name # old.name \/ new.folder # old.folder
                  => "Rename" \in Grants[old.folder]
             /\ new.version # old.version /\ old.version # 0
                  => "Write" \in Grants[old.folder]
             /\ new.state # old.state => "Delete" \in Grants[old.folder]]_vars
=============================================================================
