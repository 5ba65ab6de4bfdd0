------------------------ MODULE FileVersionsProofs ------------------------
(***************************************************************************)
(* Proofs about FileVersions, for any number of requests, files, versions  *)
(* and folders.  First, whether or not foreign keys are enforced and calls *)
(* fail: its type invariant, that no row names a content the store lacks,  *)
(* that a file serves the content of the version it points to, that        *)
(* deletion is final, and that a download gets what was uploaded to its    *)
(* file.  Then, of handlers that run one at a time and do not fail: what   *)
(* the code relies on nobody changing between its calls.                   *)
(***************************************************************************)
EXTENDS FileVersions, FiniteSetTheorems, WellFoundedInduction, TLAPS

Busy(h) == h.pc \notin {"idle", "done"}

Exists(f) == f \in FileIds /\ files[f].state # "absent"

\* The tables: rows at or above a counter are unused, a used row names a
\* folder, and rows and contents fit together as the two properties say.
TablesInv ==
  /\ \A f \in FileIds : f >= nextFile =>
       files[f].state = "absent" /\ files[f].version = 0
  /\ \A v \in VersionIds : v >= nextVersion => versions[v].state = "absent"
  /\ \A f \in FileIds : files[f].state # "absent" => files[f].folder \in Folders
  /\ RowsHaveContent
  /\ PointerMatchesContent

\* A handler between two calls: what the calls it made established.
HandlerInv(h) ==
  /\ Busy(h) => h.op # "none" /\ h.folder \in Folders
  /\ Busy(h) /\ h.op \notin {"UploadFile", "SetRetentionPolicy"} =>
       Exists(h.file)
  /\ h.pc \in {"Permission", "GetFileByName", "Store"}
       /\ h.op \in {"UploadFile", "UploadVersion"} => h.content \in Contents
  /\ h.pc = "GetFileByName" => h.op = "UploadFile"
  /\ h.pc = "Store" => h.op \in {"UploadFile", "UploadVersion"}
  /\ h.pc = "ListVersions" => h.op = "UploadVersion"
  /\ h.pc \in {"RenameFile", "GetTarget", "MoveFile"} => h.op = "ModifyFile"
  /\ h.pc = "SoftDeleteFile" => h.op = "DeleteFile"
  /\ h.pc \in {"GetFolder", "CreateFile", "ListVersions", "CreateVersion",
               "UpdateFileVersion"} => h.content \in cas
  /\ h.pc \in {"CreateVersion", "UpdateFileVersion"} => Exists(h.file)
  /\ h.pc = "UpdateFileVersion" =>
       /\ h.version \in VersionIds
       /\ versions[h.version].state # "absent"
       /\ versions[h.version].file = h.file
       /\ versions[h.version].hash = h.content
  /\ h.pc \in {"GetTarget", "MoveFile"} => h.target \in Folders

IInv == TypeOK /\ TablesInv /\ \A r \in Requests : HandlerInv(req[r])
-----------------------------------------------------------------------------
(* Lemmas about the handlers' records and about steps in general. *)

TablesType ==
  /\ files \in [FileIds -> FileRecords]
  /\ nextFile \in 1 .. MaxFile + 1
  /\ versions \in [VersionIds -> VersionRecords]
  /\ nextVersion \in 1 .. MaxVersion + 1
  /\ folders \in [Folders -> [live : BOOLEAN, retention : Nat]]
  /\ cas \subseteq Contents

LEMMA RpcNames ==
  DOMAIN Required = {"UploadFile", "UploadVersion", "ModifyFile", "DeleteFile",
                     "SetRetentionPolicy", "DownloadFile"}
BY DEF Required

\* Goto and Reply change the program counter and the reply only.
LEMMA HandlerSteps ==
  ASSUME NEW h \in Handlers
  PROVE  /\ \A l \in Labels : Goto(h, l) \in Handlers
         /\ \A c \in Replies : Reply(h, c) \in Handlers
<1>1. ASSUME NEW l \in Labels PROVE Goto(h, l) \in Handlers
  BY DEF Handlers, Goto
<1>2. ASSUME NEW c \in Replies PROVE Reply(h, c) \in Handlers
  BY DEF Handlers, Reply, Labels
<1> QED BY <1>1, <1>2

LEMMA IdleType == Idle \in Handlers
BY DEF Handlers, Idle, Labels, Replies

\* What a step keeps of the tables, as far as the handlers are concerned.
Grows ==
  /\ \A f \in FileIds : files[f].state # "absent" => files'[f].state # "absent"
  /\ cas \subseteq cas'
  /\ \A v \in VersionIds : versions[v].state # "absent" =>
       /\ versions'[v].state # "absent"
       /\ versions'[v].file = versions[v].file
       /\ versions'[v].hash = versions[v].hash

LEMMA HandlersStable ==
  ASSUME Grows, NEW q \in Requests, req'[q] = req[q], HandlerInv(req[q])
  PROVE  HandlerInv(req[q])'
BY DEF Grows, HandlerInv, Exists, Busy

\* A step of handler r keeps the invariant if the tables keep theirs and the
\* handler is left with a record that has its own.
LEMMA StepInv ==
  ASSUME IInv, NEW r \in Requests, req' = [req EXCEPT ![r] = req'[r]],
         req'[r] \in Handlers, Grows, TablesType', TablesInv',
         HandlerInv(req[r])'
  PROVE  IInv'
<1>1. TypeOK'
  BY DEF IInv, TypeOK, TablesType
<1>2. ASSUME NEW q \in Requests PROVE HandlerInv(req[q])'
  <2>1. CASE q = r
    BY <2>1
  <2>2. CASE q # r
    <3>1. req'[q] = req[q]
      BY <2>2 DEF IInv, TypeOK
    <3>2. HandlerInv(req[q])
      BY DEF IInv
    <3> QED BY <3>1, <3>2, HandlersStable
  <2> QED BY <2>1, <2>2
<1> QED BY <1>1, <1>2 DEF IInv

\* A call that only reads can break nothing but its handler's own invariant.
LEMMA ReadInv ==
  ASSUME IInv, NEW r \in Requests, UNCHANGED tables,
         req' = [req EXCEPT ![r] = req'[r]],
         req'[r] \in Handlers, HandlerInv(req[r])'
  PROVE  IInv'
<1>1. Grows
  BY DEF Grows, tables
<1>2. TablesType'
  BY DEF IInv, TypeOK, TablesType, tables
<1>3. TablesInv'
  BY DEF IInv, TablesInv, RowsHaveContent, PointerMatchesContent, tables
<1> QED BY <1>1, <1>2, <1>3, StepInv

\* A handler that has replied asserts nothing of the tables.
LEMMA ReplyInv ==
  ASSUME IInv, NEW r \in Requests, UNCHANGED tables, NEW c \in Replies,
         Becomes(r, Reply(req[r], c))
  PROVE  IInv'
<1>1. req[r] \in Handlers /\ req \in [Requests -> Handlers]
  BY DEF IInv, TypeOK
<1>2. req'[r] = Reply(req[r], c) /\ req' = [req EXCEPT ![r] = req'[r]]
  BY <1>1 DEF Becomes
<1>3. req'[r] \in Handlers
  BY <1>1, <1>2, HandlerSteps
<1>4. req'[r].pc = "done"
  BY <1>1, <1>2 DEF Reply, Handlers
<1>5. HandlerInv(req[r])'
  BY <1>4 DEF HandlerInv, Busy
<1> QED BY <1>2, <1>3, <1>5, ReadInv

\* A call that reads and goes on to another with its record as it is.
LEMMA GotoInv ==
  ASSUME IInv, NEW r \in Requests, UNCHANGED tables, NEW l \in Labels,
         Becomes(r, Goto(req[r], l)), HandlerInv(req[r])'
  PROVE  IInv'
<1>1. req[r] \in Handlers /\ req \in [Requests -> Handlers]
  BY DEF IInv, TypeOK
<1>2. req'[r] = Goto(req[r], l) /\ req' = [req EXCEPT ![r] = req'[r]]
  BY <1>1 DEF Becomes
<1>3. req'[r] \in Handlers
  BY <1>1, <1>2, HandlerSteps
<1> QED BY <1>2, <1>3, ReadInv
-----------------------------------------------------------------------------
(* The calls that only read. *)

\* What every call that can arrive has.
CallInv(h) ==
  /\ h \in Handlers
  /\ h.op # "none"
  /\ h.file = 0 <=> h.op \in {"UploadFile", "SetRetentionPolicy"}
  /\ h.file = 0 => h.folder \in Folders
  /\ h.op \in {"UploadFile", "UploadVersion"} => h.content \in Contents

LEMMA KnownIds ==
  ASSUME IInv
  PROVE  /\ KnownFiles \subseteq FileIds
         /\ 0 .. nextVersion - 1 \subseteq VersionIds \cup {0}
         /\ 0 \notin FileIds
<1>1. nextFile \in 1 .. MaxFile + 1 /\ nextVersion \in 1 .. MaxVersion + 1
  BY DEF IInv, TypeOK
<1> QED BY <1>1, ConstantsAssumption DEF FileIds, VersionIds, KnownFiles

LEMMA BeginInv ==
  ASSUME IInv, NEW r \in Requests, NEW h, CallInv(h), Begin(r, h)
  PROVE  IInv'
<1>1. Becomes(r, IF h.file = 0 THEN Goto(h, "Permission") ELSE GetFile(h))
  BY DEF Begin
<1>2. CallInv(h)
  OBVIOUS
<1>3. req \in [Requests -> Handlers] /\ UNCHANGED tables
  BY DEF Begin, IInv, TypeOK
<1>4. req' = [req EXCEPT ![r] = req'[r]]
  BY <1>1, <1>3 DEF Becomes
<1>5. CASE h.file = 0
  <2>1. req'[r] = Goto(h, "Permission")
    BY <1>1, <1>3, <1>5 DEF Becomes
  <2>2. req'[r] \in Handlers
    BY <1>2, <2>1, HandlerSteps DEF CallInv, Labels
  <2>3. HandlerInv(req[r])'
    BY <1>2, <1>5, <2>1 DEF CallInv, HandlerInv, Busy, Goto, Handlers
  <2> QED BY <1>3, <1>4, <2>2, <2>3, ReadInv
<1>6. CASE h.file # 0
  <2>1. h.file \in FileIds
    BY <1>2, <1>6 DEF CallInv, Handlers
  <2>2. req'[r] = GetFile(h)
    BY <1>1, <1>3, <1>6 DEF Becomes
  <2>3. CASE ~Live(h.file)
    <3>1. req'[r] = Reply(h, "NotFound")
      BY <2>2, <2>3 DEF GetFile
    <3>2. req'[r] \in Handlers
      BY <1>2, <3>1, HandlerSteps DEF CallInv, Replies
    <3>3. HandlerInv(req[r])'
      BY <1>2, <3>1 DEF CallInv, HandlerInv, Busy, Reply, Handlers
    <3> QED BY <1>3, <1>4, <3>2, <3>3, ReadInv
  <2>4. CASE Live(h.file)
    <3> DEFINE c == IF h.op = "DownloadFile" THEN files[h.file].storage
                                             ELSE h.content
    <3>1. files[h.file] \in FileRecords /\ files[h.file].folder \in Folders
      BY <2>1, <2>4 DEF IInv, TypeOK, TablesInv, Live
    <3>2. Goto(h, "Permission") \in Handlers
      BY <1>2, HandlerSteps DEF CallInv, Labels
    <3>3. req'[r] = [Goto(h, "Permission") EXCEPT !.folder = files[h.file].folder,
                                                  !.content = c]
      BY <1>2, <2>2, <2>4, <3>2 DEF GetFile, CallInv, Goto, Handlers
    <3>4. c \in Contents \cup {None}
      BY <1>2, <3>1 DEF CallInv, Handlers, FileRecords
    <3>5. req'[r] \in Handlers
      BY <3>1, <3>2, <3>3, <3>4 DEF Handlers
    <3>6. /\ req'[r].pc = "Permission" /\ req'[r].op = h.op
          /\ req'[r].file = h.file /\ req'[r].folder \in Folders
          /\ req'[r].content = c
          /\ req'[r].name = h.name /\ req'[r].target = h.target
      BY <1>2, <3>1, <3>2, <3>3 DEF CallInv, Goto, Handlers
    <3>7. Exists(h.file)'
      BY <1>3, <2>1, <2>4 DEF Exists, Live, tables
    <3>8. h.target \in Folders \cup {None}
      BY <1>2 DEF CallInv, Handlers
    <3>9. HandlerInv(req[r])'
      BY <1>1, <1>2, <3>6, <3>7, <3>8 DEF CallInv, HandlerInv, Busy, Exists
    <3> QED BY <1>3, <1>4, <3>5, <3>9, ReadInv
  <2> QED BY <2>3, <2>4
<1> QED BY <1>5, <1>6

\* A call arrives.
Arrives(r) == \/ UploadFile(r) \/ UploadVersion(r) \/ ModifyFile(r)
              \/ DeleteFile(r) \/ SetRetention(r) \/ DownloadFile(r)

LEMMA Arrivals ==
  ASSUME IInv, NEW r \in Requests, Arrives(r)
  PROVE  \E h : CallInv(h) /\ Begin(r, h)
<1>1. CASE UploadFile(r)
  <2>1. PICK d \in Folders, n \in Names, c \in Contents :
          Begin(r, [Idle EXCEPT !.op = "UploadFile", !.folder = d, !.name = n,
                                 !.content = c])
    BY <1>1 DEF UploadFile
  <2>2. PICK h : h = [Idle EXCEPT !.op = "UploadFile", !.folder = d, !.name = n,
                                 !.content = c]
    OBVIOUS
  <2>3. h \in Handlers
    BY <2>1, <2>2, KnownIds, IdleType, RpcNames, ConstantsAssumption DEF Handlers
  <2>4. h.op = "UploadFile" /\ h.file = 0 /\ h.folder = d /\ h.content = c
    BY <2>2 DEF Idle
  <2>5. CallInv(h)
    BY <2>1, <2>3, <2>4, KnownIds DEF CallInv
  <2> QED BY <2>1, <2>2, <2>5
<1>2. CASE UploadVersion(r)
  <2>1. PICK f \in KnownFiles, c \in Contents :
          Begin(r, [Idle EXCEPT !.op = "UploadVersion", !.file = f, !.content = c])
    BY <1>2 DEF UploadVersion
  <2>2. PICK h : h = [Idle EXCEPT !.op = "UploadVersion", !.file = f, !.content = c]
    OBVIOUS
  <2>3. h \in Handlers
    BY <2>1, <2>2, KnownIds, IdleType, RpcNames, ConstantsAssumption DEF Handlers
  <2>4. h.op = "UploadVersion" /\ h.file = f /\ h.content = c
    BY <2>2 DEF Idle
  <2>5. CallInv(h)
    BY <2>1, <2>3, <2>4, KnownIds DEF CallInv
  <2> QED BY <2>1, <2>2, <2>5
<1>3. CASE ModifyFile(r)
  <2>1. PICK f \in KnownFiles, n \in Names \cup {None}, d \in Folders \cup {None},
             m \in Contents \cup {None} :
          Begin(r, [Idle EXCEPT !.op = "ModifyFile", !.file = f, !.name = n,
                                 !.target = d, !.content = m])
    BY <1>3 DEF ModifyFile
  <2>2. PICK h : h = [Idle EXCEPT !.op = "ModifyFile", !.file = f, !.name = n,
                                 !.target = d, !.content = m]
    OBVIOUS
  <2>3. h \in Handlers
    BY <2>1, <2>2, KnownIds, IdleType, RpcNames, ConstantsAssumption DEF Handlers
  <2>4. h.op = "ModifyFile" /\ h.file = f /\ h.name = n /\ h.target = d
    BY <2>2 DEF Idle
  <2>5. CallInv(h)
    BY <2>1, <2>3, <2>4, KnownIds DEF CallInv
  <2> QED BY <2>1, <2>2, <2>5
<1>4. CASE DeleteFile(r)
  <2>1. PICK f \in KnownFiles :
          Begin(r, [Idle EXCEPT !.op = "DeleteFile", !.file = f])
    BY <1>4 DEF DeleteFile
  <2>2. PICK h : h = [Idle EXCEPT !.op = "DeleteFile", !.file = f]
    OBVIOUS
  <2>3. h \in Handlers
    BY <2>1, <2>2, KnownIds, IdleType, RpcNames, ConstantsAssumption DEF Handlers
  <2>4. h.op = "DeleteFile" /\ h.file = f
    BY <2>2 DEF Idle
  <2>5. CallInv(h)
    BY <2>1, <2>3, <2>4, KnownIds DEF CallInv
  <2> QED BY <2>1, <2>2, <2>5
<1>5. CASE SetRetention(r)
  <2>1. PICK d \in Folders, n \in Retentions :
          Begin(r, [Idle EXCEPT !.op = "SetRetentionPolicy", !.folder = d, !.lastN = n])
    BY <1>5 DEF SetRetention
  <2>2. PICK h : h = [Idle EXCEPT !.op = "SetRetentionPolicy", !.folder = d, !.lastN = n]
    OBVIOUS
  <2>3. h \in Handlers
    BY <2>1, <2>2, KnownIds, IdleType, RpcNames, ConstantsAssumption DEF Handlers
  <2>4. h.op = "SetRetentionPolicy" /\ h.file = 0 /\ h.folder = d
    BY <2>2 DEF Idle
  <2>5. CallInv(h)
    BY <2>1, <2>3, <2>4, KnownIds DEF CallInv
  <2> QED BY <2>1, <2>2, <2>5
<1>6. CASE DownloadFile(r)
  <2>1. PICK f \in KnownFiles, v \in 0 .. nextVersion - 1 :
          Begin(r, [Idle EXCEPT !.op = "DownloadFile", !.file = f, !.version = v])
    BY <1>6 DEF DownloadFile
  <2>2. PICK h : h = [Idle EXCEPT !.op = "DownloadFile", !.file = f, !.version = v]
    OBVIOUS
  <2>3. h \in Handlers
    BY <2>1, <2>2, KnownIds, IdleType, RpcNames, ConstantsAssumption DEF Handlers
  <2>4. h.op = "DownloadFile" /\ h.file = f
    BY <2>2 DEF Idle
  <2>5. CallInv(h)
    BY <2>1, <2>3, <2>4, KnownIds DEF CallInv
  <2> QED BY <2>1, <2>2, <2>5
<1> QED BY <1>1, <1>2, <1>3, <1>4, <1>5, <1>6 DEF Arrives

LEMMA PermissionInv ==
  ASSUME IInv, NEW r \in Requests, Permission(r)
  PROVE  IInv'
<1>1. req[r] \in Handlers /\ req \in [Requests -> Handlers] /\ HandlerInv(req[r])
  BY DEF IInv, TypeOK
<1> DEFINE l == AfterPermission(req[r])
<1>2. UNCHANGED tables /\ req[r].pc = "Permission"
  BY DEF Permission, Reads, At
<1>3. CASE \E c \in {"Internal", "PermissionDenied"} : Becomes(r, Reply(req[r], c))
  BY <1>2, <1>3, ReplyInv DEF Replies
<1>4. CASE Becomes(r, Goto(req[r], l))
  <2>1. /\ req[r].op = "UploadFile" => l = "GetFileByName"
        /\ req[r].op = "UploadVersion" => l = "Store"
        /\ req[r].op = "ModifyFile" =>
             l = IF req[r].name # None THEN "RenameFile"
                 ELSE IF req[r].target # None THEN "GetTarget" ELSE "GetUpdatedFile"
        /\ req[r].op = "DeleteFile" => l = "SoftDeleteFile"
        /\ req[r].op = "SetRetentionPolicy" => l = "SetRetentionPolicy"
        /\ req[r].op = "DownloadFile" =>
             l = IF req[r].version = 0 THEN "Retrieve" ELSE "FindVersion"
    BY DEF AfterPermission
  <2>2. req[r].op \in DOMAIN Required
    BY <1>1, <1>2 DEF HandlerInv, Busy, Handlers
  <2>3. l \in Labels
    BY <2>1, <2>2, RpcNames DEF Labels
  <2> HIDE DEF l
  <2>4. req'[r] = Goto(req[r], l)
    BY <1>1, <1>4 DEF Becomes
  <2>5. /\ req'[r].pc = l /\ req'[r].op = req[r].op
        /\ req'[r].file = req[r].file /\ req'[r].folder = req[r].folder
        /\ req'[r].content = req[r].content
        /\ req'[r].name = req[r].name /\ req'[r].target = req[r].target
    BY <1>1, <2>4 DEF Goto, Handlers
  <2>6. l = "GetTarget" => req[r].target \in Folders
    BY <1>1, <2>1, <2>2, RpcNames DEF Handlers
  <2>7. /\ req[r].op = "UploadFile" => l = "GetFileByName"
        /\ req[r].op = "UploadVersion" => l = "Store"
        /\ req[r].op = "ModifyFile" => l \in {"RenameFile", "GetTarget", "GetUpdatedFile"}
        /\ req[r].op = "DeleteFile" => l = "SoftDeleteFile"
        /\ req[r].op = "SetRetentionPolicy" => l = "SetRetentionPolicy"
        /\ req[r].op = "DownloadFile" => l \in {"Retrieve", "FindVersion"}
    BY <2>1
  <2>8. HandlerInv(req[r])'
    BY <1>1, <1>2, <2>2, <2>5, <2>6, <2>7, RpcNames
    DEF HandlerInv, Busy, Exists, tables
  <2> QED BY <1>2, <1>4, <2>3, <2>8, GotoInv
<1> QED BY <1>3, <1>4 DEF Permission, Reads, Checked

LEMMA GetFileByNameInv ==
  ASSUME IInv, NEW r \in Requests, GetFileByName(r)
  PROVE  IInv'
<1>1. req[r] \in Handlers /\ req \in [Requests -> Handlers] /\ HandlerInv(req[r])
  BY DEF IInv, TypeOK
<1>2. UNCHANGED tables /\ req[r].pc = "GetFileByName"
  BY DEF GetFileByName, Reads, At, tables
<1>3. CASE Becomes(r, Reply(req[r], "AlreadyExists"))
  BY <1>2, <1>3, ReplyInv DEF Replies
<1>4. CASE Becomes(r, Goto(req[r], "Store"))
  <2>1. req'[r] = Goto(req[r], "Store")
    BY <1>1, <1>4 DEF Becomes
  <2>2. HandlerInv(req[r])'
    BY <1>1, <1>2, <2>1, RpcNames DEF HandlerInv, Busy, Exists, Goto, Handlers, tables
  <2> QED BY <1>2, <1>4, <2>2, GotoInv DEF Labels
<1> QED BY <1>3, <1>4 DEF GetFileByName, Reads

LEMMA GetFolderInv ==
  ASSUME IInv, NEW r \in Requests, GetFolder(r)
  PROVE  IInv'
<1>1. req[r] \in Handlers /\ req \in [Requests -> Handlers] /\ HandlerInv(req[r])
  BY DEF IInv, TypeOK
<1>2. UNCHANGED tables /\ req[r].pc = "GetFolder"
  BY DEF GetFolder, Reads, At, tables
<1>3. CASE Becomes(r, Reply(req[r], "Internal"))
  BY <1>2, <1>3, ReplyInv DEF Replies
<1>4. CASE Becomes(r, Goto(req[r], "CreateFile"))
  <2>1. req'[r] = Goto(req[r], "CreateFile")
    BY <1>1, <1>4 DEF Becomes
  <2>2. HandlerInv(req[r])'
    BY <1>1, <1>2, <2>1 DEF HandlerInv, Busy, Exists, Goto, Handlers, tables
  <2> QED BY <1>2, <1>4, <2>2, GotoInv DEF Labels
<1> QED BY <1>3, <1>4 DEF GetFolder, Reads

LEMMA GetTargetInv ==
  ASSUME IInv, NEW r \in Requests, GetTarget(r)
  PROVE  IInv'
<1>1. req[r] \in Handlers /\ req \in [Requests -> Handlers] /\ HandlerInv(req[r])
  BY DEF IInv, TypeOK
<1>2. UNCHANGED tables /\ req[r].pc = "GetTarget"
  BY DEF GetTarget, Reads, At, tables
<1>3. CASE Becomes(r, Reply(req[r], "NotFound"))
  BY <1>2, <1>3, ReplyInv DEF Replies
<1>4. CASE Becomes(r, Goto(req[r], "MoveFile"))
  <2>1. req'[r] = Goto(req[r], "MoveFile")
    BY <1>1, <1>4 DEF Becomes
  <2>2. HandlerInv(req[r])'
    BY <1>1, <1>2, <2>1 DEF HandlerInv, Busy, Exists, Goto, Handlers, tables
  <2> QED BY <1>2, <1>4, <2>2, GotoInv DEF Labels
<1> QED BY <1>3, <1>4 DEF GetTarget, Reads

LEMMA ListVersionsInv ==
  ASSUME IInv, NEW r \in Requests, ListVersions(r)
  PROVE  IInv'
<1>1. req[r] \in Handlers /\ req \in [Requests -> Handlers] /\ HandlerInv(req[r])
  BY DEF IInv, TypeOK
<1>2. UNCHANGED tables /\ req[r].pc = "ListVersions"
  BY DEF ListVersions, At
<1>3. PICK n \in VersionIds :
        Becomes(r, [Goto(req[r], "CreateVersion") EXCEPT !.num = n])
  BY DEF ListVersions
<1>4. /\ req'[r] = [Goto(req[r], "CreateVersion") EXCEPT !.num = n]
      /\ req' = [req EXCEPT ![r] = req'[r]]
  BY <1>1, <1>3 DEF Becomes
<1>5. req'[r] \in Handlers
  BY <1>1, <1>4, ZenonT(60) DEF Goto, Handlers, Labels
<1>6. HandlerInv(req[r])'
  BY <1>1, <1>2, <1>4 DEF HandlerInv, Busy, Exists, Goto, Handlers, tables
<1> QED BY <1>2, <1>4, <1>5, <1>6, ReadInv

LEMMA GetVersionRetentionInv ==
  ASSUME IInv, NEW r \in Requests, GetVersionRetention(r)
  PROVE  IInv'
<1>1. req[r] \in Handlers /\ req \in [Requests -> Handlers] /\ HandlerInv(req[r])
  BY DEF IInv, TypeOK
<1> DEFINE n == folders[req[r].folder].retention
<1>2. UNCHANGED tables /\ req[r].pc = "GetVersionRetention"
  BY DEF GetVersionRetention, At
<1>3. CASE Becomes(r, Reply(req[r], "ok"))
  BY <1>2, <1>3, ReplyInv DEF Replies
<1>4. CASE Becomes(r, [Goto(req[r], "SelectKept") EXCEPT !.lastN = n])
  <2>1. /\ req'[r] = [Goto(req[r], "SelectKept") EXCEPT !.lastN = n]
        /\ req' = [req EXCEPT ![r] = req'[r]]
    BY <1>1, <1>4 DEF Becomes
  <2>2. n \in Nat
    BY <1>1, <1>2 DEF IInv, TypeOK, HandlerInv, Busy
  <2> HIDE DEF n
  <2>3. req'[r] \in Handlers
    BY <1>1, <2>1, <2>2, ZenonT(60) DEF Goto, Handlers, Labels
  <2>4. HandlerInv(req[r])'
    BY <1>1, <1>2, <2>1 DEF HandlerInv, Busy, Exists, Goto, Handlers, tables
  <2> QED BY <1>2, <2>1, <2>3, <2>4, ReadInv
<1> QED BY <1>3, <1>4 DEF GetVersionRetention

LEMMA SelectKeptInv ==
  ASSUME IInv, NEW r \in Requests, SelectKept(r)
  PROVE  IInv'
<1>1. req[r] \in Handlers /\ req \in [Requests -> Handlers] /\ HandlerInv(req[r])
  BY DEF IInv, TypeOK
<1>2. PICK n : Reads(r, "SelectKept",
                     IF KeepList(req[r].file, n) = {} THEN Reply(req[r], "ok")
                     ELSE [Goto(req[r], "DeleteOldVersions") EXCEPT
                             !.keep = KeepList(req[r].file, n)])
  BY DEF SelectKept
<1> DEFINE keep == KeepList(req[r].file, n)
<1>3. UNCHANGED tables /\ req[r].pc = "SelectKept"
  BY <1>2 DEF Reads, At
<1>4. CASE Becomes(r, Reply(req[r], "ok"))
  BY <1>3, <1>4, ReplyInv DEF Replies
<1>5. CASE Becomes(r, [Goto(req[r], "DeleteOldVersions") EXCEPT !.keep = keep])
  <2>1. /\ req'[r] = [Goto(req[r], "DeleteOldVersions") EXCEPT !.keep = keep]
        /\ req' = [req EXCEPT ![r] = req'[r]]
    BY <1>1, <1>5 DEF Becomes
  <2>2. keep \subseteq VersionIds
    BY DEF KeepList, VersionsOf
  <2> HIDE DEF keep
  <2>3. req'[r] \in Handlers
    BY <1>1, <2>1, <2>2, ZenonT(60) DEF Goto, Handlers, Labels
  <2>4. HandlerInv(req[r])'
    BY <1>1, <1>3, <2>1 DEF HandlerInv, Busy, Exists, Goto, Handlers, tables
  <2> QED BY <1>3, <2>1, <2>3, <2>4, ReadInv
<1> QED BY <1>2, <1>4, <1>5 DEF Reads

LEMMA GetUpdatedFileInv ==
  ASSUME IInv, NEW r \in Requests, GetUpdatedFile(r)
  PROVE  IInv'
BY ReplyInv DEF GetUpdatedFile, Reads, Replies

LEMMA FindVersionInv ==
  ASSUME IInv, NEW r \in Requests, FindVersion(r)
  PROVE  IInv'
<1>1. req[r] \in Handlers /\ req \in [Requests -> Handlers] /\ HandlerInv(req[r])
  BY DEF IInv, TypeOK
<1> DEFINE c == versions[req[r].version].hash
<1>2. UNCHANGED tables /\ req[r].pc = "FindVersion"
  BY DEF FindVersion, Reads, At
<1>3. CASE Becomes(r, Reply(req[r], "NotFound"))
  BY <1>2, <1>3, ReplyInv DEF Replies
<1>4. CASE /\ req[r].version \in Downloadable(req[r].file)
           /\ Becomes(r, [Goto(req[r], "Retrieve") EXCEPT !.content = c])
  <2>1. /\ req'[r] = [Goto(req[r], "Retrieve") EXCEPT !.content = c]
        /\ req' = [req EXCEPT ![r] = req'[r]]
    BY <1>1, <1>4 DEF Becomes
  <2>2. c \in Contents \cup {None}
    BY <1>4 DEF IInv, TypeOK, VersionRecords, Downloadable, VersionsOf
  <2> HIDE DEF c
  <2>3. req'[r] \in Handlers
    BY <1>1, <2>1, <2>2, ZenonT(60) DEF Goto, Handlers, Labels
  <2>4. HandlerInv(req[r])'
    BY <1>1, <1>2, <2>1 DEF HandlerInv, Busy, Exists, Goto, Handlers, tables
  <2> QED BY <1>2, <2>1, <2>3, <2>4, ReadInv
<1> QED BY <1>3, <1>4 DEF FindVersion, Reads

LEMMA RetrieveInv ==
  ASSUME IInv, NEW r \in Requests, Retrieve(r)
  PROVE  IInv'
BY ReplyInv DEF Retrieve, Reads, Replies

LEMMA FaultInv ==
  ASSUME IInv, NEW r \in Requests, Fault(r)
  PROVE  IInv'
BY ReplyInv DEF Fault, Replies
-----------------------------------------------------------------------------
(* The calls that write. *)

LEMMA StoreInv ==
  ASSUME IInv, NEW r \in Requests, Store(r)
  PROVE  IInv'
<1>1. req[r] \in Handlers /\ req \in [Requests -> Handlers] /\ HandlerInv(req[r])
  BY DEF IInv, TypeOK
<1>2. TablesType /\ TablesInv
  BY DEF IInv, TypeOK, TablesType
<1> DEFINE l == IF req[r].op = "UploadFile" THEN "GetFolder" ELSE "ListVersions"
<1>3. /\ req[r].pc = "Store" /\ cas' = cas \cup {req[r].content}
      /\ Becomes(r, Goto(req[r], l))
      /\ UNCHANGED <<files, nextFile, versions, nextVersion, folders>>
  BY DEF Store, At, Stored
<1>4. req'[r] = Goto(req[r], l) /\ req' = [req EXCEPT ![r] = req'[r]]
  BY <1>1, <1>3 DEF Becomes
<1>5. req[r].content \in Contents /\ req[r].op \in {"UploadFile", "UploadVersion"}
  BY <1>1, <1>3 DEF HandlerInv
<1>6. l \in Labels
  BY DEF Labels
<1>7. req'[r] \in Handlers
  BY <1>1, <1>4, <1>6, HandlerSteps
<1>8. HandlerInv(req[r])'
  BY <1>1, <1>3, <1>4, <1>5 DEF HandlerInv, Busy, Exists, Goto, Handlers
<1>9. Grows /\ TablesType'
  BY <1>2, <1>3, <1>5 DEF Grows, TablesType
<1>10. TablesInv'
  BY <1>2, <1>3 DEF TablesInv, RowsHaveContent, PointerMatchesContent
<1> QED BY <1>4, <1>7, <1>8, <1>9, <1>10, StepInv

LEMMA CreateFileInv ==
  ASSUME IInv, NEW r \in Requests, CreateFile(r)
  PROVE  IInv'
<1>1. req[r] \in Handlers /\ req \in [Requests -> Handlers] /\ HandlerInv(req[r])
  BY DEF IInv, TypeOK
<1>2. TablesType /\ TablesInv
  BY DEF IInv, TypeOK, TablesType
<1> DEFINE row == [state |-> "live", name |-> req[r].name,
                   folder |-> req[r].folder, storage |-> req[r].content,
                   version |-> 0]
<1>3. /\ req[r].pc = "CreateFile" /\ nextFile <= MaxFile
      /\ files' = [files EXCEPT ![nextFile] = row] /\ nextFile' = nextFile + 1
      /\ Becomes(r, [Goto(req[r], "CreateVersion") EXCEPT !.file = nextFile,
                                                          !.num = 1])
      /\ UNCHANGED <<versions, nextVersion, folders, cas>>
  BY DEF CreateFile, At
<1>4. /\ req'[r] = [Goto(req[r], "CreateVersion") EXCEPT !.file = nextFile,
                                                         !.num = 1]
      /\ req' = [req EXCEPT ![r] = req'[r]]
  BY <1>1, <1>3 DEF Becomes
<1>5. /\ nextFile \in FileIds /\ nextFile' \in 1 .. MaxFile + 1
      /\ \A f \in FileIds : f >= nextFile' => f >= nextFile /\ f # nextFile
  BY <1>2, <1>3, ConstantsAssumption DEF TablesType, FileIds
<1>6. /\ req[r].folder \in Folders /\ req[r].content \in cas
      /\ req[r].op # "none" /\ row \in FileRecords
  BY <1>1, <1>2, <1>3 DEF HandlerInv, Busy, Handlers, FileRecords, TablesType
<1>7. /\ files[nextFile].state = "absent"
      /\ files'[nextFile] = row
      /\ \A f \in FileIds : f # nextFile => files'[f] = files[f]
      /\ \A f \in FileIds : files[f].state # "absent" => files'[f] = files[f]
  <2>1. files[nextFile].state = "absent"
    BY <1>2, <1>5 DEF TablesInv, TablesType, FileIds
  <2> QED BY <1>2, <1>3, <1>5, <2>1 DEF TablesType
<1>8. req'[r] \in Handlers
  <2>1. 1 \in VersionIds
    BY ConstantsAssumption DEF VersionIds
  <2> QED BY <1>1, <1>4, <1>5, <2>1, ZenonT(60) DEF Goto, Handlers, Labels
<1>9. HandlerInv(req[r])'
  BY <1>1, <1>3, <1>4, <1>5, <1>6, <1>7 DEF HandlerInv, Busy, Exists, Goto, Handlers
<1>10. Grows
  BY <1>3, <1>7 DEF Grows
<1>11. TablesType'
  BY <1>2, <1>3, <1>5, <1>6 DEF TablesType
<1>12. TablesInv'
  <2> HIDE DEF row
  <2>1. /\ row.state = "live" /\ row.version = 0
        /\ row.folder \in Folders /\ row.storage \in cas
    BY <1>6 DEF row
  <2>2. \A f \in FileIds : f >= nextFile' =>
          files'[f].state = "absent" /\ files'[f].version = 0
    BY <1>2, <1>5, <1>7 DEF TablesInv
  <2>3. \A f \in FileIds : files'[f].state # "absent" =>
          files'[f].folder \in Folders /\ files'[f].storage \in cas
    BY <1>2, <1>7, <2>1 DEF TablesInv, RowsHaveContent
  <2>4. PointerMatchesContent'
    BY <1>2, <1>3, <1>7, <2>1 DEF TablesInv, PointerMatchesContent
  <2> QED BY <1>2, <1>3, <2>2, <2>3, <2>4 DEF TablesInv, RowsHaveContent
<1> QED BY <1>4, <1>8, <1>9, <1>10, <1>11, <1>12, StepInv

LEMMA CreateVersionInv ==
  ASSUME IInv, NEW r \in Requests, CreateVersion(r)
  PROVE  IInv'
<1>1. req[r] \in Handlers /\ req \in [Requests -> Handlers] /\ HandlerInv(req[r])
  BY DEF IInv, TypeOK
<1>2. TablesType /\ TablesInv
  BY DEF IInv, TypeOK, TablesType
<1> DEFINE row == [state |-> "stored", file |-> req[r].file,
                   num |-> req[r].num, hash |-> req[r].content]
<1>3. /\ req[r].pc = "CreateVersion" /\ nextVersion <= MaxVersion
      /\ versions' = [versions EXCEPT ![nextVersion] = row]
      /\ nextVersion' = nextVersion + 1
      /\ Becomes(r, [Goto(req[r], "UpdateFileVersion") EXCEPT
                       !.version = nextVersion])
      /\ UNCHANGED <<files, nextFile, folders, cas>>
  BY DEF CreateVersion, At
<1>4. /\ req'[r] = [Goto(req[r], "UpdateFileVersion") EXCEPT !.version = nextVersion]
      /\ req' = [req EXCEPT ![r] = req'[r]]
  BY <1>1, <1>3 DEF Becomes
<1>5. /\ nextVersion \in VersionIds /\ nextVersion' \in 1 .. MaxVersion + 1
      /\ \A v \in VersionIds : v >= nextVersion' => v >= nextVersion /\ v # nextVersion
  BY <1>2, <1>3, ConstantsAssumption DEF TablesType, VersionIds
<1>6. /\ req[r].content \in cas /\ Exists(req[r].file) /\ row \in VersionRecords
  BY <1>1, <1>2, <1>3 DEF HandlerInv, Handlers, VersionRecords, TablesType
<1>7. /\ versions[nextVersion].state = "absent"
      /\ versions'[nextVersion] = row
      /\ \A v \in VersionIds : v # nextVersion => versions'[v] = versions[v]
      /\ \A v \in VersionIds : versions[v].state # "absent" =>
           versions'[v] = versions[v]
  <2>1. versions[nextVersion].state = "absent"
    BY <1>2, <1>5 DEF TablesInv, TablesType, VersionIds
  <2> QED BY <1>2, <1>3, <1>5, <2>1 DEF TablesType
<1>8. req'[r] \in Handlers
  BY <1>1, <1>4, <1>5, ZenonT(60) DEF Goto, Handlers, Labels
<1>9. HandlerInv(req[r])'
  BY <1>1, <1>3, <1>4, <1>5, <1>6, <1>7 DEF HandlerInv, Busy, Exists, Goto, Handlers
<1>10. Grows
  BY <1>3, <1>7 DEF Grows
<1>11. TablesType'
  BY <1>2, <1>3, <1>5, <1>6 DEF TablesType
<1>12. TablesInv'
  <2> HIDE DEF row
  <2>1. row.state = "stored" /\ row.hash \in cas
    BY <1>6 DEF row
  <2>2. \A v \in VersionIds : v >= nextVersion' => versions'[v].state = "absent"
    BY <1>2, <1>5, <1>7 DEF TablesInv
  <2>3. RowsHaveContent'
    BY <1>2, <1>3, <1>7, <2>1 DEF TablesInv, RowsHaveContent
  <2>4. PointerMatchesContent'
    <3> SUFFICES ASSUME NEW f \in FileIds, files[f].version # 0
                 PROVE  /\ versions'[files[f].version].state # "absent"
                        /\ versions'[files[f].version].file = f
                        /\ versions'[files[f].version].hash = files[f].storage
      BY <1>3 DEF PointerMatchesContent
    <3>1. files[f].version \in VersionIds
      BY <1>2 DEF TablesType, FileRecords
    <3> QED BY <1>2, <1>7, <3>1 DEF TablesInv, PointerMatchesContent
  <2> QED BY <1>2, <1>3, <2>2, <2>3, <2>4 DEF TablesInv
<1> QED BY <1>4, <1>8, <1>9, <1>10, <1>11, <1>12, StepInv

\* An UPDATE of one row of files that keeps the row used, in a folder, and
\* with its content: the handler's record h afterwards is any good one.
LEMMA FileUpdateInv ==
  ASSUME IInv, NEW r \in Requests, NEW row \in FileRecords,
         LET f == req[r].file
         IN  /\ Exists(f)
             /\ files' = [files EXCEPT ![f] = row]
             /\ row.state # "absent" /\ row.folder \in Folders
             /\ row.storage \in cas
             /\ row.version # 0 => /\ versions[row.version].state # "absent"
                                   /\ versions[row.version].file = f
                                   /\ versions[row.version].hash = row.storage,
         UNCHANGED <<nextFile, versions, nextVersion, folders, cas>>,
         req' = [req EXCEPT ![r] = req'[r]], req'[r] \in Handlers,
         HandlerInv(req[r])'
  PROVE  IInv'
<1> DEFINE f == req[r].file
<1>1. TablesType /\ TablesInv
  BY DEF IInv, TypeOK, TablesType
<1>2. /\ f \in FileIds /\ files[f].state # "absent"
      /\ files'[f] = row /\ \A g \in FileIds : g # f => files'[g] = files[g]
  BY <1>1 DEF Exists, TablesType
<1>3. Grows /\ TablesType'
  BY <1>1, <1>2 DEF Grows, TablesType
<1>4. TablesInv'
  <2>1. \A g \in FileIds : g >= nextFile =>
          files'[g].state = "absent" /\ files'[g].version = 0
    BY <1>1, <1>2 DEF TablesInv
  <2>2. \A g \in FileIds : files'[g].state # "absent" =>
          files'[g].folder \in Folders /\ files'[g].storage \in cas
    BY <1>1, <1>2 DEF TablesInv, RowsHaveContent
  <2>3. PointerMatchesContent'
    BY <1>1, <1>2 DEF TablesInv, PointerMatchesContent
  <2> QED BY <1>1, <2>1, <2>2, <2>3 DEF TablesInv, RowsHaveContent
<1> QED BY <1>3, <1>4, StepInv

LEMMA UpdateFileVersionInv ==
  ASSUME IInv, NEW r \in Requests, UpdateFileVersion(r)
  PROVE  IInv'
<1>1. req[r] \in Handlers /\ req \in [Requests -> Handlers] /\ HandlerInv(req[r])
  BY DEF IInv, TypeOK
<1>2. TablesType /\ TablesInv
  BY DEF IInv, TypeOK, TablesType
<1>3. /\ req[r].pc = "UpdateFileVersion"
      /\ UNCHANGED <<nextFile, versions, nextVersion, folders, cas>>
  BY DEF UpdateFileVersion, At
<1>4. CASE Becomes(r, Reply(req[r], "Internal")) /\ UNCHANGED files
  BY <1>3, <1>4, ReplyInv DEF Replies, tables
<1>5. CASE /\ files' = Linked(req[r])
           /\ Becomes(r, IF req[r].op = "UploadFile" THEN Reply(req[r], "ok")
                         ELSE Goto(req[r], "GetVersionRetention"))
  <2> DEFINE f   == req[r].file
             row == [files[f] EXCEPT !.version = req[r].version,
                                     !.storage = req[r].content]
  <2>1. /\ Exists(f) /\ files[f] \in FileRecords /\ files[f].folder \in Folders
        /\ req[r].version \in VersionIds /\ req[r].content \in cas
        /\ versions[req[r].version].state # "absent"
        /\ versions[req[r].version].file = f
        /\ versions[req[r].version].hash = req[r].content
    BY <1>1, <1>2, <1>3 DEF HandlerInv, Exists, TablesType, TablesInv
  <2>2. /\ row \in FileRecords /\ row.state = files[f].state
        /\ row.folder = files[f].folder /\ row.storage = req[r].content
        /\ row.version = req[r].version
    BY <1>2, <2>1 DEF FileRecords, TablesType
  <2>3. files' = [files EXCEPT ![f] = row]
    BY <1>5 DEF Linked
  <2> HIDE DEF row
  <2>4. /\ req' = [req EXCEPT ![r] = req'[r]]
        /\ req'[r] \in {Reply(req[r], "ok"), Goto(req[r], "GetVersionRetention")}
        /\ req[r].op # "UploadFile" => req'[r] = Goto(req[r], "GetVersionRetention")
        /\ req[r].op = "UploadFile" => req'[r] = Reply(req[r], "ok")
    BY <1>1, <1>5 DEF Becomes
  <2>5. req'[r] \in Handlers
    BY <1>1, <2>4, HandlerSteps DEF Labels, Replies
  <2>6. f \in FileIds /\ files'[f].state # "absent"
    BY <1>2, <2>1, <2>2, <2>3 DEF Exists, TablesType
  <2>7. HandlerInv(req[r])'
    BY <1>1, <1>3, <2>4, <2>6, ZenonT(60)
    DEF HandlerInv, Busy, Exists, Goto, Reply, Handlers
  <2> QED BY <1>3, <2>1, <2>2, <2>3, <2>4, <2>5, <2>7, FileUpdateInv DEF Exists
<1> QED BY <1>4, <1>5 DEF UpdateFileVersion

LEMMA DeleteOldVersionsInv ==
  ASSUME IInv, NEW r \in Requests, DeleteOldVersions(r)
  PROVE  IInv'
<1>1. req[r] \in Handlers /\ req \in [Requests -> Handlers] /\ HandlerInv(req[r])
  BY DEF IInv, TypeOK
<1>2. TablesType /\ TablesInv
  BY DEF IInv, TypeOK, TablesType
<1>3. /\ req[r].pc = "DeleteOldVersions" /\ Becomes(r, Reply(req[r], "ok"))
      /\ UNCHANGED <<files, nextFile, nextVersion, folders, cas>>
  BY DEF DeleteOldVersions, At
<1>4. PICK S \in SUBSET VersionIds :
        /\ \A v \in S : versions[v].state = "stored"
        /\ versions' = [v \in VersionIds |->
                          IF v \in S THEN [versions[v] EXCEPT !.state = "pruned"]
                          ELSE versions[v]]
  <2> DEFINE old == VersionsOf(req[r].file) \ req[r].keep
  <2>1. PICK fk \in ForeignKeys :
          versions' = [v \in VersionIds |->
                         IF v \in old /\ DeleteHolds(fk, old)
                         THEN [versions[v] EXCEPT !.state = "pruned"]
                         ELSE versions[v]]
    BY DEF DeleteOldVersions
  <2>2. \A v \in old : v \in VersionIds /\ versions[v].state = "stored"
    BY DEF VersionsOf
  <2> HIDE DEF old
  <2> DEFINE S == {v \in old : DeleteHolds(fk, old)}
  <2>3. S \in SUBSET VersionIds /\ \A v \in S : versions[v].state = "stored"
    BY <2>2
  <2>4. versions' = [v \in VersionIds |->
                       IF v \in S THEN [versions[v] EXCEPT !.state = "pruned"]
                       ELSE versions[v]]
    BY <2>1
  <2> QED BY <2>3, <2>4
<1>5. \A v \in VersionIds :
        /\ versions'[v] \in VersionRecords
        /\ versions'[v].state = "absent" <=> versions[v].state = "absent"
        /\ versions'[v].file = versions[v].file
        /\ versions'[v].hash = versions[v].hash
  BY <1>2, <1>4 DEF TablesType, VersionRecords
<1>6. /\ req'[r] = Reply(req[r], "ok") /\ req' = [req EXCEPT ![r] = req'[r]]
  BY <1>1, <1>3 DEF Becomes
<1>7. req'[r] \in Handlers
  BY <1>1, <1>6, HandlerSteps DEF Replies
<1>8. HandlerInv(req[r])'
  BY <1>1, <1>6 DEF HandlerInv, Busy, Reply, Handlers
<1>9. Grows
  BY <1>3, <1>5 DEF Grows
<1>10. TablesType'
  BY <1>2, <1>3, <1>4, <1>5 DEF TablesType
<1>11. TablesInv'
  <2>1. RowsHaveContent'
    BY <1>2, <1>3, <1>5 DEF TablesInv, RowsHaveContent
  <2>2. PointerMatchesContent'
    <3> SUFFICES ASSUME NEW f \in FileIds, files[f].version # 0
                 PROVE  /\ versions'[files[f].version].state # "absent"
                        /\ versions'[files[f].version].file = f
                        /\ versions'[files[f].version].hash = files[f].storage
      BY <1>3 DEF PointerMatchesContent
    <3>1. files[f].version \in VersionIds
      BY <1>2 DEF TablesType, FileRecords
    <3> QED BY <1>2, <1>5, <3>1 DEF TablesInv, PointerMatchesContent
  <2> QED BY <1>2, <1>3, <1>5, <2>1, <2>2 DEF TablesInv
<1> QED BY <1>6, <1>7, <1>8, <1>9, <1>10, <1>11, StepInv

LEMMA RenameFileInv ==
  ASSUME IInv, NEW r \in Requests, RenameFile(r)
  PROVE  IInv'
<1>1. req[r] \in Handlers /\ req \in [Requests -> Handlers] /\ HandlerInv(req[r])
  BY DEF IInv, TypeOK
<1>2. TablesType /\ TablesInv
  BY DEF IInv, TypeOK, TablesType
<1> DEFINE f   == req[r].file
           row == [files[f] EXCEPT !.name = req[r].name]
<1>3. /\ req[r].pc = "RenameFile" /\ files' = [files EXCEPT ![f] = row]
      /\ UNCHANGED <<nextFile, versions, nextVersion, folders, cas>>
  BY DEF RenameFile, Updates, At
<1>4. /\ Exists(f) /\ files[f] \in FileRecords /\ files[f].folder \in Folders
      /\ files[f].storage \in cas
      /\ files[f].version # 0 =>
           /\ versions[files[f].version].state # "absent"
           /\ versions[files[f].version].file = f
           /\ versions[files[f].version].hash = files[f].storage
  BY <1>1, <1>2, <1>3 DEF HandlerInv, Busy, Exists, TablesType, TablesInv,
     RowsHaveContent, PointerMatchesContent
<1>5. /\ row \in FileRecords /\ row.state # "absent" /\ row.folder \in Folders
      /\ row.storage = files[f].storage /\ row.version = files[f].version
  BY <1>1, <1>3, <1>4 DEF FileRecords, Exists, Handlers, HandlerInv, Busy
<1> HIDE DEF row
<1>6. f \in FileIds /\ files'[f].state # "absent"
  BY <1>2, <1>3, <1>4, <1>5 DEF Exists, TablesType
<1>7. req' = [req EXCEPT ![r] = req'[r]] /\ req'[r] \in Handlers
  BY <1>1, HandlerSteps DEF RenameFile, Updates, Becomes, Labels
<1>8. req'[r] = Goto(req[r], IF req[r].target # None THEN "GetTarget"
                                                      ELSE "GetUpdatedFile")
  BY <1>1 DEF RenameFile, Updates, Becomes
<1>9. HandlerInv(req[r])'
  BY <1>1, <1>3, <1>6, <1>8 DEF HandlerInv, Busy, Exists, Goto, Handlers
<1> QED BY <1>3, <1>4, <1>5, <1>7, <1>9, FileUpdateInv

LEMMA MoveFileInv ==
  ASSUME IInv, NEW r \in Requests, MoveFile(r)
  PROVE  IInv'
<1>1. req[r] \in Handlers /\ req \in [Requests -> Handlers] /\ HandlerInv(req[r])
  BY DEF IInv, TypeOK
<1>2. TablesType /\ TablesInv
  BY DEF IInv, TypeOK, TablesType
<1> DEFINE f   == req[r].file
           row == [files[f] EXCEPT !.folder = req[r].target]
<1>3. /\ req[r].pc = "MoveFile" /\ files' = [files EXCEPT ![f] = row]
      /\ UNCHANGED <<nextFile, versions, nextVersion, folders, cas>>
  BY DEF MoveFile, Updates, At
<1>4. /\ Exists(f) /\ files[f] \in FileRecords /\ files[f].folder \in Folders
      /\ files[f].storage \in cas
      /\ files[f].version # 0 =>
           /\ versions[files[f].version].state # "absent"
           /\ versions[files[f].version].file = f
           /\ versions[files[f].version].hash = files[f].storage
  BY <1>1, <1>2, <1>3 DEF HandlerInv, Busy, Exists, TablesType, TablesInv,
     RowsHaveContent, PointerMatchesContent
<1>5. /\ row \in FileRecords /\ row.state # "absent" /\ row.folder \in Folders
      /\ row.storage = files[f].storage /\ row.version = files[f].version
  BY <1>1, <1>3, <1>4 DEF FileRecords, Exists, Handlers, HandlerInv, Busy
<1> HIDE DEF row
<1>6. f \in FileIds /\ files'[f].state # "absent"
  BY <1>2, <1>3, <1>4, <1>5 DEF Exists, TablesType
<1>7. req' = [req EXCEPT ![r] = req'[r]] /\ req'[r] \in Handlers
  BY <1>1, HandlerSteps DEF MoveFile, Updates, Becomes, Labels
<1>8. req'[r] = Goto(req[r], "GetUpdatedFile")
  BY <1>1 DEF MoveFile, Updates, Becomes
<1>9. HandlerInv(req[r])'
  BY <1>1, <1>3, <1>6, <1>8 DEF HandlerInv, Busy, Exists, Goto, Handlers
<1> QED BY <1>3, <1>4, <1>5, <1>7, <1>9, FileUpdateInv

LEMMA SoftDeleteFileInv ==
  ASSUME IInv, NEW r \in Requests, SoftDeleteFile(r)
  PROVE  IInv'
<1>1. req[r] \in Handlers /\ req \in [Requests -> Handlers] /\ HandlerInv(req[r])
  BY DEF IInv, TypeOK
<1>2. TablesType /\ TablesInv
  BY DEF IInv, TypeOK, TablesType
<1> DEFINE f   == req[r].file
           row == [files[f] EXCEPT !.state = "deleted"]
<1>3. /\ req[r].pc = "SoftDeleteFile" /\ files' = [files EXCEPT ![f] = row]
      /\ UNCHANGED <<nextFile, versions, nextVersion, folders, cas>>
  BY DEF SoftDeleteFile, Updates, At
<1>4. /\ Exists(f) /\ files[f] \in FileRecords /\ files[f].folder \in Folders
      /\ files[f].storage \in cas
      /\ files[f].version # 0 =>
           /\ versions[files[f].version].state # "absent"
           /\ versions[files[f].version].file = f
           /\ versions[files[f].version].hash = files[f].storage
  BY <1>1, <1>2, <1>3 DEF HandlerInv, Busy, Exists, TablesType, TablesInv,
     RowsHaveContent, PointerMatchesContent
<1>5. /\ row \in FileRecords /\ row.state # "absent" /\ row.folder \in Folders
      /\ row.storage = files[f].storage /\ row.version = files[f].version
  BY <1>1, <1>3, <1>4 DEF FileRecords, Exists, Handlers, HandlerInv, Busy
<1> HIDE DEF row
<1>6. f \in FileIds /\ files'[f].state # "absent"
  BY <1>2, <1>3, <1>4, <1>5 DEF Exists, TablesType
<1>7. req' = [req EXCEPT ![r] = req'[r]] /\ req'[r] \in Handlers
  BY <1>1, HandlerSteps DEF SoftDeleteFile, Updates, Becomes, Replies
<1>8. req'[r] = Reply(req[r], "ok")
  BY <1>1 DEF SoftDeleteFile, Updates, Becomes
<1>9. HandlerInv(req[r])'
  BY <1>1, <1>8 DEF HandlerInv, Busy, Reply, Handlers
<1> QED BY <1>3, <1>4, <1>5, <1>7, <1>9, FileUpdateInv

LEMMA SetRetentionPolicyInv ==
  ASSUME IInv, NEW r \in Requests, SetRetentionPolicy(r)
  PROVE  IInv'
<1>1. req[r] \in Handlers /\ req \in [Requests -> Handlers] /\ HandlerInv(req[r])
  BY DEF IInv, TypeOK
<1>2. TablesType /\ TablesInv
  BY DEF IInv, TypeOK, TablesType
<1> DEFINE d   == req[r].folder
           row == [folders[d] EXCEPT !.retention = req[r].lastN]
<1>3. /\ req[r].pc = "SetRetentionPolicy" /\ folders' = [folders EXCEPT ![d] = row]
      /\ Becomes(r, Reply(req[r], "ok"))
      /\ UNCHANGED <<files, nextFile, versions, nextVersion, cas>>
  BY DEF SetRetentionPolicy, At
<1>4. d \in Folders /\ row \in [live : BOOLEAN, retention : Nat]
  BY <1>1, <1>2, <1>3 DEF HandlerInv, Busy, TablesType, Handlers
<1> HIDE DEF row
<1>5. Grows /\ TablesType'
  BY <1>2, <1>3, <1>4 DEF Grows, TablesType
<1>6. TablesInv'
  BY <1>2, <1>3 DEF TablesInv, RowsHaveContent, PointerMatchesContent
<1>7. /\ req'[r] = Reply(req[r], "ok") /\ req' = [req EXCEPT ![r] = req'[r]]
  BY <1>1, <1>3 DEF Becomes
<1>8. req'[r] \in Handlers
  BY <1>1, <1>7, HandlerSteps DEF Replies
<1>9. HandlerInv(req[r])'
  BY <1>1, <1>7 DEF HandlerInv, Busy, Reply, Handlers
<1> QED BY <1>5, <1>6, <1>7, <1>8, <1>9, StepInv

LEMMA DeleteFolderInv ==
  ASSUME IInv, NEW d \in Folders, DeleteFolder(d)
  PROVE  IInv'
<1>1. TablesType /\ TablesInv /\ req \in [Requests -> Handlers]
  BY DEF IInv, TypeOK, TablesType
<1>2. /\ folders' = [folders EXCEPT ![d].live = FALSE]
      /\ files' = [f \in FileIds |->
                     IF Live(f) /\ files[f].folder = d
                     THEN [files[f] EXCEPT !.state = "deleted"] ELSE files[f]]
      /\ UNCHANGED <<nextFile, versions, nextVersion, cas, req>>
  BY DEF DeleteFolder
<1>3. \A f \in FileIds :
        /\ files'[f] \in FileRecords
        /\ files'[f].state = "absent" <=> files[f].state = "absent"
        /\ files'[f].folder = files[f].folder
        /\ files'[f].storage = files[f].storage
        /\ files'[f].version = files[f].version
  BY <1>1, <1>2, ZenonT(60) DEF TablesType, FileRecords, Live
<1>4. Grows
  BY <1>2, <1>3 DEF Grows
<1>5. TypeOK'
  BY <1>1, <1>2, <1>3 DEF TypeOK, TablesType
<1>6. TablesInv'
  <2>1. RowsHaveContent'
    BY <1>1, <1>2, <1>3 DEF TablesInv, RowsHaveContent
  <2>2. PointerMatchesContent'
    BY <1>1, <1>2, <1>3 DEF TablesInv, PointerMatchesContent
  <2> QED BY <1>1, <1>2, <1>3, <2>1, <2>2 DEF TablesInv
<1>7. \A q \in Requests : HandlerInv(req[q])'
  BY <1>2, <1>4, HandlersStable DEF IInv
<1> QED BY <1>5, <1>6, <1>7 DEF IInv
-----------------------------------------------------------------------------
(* The inductive invariant. *)

LEMMA InitInv == Init => IInv
<1> SUFFICES ASSUME Init PROVE IInv
  OBVIOUS
<1>1. /\ 1 .. NumSeeds \subseteq FileIds /\ 1 .. NumSeeds \subseteq VersionIds
      /\ 0 \notin FileIds /\ NumSeeds + 1 \in 1 .. MaxFile + 1
      /\ NumSeeds + 1 \in 1 .. MaxVersion + 1
      /\ \A f \in FileIds : f >= NumSeeds + 1 <=> ~(f <= NumSeeds)
      /\ \A f \in FileIds : f <= NumSeeds => f \in 1 .. NumSeeds
      /\ \A f \in VersionIds : f >= NumSeeds + 1 <=> ~(f <= NumSeeds)
      /\ \A f \in VersionIds : f <= NumSeeds => f \in 1 .. NumSeeds
  BY ConstantsAssumption DEF FileIds, VersionIds
<1>2. \A i \in 1 .. NumSeeds :
        Seeds[i].folder \in Folders /\ Seeds[i].name \in Names
        /\ Seeds[i].content \in Contents /\ Seeds[i].content \in cas
  BY ConstantsAssumption DEF Init
<1>3. \A f \in FileIds :
        /\ files[f] \in FileRecords
        /\ f <= NumSeeds => /\ files[f].state = "live" /\ files[f].version = f
                            /\ files[f].folder = Seeds[f].folder
                            /\ files[f].storage = Seeds[f].content
        /\ ~(f <= NumSeeds) => files[f].state = "absent" /\ files[f].version = 0
  BY <1>1, <1>2 DEF Init, FileRecords
<1>4. \A v \in VersionIds :
        /\ versions[v] \in VersionRecords
        /\ v <= NumSeeds => /\ versions[v].state = "stored"
                            /\ versions[v].file = v
                            /\ versions[v].hash = Seeds[v].content
        /\ ~(v <= NumSeeds) => versions[v].state = "absent"
  <2>1. 1 \in VersionIds
    BY ConstantsAssumption DEF VersionIds
  <2> QED BY <1>1, <1>2, <2>1 DEF Init, VersionRecords
<1>5. TypeOK
  <2>1. folders \in [Folders -> [live : BOOLEAN, retention : Nat]]
    BY ConstantsAssumption DEF Init
  <2>2. cas \subseteq Contents
    BY <1>2 DEF Init
  <2>3. req \in [Requests -> Handlers]
    BY IdleType DEF Init
  <2> QED BY <1>1, <1>3, <1>4, <2>1, <2>2, <2>3 DEF Init, TypeOK
<1>6. TablesInv
  <2>1. RowsHaveContent
    BY <1>1, <1>2, <1>3, <1>4 DEF RowsHaveContent
  <2>2. PointerMatchesContent
    BY <1>1, <1>3, <1>4 DEF PointerMatchesContent
  <2>3. nextFile = NumSeeds + 1 /\ nextVersion = NumSeeds + 1
    BY DEF Init
  <2> QED BY <1>1, <1>2, <1>3, <1>4, <2>1, <2>2, <2>3 DEF TablesInv
<1>7. \A r \in Requests : HandlerInv(req[r])
  BY DEF Init, Idle, HandlerInv, Busy
<1> QED BY <1>5, <1>6, <1>7 DEF IInv

LEMMA UnchangedInv == IInv /\ UNCHANGED vars => IInv'
BY DEF IInv, TypeOK, TablesInv, RowsHaveContent, PointerMatchesContent,
       HandlerInv, Exists, vars

\* A handler makes its next call.
Continues(r) ==
  \/ Permission(r) \/ GetFileByName(r) \/ Store(r) \/ GetFolder(r)
  \/ CreateFile(r) \/ ListVersions(r) \/ CreateVersion(r)
  \/ UpdateFileVersion(r) \/ GetVersionRetention(r) \/ SelectKept(r)
  \/ DeleteOldVersions(r) \/ RenameFile(r) \/ GetTarget(r) \/ MoveFile(r)
  \/ GetUpdatedFile(r) \/ SoftDeleteFile(r) \/ SetRetentionPolicy(r)
  \/ FindVersion(r) \/ Retrieve(r) \/ Fault(r)

LEMMA NextSteps ==
  ASSUME [Next]_vars
  PROVE  \/ \E r \in Requests : Arrives(r) \/ Continues(r)
         \/ \E d \in Folders : DeleteFolder(d)
         \/ Finished \/ UNCHANGED vars
BY DEF Next, Arrives, Continues

LEMMA NextInv == IInv /\ [Next]_vars => IInv'
<1> SUFFICES ASSUME IInv, [Next]_vars PROVE IInv'
  OBVIOUS
<1>1. ASSUME NEW r \in Requests, Arrives(r) PROVE IInv'
  BY <1>1, Arrivals, BeginInv
<1>2. ASSUME NEW r \in Requests, Continues(r) PROVE IInv'
  BY <1>2, PermissionInv, GetFileByNameInv, StoreInv, GetFolderInv,
     CreateFileInv, ListVersionsInv, CreateVersionInv, UpdateFileVersionInv,
     GetVersionRetentionInv, SelectKeptInv, DeleteOldVersionsInv,
     RenameFileInv, GetTargetInv, MoveFileInv, GetUpdatedFileInv,
     SoftDeleteFileInv, SetRetentionPolicyInv, FindVersionInv, RetrieveInv,
     FaultInv DEF Continues
<1>3. ASSUME NEW d \in Folders, DeleteFolder(d) PROVE IInv'
  BY <1>3, DeleteFolderInv
<1>4. ASSUME Finished \/ UNCHANGED vars PROVE IInv'
  BY <1>4, UnchangedInv DEF Finished
<1> QED BY <1>1, <1>2, <1>3, <1>4, NextSteps

LEMMA Invariance == Spec => []IInv
<1> QED BY InitInv, NextInv, PTL DEF Spec
-----------------------------------------------------------------------------
(* What follows from it. *)

\* The tables and the handlers keep their types.
THEOREM TypeCorrect == Spec => []TypeOK
<1>1. IInv => TypeOK
  BY DEF IInv
<1> QED BY <1>1, Invariance, PTL

\* No row ever names a content that is not in the store, however handlers
\* interleave, fail or are cut off by a crash.
THEOREM ContentStored == Spec => []RowsHaveContent
<1>1. IInv => RowsHaveContent
  BY DEF IInv, TablesInv
<1> QED BY <1>1, Invariance, PTL

\* The content a file serves is at all times that of the version it points to.
THEOREM PointerSound == Spec => []PointerMatchesContent
<1>1. IInv => PointerMatchesContent
  BY DEF IInv, TablesInv
<1> QED BY <1>1, Invariance, PTL
-----------------------------------------------------------------------------
(* Deletion is final. *)

Final ==
  /\ \A f \in FileIds :
       files[f].state = "deleted" => files'[f].state = "deleted"
  /\ \A v \in VersionIds :
       versions[v].state = "pruned" => versions'[v] = versions[v]

LEMMA FinalReads == UNCHANGED <<files, versions>> => Final
BY DEF Final

\* The new rows take ids that were never used.
LEMMA FinalCreate ==
  ASSUME IInv, NEW r \in Requests, CreateFile(r) \/ CreateVersion(r)
  PROVE  Final
<1>1. TablesType /\ TablesInv
  BY DEF IInv, TypeOK, TablesType
<1>2. CASE CreateFile(r)
  <2>1. nextFile \in FileIds /\ files[nextFile].state = "absent"
    BY <1>1, <1>2, ConstantsAssumption
    DEF CreateFile, TablesType, TablesInv, FileIds
  <2>2. \A f \in FileIds : f # nextFile => files'[f] = files[f]
    BY <1>1, <1>2 DEF CreateFile, TablesType
  <2> QED BY <1>2, <2>1, <2>2 DEF Final, CreateFile
<1>3. CASE CreateVersion(r)
  <2>1. nextVersion \in VersionIds /\ versions[nextVersion].state = "absent"
    BY <1>1, <1>3, ConstantsAssumption
    DEF CreateVersion, TablesType, TablesInv, VersionIds
  <2>2. \A v \in VersionIds : v # nextVersion => versions'[v] = versions[v]
    BY <1>1, <1>3 DEF CreateVersion, TablesType
  <2> QED BY <1>3, <2>1, <2>2 DEF Final, CreateVersion
<1> QED BY <1>2, <1>3

\* The updates of a file row write the columns they name and leave the state,
\* or set it to deleted; pruning changes stored rows only.
LEMMA FinalUpdate ==
  ASSUME IInv, NEW r \in Requests,
         \/ UpdateFileVersion(r) \/ RenameFile(r) \/ MoveFile(r)
         \/ SoftDeleteFile(r) \/ DeleteOldVersions(r)
  PROVE  Final
<1>1. TablesType
  BY DEF IInv, TypeOK, TablesType
<1>2. CASE UpdateFileVersion(r)
  <2> DEFINE f   == req[r].file
             row == [files[f] EXCEPT !.version = req[r].version,
                                     !.storage = req[r].content]
  <2>1. UNCHANGED versions /\ (UNCHANGED files \/ files' = [files EXCEPT ![f] = row])
    BY <1>2 DEF UpdateFileVersion, Linked
  <2>2. f \in FileIds => row.state = files[f].state
    BY <1>1 DEF TablesType, FileRecords
  <2> HIDE DEF row
  <2> QED BY <1>1, <2>1, <2>2 DEF Final, TablesType
<1>3. CASE RenameFile(r)
  BY <1>1, <1>3 DEF Final, RenameFile, Updates, TablesType, FileRecords
<1>4. CASE MoveFile(r)
  BY <1>1, <1>4 DEF Final, MoveFile, Updates, TablesType, FileRecords
<1>5. CASE SoftDeleteFile(r)
  BY <1>1, <1>5 DEF Final, SoftDeleteFile, Updates, TablesType, FileRecords
<1>6. CASE DeleteOldVersions(r)
  BY <1>1, <1>6 DEF Final, DeleteOldVersions, VersionsOf, TablesType
<1> QED BY <1>2, <1>3, <1>4, <1>5, <1>6

LEMMA FinalNext == IInv /\ [Next]_vars => Final
<1> SUFFICES ASSUME IInv, [Next]_vars PROVE Final
  OBVIOUS
<1>1. ASSUME NEW r \in Requests, Arrives(r) PROVE Final
  BY <1>1, Arrivals, FinalReads DEF Begin, tables
<1>2. ASSUME NEW r \in Requests,
             \/ Permission(r) \/ GetFileByName(r) \/ GetFolder(r)
             \/ ListVersions(r) \/ GetVersionRetention(r) \/ SelectKept(r)
             \/ GetTarget(r) \/ GetUpdatedFile(r) \/ FindVersion(r)
             \/ Retrieve(r) \/ Fault(r) \/ Store(r) \/ SetRetentionPolicy(r)
      PROVE  UNCHANGED <<files, versions>>
  BY <1>2 DEF Permission, GetFileByName, GetFolder, ListVersions,
     GetVersionRetention, SelectKept, GetTarget, GetUpdatedFile, FindVersion,
     Retrieve, Fault, Store, SetRetentionPolicy, Reads, tables
<1>3. ASSUME NEW d \in Folders, DeleteFolder(d) PROVE Final
  <2>1. TablesType
    BY DEF IInv, TypeOK, TablesType
  <2> QED BY <1>3, <2>1 DEF Final, DeleteFolder, Live, TablesType
<1>4. ASSUME Finished \/ UNCHANGED vars PROVE Final
  BY <1>4, FinalReads DEF Finished, vars
<1> QED
  BY <1>1, <1>2, <1>3, <1>4, NextSteps, FinalReads, FinalCreate, FinalUpdate
  DEF Continues

\* No step brings a deleted file back or writes to a pruned version.
THEOREM DeletionFinal == Spec => DeletionIsFinal
<1>1. IInv /\ [Next]_vars => [Final]_vars
  BY FinalNext
<1> QED BY <1>1, Invariance, PTL DEF Spec, DeletionIsFinal, Final
-----------------------------------------------------------------------------
(* Downloads.  A download holds a content that some upload of its file sent  *)
(* because every row of the file does; an upload's record keeps its file and *)
(* content once it has a file, so what was uploaded stays known.             *)

\* The call that a handler is at belongs to its RPC; an upload of a new file
\* has no id for it yet, and a download always has one.
OpInv(h) ==
  /\ h.pc = "idle" => h.op = "none"
  /\ h.pc \in {"GetFileByName", "GetFolder", "CreateFile"} =>
       h.op = "UploadFile"
  /\ h.pc \in {"Store", "CreateVersion", "UpdateFileVersion"} =>
       h.op \in {"UploadFile", "UploadVersion"}
  /\ h.pc \in {"ListVersions", "GetVersionRetention", "SelectKept",
               "DeleteOldVersions"} => h.op = "UploadVersion"
  /\ h.pc \in {"RenameFile", "GetTarget", "MoveFile", "GetUpdatedFile"} =>
       h.op = "ModifyFile"
  /\ h.pc = "SoftDeleteFile" => h.op = "DeleteFile"
  /\ h.pc = "SetRetentionPolicy" => h.op = "SetRetentionPolicy"
  /\ h.pc \in {"FindVersion", "Retrieve"} => h.op = "DownloadFile"
  /\ h.op = "UploadFile" /\ h.pc \in {"Permission", "GetFileByName", "Store",
                                      "GetFolder", "CreateFile"} => h.file = 0
  /\ h.op = "DownloadFile" => h.file # 0

ServedInv ==
  /\ \A r \in Requests : OpInv(req[r])
  /\ \A f \in FileIds :
       files[f].state # "absent" => Uploaded(f, files[f].storage)
  /\ \A v \in VersionIds :
       versions[v].state # "absent" =>
         /\ Exists(versions[v].file)
         /\ Uploaded(versions[v].file, versions[v].hash)
  /\ \A r \in Requests :
       req[r].op = "DownloadFile" /\ (Busy(req[r]) \/ req[r].reply = "ok") =>
         Uploaded(req[r].file, req[r].content)

\* What a handler's step leaves of its record h in the next one, g.
Follows(h, g) ==
  /\ Busy(h)
  /\ g.op = h.op
  /\ h.pc # "CreateFile" => g.file = h.file
  /\ h.pc # "FindVersion" => g.content = h.content
  /\ OpInv(g)

LEMMA ReplyFollows ==
  ASSUME NEW h \in Handlers, NEW c \in Replies, Busy(h), OpInv(h)
  PROVE  Follows(h, Reply(h, c))
BY DEF Follows, Reply, Handlers, OpInv, Busy

LEMMA PermissionFollows ==
  ASSUME IInv, NEW r \in Requests, OpInv(req[r]), Permission(r)
  PROVE  Follows(req[r], req'[r])
<1>1. req[r] \in Handlers /\ req \in [Requests -> Handlers] /\ HandlerInv(req[r])
  BY DEF IInv, TypeOK
<1> DEFINE l == AfterPermission(req[r])
<1>2. req[r].pc = "Permission"
  BY DEF Permission, Reads, At
<1>3. Busy(req[r])
  BY <1>2 DEF Busy
<1>4. CASE \E c \in {"Internal", "PermissionDenied"} : Becomes(r, Reply(req[r], c))
  BY <1>1, <1>3, <1>4, ReplyFollows DEF Becomes, Replies
<1>5. CASE Becomes(r, Goto(req[r], l))
  <2>1. /\ req[r].op = "UploadFile" => l = "GetFileByName"
        /\ req[r].op = "UploadVersion" => l = "Store"
        /\ req[r].op = "ModifyFile" => l \in {"RenameFile", "GetTarget", "GetUpdatedFile"}
        /\ req[r].op = "DeleteFile" => l = "SoftDeleteFile"
        /\ req[r].op = "SetRetentionPolicy" => l = "SetRetentionPolicy"
        /\ req[r].op = "DownloadFile" => l \in {"Retrieve", "FindVersion"}
    BY DEF AfterPermission
  <2>2. req[r].op \in DOMAIN Required
    BY <1>1, <1>2 DEF HandlerInv, Busy, Handlers
  <2> HIDE DEF l
  <2>3. req'[r] = [req[r] EXCEPT !.pc = l]
    BY <1>1, <1>5 DEF Becomes, Goto
  <2>4. /\ req'[r].pc = l /\ req'[r].op = req[r].op
        /\ req'[r].file = req[r].file /\ req'[r].content = req[r].content
    BY <1>1, <2>3 DEF Handlers
  <2>5. OpInv(req'[r])
    BY <1>2, <2>1, <2>2, <2>4, RpcNames DEF OpInv
  <2> QED BY <1>2, <1>3, <2>4, <2>5 DEF Follows
<1> QED BY <1>4, <1>5 DEF Permission, Reads, Checked

\* Every step of a handler that has started.
LEMMA CallFollows ==
  ASSUME IInv, NEW r \in Requests, OpInv(req[r]), Continues(r)
  PROVE  Follows(req[r], req'[r]) /\ req' = [req EXCEPT ![r] = req'[r]]
<1> PICK h : h = req[r]
  OBVIOUS
<1>1. /\ h \in Handlers /\ req \in [Requests -> Handlers] /\ HandlerInv(h)
      /\ OpInv(h) /\ h = req[r]
  BY DEF IInv, TypeOK
<1>2. ASSUME NEW c \in Replies, Busy(h), Becomes(r, Reply(h, c))
      PROVE  Follows(h, req'[r]) /\ req' = [req EXCEPT ![r] = req'[r]]
  BY <1>1, <1>2, ReplyFollows DEF Becomes
<1>3. CASE Permission(r)
  BY <1>1, <1>3, PermissionFollows DEF Permission, Reads, Becomes
<1>4. CASE GetFileByName(r) \/ GetFolder(r) \/ GetTarget(r)
  <2>1. Busy(h)
    BY <1>1, <1>4 DEF GetFileByName, GetFolder, GetTarget, Reads, At, Busy
  <2>2. CASE \E c \in {"AlreadyExists", "Internal", "NotFound"} :
               Becomes(r, Reply(h, c))
    BY <1>1, <1>2, <2>1, <2>2 DEF Replies
  <2>3. CASE GetFileByName(r) /\ Becomes(r, Goto(h, "Store"))
    BY <1>1, <2>1, <2>3
    DEF GetFileByName, At, Becomes, Goto, Follows, OpInv, Handlers
  <2>4. CASE GetFolder(r) /\ Becomes(r, Goto(h, "CreateFile"))
    BY <1>1, <2>1, <2>4
    DEF GetFolder, Reads, At, Becomes, Goto, Follows, OpInv, Handlers
  <2>5. CASE GetTarget(r) /\ Becomes(r, Goto(h, "MoveFile"))
    BY <1>1, <2>1, <2>5
    DEF GetTarget, Reads, At, Becomes, Goto, Follows, OpInv, Handlers
  <2> QED BY <1>1, <1>4, <2>2, <2>3, <2>4, <2>5
      DEF GetFileByName, GetFolder, GetTarget, Reads
<1>5. CASE Store(r)
  BY <1>1, <1>5 DEF Store, At, Becomes, Goto, Follows, OpInv, Busy, Handlers
<1>6. CASE CreateFile(r)
  BY <1>1, <1>6 DEF CreateFile, At, Becomes, Goto, Follows, OpInv, Busy, Handlers
<1>7. CASE ListVersions(r)
  BY <1>1, <1>7 DEF ListVersions, At, Becomes, Goto, Follows, OpInv, Busy, Handlers
<1>8. CASE CreateVersion(r)
  BY <1>1, <1>8 DEF CreateVersion, At, Becomes, Goto, Follows, OpInv, Busy, Handlers
<1>9. CASE UpdateFileVersion(r)
  <2>1. Busy(h) /\ h.pc = "UpdateFileVersion"
    BY <1>1, <1>9 DEF UpdateFileVersion, At, Busy
  <2>2. CASE \E c \in {"ok", "Internal"} : Becomes(r, Reply(h, c))
    BY <1>1, <1>2, <2>1, <2>2 DEF Replies
  <2>3. CASE h.op # "UploadFile" /\ Becomes(r, Goto(h, "GetVersionRetention"))
    BY <1>1, <2>1, <2>3 DEF Becomes, Goto, Follows, OpInv, Handlers
  <2> QED BY <1>1, <1>9, <2>2, <2>3 DEF UpdateFileVersion
<1>10. CASE GetVersionRetention(r) \/ SelectKept(r)
  <2>1. Busy(h) /\ h.pc \in {"GetVersionRetention", "SelectKept"}
    BY <1>1, <1>10 DEF GetVersionRetention, SelectKept, Reads, At, Busy
  <2>2. CASE Becomes(r, Reply(h, "ok"))
    BY <1>1, <1>2, <2>1, <2>2 DEF Replies
  <2>3. ASSUME NEW n, Becomes(r, [Goto(h, "SelectKept") EXCEPT !.lastN = n])
        PROVE  Follows(h, req'[r]) /\ req' = [req EXCEPT ![r] = req'[r]]
    BY <1>1, <2>1, <2>3 DEF Becomes, Goto, Follows, OpInv, Handlers
  <2>4. ASSUME NEW k, Becomes(r, [Goto(h, "DeleteOldVersions") EXCEPT !.keep = k])
        PROVE  Follows(h, req'[r]) /\ req' = [req EXCEPT ![r] = req'[r]]
    BY <1>1, <2>1, <2>4 DEF Becomes, Goto, Follows, OpInv, Handlers
  <2> QED BY <1>1, <1>10, <2>2, <2>3, <2>4 DEF GetVersionRetention, SelectKept, Reads
<1>11. CASE RenameFile(r)
  BY <1>1, <1>11
  DEF RenameFile, Updates, At, Becomes, Goto, Follows, OpInv, Busy, Handlers
<1>12. CASE MoveFile(r)
  BY <1>1, <1>12
  DEF MoveFile, Updates, At, Becomes, Goto, Follows, OpInv, Busy, Handlers
<1>13. CASE FindVersion(r)
  <2>1. Busy(h) /\ h.pc = "FindVersion"
    BY <1>1, <1>13 DEF FindVersion, Reads, At, Busy
  <2>2. CASE Becomes(r, Reply(h, "NotFound"))
    BY <1>1, <1>2, <2>1, <2>2 DEF Replies
  <2>3. ASSUME NEW k, Becomes(r, [Goto(h, "Retrieve") EXCEPT !.content = k])
        PROVE  Follows(h, req'[r]) /\ req' = [req EXCEPT ![r] = req'[r]]
    BY <1>1, <2>1, <2>3 DEF Becomes, Goto, Follows, OpInv, Handlers
  <2> QED BY <1>1, <1>13, <2>2, <2>3 DEF FindVersion, Reads
<1>14. CASE \/ DeleteOldVersions(r) \/ GetUpdatedFile(r) \/ SoftDeleteFile(r)
            \/ SetRetentionPolicy(r) \/ Retrieve(r) \/ Fault(r)
  <2>1. Busy(h)
    BY <1>1, <1>14 DEF DeleteOldVersions, GetUpdatedFile, SoftDeleteFile,
       SetRetentionPolicy, Retrieve, Fault, Reads, Updates, At, Busy, InFlight
  <2>2. \E c \in {"ok", "Internal"} : Becomes(r, Reply(h, c))
    BY <1>1, <1>14 DEF DeleteOldVersions, GetUpdatedFile, SoftDeleteFile,
       SetRetentionPolicy, Retrieve, Fault, Reads, Updates
  <2> QED BY <1>2, <2>1, <2>2 DEF Replies
<1> QED BY <1>1, <1>3, <1>4, <1>5, <1>6, <1>7, <1>8, <1>9, <1>10, <1>11, <1>12,
       <1>13, <1>14 DEF Continues

\* An upload that has a file stays one of that content and file.
LEMMA UploadedStays ==
  ASSUME IInv, \A u \in Requests : OpInv(req[u]),
         NEW r \in Requests, req' = [req EXCEPT ![r] = req'[r]],
         req[r].pc = "idle" \/ Follows(req[r], req'[r]),
         NEW f, f # 0, NEW c, Uploaded(f, c)
  PROVE  Uploaded(f, c)'
<1>1. req \in [Requests -> Handlers]
  BY DEF IInv, TypeOK
<1>2. CASE f <= NumSeeds /\ Seeds[f].content = c
  BY <1>2 DEF Uploaded
<1>3. ASSUME NEW u \in Requests, req[u].op \in {"UploadFile", "UploadVersion"},
             req[u].file = f, req[u].content = c
      PROVE  Uploaded(f, c)'
  <2>1. CASE u = r
    <3>1. req[r].pc \notin {"idle", "CreateFile", "FindVersion"}
      BY <1>3, <2>1 DEF OpInv
    <3>2. Follows(req[r], req'[r])
      BY <3>1
    <3>3. req'[u].op = req[u].op /\ req'[u].file = f /\ req'[u].content = c
      BY <1>3, <2>1, <3>1, <3>2 DEF Follows
    <3> QED BY <1>3, <3>3 DEF Uploaded
  <2>2. CASE u # r
    <3>1. req'[u] = req[u]
      BY <1>1, <2>2
    <3> QED BY <1>3, <3>1 DEF Uploaded
  <2> QED BY <2>1, <2>2
<1> QED BY <1>2, <1>3 DEF Uploaded
\* A handler's step keeps the invariant if what it writes into rows was
\* uploaded, and what it is going to serve.
LEMMA ServedStep ==
  ASSUME IInv, ServedInv, NEW r \in Requests, req' = [req EXCEPT ![r] = req'[r]],
         req[r].pc = "idle" \/ Follows(req[r], req'[r]), OpInv(req'[r]),
         \A f \in FileIds : \A c :
           files'[f].state # "absent" /\ files'[f].storage = c =>
             \/ files[f].state # "absent" /\ files[f].storage = c
             \/ Uploaded(f, c)',
         \A f \in FileIds : files[f].state # "absent" => files'[f].state # "absent",
         \A v \in VersionIds : \A f, c :
           (/\ versions'[v].state # "absent"
            /\ versions'[v].file = f /\ versions'[v].hash = c) =>
             \/ /\ versions[v].state # "absent"
                /\ versions[v].file = f /\ versions[v].hash = c
             \/ Exists(f)' /\ Uploaded(f, c)',
         \A f, c : (/\ req'[r].op = "DownloadFile"
                    /\ Busy(req'[r]) \/ req'[r].reply = "ok"
                    /\ req'[r].file = f /\ req'[r].content = c) =>
                      Uploaded(f, c)'
  PROVE  ServedInv'
<1>1. req \in [Requests -> Handlers] /\ 0 \notin FileIds
  BY KnownIds DEF IInv, TypeOK
<1>2. \A f : \A c : f # 0 /\ Uploaded(f, c) => Uploaded(f, c)'
  BY UploadedStays DEF ServedInv
<1>3. \A q \in Requests : OpInv(req[q])'
  BY <1>1 DEF ServedInv
<1>4. ASSUME NEW f \in FileIds, files'[f].state # "absent"
      PROVE  Uploaded(f, files[f].storage)'
  <2>1. PICK c : c = files'[f].storage
    OBVIOUS
  <2>2. files[f].state # "absent" /\ files[f].storage = c => Uploaded(f, c)
    BY DEF ServedInv
  <2>3. Uploaded(f, c)'
    BY <1>1, <1>2, <1>4, <2>1, <2>2
  <2> QED BY <2>1, <2>3
<1>5. ASSUME NEW v \in VersionIds, versions'[v].state # "absent"
      PROVE  /\ Exists(versions[v].file)'
             /\ Uploaded(versions[v].file, versions[v].hash)'
  <2>1. PICK f, c : f = versions'[v].file /\ c = versions'[v].hash
    OBVIOUS
  <2>2. CASE /\ versions[v].state # "absent"
             /\ versions[v].file = f /\ versions[v].hash = c
    <3>1. Exists(f) /\ Uploaded(f, c)
      BY <2>2 DEF ServedInv
    <3>2. Exists(f)' /\ f # 0
      BY <1>1, <3>1 DEF Exists
    <3>3. Uploaded(f, c)'
      BY <1>2, <3>1, <3>2
    <3> QED BY <2>1, <3>2, <3>3
  <2>3. CASE Exists(f)' /\ Uploaded(f, c)'
    BY <2>1, <2>3
  <2> QED BY <1>5, <2>1, <2>2, <2>3
<1>6. ASSUME NEW q \in Requests, req'[q].op = "DownloadFile",
             Busy(req'[q]) \/ req'[q].reply = "ok"
      PROVE  Uploaded(req[q].file, req[q].content)'
  <2>1. PICK f, c : f = req'[q].file /\ c = req'[q].content
    OBVIOUS
  <2>2. CASE q = r
    BY <1>6, <2>1, <2>2
  <2>3. CASE q # r
    <3>1. req'[q] = req[q]
      BY <1>1, <2>3
    <3>2. Uploaded(f, c) /\ f # 0
      BY <1>6, <2>1, <3>1 DEF ServedInv, OpInv
    <3> QED BY <1>2, <2>1, <3>2
  <2> QED BY <2>2, <2>3
<1> QED BY <1>3, <1>4, <1>5, <1>6 DEF ServedInv

\* A download goes on with the content it has, except at FindVersion.
LEMMA ServedCall ==
  ASSUME IInv, ServedInv, NEW r \in Requests, Continues(r),
         req[r].pc # "FindVersion",
         \A f \in FileIds : \A c :
           files'[f].state # "absent" /\ files'[f].storage = c =>
             \/ files[f].state # "absent" /\ files[f].storage = c
             \/ Uploaded(f, c)',
         \A f \in FileIds : files[f].state # "absent" => files'[f].state # "absent",
         \A v \in VersionIds : \A f, c :
           (/\ versions'[v].state # "absent"
            /\ versions'[v].file = f /\ versions'[v].hash = c) =>
             \/ /\ versions[v].state # "absent"
                /\ versions[v].file = f /\ versions[v].hash = c
             \/ Exists(f)' /\ Uploaded(f, c)'
  PROVE  ServedInv'
<1>1. Follows(req[r], req'[r]) /\ req' = [req EXCEPT ![r] = req'[r]]
  BY CallFollows DEF ServedInv
<1>2. \A u \in Requests : OpInv(req[u])
  BY DEF ServedInv
<1>3. ASSUME NEW f, NEW c, req'[r].op = "DownloadFile",
             req'[r].file = f, req'[r].content = c
      PROVE  Uploaded(f, c)'
  <2>1. req[r].op = "DownloadFile" /\ Busy(req[r]) /\ req[r].content = c
    BY <1>1, <1>3 DEF Follows
  <2>2. req[r].file = f /\ f # 0
    BY <1>1, <1>2, <1>3, <2>1 DEF Follows, OpInv
  <2>3. Uploaded(f, c)
    BY <2>1, <2>2 DEF ServedInv
  <2> QED BY <1>1, <1>2, <2>2, <2>3, UploadedStays
<1>4. OpInv(req'[r])
  BY <1>1 DEF Follows
<1> QED BY <1>1, <1>3, <1>4, ServedStep

\* A call that writes neither table.
LEMMA ServedRead ==
  ASSUME IInv, ServedInv, NEW r \in Requests, Continues(r),
         req[r].pc # "FindVersion", UNCHANGED <<files, versions>>
  PROVE  ServedInv'
BY ServedCall

LEMMA ServedBegin ==
  ASSUME IInv, ServedInv, NEW r \in Requests, NEW h, CallInv(h), Begin(r, h)
  PROVE  ServedInv'
<1>1. /\ req[r].pc = "idle" /\ req \in [Requests -> Handlers] /\ UNCHANGED tables
      /\ h \in Handlers
      /\ req' = [req EXCEPT ![r] = IF h.file = 0 THEN Goto(h, "Permission")
                                   ELSE GetFile(h)]
  BY DEF Begin, At, Becomes, IInv, TypeOK, CallInv
<1>2. req' = [req EXCEPT ![r] = req'[r]]
  BY <1>1
<1>3. \A u \in Requests : OpInv(req[u])
  BY DEF ServedInv
<1>4. /\ req'[r].op = h.op /\ req'[r].file = h.file
      /\ req'[r].pc \in {"Permission", "done"}
  BY <1>1 DEF Goto, GetFile, Reply, Handlers
<1>5. OpInv(req'[r])
  BY <1>4 DEF OpInv, CallInv
<1>6. ASSUME NEW f, NEW c, req'[r].op = "DownloadFile",
             Busy(req'[r]) \/ req'[r].reply = "ok",
             req'[r].file = f, req'[r].content = c
      PROVE  Uploaded(f, c)'
  <2>1. f # 0 /\ f \in FileIds /\ h.op = "DownloadFile" /\ f = h.file
    BY <1>1, <1>4, <1>6 DEF CallInv, Handlers
  <2>2. CASE ~Live(f)
    BY <1>1, <1>6, <2>1, <2>2 DEF GetFile, Reply, Busy, Handlers
  <2>3. CASE Live(f)
    <3>1. c = files[f].storage /\ files[f].state = "live"
      BY <1>1, <1>6, <2>1, <2>3 DEF GetFile, Goto, Handlers, Live
    <3>2. Uploaded(f, c)
      BY <2>1, <3>1 DEF ServedInv
    <3> QED BY <1>1, <1>2, <1>3, <2>1, <3>2, UploadedStays
  <2> QED BY <2>2, <2>3
<1>7. UNCHANGED <<files, versions>>
  BY <1>1 DEF tables
<1> QED BY <1>1, <1>2, <1>5, <1>6, <1>7, ServedStep

LEMMA ServedFind ==
  ASSUME IInv, ServedInv, NEW r \in Requests, FindVersion(r) \/ Fault(r),
         req[r].pc = "FindVersion"
  PROVE  ServedInv'
<1>1. /\ req \in [Requests -> Handlers] /\ Continues(r)
      /\ UNCHANGED <<files, versions>>
  BY DEF FindVersion, Fault, Reads, tables, IInv, TypeOK, Continues
<1>2. Follows(req[r], req'[r]) /\ req' = [req EXCEPT ![r] = req'[r]]
  BY <1>1, CallFollows DEF ServedInv
<1>3. \A u \in Requests : OpInv(req[u])
  BY DEF ServedInv
<1>4. OpInv(req'[r]) /\ req'[r].file = req[r].file
  BY <1>2 DEF Follows
<1>5. ASSUME NEW f, NEW c, Busy(req'[r]) \/ req'[r].reply = "ok",
             req'[r].file = f, req'[r].content = c
      PROVE  Uploaded(f, c)'
  <2>1. /\ req[r].version \in VersionsOf(f)
        /\ c = versions[req[r].version].hash
    <3>1. CASE \E e \in {"NotFound", "Internal"} : Becomes(r, Reply(req[r], e))
      BY <1>1, <1>5, <3>1 DEF Becomes, Reply, Busy, Handlers
    <3>2. CASE /\ req[r].version \in Downloadable(req[r].file)
               /\ Becomes(r, [Goto(req[r], "Retrieve") EXCEPT
                               !.content = versions[req[r].version].hash])
      BY <1>1, <1>4, <1>5, <3>2 DEF Becomes, Goto, Handlers, Downloadable
    <3> QED BY <3>1, <3>2 DEF FindVersion, Fault, Reads
  <2>2. Exists(f) /\ Uploaded(f, c)
    BY <2>1 DEF ServedInv, VersionsOf
  <2>3. f # 0
    BY <2>2, KnownIds DEF Exists
  <2> QED BY <1>2, <1>3, <2>2, <2>3, UploadedStays
<1> QED BY <1>1, <1>2, <1>4, <1>5, ServedStep
LEMMA ServedCreateFile ==
  ASSUME IInv, ServedInv, NEW r \in Requests, CreateFile(r)
  PROVE  ServedInv'
<1>1. /\ req[r] \in Handlers /\ req \in [Requests -> Handlers]
      /\ OpInv(req[r]) /\ TablesType /\ TablesInv
  BY DEF IInv, TypeOK, ServedInv, TablesType
<1>2. PICK g, b : g = nextFile /\ b = req[r].content
  OBVIOUS
<1>3. /\ req[r].pc = "CreateFile" /\ g \in FileIds /\ UNCHANGED versions
      /\ files[g].state = "absent"
      /\ files'[g].storage = b /\ files'[g].state = "live"
      /\ \A f \in FileIds : f # g => files'[f] = files[f]
  BY <1>1, <1>2, ConstantsAssumption
  DEF CreateFile, At, TablesType, TablesInv, FileIds
<1>4. req'[r] = [Goto(req[r], "CreateVersion") EXCEPT !.file = g, !.num = 1]
  BY <1>1, <1>2 DEF CreateFile, Becomes
<1>5. /\ req'[r].op = "UploadFile" /\ req'[r].file = g /\ req'[r].content = b
  BY <1>1, <1>2, <1>3, <1>4 DEF Goto, Handlers, OpInv
<1>6. Uploaded(g, b)'
  BY <1>5 DEF Uploaded
<1>7. Continues(r)
  BY DEF Continues
<1> QED BY <1>3, <1>6, <1>7, ServedCall

LEMMA ServedCreateVersion ==
  ASSUME IInv, ServedInv, NEW r \in Requests, CreateVersion(r)
  PROVE  ServedInv'
<1>1. /\ req[r] \in Handlers /\ req \in [Requests -> Handlers]
      /\ OpInv(req[r]) /\ HandlerInv(req[r]) /\ TablesType /\ TablesInv
  BY DEF IInv, TypeOK, ServedInv, TablesType
<1>2. PICK w, g, b : w = nextVersion /\ g = req[r].file /\ b = req[r].content
  OBVIOUS
<1>3. /\ req[r].pc = "CreateVersion" /\ w \in VersionIds /\ UNCHANGED files
      /\ versions'[w].file = g /\ versions'[w].hash = b
      /\ \A v \in VersionIds : v # w => versions'[v] = versions[v]
  BY <1>1, <1>2, ConstantsAssumption DEF CreateVersion, At, TablesType, VersionIds
<1>4. req'[r] = [Goto(req[r], "UpdateFileVersion") EXCEPT !.version = w]
  BY <1>1, <1>2 DEF CreateVersion, Becomes
<1>5. /\ req'[r].op \in {"UploadFile", "UploadVersion"}
      /\ req'[r].file = g /\ req'[r].content = b
  BY <1>1, <1>2, <1>3, <1>4 DEF Goto, Handlers, OpInv
<1>6. Exists(g)' /\ Uploaded(g, b)'
  BY <1>1, <1>2, <1>3, <1>5 DEF Uploaded, HandlerInv, Exists
<1>7. Continues(r)
  BY DEF Continues
<1> QED BY <1>3, <1>6, <1>7, ServedCall

LEMMA ServedLink ==
  ASSUME IInv, ServedInv, NEW r \in Requests, UpdateFileVersion(r)
  PROVE  ServedInv'
<1>1. /\ req[r] \in Handlers /\ req \in [Requests -> Handlers]
      /\ OpInv(req[r]) /\ HandlerInv(req[r]) /\ TablesType
  BY DEF IInv, TypeOK, ServedInv, TablesType
<1>2. Continues(r) /\ req[r].pc = "UpdateFileVersion" /\ UNCHANGED versions
  BY DEF Continues, UpdateFileVersion, At
<1>3. CASE UNCHANGED files
  BY <1>2, <1>3, ServedRead
<1>4. CASE files' = Linked(req[r])
  <2>1. PICK g, b : g = req[r].file /\ b = req[r].content
    OBVIOUS
  <2>2. /\ g \in FileIds /\ files'[g].state = files[g].state
        /\ files'[g].storage = b
        /\ \A f \in FileIds : f # g => files'[f] = files[f]
    BY <1>1, <1>2, <1>4, <2>1
    DEF Linked, HandlerInv, Exists, TablesType, FileRecords
  <2>3. Follows(req[r], req'[r])
    BY <1>2, CallFollows DEF ServedInv
  <2>4. /\ req'[r].op \in {"UploadFile", "UploadVersion"}
        /\ req'[r].file = g /\ req'[r].content = b
    BY <1>1, <1>2, <2>1, <2>3 DEF Follows, OpInv
  <2>5. Uploaded(g, b)'
    BY <2>4 DEF Uploaded
  <2> QED BY <1>2, <2>2, <2>5, ServedCall
<1> QED BY <1>3, <1>4 DEF UpdateFileVersion

\* The other updates leave storage paths, files and hashes alone.
LEMMA ServedUpdate ==
  ASSUME IInv, ServedInv, NEW r \in Requests,
         RenameFile(r) \/ MoveFile(r) \/ SoftDeleteFile(r) \/ DeleteOldVersions(r)
  PROVE  ServedInv'
<1>1. req[r] \in Handlers /\ TablesType /\ HandlerInv(req[r])
  BY DEF IInv, TypeOK, TablesType
<1>2. /\ Continues(r)
      /\ req[r].pc \in {"RenameFile", "MoveFile", "SoftDeleteFile",
                        "DeleteOldVersions"}
  BY DEF Continues, RenameFile, MoveFile, SoftDeleteFile, DeleteOldVersions,
     Updates, At
<1>3. CASE RenameFile(r) \/ MoveFile(r) \/ SoftDeleteFile(r)
  <2>1. PICK row : /\ files' = [files EXCEPT ![req[r].file] = row]
                   /\ row.storage = files[req[r].file].storage
                   /\ row.state # "absent"
    <3> DEFINE old == files[req[r].file]
    <3>1. req[r].file \in FileIds /\ old.state # "absent" /\ old \in FileRecords
      BY <1>1, <1>2, <1>3 DEF HandlerInv, Exists, TablesType, Busy, RenameFile,
         MoveFile, SoftDeleteFile, Updates, At
    <3>2. CASE RenameFile(r)
      <4> DEFINE row == [old EXCEPT !.name = req[r].name]
      <4>1. row.storage = old.storage /\ row.state # "absent"
        BY <3>1 DEF FileRecords
      <4>2. files' = [files EXCEPT ![req[r].file] = row]
        BY <3>2 DEF RenameFile, Updates
      <4> HIDE DEF row
      <4> QED BY <4>1, <4>2
    <3>3. CASE MoveFile(r)
      <4> DEFINE row == [old EXCEPT !.folder = req[r].target]
      <4>1. row.storage = old.storage /\ row.state # "absent"
        BY <3>1 DEF FileRecords
      <4>2. files' = [files EXCEPT ![req[r].file] = row]
        BY <3>3 DEF MoveFile, Updates
      <4> HIDE DEF row
      <4> QED BY <4>1, <4>2
    <3>4. CASE SoftDeleteFile(r)
      <4> DEFINE row == [old EXCEPT !.state = "deleted"]
      <4>1. row.storage = old.storage /\ row.state # "absent"
        BY <3>1 DEF FileRecords
      <4>2. files' = [files EXCEPT ![req[r].file] = row]
        BY <3>4 DEF SoftDeleteFile, Updates
      <4> HIDE DEF row
      <4> QED BY <4>1, <4>2
    <3> QED BY <1>3, <3>2, <3>3, <3>4
  <2>2. \A f \in FileIds : /\ files'[f].storage = files[f].storage
                           /\ files[f].state # "absent" => files'[f].state # "absent"
                           /\ files'[f] = files[f] \/ f = req[r].file
    BY <1>1, <2>1 DEF TablesType
  <2>3. Exists(req[r].file)
    BY <1>1, <1>2, <1>3 DEF HandlerInv, Busy, RenameFile, MoveFile,
       SoftDeleteFile, Updates, At
  <2>4. UNCHANGED versions
    BY <1>3 DEF RenameFile, MoveFile, SoftDeleteFile, Updates
  <2> QED BY <1>2, <2>2, <2>3, <2>4, ServedCall DEF Exists
<1>4. CASE DeleteOldVersions(r)
  <2>1. UNCHANGED files
    BY <1>4 DEF DeleteOldVersions
  <2>2. \A v \in VersionIds :
          /\ versions'[v].file = versions[v].file
          /\ versions'[v].hash = versions[v].hash
          /\ versions'[v].state # "absent" => versions[v].state # "absent"
    BY <1>1, <1>4 DEF DeleteOldVersions, TablesType, VersionRecords, VersionsOf
  <2> QED BY <1>2, <2>1, <2>2, ServedCall
<1> QED BY <1>3, <1>4

\* Steps that move no handler keep what was uploaded.
LEMMA ServedOthers ==
  ASSUME IInv, ServedInv, UNCHANGED <<req, versions>>,
         \A f \in FileIds : /\ files'[f].storage = files[f].storage
                            /\ files'[f].state = "absent" <=> files[f].state = "absent"
  PROVE  ServedInv'
BY DEF ServedInv, OpInv, Uploaded, Exists, Busy

LEMMA ServedNext == IInv /\ ServedInv /\ [Next]_vars => ServedInv'
<1> SUFFICES ASSUME IInv, ServedInv, [Next]_vars PROVE ServedInv'
  OBVIOUS
<1>1. ASSUME NEW r \in Requests, Arrives(r) PROVE ServedInv'
  BY <1>1, Arrivals, ServedBegin
<1>2. ASSUME NEW r \in Requests, Continues(r) PROVE ServedInv'
  <2>1. CASE \/ CreateFile(r) \/ CreateVersion(r) \/ UpdateFileVersion(r)
             \/ RenameFile(r) \/ MoveFile(r) \/ SoftDeleteFile(r)
             \/ DeleteOldVersions(r)
    BY <2>1, ServedCreateFile, ServedCreateVersion, ServedLink, ServedUpdate
  <2>2. CASE req[r].pc = "FindVersion" /\ (FindVersion(r) \/ Fault(r))
    BY <2>2, ServedFind
  <2>3. CASE /\ req[r].pc # "FindVersion"
             /\ \/ Permission(r) \/ GetFileByName(r) \/ GetFolder(r)
                \/ ListVersions(r) \/ GetVersionRetention(r) \/ SelectKept(r)
                \/ GetTarget(r) \/ GetUpdatedFile(r) \/ Retrieve(r) \/ Fault(r)
                \/ Store(r) \/ SetRetentionPolicy(r)
    <3>1. UNCHANGED <<files, versions>>
      BY <2>3 DEF Permission, GetFileByName, GetFolder, ListVersions,
         GetVersionRetention, SelectKept, GetTarget, GetUpdatedFile, Retrieve,
         Fault, Store, SetRetentionPolicy, Reads, tables
    <3> QED BY <1>2, <2>3, <3>1, ServedRead
  <2>4. /\ FindVersion(r) => req[r].pc = "FindVersion"
        /\ (\/ Permission(r) \/ GetFileByName(r) \/ GetFolder(r)
            \/ ListVersions(r) \/ GetVersionRetention(r) \/ SelectKept(r)
            \/ GetTarget(r) \/ GetUpdatedFile(r) \/ Retrieve(r) \/ Store(r)
            \/ SetRetentionPolicy(r)) => req[r].pc # "FindVersion"
    BY DEF FindVersion, Permission, GetFileByName, GetFolder, ListVersions,
       GetVersionRetention, SelectKept, GetTarget, GetUpdatedFile, Retrieve,
       Store, SetRetentionPolicy, Reads, At
  <2> QED BY <1>2, <2>1, <2>2, <2>3, <2>4 DEF Continues
<1>3. ASSUME NEW d \in Folders, DeleteFolder(d) PROVE ServedInv'
  <2>1. TablesType
    BY DEF IInv, TypeOK, TablesType
  <2>2. \A f \in FileIds :
          /\ files'[f].storage = files[f].storage
          /\ files'[f].state = "absent" <=> files[f].state = "absent"
    BY <1>3, <2>1 DEF DeleteFolder, TablesType, FileRecords, Live
  <2>3. UNCHANGED <<req, versions>>
    BY <1>3 DEF DeleteFolder
  <2> QED BY <2>2, <2>3, ServedOthers
<1>4. ASSUME Finished \/ UNCHANGED vars PROVE ServedInv'
  BY <1>4, ServedOthers DEF Finished, vars
<1> QED BY <1>1, <1>2, <1>3, <1>4, NextSteps

LEMMA ServedInit == Init => ServedInv
<1> SUFFICES ASSUME Init PROVE ServedInv
  OBVIOUS
<1>1. /\ \A f \in FileIds : f <= NumSeeds => f \in VersionIds
      /\ \A v \in VersionIds : v <= NumSeeds => v \in FileIds
  BY ConstantsAssumption DEF FileIds, VersionIds
<1>2. \A f \in FileIds : files[f].state # "absent" =>
        f <= NumSeeds /\ files[f].storage = Seeds[f].content
  BY DEF Init
<1>3. \A v \in VersionIds : versions[v].state # "absent" =>
        /\ v <= NumSeeds /\ versions[v].file = v
        /\ versions[v].hash = Seeds[v].content
  BY DEF Init
<1>4. \A f \in FileIds : f <= NumSeeds => Exists(f)
  BY DEF Init, Exists
<1>5. \A r \in Requests : req[r] = Idle
  BY DEF Init
<1> QED BY <1>1, <1>2, <1>3, <1>4, <1>5
    DEF ServedInv, OpInv, Uploaded, Idle, Busy

LEMMA ServedInvariance == Spec => []ServedInv
<1> QED BY Invariance, ServedInit, ServedNext, PTL DEF Spec

\* Whatever handlers meet or fail, a download that was served got a content
\* that was uploaded to that file.
THEOREM DownloadsAreTheFiles == Spec => []DownloadsServeTheFile
<1>1. ServedInv => DownloadsServeTheFile
  BY DEF ServedInv, DownloadsServeTheFile
<1> QED BY <1>1, ServedInvariance, PTL
-----------------------------------------------------------------------------
(* Handlers that run one at a time and do not fail.  What a handler has read *)
(* is then still true when it writes; the tables between two calls of one    *)
(* handler are described by where the handler is.                            *)

OneAtATime == MaxInFlight = 1 /\ ~Faults

Used(v) == versions[v].state # "absent"

\* Of two versions of a file the later one has the greater number.
NumbersGrow ==
  \A v, w \in VersionIds :
    Used(v) /\ Used(w) /\ versions[v].file = versions[w].file /\ v < w =>
      versions[v].num < versions[w].num

\* No version is newer than the one its file points to, except the one that a
\* handler is about to link.
LatestIsLinked ==
  \A v \in VersionIds : Used(v) =>
    \/ v <= files[versions[v].file].version
    \/ \E r \in Requests : At(r, "UpdateFileVersion") /\ req[r].version = v

SerialTables ==
  NumbersGrow /\ LatestIsLinked /\ CurrentVersionKept /\ NoFileOutlivesItsFolder

SerialHandler(h) ==
  /\ h.pc = "CreateVersion" =>
       \A v \in VersionIds :
         Used(v) /\ versions[v].file = h.file => versions[v].num < h.num
  /\ h.pc = "UpdateFileVersion" =>
       /\ versions[h.version].state = "stored"
       /\ \A v \in VersionIds :
            Used(v) /\ versions[v].file = h.file => v <= h.version
  /\ h.op = "UploadFile" /\ h.pc \in {"CreateVersion", "UpdateFileVersion"} =>
       files[h.file].version = 0
  /\ h.pc \in {"GetVersionRetention", "SelectKept", "DeleteOldVersions"} =>
       files[h.file].version # 0
  /\ h.pc \in {"SelectKept", "DeleteOldVersions"} => h.lastN > 0
  /\ h.pc = "DeleteOldVersions" => h.keep = KeepList(h.file, h.lastN)
  /\ h.pc = "CreateFile" => folders[h.folder].live
  /\ h.pc = "MoveFile" => folders[h.target].live
  /\ h.op = "UploadFile" /\ h.pc \in {"Store", "GetFolder", "CreateFile"} =>
       ~NameTaken(h.folder, h.name)
  /\ h.op \notin {"UploadFile", "SetRetentionPolicy"}
       /\ h.pc # "GetUpdatedFile" => files[h.file].folder = h.folder
  /\ h.pc \notin {"Permission", "GetUpdatedFile"} => Required[h.op] \in Grants[h.folder]

SerialInv ==
  /\ \A q, r \in Requests : Busy(req[q]) /\ Busy(req[r]) => q = r
  /\ SerialTables
  /\ \A r \in Requests : Busy(req[r]) => SerialHandler(req[r])

\* A handler's step has to look at the tables and at its own record only.
LEMMA SerialStep ==
  ASSUME IInv, SerialInv, NEW r \in Requests, Busy(req[r]),
         req' = [req EXCEPT ![r] = req'[r]], SerialTables',
         Busy(req'[r]) => SerialHandler(req[r])'
  PROVE  SerialInv'
<1>1. \A q \in Requests : q # r => req'[q] = req[q] /\ ~Busy(req[q])
  BY DEF IInv, TypeOK, SerialInv
<1>2. \A q \in Requests : Busy(req'[q]) => q = r
  BY <1>1
<1>3. \A q \in Requests : Busy(req[q])' => SerialHandler(req[q])'
  BY <1>2
<1> QED BY <1>2, <1>3 DEF SerialInv

\* Unless the one handler is about to link a version, every file points to its
\* newest.
LEMMA EveryLinked ==
  ASSUME SerialInv,
         (\A q \in Requests : ~Busy(req[q]))
           \/ \E r \in Requests : Busy(req[r]) /\ req[r].pc # "UpdateFileVersion",
         NEW v \in VersionIds, Used(v)
  PROVE  v <= files[versions[v].file].version
BY DEF SerialInv, SerialTables, LatestIsLinked, At, Busy

LEMMA SerialRead ==
  ASSUME IInv, SerialInv, NEW r \in Requests, Busy(req[r]),
         req[r].pc # "UpdateFileVersion", UNCHANGED tables,
         req' = [req EXCEPT ![r] = req'[r]],
         Busy(req'[r]) => SerialHandler(req[r])'
  PROVE  SerialInv'
<1>1. LatestIsLinked'
  BY EveryLinked DEF LatestIsLinked, Used, tables
<1>2. SerialTables'
  BY <1>1 DEF SerialInv, SerialTables, NumbersGrow, Used, CurrentVersionKept,
     NoFileOutlivesItsFolder, Live, tables
<1> QED BY <1>2, SerialStep

LEMMA SerialReply ==
  ASSUME IInv, SerialInv, NEW r \in Requests, Busy(req[r]),
         req[r].pc # "UpdateFileVersion", UNCHANGED tables,
         NEW c \in Replies, Becomes(r, Reply(req[r], c))
  PROVE  SerialInv'
<1>1. req'[r] = Reply(req[r], c) /\ req' = [req EXCEPT ![r] = req'[r]]
  BY DEF Becomes, IInv, TypeOK
<1>2. ~Busy(req'[r])
  BY <1>1 DEF Reply, Busy, IInv, TypeOK, Handlers
<1> QED BY <1>1, <1>2, SerialRead

\* A call arrives only when no handler runs.
LEMMA NobodyElse ==
  ASSUME OneAtATime, SerialInv, Cardinality(InFlight) < MaxInFlight
  PROVE  \A q \in Requests : ~Busy(req[q])
<1> SUFFICES ASSUME NEW q \in Requests, Busy(req[q]) PROVE FALSE
  OBVIOUS
<1>1. InFlight = {q}
  BY DEF InFlight, SerialInv, Busy
<1>2. Cardinality({q}) = 1
  BY FS_Singleton
<1> QED BY <1>1, <1>2 DEF OneAtATime

LEMMA SerialBegin ==
  ASSUME OneAtATime, IInv, SerialInv, NEW r \in Requests, NEW h, CallInv(h),
         Begin(r, h)
  PROVE  SerialInv'
<1>1. /\ req \in [Requests -> Handlers] /\ UNCHANGED tables /\ h \in Handlers
      /\ req' = [req EXCEPT ![r] = IF h.file = 0 THEN Goto(h, "Permission")
                                   ELSE GetFile(h)]
      /\ \A q \in Requests : ~Busy(req[q])
  BY NobodyElse DEF Begin, Becomes, IInv, TypeOK, CallInv
<1>2. \A q \in Requests : q # r => ~Busy(req'[q])
  BY <1>1
<1>3. Busy(req'[r]) => /\ req'[r].pc = "Permission"
                       /\ req'[r].op = h.op /\ req'[r].file = h.file
                       /\ h.file # 0 => req'[r].folder = files[h.file].folder
  BY <1>1 DEF Goto, GetFile, Reply, Busy, Handlers
<1>4. Busy(req'[r]) => SerialHandler(req[r])'
  BY <1>1, <1>3 DEF SerialHandler, CallInv, tables
<1>5. LatestIsLinked'
  BY <1>1, EveryLinked DEF LatestIsLinked, Used, tables
<1>6. SerialTables'
  BY <1>1, <1>5 DEF SerialInv, SerialTables, NumbersGrow, Used,
     CurrentVersionKept, NoFileOutlivesItsFolder, Live, tables
<1> QED BY <1>2, <1>4, <1>6 DEF SerialInv

LEMMA SerialPermission ==
  ASSUME IInv, SerialInv, NEW r \in Requests, Permission(r)
  PROVE  SerialInv'
<1>1. /\ req[r] \in Handlers /\ req \in [Requests -> Handlers] /\ HandlerInv(req[r])
      /\ req[r].pc = "Permission" /\ Busy(req[r]) /\ UNCHANGED tables
  BY DEF IInv, TypeOK, Permission, Reads, At, Busy
<1> DEFINE l == AfterPermission(req[r])
<1>2. CASE \E c \in {"Internal", "PermissionDenied"} : Becomes(r, Reply(req[r], c))
  BY <1>1, <1>2, SerialReply DEF Replies
<1>3. CASE /\ Asked(req[r]) \subseteq Grants[req[r].folder]
           /\ Becomes(r, Goto(req[r], l))
  <2>1. /\ req[r].op = "UploadFile" => l = "GetFileByName"
        /\ req[r].op = "UploadVersion" => l = "Store"
        /\ req[r].op = "ModifyFile" => l \in {"RenameFile", "GetTarget", "GetUpdatedFile"}
        /\ req[r].op = "DeleteFile" => l = "SoftDeleteFile"
        /\ req[r].op = "SetRetentionPolicy" => l = "SetRetentionPolicy"
        /\ req[r].op = "DownloadFile" => l \in {"Retrieve", "FindVersion"}
    BY DEF AfterPermission
  <2>2. l # "GetUpdatedFile" => Required[req[r].op] \in Grants[req[r].folder]
    BY <1>3 DEF AfterPermission, Asked
  <2>3. req[r].op \in DOMAIN Required
    BY <1>1 DEF HandlerInv, Busy, Handlers
  <2> HIDE DEF l
  <2>4. req'[r] = [req[r] EXCEPT !.pc = l] /\ req' = [req EXCEPT ![r] = req'[r]]
    BY <1>1, <1>3 DEF Becomes, Goto
  <2>5. /\ req'[r].pc = l /\ req'[r].op = req[r].op
        /\ req'[r].file = req[r].file /\ req'[r].folder = req[r].folder
    BY <1>1, <2>4 DEF Handlers
  <2>6. SerialHandler(req[r])
    BY <1>1 DEF SerialInv
  <2>7. SerialHandler(req[r])'
    BY <1>1, <2>1, <2>3, <2>5, <2>6, <2>2, RpcNames DEF SerialHandler, tables
  <2> QED BY <1>1, <2>4, <2>7, SerialRead
<1> QED BY <1>2, <1>3 DEF Permission, Reads, Checked

\* A call that reads and goes on to another with its record as it is.
LEMMA SerialGoto ==
  ASSUME IInv, SerialInv, NEW r \in Requests, Busy(req[r]),
         req[r].pc # "UpdateFileVersion", UNCHANGED tables,
         NEW l \in Labels, Becomes(r, Goto(req[r], l)), SerialHandler(Goto(req[r], l))
  PROVE  SerialInv'
<1>1. req'[r] = Goto(req[r], l) /\ req' = [req EXCEPT ![r] = req'[r]]
  BY DEF Becomes, IInv, TypeOK
<1>2. SerialHandler(req[r])'
  BY <1>1 DEF SerialHandler, Used, NameTaken, Live, KeepList, Newer, VersionsOf,
     tables
<1> QED BY <1>1, <1>2, SerialRead

LEMMA SerialLookups ==
  ASSUME OneAtATime, IInv, SerialInv, NEW r \in Requests, OpInv(req[r]),
         GetFileByName(r) \/ GetFolder(r) \/ GetTarget(r)
  PROVE  SerialInv'
<1> PICK h : h = req[r]
  OBVIOUS
<1>1. /\ h \in Handlers /\ OpInv(h) /\ h = req[r] /\ UNCHANGED tables
      /\ Busy(h) /\ h.pc \in {"GetFileByName", "GetFolder", "GetTarget"}
      /\ SerialHandler(h)
  BY DEF IInv, TypeOK, SerialInv, GetFileByName, GetFolder, GetTarget, Reads,
     At, Busy, tables
<1>2. CASE \E c \in {"AlreadyExists", "Internal", "NotFound"} :
             Becomes(r, Reply(h, c))
  BY <1>1, <1>2, SerialReply DEF Replies
<1>3. CASE /\ h.pc = "GetFileByName" /\ ~NameTaken(h.folder, h.name)
           /\ Becomes(r, Goto(h, "Store"))
  <2>1. SerialHandler(Goto(h, "Store"))
    BY <1>1, <1>3 DEF SerialHandler, OpInv, Goto, Handlers
  <2> QED BY <1>1, <1>3, <2>1, SerialGoto DEF Labels
<1>4. CASE /\ h.pc = "GetFolder" /\ folders[h.folder].live
           /\ Becomes(r, Goto(h, "CreateFile"))
  <2>1. SerialHandler(Goto(h, "CreateFile"))
    BY <1>1, <1>4 DEF SerialHandler, OpInv, Goto, Handlers
  <2> QED BY <1>1, <1>4, <2>1, SerialGoto DEF Labels
<1>5. CASE /\ h.pc = "GetTarget" /\ folders[h.target].live
           /\ Becomes(r, Goto(h, "MoveFile"))
  <2>1. SerialHandler(Goto(h, "MoveFile"))
    BY <1>1, <1>5 DEF SerialHandler, OpInv, Goto, Handlers
  <2> QED BY <1>1, <1>5, <2>1, SerialGoto DEF Labels
<1> QED BY <1>1, <1>2, <1>3, <1>4, <1>5
    DEF GetFileByName, GetFolder, GetTarget, Reads, At, OneAtATime

\* Every number in use, the ones of pruned versions included, is below the
\* new one: the newest version is stored, for it is the current one.
LEMMA SerialListVersions ==
  ASSUME OneAtATime, IInv, ServedInv, SerialInv, NEW r \in Requests, ListVersions(r)
  PROVE  SerialInv'
<1> PICK h : h = req[r]
  OBVIOUS
<1>1. /\ h \in Handlers /\ h = req[r] /\ UNCHANGED tables
      /\ Busy(h) /\ h.pc = "ListVersions" /\ SerialHandler(h) /\ OpInv(h)
      /\ HandlerInv(h) /\ TablesType /\ TablesInv /\ req \in [Requests -> Handlers]
  BY DEF IInv, TypeOK, SerialInv, ListVersions, At, Busy, ServedInv, TablesType
<1>2. PICK n \in VersionIds :
        /\ IsNextNumber(VersionsOf(h.file), n)
        /\ Becomes(r, [Goto(h, "CreateVersion") EXCEPT !.num = n])
  BY <1>1 DEF ListVersions, OneAtATime
<1>3. ASSUME NEW v \in VersionIds, Used(v), versions[v].file = h.file
      PROVE  versions[v].num < n
  <2> PICK w : w = files[h.file].version
    OBVIOUS
  <2>1. h.file \in FileIds
    BY <1>1 DEF HandlerInv, Busy, Exists, OpInv
  <2>2. w \in VersionIds \cup {0} /\ v \in Nat /\ v >= 1
    BY <2>1, <1>1 DEF TablesType, FileRecords, VersionIds
  <2>3. v <= w
    BY <1>1, <1>3, EveryLinked
  <2>4. w \in VersionIds /\ w # 0
    BY <2>2, <2>3 DEF VersionIds
  <2>5. versions[w].state = "stored" /\ versions[w].file = h.file
    BY <1>1, <2>1, <2>4
    DEF SerialInv, SerialTables, CurrentVersionKept, TablesInv, PointerMatchesContent
  <2>6. versions[w].num < n
    BY <1>2, <2>4, <2>5 DEF IsNextNumber, VersionsOf
  <2>7. versions[v] \in VersionRecords /\ versions[w] \in VersionRecords
    BY <1>1, <2>4 DEF TablesType
  <2>8. versions[v].num \in VersionIds \cup {0} /\ versions[w].num \in VersionIds \cup {0}
    BY <2>7 DEF VersionRecords
  <2>9. versions[v].num \in Int /\ versions[w].num \in Int /\ n \in Int /\ w \in Int
    BY <2>2, <2>8 DEF VersionIds
  <2>10. v < w => versions[v].num < versions[w].num
    BY <1>3, <2>4, <2>5 DEF SerialInv, SerialTables, NumbersGrow, Used
  <2> QED BY <2>2, <2>3, <2>6, <2>9, <2>10
<1>4. /\ req'[r] = [Goto(h, "CreateVersion") EXCEPT !.num = n]
      /\ req' = [req EXCEPT ![r] = req'[r]]
  BY <1>1, <1>2 DEF Becomes
<1>5. /\ req'[r].pc = "CreateVersion" /\ req'[r].op = h.op /\ req'[r].num = n
      /\ req'[r].file = h.file /\ req'[r].folder = h.folder
  BY <1>1, <1>4 DEF Goto, Handlers
<1>6. SerialHandler(req[r])'
  BY <1>1, <1>3, <1>5 DEF SerialHandler, OpInv, Used, tables
<1> QED BY <1>1, <1>4, <1>6, SerialRead

LEMMA SerialRetention ==
  ASSUME OneAtATime, IInv, SerialInv, NEW r \in Requests, OpInv(req[r]),
         GetVersionRetention(r) \/ SelectKept(r)
  PROVE  SerialInv'
<1> PICK h : h = req[r]
  OBVIOUS
<1>1. /\ h \in Handlers /\ OpInv(h) /\ h = req[r] /\ UNCHANGED tables
      /\ Busy(h) /\ h.pc \in {"GetVersionRetention", "SelectKept"}
      /\ SerialHandler(h) /\ req \in [Requests -> Handlers]
  BY DEF IInv, TypeOK, SerialInv, GetVersionRetention, SelectKept, Reads, At, Busy
<1>2. CASE Becomes(r, Reply(h, "ok"))
  BY <1>1, <1>2, SerialReply DEF Replies
<1>3. ASSUME NEW n, n > 0, Becomes(r, [Goto(h, "SelectKept") EXCEPT !.lastN = n])
      PROVE  SerialInv'
  <2>1. /\ req'[r] = [Goto(h, "SelectKept") EXCEPT !.lastN = n]
        /\ req' = [req EXCEPT ![r] = req'[r]]
    BY <1>1, <1>3 DEF Becomes
  <2>2. /\ req'[r].pc = "SelectKept" /\ req'[r].op = h.op /\ req'[r].lastN = n
        /\ req'[r].file = h.file /\ req'[r].folder = h.folder
    BY <1>1, <2>1 DEF Goto, Handlers
  <2>3. SerialHandler(req[r])'
    BY <1>1, <1>3, <2>2 DEF SerialHandler, OpInv, tables
  <2> QED BY <1>1, <2>1, <2>3, SerialRead
<1>4. ASSUME h.pc = "SelectKept", NEW k, k = KeepList(h.file, h.lastN),
             Becomes(r, [Goto(h, "DeleteOldVersions") EXCEPT !.keep = k])
      PROVE  SerialInv'
  <2>1. /\ req'[r] = [Goto(h, "DeleteOldVersions") EXCEPT !.keep = k]
        /\ req' = [req EXCEPT ![r] = req'[r]]
    BY <1>1, <1>4 DEF Becomes
  <2>2. /\ req'[r].pc = "DeleteOldVersions" /\ req'[r].op = h.op
        /\ req'[r].lastN = h.lastN /\ req'[r].keep = k
        /\ req'[r].file = h.file /\ req'[r].folder = h.folder
    BY <1>1, <2>1 DEF Goto, Handlers
  <2>3. (req'[r].keep = KeepList(req[r].file, req[r].lastN)')
    BY <1>1, <1>4, <2>2 DEF KeepList, Newer, VersionsOf, tables
  <2>4. SerialHandler(req[r])'
    BY <1>1, <1>4, <2>2, <2>3 DEF SerialHandler, OpInv, tables
  <2> QED BY <1>1, <2>1, <2>4, SerialRead
<1> QED BY <1>1, <1>2, <1>3, <1>4 DEF GetVersionRetention, SelectKept, Reads, At,
    OneAtATime

LEMMA SerialDownload ==
  ASSUME IInv, SerialInv, NEW r \in Requests, OpInv(req[r]),
         FindVersion(r) \/ Retrieve(r) \/ GetUpdatedFile(r)
  PROVE  SerialInv'
<1> PICK h : h = req[r]
  OBVIOUS
<1>1. /\ h \in Handlers /\ OpInv(h) /\ h = req[r] /\ UNCHANGED tables
      /\ Busy(h) /\ h.pc \in {"FindVersion", "Retrieve", "GetUpdatedFile"}
      /\ SerialHandler(h) /\ req \in [Requests -> Handlers]
  BY DEF IInv, TypeOK, SerialInv, FindVersion, Retrieve, GetUpdatedFile, Reads,
     At, Busy
<1>2. CASE \E c \in {"ok", "Internal", "NotFound"} : Becomes(r, Reply(h, c))
  BY <1>1, <1>2, SerialReply DEF Replies
<1>3. ASSUME h.pc = "FindVersion", NEW c,
             Becomes(r, [Goto(h, "Retrieve") EXCEPT !.content = c])
      PROVE  SerialInv'
  <2>1. /\ req'[r] = [Goto(h, "Retrieve") EXCEPT !.content = c]
        /\ req' = [req EXCEPT ![r] = req'[r]]
    BY <1>1, <1>3 DEF Becomes
  <2>2. /\ req'[r].pc = "Retrieve" /\ req'[r].op = h.op
        /\ req'[r].file = h.file /\ req'[r].folder = h.folder
    BY <1>1, <2>1 DEF Goto, Handlers
  <2>3. SerialHandler(req[r])'
    BY <1>1, <1>3, <2>2 DEF SerialHandler, OpInv, tables
  <2> QED BY <1>1, <2>1, <2>3, SerialRead
<1> QED BY <1>1, <1>2, <1>3 DEF FindVersion, Retrieve, GetUpdatedFile, Reads, At

\* The stream goes to the store; no table changes.
LEMMA SerialStore ==
  ASSUME IInv, SerialInv, NEW r \in Requests, OpInv(req[r]), Store(r)
  PROVE  SerialInv'
<1> PICK h : h = req[r]
  OBVIOUS
<1>1. /\ h \in Handlers /\ OpInv(h) /\ h = req[r] /\ h.pc = "Store" /\ Busy(h)
      /\ SerialHandler(h) /\ req \in [Requests -> Handlers]
      /\ UNCHANGED <<files, nextFile, versions, nextVersion, folders>>
  BY DEF IInv, TypeOK, SerialInv, Store, At, Busy
<1> PICK l : l = IF h.op = "UploadFile" THEN "GetFolder" ELSE "ListVersions"
  OBVIOUS
<1>2. req'[r] = [h EXCEPT !.pc = l] /\ req' = [req EXCEPT ![r] = req'[r]]
  BY <1>1 DEF Store, Becomes, Goto
<1>3. /\ req'[r].pc = l /\ req'[r].op = h.op /\ req'[r].name = h.name
      /\ req'[r].file = h.file /\ req'[r].folder = h.folder
  BY <1>1, <1>2 DEF Handlers
<1>4. SerialHandler(req[r])'
  BY <1>1, <1>3 DEF SerialHandler, NameTaken, Live
<1>5. LatestIsLinked'
  BY <1>1, EveryLinked DEF LatestIsLinked, Used
<1>6. SerialTables'
  BY <1>1, <1>5 DEF SerialInv, SerialTables, NumbersGrow, Used,
     CurrentVersionKept, NoFileOutlivesItsFolder, Live
<1> QED BY <1>1, <1>2, <1>4, <1>6, SerialStep

LEMMA SerialCreateFile ==
  ASSUME IInv, ServedInv, SerialInv, NEW r \in Requests, CreateFile(r)
  PROVE  SerialInv'
<1> PICK h, g : h = req[r] /\ g = nextFile
  OBVIOUS
<1>1. /\ h \in Handlers /\ OpInv(h) /\ h = req[r] /\ h.pc = "CreateFile" /\ Busy(h)
      /\ SerialHandler(h) /\ HandlerInv(h) /\ TablesType /\ TablesInv
      /\ req \in [Requests -> Handlers]
  BY DEF IInv, TypeOK, TablesType, SerialInv, ServedInv, CreateFile, At, Busy
<1>2. /\ g \in FileIds /\ files[g].state = "absent"
      /\ files'[g].state = "live" /\ files'[g].folder = h.folder
      /\ files'[g].version = 0
      /\ \A f \in FileIds : f # g => files'[f] = files[f]
      /\ UNCHANGED <<versions, folders>>
  BY <1>1, ConstantsAssumption DEF CreateFile, TablesType, TablesInv, FileIds
<1>3. \A v \in VersionIds : Used(v) => versions[v].file \in FileIds /\ versions[v].file # g
  BY <1>2 DEF ServedInv, Used, Exists
<1>4. /\ req'[r] = [Goto(h, "CreateVersion") EXCEPT !.file = g, !.num = 1]
      /\ req' = [req EXCEPT ![r] = req'[r]]
  BY <1>1 DEF CreateFile, Becomes
<1>5. /\ req'[r].pc = "CreateVersion" /\ req'[r].op = "UploadFile"
      /\ req'[r].file = g /\ req'[r].folder = h.folder
  BY <1>1, <1>4 DEF Goto, Handlers, OpInv
<1>6. SerialHandler(req[r])'
  <2>1. Required["UploadFile"] \in Grants[h.folder]
    BY <1>1 DEF SerialHandler, OpInv
  <2>2. \A v \in VersionIds : Used(v)' => versions'[v].file # g
    BY <1>2, <1>3 DEF Used
  <2> QED BY <1>2, <1>5, <2>1, <2>2 DEF SerialHandler
<1>7. LatestIsLinked'
  BY <1>1, <1>2, <1>3, EveryLinked DEF LatestIsLinked, Used
<1>8. folders[h.folder].live
  BY <1>1 DEF SerialHandler
<1>9. NoFileOutlivesItsFolder'
  BY <1>2, <1>8 DEF SerialInv, SerialTables, NoFileOutlivesItsFolder, Live
<1>10. NumbersGrow' /\ CurrentVersionKept'
  BY <1>2 DEF SerialInv, SerialTables, NumbersGrow, Used, CurrentVersionKept
<1> QED BY <1>1, <1>4, <1>6, <1>7, <1>9, <1>10, SerialStep DEF SerialTables

LEMMA SerialCreateVersion ==
  ASSUME IInv, ServedInv, SerialInv, NEW r \in Requests, CreateVersion(r)
  PROVE  SerialInv'
<1> PICK h, n : h = req[r] /\ n = nextVersion
  OBVIOUS
<1>1. /\ h \in Handlers /\ OpInv(h) /\ h = req[r] /\ h.pc = "CreateVersion"
      /\ Busy(h) /\ SerialHandler(h) /\ HandlerInv(h) /\ TablesType /\ TablesInv
      /\ req \in [Requests -> Handlers]
  BY DEF IInv, TypeOK, TablesType, SerialInv, ServedInv, CreateVersion, At, Busy
<1>2. /\ n \in VersionIds /\ ~Used(n)
      /\ versions'[n].state = "stored" /\ versions'[n].file = h.file
      /\ versions'[n].num = h.num
      /\ \A v \in VersionIds : v # n => versions'[v] = versions[v]
      /\ UNCHANGED <<files, folders>>
  BY <1>1, ConstantsAssumption
  DEF CreateVersion, TablesType, TablesInv, VersionIds, Used
<1>3. \A v \in VersionIds : Used(v)' => v <= n
  BY <1>1, <1>2 DEF Used, TablesInv, TablesType, VersionIds
<1>4. /\ req'[r] = [Goto(h, "UpdateFileVersion") EXCEPT !.version = n]
      /\ req' = [req EXCEPT ![r] = req'[r]]
  BY <1>1 DEF CreateVersion, Becomes
<1>5. /\ req'[r].pc = "UpdateFileVersion" /\ req'[r].op = h.op
      /\ req'[r].version = n
      /\ req'[r].file = h.file /\ req'[r].folder = h.folder
  BY <1>1, <1>4 DEF Goto, Handlers
<1>6. SerialHandler(req[r])'
  BY <1>1, <1>2, <1>3, <1>5 DEF SerialHandler, OpInv
<1>7. LatestIsLinked'
  <2>1. ASSUME NEW v \in VersionIds, Used(v)', v # n
        PROVE  v <= files'[versions'[v].file].version
    BY <1>1, <1>2, <2>1, EveryLinked DEF Used
  <2> QED BY <1>5, <2>1 DEF LatestIsLinked, At
<1>8. NumbersGrow'
  <2> SUFFICES ASSUME NEW v \in VersionIds, NEW w \in VersionIds, Used(v)', Used(w)',
                      versions'[v].file = versions'[w].file, v < w
               PROVE  versions'[v].num < versions'[w].num
    BY DEF NumbersGrow
  <2>1. v # n
    BY <1>2, <1>3 DEF VersionIds
  <2>2. CASE w = n
    BY <1>1, <1>2, <2>1, <2>2 DEF SerialHandler, Used
  <2>3. CASE w # n
    BY <1>2, <2>1, <2>3 DEF SerialInv, SerialTables, NumbersGrow, Used
  <2> QED BY <2>2, <2>3
<1>9. CurrentVersionKept'
  <2> SUFFICES ASSUME NEW f \in FileIds, files[f].version # 0
               PROVE  versions'[files[f].version].state = "stored"
    BY <1>2 DEF CurrentVersionKept
  <2>1. files[f].version \in VersionIds /\ versions[files[f].version].state = "stored"
    BY <1>1 DEF SerialInv, SerialTables, CurrentVersionKept, TablesType, FileRecords
  <2> QED BY <1>2, <2>1
<1>10. NoFileOutlivesItsFolder'
  BY <1>2 DEF SerialInv, SerialTables, NoFileOutlivesItsFolder, Live
<1> QED BY <1>1, <1>4, <1>6, <1>7, <1>8, <1>9, <1>10, SerialStep DEF SerialTables

LEMMA SerialLink ==
  ASSUME IInv, ServedInv, SerialInv, NEW r \in Requests, UpdateFileVersion(r)
  PROVE  SerialInv'
<1> PICK h, g : h = req[r] /\ g = h.file
  OBVIOUS
<1>1. /\ h \in Handlers /\ OpInv(h) /\ h = req[r] /\ g = h.file
      /\ h.pc = "UpdateFileVersion"
      /\ Busy(h) /\ SerialHandler(h) /\ HandlerInv(h) /\ TablesType /\ TablesInv
      /\ req \in [Requests -> Handlers]
  BY DEF IInv, TypeOK, TablesType, SerialInv, ServedInv, UpdateFileVersion, At, Busy
<1>2. /\ g \in FileIds /\ h.version \in VersionIds
      /\ versions[h.version].state = "stored" /\ versions[h.version].file = g
  BY <1>1 DEF HandlerInv, Exists, SerialHandler
<1>3. /\ files' = Linked(h) /\ UNCHANGED <<versions, folders>>
      /\ Becomes(r, IF h.op = "UploadFile" THEN Reply(h, "ok")
                    ELSE Goto(h, "GetVersionRetention"))
  BY <1>1, <1>2 DEF UpdateFileVersion, KeyHolds
<1>4. /\ files'[g].version = h.version
      /\ \A f \in FileIds : /\ f # g => files'[f] = files[f]
                            /\ files'[f].state = files[f].state
                            /\ files'[f].folder = files[f].folder
  BY <1>1, <1>2, <1>3 DEF Linked, TablesType, FileRecords
<1>5. req' = [req EXCEPT ![r] = req'[r]]
  BY <1>1, <1>3 DEF Becomes
<1>6. Busy(req'[r]) => /\ req'[r].pc = "GetVersionRetention" /\ req'[r].op = h.op
                       /\ req'[r].file = g /\ req'[r].folder = h.folder
                       /\ h.op = "UploadVersion"
  BY <1>1, <1>3 DEF Becomes, Goto, Reply, Busy, Handlers, OpInv
<1>7. Busy(req'[r]) => SerialHandler(req[r])'
  <2>1. h.version # 0
    BY <1>2 DEF VersionIds
  <2> QED BY <1>1, <1>2, <1>4, <1>6, <2>1 DEF SerialHandler
<1>8. LatestIsLinked'
  <2> SUFFICES ASSUME NEW v \in VersionIds, Used(v)
               PROVE  v <= files'[versions[v].file].version
    BY <1>3 DEF LatestIsLinked, Used
  <2>1. CASE versions[v].file = g
    BY <1>1, <1>4, <2>1 DEF SerialHandler
  <2>2. CASE versions[v].file # g
    <3>1. \A q \in Requests : At(q, "UpdateFileVersion") => q = r
      BY <1>1 DEF SerialInv, At, Busy
    <3>2. v # h.version
      BY <1>2, <2>2
    <3>3. v <= files[versions[v].file].version
      BY <1>1, <3>1, <3>2 DEF SerialInv, SerialTables, LatestIsLinked
    <3>4. versions[v].file \in FileIds
      BY DEF ServedInv, Exists, Used
    <3> QED BY <1>4, <2>2, <3>3, <3>4
  <2> QED BY <2>1, <2>2
<1>9. CurrentVersionKept' /\ NumbersGrow'
  BY <1>2, <1>3, <1>4 DEF SerialInv, SerialTables, NumbersGrow, Used, CurrentVersionKept
<1>10. NoFileOutlivesItsFolder'
  BY <1>3, <1>4 DEF SerialInv, SerialTables, NoFileOutlivesItsFolder, Live
<1> QED BY <1>1, <1>5, <1>7, <1>8, <1>9, <1>10, SerialStep DEF SerialTables

\* The statement that prunes keeps the current version, the newest there is,
\* and so no foreign key stands against it.
LEMMA CurrentIsKept ==
  ASSUME IInv, ServedInv, SerialInv, NEW r \in Requests,
         req[r].pc = "DeleteOldVersions"
  PROVE  /\ files[req[r].file].version \in req[r].keep
         /\ \A fk : DeleteHolds(fk, VersionsOf(req[r].file) \ req[r].keep)
<1> PICK h, g, w : h = req[r] /\ g = h.file /\ w = files[g].version
  OBVIOUS
<1>1. /\ h = req[r] /\ h.pc = "DeleteOldVersions" /\ Busy(h) /\ SerialHandler(h)
      /\ OpInv(h) /\ HandlerInv(h) /\ TablesType /\ TablesInv /\ h \in Handlers
  BY DEF IInv, TypeOK, TablesType, SerialInv, ServedInv, Busy
<1>2. g \in FileIds
  BY <1>1 DEF HandlerInv, OpInv, Exists
<1>3. w # 0 /\ w \in VersionIds /\ h.lastN > 0
  BY <1>1, <1>2 DEF SerialHandler, TablesType, FileRecords
<1>4. w \in VersionsOf(g)
  BY <1>1, <1>2, <1>3
  DEF SerialInv, SerialTables, CurrentVersionKept, TablesInv,
      PointerMatchesContent, VersionsOf
<1>5. Newer(g, w) = {}
  <2>1. \A v \in VersionsOf(g) : v \in VersionIds /\ v <= w
    BY <1>1, EveryLinked DEF VersionsOf, Used
  <2> QED BY <1>3, <2>1 DEF Newer, VersionIds
<1>6. Cardinality(Newer(g, w)) = 0
  BY <1>5, FS_EmptySet
<1>7. w \in h.keep
  BY <1>1, <1>3, <1>4, <1>6 DEF SerialHandler, KeepList
<1>8. \A f \in FileIds : files[f].version \notin VersionsOf(g) \ h.keep
  <2> SUFFICES ASSUME NEW f \in FileIds, files[f].version \in VersionsOf(g)
               PROVE  files[f].version \in h.keep
    OBVIOUS
  <2>1. files[f].version # 0
    BY DEF VersionsOf, VersionIds
  <2>2. versions[files[f].version].file = f
    BY <1>1, <2>1 DEF TablesInv, PointerMatchesContent
  <2>3. f = g
    BY <2>2 DEF VersionsOf
  <2> QED BY <1>7, <2>3
<1> QED BY <1>1, <1>7, <1>8 DEF DeleteHolds

\* What the statement leaves of the versions.
LEMMA Pruned ==
  ASSUME IInv, ServedInv, SerialInv, NEW r \in Requests, DeleteOldVersions(r)
  PROVE  versions' = [v \in VersionIds |->
           IF v \in VersionsOf(req[r].file) \ req[r].keep
           THEN [versions[v] EXCEPT !.state = "pruned"] ELSE versions[v]]
<1> PICK old : old = VersionsOf(req[r].file) \ req[r].keep
  OBVIOUS
<1>1. \A fk : DeleteHolds(fk, old)
  BY CurrentIsKept DEF DeleteOldVersions, At
<1>2. PICK fk \in ForeignKeys :
        versions' = [v \in VersionIds |->
                       IF v \in old /\ DeleteHolds(fk, old)
                       THEN [versions[v] EXCEPT !.state = "pruned"]
                       ELSE versions[v]]
  BY DEF DeleteOldVersions
<1> QED BY <1>1, <1>2

LEMMA SerialPrune ==
  ASSUME IInv, ServedInv, SerialInv, NEW r \in Requests, DeleteOldVersions(r)
  PROVE  SerialInv'
<1> PICK h, g : h = req[r] /\ g = h.file
  OBVIOUS
<1>1. /\ h = req[r] /\ h.pc = "DeleteOldVersions" /\ Busy(h) /\ h \in Handlers
      /\ TablesType /\ TablesInv /\ req \in [Requests -> Handlers]
      /\ UNCHANGED <<files, folders>> /\ Becomes(r, Reply(h, "ok"))
  BY DEF IInv, TypeOK, TablesType, DeleteOldVersions, At, Busy
<1>2. /\ req' = [req EXCEPT ![r] = req'[r]] /\ ~Busy(req'[r])
  BY <1>1 DEF Becomes, Reply, Busy, Handlers
<1>3. files[g].version \in h.keep
  BY <1>1, CurrentIsKept
<1>4. \A v \in VersionIds :
        /\ versions'[v].file = versions[v].file
        /\ versions'[v].num = versions[v].num
        /\ Used(v)' <=> Used(v)
        /\ v \notin VersionsOf(g) \ h.keep => versions'[v] = versions[v]
  BY <1>1, Pruned DEF TablesType, VersionRecords, VersionsOf, Used
<1>5. LatestIsLinked'
  BY <1>1, <1>4, EveryLinked DEF LatestIsLinked
<1>6. CurrentVersionKept'
  <2> SUFFICES ASSUME NEW f \in FileIds, files[f].version # 0
               PROVE  versions'[files[f].version].state = "stored"
    BY <1>1 DEF CurrentVersionKept
  <2>1. files[f].version \in VersionIds /\ versions[files[f].version].state = "stored"
    BY <1>1 DEF SerialInv, SerialTables, CurrentVersionKept, TablesType, FileRecords
  <2>2. files[f].version \in VersionsOf(g) => f = g
    BY <1>1 DEF VersionsOf, TablesInv, PointerMatchesContent
  <2> QED BY <1>3, <1>4, <2>1, <2>2
<1>7. NumbersGrow'
  BY <1>4 DEF SerialInv, SerialTables, NumbersGrow
<1>8. NoFileOutlivesItsFolder'
  BY <1>1 DEF SerialInv, SerialTables, NoFileOutlivesItsFolder, Live
<1> QED BY <1>1, <1>2, <1>5, <1>6, <1>7, <1>8, SerialStep DEF SerialTables

\* An update of name, folder or state: a row that is left live is in a live
\* folder.
LEMMA SerialUpdate ==
  ASSUME IInv, SerialInv, NEW r \in Requests, Busy(req[r]),
         req[r].pc # "UpdateFileVersion",
         req' = [req EXCEPT ![r] = req'[r]], Exists(req[r].file), NEW row,
         files' = [files EXCEPT ![req[r].file] = row],
         row.version = files[req[r].file].version,
         row.state = "live" => folders[row.folder].live,
         UNCHANGED <<versions, folders>>,
         Busy(req'[r]) => SerialHandler(req[r])'
  PROVE  SerialInv'
<1> PICK g : g = req[r].file
  OBVIOUS
<1>1. /\ g \in FileIds /\ files'[g] = row
      /\ \A f \in FileIds : f # g => files'[f] = files[f]
      /\ \A f \in FileIds : files'[f].version = files[f].version
      /\ files' \in [FileIds -> {files'[f] : f \in FileIds}]
  BY DEF Exists, IInv, TypeOK
<1>2. \A f : files'[f].version = files[f].version
  <2> SUFFICES ASSUME NEW f PROVE files'[f].version = files[f].version
    OBVIOUS
  <2> QED BY DEF IInv, TypeOK
<1>3. LatestIsLinked'
  BY <1>2, EveryLinked DEF LatestIsLinked, Used
<1>4. CurrentVersionKept' /\ NumbersGrow'
  BY <1>2 DEF SerialInv, SerialTables, NumbersGrow, Used, CurrentVersionKept
<1>5. NoFileOutlivesItsFolder'
  BY <1>1 DEF SerialInv, SerialTables, NoFileOutlivesItsFolder, Live
<1> QED BY <1>3, <1>4, <1>5, SerialStep DEF SerialTables
LEMMA SerialModify ==
  ASSUME IInv, ServedInv, SerialInv, NEW r \in Requests,
         RenameFile(r) \/ MoveFile(r) \/ SoftDeleteFile(r)
  PROVE  SerialInv'
<1> PICK h, g : h = req[r] /\ g = h.file
  OBVIOUS
<1>1. /\ h = req[r] /\ g = h.file /\ h \in Handlers /\ OpInv(h) /\ HandlerInv(h)
      /\ h.pc \in {"RenameFile", "MoveFile", "SoftDeleteFile"}
      /\ Busy(h) /\ SerialHandler(h) /\ TablesType /\ req \in [Requests -> Handlers]
      /\ UNCHANGED <<versions, folders>>
  BY DEF IInv, TypeOK, TablesType, SerialInv, ServedInv, RenameFile, MoveFile,
     SoftDeleteFile, Updates, At, Busy
<1>2. Exists(g) /\ files[g] \in FileRecords
  BY <1>1 DEF HandlerInv, OpInv, Exists, TablesType
<1>3. Required[h.op] \in Grants[h.folder]
  BY <1>1 DEF SerialHandler
<1>4. CASE RenameFile(r)
  <2> PICK row : row = [files[g] EXCEPT !.name = h.name]
    OBVIOUS
  <2> PICK l : l = IF h.target # None THEN "GetTarget" ELSE "GetUpdatedFile"
    OBVIOUS
  <2>1. /\ files' = [files EXCEPT ![g] = row]
        /\ req'[r] = [h EXCEPT !.pc = l] /\ req' = [req EXCEPT ![r] = req'[r]]
    BY <1>1, <1>4 DEF RenameFile, Updates, Becomes, Goto
  <2>2. /\ row.version = files[g].version /\ row.state = files[g].state
        /\ row.folder = files[g].folder
    BY <1>2 DEF FileRecords
  <2>3. row.state = "live" => folders[row.folder].live
    BY <1>2, <2>2
    DEF SerialInv, SerialTables, NoFileOutlivesItsFolder, Live, Exists
  <2>4. /\ req'[r].pc = l /\ req'[r].op = h.op /\ req'[r].file = g
        /\ req'[r].folder = h.folder
    BY <1>1, <2>1 DEF Handlers
  <2>5. files'[g] = row
    BY <1>1, <1>2, <2>1 DEF Exists, TablesType
  <2>6. SerialHandler(req[r])'
    BY <1>1, <1>3, <2>2, <2>4, <2>5 DEF SerialHandler, OpInv
  <2> QED BY <1>1, <1>2, <2>1, <2>2, <2>3, <2>6, SerialUpdate, ZenonT(60)
<1>5. CASE MoveFile(r)
  <2> PICK row : row = [files[g] EXCEPT !.folder = h.target]
    OBVIOUS
  <2>1. /\ files' = [files EXCEPT ![g] = row] /\ h.pc = "MoveFile"
        /\ req'[r] = [h EXCEPT !.pc = "GetUpdatedFile"]
        /\ req' = [req EXCEPT ![r] = req'[r]]
    BY <1>1, <1>5 DEF MoveFile, Updates, Becomes, Goto, At
  <2>2. row.version = files[g].version /\ row.folder = h.target
    BY <1>2 DEF FileRecords
  <2>3. folders[row.folder].live
    BY <1>1, <2>1, <2>2 DEF SerialHandler
  <2>4. /\ req'[r].pc = "GetUpdatedFile" /\ req'[r].op = "ModifyFile"
        /\ req'[r].folder = h.folder
    BY <1>1, <2>1 DEF Handlers, OpInv
  <2>5. SerialHandler(req[r])'
    BY <2>4 DEF SerialHandler
  <2> QED BY <1>1, <1>2, <2>1, <2>2, <2>3, <2>5, SerialUpdate, ZenonT(60)
<1>6. CASE SoftDeleteFile(r)
  <2> PICK row : row = [files[g] EXCEPT !.state = "deleted"]
    OBVIOUS
  <2>1. /\ files' = [files EXCEPT ![g] = row]
        /\ req'[r] = Reply(h, "ok") /\ req' = [req EXCEPT ![r] = req'[r]]
    BY <1>1, <1>6 DEF SoftDeleteFile, Updates, Becomes
  <2>2. row.version = files[g].version /\ row.state = "deleted"
    BY <1>2 DEF FileRecords
  <2>3. ~Busy(req'[r])
    BY <1>1, <2>1 DEF Reply, Busy, Handlers
  <2> QED BY <1>1, <1>2, <2>1, <2>2, <2>3, SerialUpdate
<1> QED BY <1>4, <1>5, <1>6

LEMMA SerialSetRetention ==
  ASSUME IInv, SerialInv, NEW r \in Requests, SetRetentionPolicy(r)
  PROVE  SerialInv'
<1>1. /\ req \in [Requests -> Handlers] /\ Becomes(r, Reply(req[r], "ok"))
      /\ Busy(req[r]) /\ req[r].pc = "SetRetentionPolicy"
      /\ UNCHANGED <<files, versions>>
      /\ folders' = [folders EXCEPT ![req[r].folder].retention = req[r].lastN]
      /\ folders \in [Folders -> [live : BOOLEAN, retention : Nat]]
  BY DEF IInv, TypeOK, SetRetentionPolicy, At, Busy
<1>2. /\ req' = [req EXCEPT ![r] = req'[r]] /\ ~Busy(req'[r])
  BY <1>1 DEF Becomes, Reply, Busy, Handlers
<1>3. \A d \in Folders : folders'[d].live = folders[d].live
  BY <1>1
<1>4. \A f \in FileIds : Live(f) => files[f].folder \in Folders
  BY DEF IInv, TablesInv, Live
<1>5. NoFileOutlivesItsFolder'
  BY <1>1, <1>3, <1>4 DEF SerialInv, SerialTables, NoFileOutlivesItsFolder, Live
<1>6. LatestIsLinked'
  BY <1>1, EveryLinked DEF LatestIsLinked, Used
<1>7. NumbersGrow' /\ CurrentVersionKept'
  BY <1>1 DEF SerialInv, SerialTables, NumbersGrow, Used, CurrentVersionKept
<1> QED BY <1>1, <1>2, <1>5, <1>6, <1>7, SerialStep DEF SerialTables

LEMMA SerialDeleteFolder ==
  ASSUME OneAtATime, IInv, ServedInv, SerialInv, NEW d \in Folders, DeleteFolder(d)
  PROVE  SerialInv'
<1>1. /\ \A q \in Requests : ~Busy(req[q])
      /\ UNCHANGED <<versions, req>> /\ TablesType /\ TablesInv
  BY NobodyElse DEF DeleteFolder, IInv, TypeOK, TablesType
<1>2. \A f \in FileIds :
        /\ files'[f].version = files[f].version
        /\ Live(f)' => files'[f] = files[f] /\ Live(f) /\ files[f].folder # d
  BY <1>1 DEF DeleteFolder, TablesType, FileRecords, Live
<1>3. \A e \in Folders : e # d => folders'[e] = folders[e]
  BY <1>1 DEF DeleteFolder, TablesType
<1>4. \A f \in FileIds : Live(f) => files[f].folder \in Folders
  BY <1>1 DEF TablesInv, Live
<1>5. NoFileOutlivesItsFolder'
  BY <1>2, <1>3, <1>4 DEF SerialInv, SerialTables, NoFileOutlivesItsFolder, Live
<1>6. LatestIsLinked'
  BY <1>1, <1>2, EveryLinked DEF LatestIsLinked, Used, ServedInv, Exists
<1>7. NumbersGrow' /\ CurrentVersionKept'
  BY <1>1, <1>2 DEF SerialInv, SerialTables, NumbersGrow, Used, CurrentVersionKept
<1> QED BY <1>1, <1>5, <1>6, <1>7 DEF SerialInv, SerialTables

LEMMA SerialInit == Init => SerialInv
<1> SUFFICES ASSUME Init PROVE SerialInv
  OBVIOUS
<1>1. \A r \in Requests : ~Busy(req[r])
  BY DEF Init, Idle, Busy
<1>2. ASSUME NEW v \in VersionIds, Used(v)
      PROVE  versions[v].file = v /\ v \in FileIds /\ files[v].version = v
  BY <1>2, ConstantsAssumption DEF Init, Used, VersionIds, FileIds
<1>3. ASSUME NEW f \in FileIds, Live(f) \/ files[f].version # 0
      PROVE  /\ files[f].folder \in Folders /\ files[f].version = f
             /\ f \in VersionIds /\ versions[f].state = "stored"
  BY <1>3, ConstantsAssumption DEF Init, Live, VersionIds, FileIds
<1>4. \A d \in Folders : folders[d].live
  BY DEF Init
<1>5. NumbersGrow /\ LatestIsLinked
  BY <1>2 DEF NumbersGrow, LatestIsLinked, VersionIds
<1>6. CurrentVersionKept /\ NoFileOutlivesItsFolder
  BY <1>3, <1>4 DEF CurrentVersionKept, NoFileOutlivesItsFolder
<1> QED BY <1>1, <1>5, <1>6 DEF SerialInv, SerialTables

LEMMA SerialNext ==
  ASSUME OneAtATime
  PROVE  IInv /\ ServedInv /\ SerialInv /\ [Next]_vars => SerialInv'
<1> SUFFICES ASSUME IInv, ServedInv, SerialInv, [Next]_vars PROVE SerialInv'
  OBVIOUS
<1>1. ASSUME NEW r \in Requests, Arrives(r) PROVE SerialInv'
  BY <1>1, Arrivals, SerialBegin
<1>2. ASSUME NEW r \in Requests, Continues(r) PROVE SerialInv'
  <2>1. OpInv(req[r])
    BY DEF ServedInv
  <2> QED
    BY <1>2, <2>1, SerialPermission, SerialLookups, SerialStore, SerialCreateFile,
       SerialListVersions, SerialCreateVersion, SerialLink, SerialRetention,
       SerialPrune, SerialModify, SerialSetRetention, SerialDownload
    DEF Continues, OneAtATime, Fault
<1>3. ASSUME NEW d \in Folders, DeleteFolder(d) PROVE SerialInv'
  BY <1>3, SerialDeleteFolder
<1>4. ASSUME Finished \/ UNCHANGED vars PROVE SerialInv'
  <2>1. UNCHANGED tables /\ req' = req
    BY <1>4 DEF Finished, vars, tables
  <2>2. SerialTables'
    BY <2>1 DEF SerialInv, SerialTables, NumbersGrow, Used, LatestIsLinked, At,
       CurrentVersionKept, NoFileOutlivesItsFolder, Live, tables
  <2>3. ASSUME NEW r \in Requests, Busy(req[r]) PROVE SerialHandler(req[r])'
    <3>1. SerialHandler(req[r])
      BY <2>3 DEF SerialInv
    <3> QED
      BY <2>1, <3>1 DEF SerialHandler, Used, NameTaken, Live, KeepList, Newer,
         VersionsOf, tables
  <2> QED BY <2>1, <2>2, <2>3 DEF SerialInv
<1> QED BY <1>1, <1>2, <1>3, <1>4, NextSteps

LEMMA SerialInvariance == OneAtATime => (Spec => []SerialInv)
<1> SUFFICES ASSUME OneAtATime PROVE Spec => []SerialInv
  OBVIOUS
<1>1. IInv /\ ServedInv /\ SerialInv /\ [Next]_vars => SerialInv'
  BY SerialNext
<1> QED BY <1>1, SerialInit, Invariance, ServedInvariance, PTL DEF Spec
\* No version number vN is ever given twice for a file, not even after
\* retention has pruned the versions that had the greater ones.
THEOREM SerialNumbersUnique == OneAtATime => (Spec => []VersionNumbersUnique)
<1> SUFFICES ASSUME OneAtATime PROVE Spec => []VersionNumbersUnique
  OBVIOUS
<1>1. IInv /\ SerialInv => VersionNumbersUnique
  <2> SUFFICES ASSUME IInv, SerialInv, NEW v \in VersionIds, NEW w \in VersionIds,
                      Used(v), Used(w), versions[v].file = versions[w].file,
                      versions[v].num = versions[w].num
               PROVE  v = w
    BY DEF VersionNumbersUnique, Used
  <2>1. versions[v] \in VersionRecords /\ versions[w] \in VersionRecords
    BY DEF IInv, TypeOK
  <2>2. versions[v].num \in Int /\ v \in Int /\ w \in Int
    BY <2>1 DEF VersionRecords, VersionIds
  <2>3. ~ (v < w) /\ ~ (w < v)
    BY <2>2 DEF SerialInv, SerialTables, NumbersGrow
  <2> QED BY <2>2, <2>3
<1>2. Spec => []SerialInv
  BY SerialInvariance
<1> QED BY <1>1, <1>2, Invariance, PTL

\* Between calls a live file points to the newest version it has.
THEOREM SerialDefaultIsLatest == OneAtATime => (Spec => []DefaultIsLatest)
<1> SUFFICES ASSUME OneAtATime PROVE Spec => []DefaultIsLatest
  OBVIOUS
<1>1. IInv /\ SerialInv => DefaultIsLatest
  <2> SUFFICES ASSUME IInv, SerialInv, Quiet, NEW f \in FileIds
               PROVE  Newer(f, files[f].version) = {}
    BY DEF DefaultIsLatest
  <2>1. \A q \in Requests : ~Busy(req[q])
    BY DEF Quiet, InFlight, Busy
  <2>2. \A v \in VersionsOf(f) : v <= files[f].version
    BY <2>1, EveryLinked DEF VersionsOf, Used
  <2>3. files[f] \in FileRecords
    BY DEF IInv, TypeOK
  <2>4. files[f].version \in Int /\ \A v \in VersionsOf(f) : v \in Int
    BY <2>3 DEF FileRecords, VersionIds, VersionsOf
  <2> QED BY <2>2, <2>4 DEF Newer
<1>2. Spec => []SerialInv
  BY SerialInvariance
<1> QED BY <1>1, <1>2, Invariance, PTL

\* Retention never prunes the version a file points to.
THEOREM SerialCurrentKept == OneAtATime => (Spec => []CurrentVersionKept)
<1> SUFFICES ASSUME OneAtATime PROVE Spec => []CurrentVersionKept
  OBVIOUS
<1>1. SerialInv => CurrentVersionKept
  BY DEF SerialInv, SerialTables
<1>2. Spec => []SerialInv
  BY SerialInvariance
<1> QED BY <1>1, <1>2, PTL

\* No live file is in a deleted folder.
THEOREM SerialFoldersKept == OneAtATime => (Spec => []NoFileOutlivesItsFolder)
<1> SUFFICES ASSUME OneAtATime PROVE Spec => []NoFileOutlivesItsFolder
  OBVIOUS
<1>1. SerialInv => NoFileOutlivesItsFolder
  BY DEF SerialInv, SerialTables
<1>2. Spec => []SerialInv
  BY SerialInvariance
<1> QED BY <1>1, <1>2, PTL
-----------------------------------------------------------------------------
(* How many versions pruning leaves.  The list to keep is what is left of    *)
(* the versions when all but the n greatest are taken away.                  *)

LEMMA LeastElement ==
  ASSUME NEW T \in SUBSET Nat, T # {}
  PROVE  \E x \in T : \A y \in T : x <= y
<1> DEFINE R == OpToRel(<, Nat)
<1>1. \A x, y \in Nat : <<x, y>> \in R <=> x < y
  BY DEF OpToRel
<1>2. IsWellFoundedOn(R, Nat)
  BY NatLessThanWellFounded
<1> HIDE DEF R
<1>3. PICK x \in T : \A y \in T : ~ (<<y, x>> \in R)
  BY <1>2, WFMin
<1>4. ASSUME NEW y \in T PROVE x <= y
  <2>1. x \in Nat /\ y \in Nat /\ ~ (<<y, x>> \in R)
    BY <1>3
  <2>2. ~ (y < x)
    BY <1>1, <2>1
  <2> QED BY <2>1, <2>2
<1> QED BY <1>4

LEMMA GreatestVersion ==
  ASSUME NEW V \in SUBSET VersionIds, V # {}
  PROVE  \E m \in V : \A v \in V : v <= m
<1> PICK T : T = {MaxVersion - v : v \in V}
  OBVIOUS
<1>1. \A v \in V : v \in Int /\ MaxVersion - v \in Nat
  BY ConstantsAssumption DEF VersionIds
<1>2. T \in SUBSET Nat /\ T # {}
  BY <1>1
<1>3. PICK x \in T : \A y \in T : x <= y
  BY <1>2, LeastElement
<1>4. PICK m \in V : x = MaxVersion - m
  BY <1>3
<1>5. \A v \in V : MaxVersion - m <= MaxVersion - v
  BY <1>3, <1>4
<1>6. MaxVersion \in Int
  BY ConstantsAssumption
<1> QED BY <1>1, <1>5, <1>6

LEMMA FiniteVersions ==
  ASSUME NEW V \in SUBSET VersionIds
  PROVE  IsFiniteSet(V) /\ Cardinality(V) \in Nat
<1>1. IsFiniteSet(VersionIds)
  BY FS_Interval, ConstantsAssumption DEF VersionIds
<1> QED BY <1>1, FS_Subset, FS_CardinalityType

Above(V, v) == {w \in V : w > v}
Greatest(V, n) == {v \in V : Cardinality(Above(V, v)) < n}
HowMany(V, n) == IF Cardinality(V) < n THEN Cardinality(V) ELSE n

LEMMA GreatestCounted ==
  ASSUME NEW V \in SUBSET VersionIds, NEW n \in Nat,
         Cardinality(Greatest(V, n)) = HowMany(V, n)
  PROVE  Cardinality(Greatest(V, n + 1)) = HowMany(V, n + 1)
<1> PICK G : G = Greatest(V, n)
  OBVIOUS
<1>1. /\ G \subseteq V /\ \A v \in V : v \in Int
      /\ \A v \in V : Above(V, v) \in SUBSET VersionIds
  <2>1. G \subseteq V
    BY DEF Greatest
  <2>2. \A v \in V : v \in Int
    BY DEF VersionIds
  <2>3. \A v \in V : Above(V, v) \in SUBSET VersionIds
    BY DEF Above
  <2> QED BY <2>1, <2>2, <2>3
<1>2. \A v \in V : IsFiniteSet(Above(V, v)) /\ Cardinality(Above(V, v)) \in Nat
  BY <1>1, FiniteVersions
<1>3. IsFiniteSet(V) /\ Cardinality(V) \in Nat /\ IsFiniteSet(G)
  BY <1>1, FiniteVersions
<1>4. G \subseteq Greatest(V, n + 1)
  BY <1>2 DEF Greatest
<1>5. CASE G = V
  <2>1. Greatest(V, n + 1) = V
    BY <1>4, <1>5 DEF Greatest
  <2> QED BY <1>3, <1>5, <2>1 DEF HowMany
<1>6. CASE G # V
  <2>1. V \ G \in SUBSET VersionIds /\ V \ G # {}
    BY <1>1, <1>6
  <2>2. PICK m \in V \ G : \A v \in V \ G : v <= m
    BY <2>1, GreatestVersion
  <2>3. ASSUME NEW g \in G PROVE g > m
    <3> SUFFICES ASSUME g <= m PROVE FALSE
      BY <1>1
    <3>1. Above(V, m) \subseteq Above(V, g)
      BY <1>1 DEF Above
    <3>2. Cardinality(Above(V, m)) <= Cardinality(Above(V, g))
      BY <1>1, <1>2, <3>1, FS_Subset
    <3>3. Cardinality(Above(V, g)) < n
      BY DEF Greatest
    <3>4. m \in G
      BY <1>1, <1>2, <2>2, <3>2, <3>3 DEF Greatest
    <3> QED BY <2>2, <3>4
  <2>4. Above(V, m) = G
    BY <1>1, <2>2, <2>3 DEF Above
  <2>5. Cardinality(G) = n
    BY <1>2, <1>3, <2>2, <2>4 DEF Greatest, HowMany
  <2>6. m \in Greatest(V, n + 1)
    BY <2>2, <2>4, <2>5 DEF Greatest
  <2>7. IsFiniteSet(G \cup {m}) /\ Cardinality(G \cup {m}) = n + 1
    BY <1>3, <2>2, <2>5, FS_AddElement
  <2>8. ASSUME NEW v \in Greatest(V, n + 1) PROVE v \in G \cup {m}
    <3> SUFFICES ASSUME v \notin G, v # m PROVE FALSE
      OBVIOUS
    <3>1. v \in V /\ v < m /\ Cardinality(Above(V, v)) < n + 1
      BY <1>1, <2>2 DEF Greatest
    <3>2. G \cup {m} \subseteq Above(V, v)
      BY <1>1, <2>2, <2>3, <3>1 DEF Above
    <3>3. n + 1 <= Cardinality(Above(V, v))
      BY <1>2, <2>7, <3>1, <3>2, FS_Subset
    <3> QED BY <1>2, <3>1, <3>3
  <2>9. Greatest(V, n + 1) = G \cup {m}
    BY <1>4, <2>6, <2>8
  <2>10. n + 1 <= Cardinality(V)
    BY <1>1, <1>3, <2>2, <2>7, FS_Subset
  <2> QED BY <1>3, <2>7, <2>9, <2>10 DEF HowMany
<1> QED BY <1>5, <1>6

LEMMA GreatestNumber ==
  ASSUME NEW V \in SUBSET VersionIds, NEW n \in Nat
  PROVE  Cardinality(Greatest(V, n)) = HowMany(V, n)
<1> DEFINE U == {i \in Nat : Cardinality(Greatest(V, i)) # HowMany(V, i)}
<1>1. SUFFICES ASSUME U # {} PROVE FALSE
  OBVIOUS
<1>2. PICK i \in U : \A j \in U : i <= j
  BY <1>1, LeastElement
<1>3. \A v \in V : Above(V, v) \in SUBSET VersionIds
  BY DEF Above
<1>4. Greatest(V, 0) = {}
  BY <1>3, FiniteVersions DEF Greatest
<1>5. Cardinality(Greatest(V, 0)) = HowMany(V, 0)
  BY <1>4, FiniteVersions, FS_EmptySet DEF HowMany
<1>6. i # 0 /\ i - 1 \in Nat /\ i - 1 \notin U
  BY <1>2, <1>5
<1>7. Cardinality(Greatest(V, (i - 1) + 1)) = HowMany(V, (i - 1) + 1)
  BY <1>6, GreatestCounted
<1>8. (i - 1) + 1 = i
  BY <1>2
<1> QED BY <1>2, <1>7, <1>8

\* A DELETE of all but the list leaves as many versions as it should, and what
\* it deletes is older than what it leaves.
LEMMA KeptVersions ==
  ASSUME NEW f, NEW n \in Nat
  PROVE  /\ Cardinality(KeepList(f, n)) = HowMany(VersionsOf(f), n)
         /\ \A v \in VersionsOf(f) \ KeepList(f, n), w \in KeepList(f, n) : v < w
<1>1. VersionsOf(f) \in SUBSET VersionIds
  BY DEF VersionsOf
<1>2. KeepList(f, n) = Greatest(VersionsOf(f), n)
  BY DEF KeepList, Newer, Greatest, Above
<1>3. ASSUME NEW v \in VersionsOf(f) \ KeepList(f, n), NEW w \in KeepList(f, n)
      PROVE  v < w
  <2> SUFFICES ASSUME w <= v PROVE FALSE
    BY <1>1 DEF KeepList, VersionIds
  <2>1. /\ Newer(f, v) \subseteq Newer(f, w)
        /\ Newer(f, v) \in SUBSET VersionIds /\ Newer(f, w) \in SUBSET VersionIds
    BY <1>1 DEF Newer, KeepList, VersionIds
  <2>2. Cardinality(Newer(f, v)) <= Cardinality(Newer(f, w))
    BY <2>1, FiniteVersions, FS_Subset
  <2> QED BY <2>1, <2>2, FiniteVersions DEF KeepList
<1> QED BY <1>1, <1>2, <1>3, GreatestNumber
\* The step that prunes is told by its program counters.
LEMMA PruningStep ==
  ASSUME IInv, NEW r \in Requests, [Next]_vars, At(r, "DeleteOldVersions"),
         req'[r].pc = "done"
  PROVE  DeleteOldVersions(r) \/ Fault(r)
<1>1. req \in [Requests -> Handlers]
  BY DEF IInv, TypeOK
<1>2. ASSUME NEW q \in Requests, q # r, NEW h, Becomes(q, h) PROVE FALSE
  BY <1>1, <1>2 DEF Becomes, At
<1>3. ~ Arrives(r)
  BY Arrivals DEF Begin, At
<1>4. ASSUME NEW q \in Requests, Arrives(q) \/ Continues(q) PROVE q = r
  <2> SUFFICES ASSUME q # r PROVE FALSE
    OBVIOUS
  <2>1. Arrives(q) => \E h : Becomes(q, h)
    BY Arrivals DEF Begin
  <2>2. Continues(q) => \E h : Becomes(q, h)
    BY DEF Continues, Permission, GetFileByName, Store, GetFolder, CreateFile,
       ListVersions, CreateVersion, UpdateFileVersion, GetVersionRetention,
       SelectKept, DeleteOldVersions, RenameFile, GetTarget, MoveFile,
       GetUpdatedFile, SoftDeleteFile, SetRetentionPolicy, FindVersion,
       Retrieve, Fault, Reads, Updates
  <2> QED BY <1>2, <1>4, <2>1, <2>2
<1>5. Continues(r) => DeleteOldVersions(r) \/ Fault(r)
  BY DEF Continues, Permission, GetFileByName, Store, GetFolder, CreateFile,
     ListVersions, CreateVersion, UpdateFileVersion, GetVersionRetention,
     SelectKept, RenameFile, GetTarget, MoveFile, GetUpdatedFile,
     SoftDeleteFile, SetRetentionPolicy, FindVersion, Retrieve, Reads, Updates, At
<1>6. ~ (Finished \/ UNCHANGED vars) /\ \A d \in Folders : ~ DeleteFolder(d)
  BY DEF Finished, vars, DeleteFolder, At
<1> QED BY <1>3, <1>4, <1>5, <1>6, NextSteps
\* What a prune leaves of its file's versions: the list it selected before.
LEMMA PruneLeavesKept ==
  ASSUME IInv, ServedInv, SerialInv, NEW r \in Requests, DeleteOldVersions(r)
  PROVE  /\ req[r].keep = KeepList(req[r].file, req[r].lastN)
         /\ VersionsOf(req[r].file)' = req[r].keep
<1> PICK h, g : h = req[r] /\ g = h.file
  OBVIOUS
<1>1. /\ h \in Handlers /\ TablesType /\ Busy(h) /\ h.pc = "DeleteOldVersions"
      /\ req \in [Requests -> Handlers] /\ Becomes(r, Reply(h, "ok"))
  BY DEF IInv, TypeOK, TablesType, DeleteOldVersions, At, Busy
<1>2. h.keep = KeepList(g, h.lastN)
  BY <1>1 DEF SerialInv, SerialHandler
<1>3. req'[r].file = g
  BY <1>1 DEF Becomes, Reply, Handlers
<1>4. \A v \in VersionIds :
        /\ v \in VersionsOf(g) \ h.keep => versions'[v].state = "pruned"
        /\ v \notin VersionsOf(g) \ h.keep => versions'[v] = versions[v]
  BY <1>1, Pruned DEF TablesType, VersionRecords
<1>5. \A v \in h.keep : v \in VersionsOf(g)
  BY <1>2 DEF KeepList
<1>6. \A v \in VersionIds :
        versions'[v].state = "stored" /\ versions'[v].file = g <=> v \in h.keep
  BY <1>4, <1>5 DEF VersionsOf
<1>7. VersionsOf(req[r].file)' = {v \in VersionIds :
        versions'[v].state = "stored" /\ versions'[v].file = g}
  BY <1>3 DEF VersionsOf
<1>8. h.keep \subseteq VersionIds
  BY <1>5 DEF VersionsOf
<1> QED BY <1>2, <1>6, <1>7, <1>8

LastNLeft ==
  \A r \in Requests :
    (At(r, "DeleteOldVersions") /\ req'[r].pc = "done") =>
      LET had  == VersionsOf(req[r].file)
          left == VersionsOf(req[r].file)'
          n    == req[r].lastN
      IN  /\ Cardinality(left) =
                IF Cardinality(had) < n THEN Cardinality(had) ELSE n
          /\ \A v \in had \ left, w \in left : v < w

\* The step that prunes a file leaves the min(N, what was there) newest of its
\* versions, N the retention that the same call read.
THEOREM SerialPruneLeavesLastN == OneAtATime => (Spec => PruneLeavesLastN)
<1> SUFFICES ASSUME OneAtATime PROVE Spec => PruneLeavesLastN
  OBVIOUS
<1>1. ASSUME IInv, ServedInv, SerialInv, [Next]_vars PROVE LastNLeft
  <2> SUFFICES ASSUME NEW r \in Requests, At(r, "DeleteOldVersions"),
                      req'[r].pc = "done"
               PROVE  LET had  == VersionsOf(req[r].file)
                          left == VersionsOf(req[r].file)'
                          n    == req[r].lastN
                      IN  /\ Cardinality(left) =
                                IF Cardinality(had) < n THEN Cardinality(had) ELSE n
                          /\ \A v \in had \ left, w \in left : v < w
    BY DEF LastNLeft
  <2>1. DeleteOldVersions(r)
    BY <1>1, PruningStep DEF OneAtATime, Fault
  <2>2. VersionsOf(req[r].file)' = KeepList(req[r].file, req[r].lastN)
    BY <1>1, <2>1, PruneLeavesKept
  <2>3. req[r].lastN \in Nat
    BY <1>1 DEF IInv, TypeOK, Handlers
  <2> QED BY <2>2, <2>3, KeptVersions DEF HowMany
<1>2. IInv /\ ServedInv /\ SerialInv /\ [Next]_vars => [LastNLeft]_vars
  BY <1>1
<1>3. Spec => []SerialInv
  BY SerialInvariance
<1> QED
  BY <1>2, <1>3, Invariance, ServedInvariance, PTL
  DEF Spec, PruneLeavesLastN, LastNLeft
-----------------------------------------------------------------------------
(* What the writes of file rows respect. *)

LEMMA NewRow ==
  ASSUME IInv, NEW r \in Requests, CreateFile(r)
  PROVE  /\ nextFile \in FileIds /\ files[nextFile].state = "absent"
         /\ files'[nextFile].folder = req[r].folder
         /\ files'[nextFile].name = req[r].name
         /\ \A f \in FileIds : f # nextFile => files'[f] = files[f]
<1>1. TablesType /\ TablesInv
  BY DEF IInv, TypeOK, TablesType
<1> QED
  BY <1>1, ConstantsAssumption DEF CreateFile, TablesType, TablesInv, FileIds

\* An update touches one existing row, its handler's, and what it leaves of it.
LEMMA RowUpdates ==
  ASSUME IInv, ServedInv, NEW r \in Requests,
         \/ UpdateFileVersion(r) \/ RenameFile(r) \/ MoveFile(r) \/ SoftDeleteFile(r)
  PROVE  /\ Exists(req[r].file)
         /\ \A f \in FileIds : f # req[r].file => files'[f] = files[f]
         /\ LET old == files[req[r].file]
                new == files'[req[r].file]
            IN  /\ SoftDeleteFile(r) \/ new.state = old.state
                /\ UpdateFileVersion(r) \/ new.version = old.version
                /\ \/ RenameFile(r) \/ MoveFile(r)
                   \/ new.name = old.name /\ new.folder = old.folder
                /\ new.state \in {old.state, "deleted"}
<1> PICK h, g : h = req[r] /\ g = h.file
  OBVIOUS
<1>1. /\ h \in Handlers /\ TablesType /\ Busy(h) /\ OpInv(h) /\ HandlerInv(h)
      /\ h.pc \in {"UpdateFileVersion", "RenameFile", "MoveFile", "SoftDeleteFile"}
  BY DEF IInv, TypeOK, TablesType, ServedInv, Busy, UpdateFileVersion, RenameFile,
     MoveFile, SoftDeleteFile, Updates, At
<1>2. Exists(g) /\ g \in FileIds /\ files[g] \in FileRecords
  BY <1>1 DEF HandlerInv, OpInv, Exists, TablesType
<1>3. CASE UpdateFileVersion(r)
  <2> PICK row : row = [files[g] EXCEPT !.version = h.version, !.storage = h.content]
    OBVIOUS
  <2>1. files' = files \/ files' = [files EXCEPT ![g] = row]
    BY <1>3 DEF UpdateFileVersion, Linked
  <2>2. /\ row.state = files[g].state /\ row.name = files[g].name
        /\ row.folder = files[g].folder
    BY <1>2 DEF FileRecords
  <2>3. files'[g] = files[g] \/ files'[g] = row
    BY <1>1, <1>2, <2>1 DEF TablesType
  <2>4. \A f \in FileIds : f # g => files'[f] = files[f]
    BY <1>1, <2>1 DEF TablesType
  <2> QED BY <1>2, <1>3, <2>2, <2>3, <2>4
<1>4. CASE RenameFile(r)
  BY <1>1, <1>2, <1>4 DEF RenameFile, Updates, TablesType, FileRecords
<1>5. CASE MoveFile(r)
  BY <1>1, <1>2, <1>5 DEF MoveFile, Updates, TablesType, FileRecords
<1>6. CASE SoftDeleteFile(r)
  BY <1>1, <1>2, <1>6 DEF SoftDeleteFile, Updates, TablesType, FileRecords
<1> QED BY <1>3, <1>4, <1>5, <1>6

\* The steps that leave the files table alone, or delete rows of it.
LEMMA OtherSteps ==
  ASSUME IInv, [Next]_vars
  PROVE  \/ \E r \in Requests :
              \/ CreateFile(r) \/ UpdateFileVersion(r) \/ RenameFile(r)
              \/ MoveFile(r) \/ SoftDeleteFile(r)
         \/ files' = files
         \/ \E d \in Folders : DeleteFolder(d)
<1>1. ASSUME NEW r \in Requests, Arrives(r) PROVE files' = files
  BY <1>1, Arrivals DEF Begin, tables
<1>2. ASSUME NEW r \in Requests,
             \/ Permission(r) \/ GetFileByName(r) \/ GetFolder(r)
             \/ ListVersions(r) \/ GetVersionRetention(r) \/ SelectKept(r)
             \/ GetTarget(r) \/ GetUpdatedFile(r) \/ FindVersion(r)
             \/ Retrieve(r) \/ Fault(r) \/ Store(r) \/ SetRetentionPolicy(r)
             \/ DeleteOldVersions(r) \/ CreateVersion(r)
      PROVE  files' = files
  BY <1>2 DEF Permission, GetFileByName, GetFolder, ListVersions,
     GetVersionRetention, SelectKept, GetTarget, GetUpdatedFile, FindVersion,
     Retrieve, Fault, Store, SetRetentionPolicy, DeleteOldVersions,
     CreateVersion, Reads, tables
<1>3. Finished \/ UNCHANGED vars => files' = files
  BY DEF Finished, vars
<1>4. CASE \E r \in Requests : Arrives(r) \/ Continues(r)
  <2>1. PICK r \in Requests : Arrives(r) \/ Continues(r)
    BY <1>4
  <2>2. \/ files' = files
        \/ CreateFile(r) \/ UpdateFileVersion(r) \/ RenameFile(r)
        \/ MoveFile(r) \/ SoftDeleteFile(r)
    BY <1>1, <1>2, <2>1 DEF Continues
  <2> QED BY <2>2
<1> QED BY <1>3, <1>4, NextSteps

LEMMA FolderFilesGo ==
  ASSUME IInv, NEW d \in Folders, DeleteFolder(d), NEW f \in FileIds
  PROVE  files'[f].state \in {files[f].state, "deleted"}
<1>1. TablesType
  BY DEF IInv, TypeOK, TablesType
<1> QED BY <1>1 DEF DeleteFolder, TablesType, FileRecords

FreeNamesTaken ==
  \A f \in FileIds :
    files[f].state = "absent" /\ files'[f].state = "live" =>
      ~NameTaken(files'[f].folder, files'[f].name)

\* UploadFile adds a file under a name that no live file of the folder has at
\* that moment, though it looked before it streamed the content.
THEOREM SerialFreeNames == OneAtATime => (Spec => UploadsTakeFreeNames)
<1> SUFFICES ASSUME OneAtATime PROVE Spec => UploadsTakeFreeNames
  OBVIOUS
<1>1. ASSUME IInv, ServedInv, SerialInv, [Next]_vars PROVE FreeNamesTaken
  <2> SUFFICES ASSUME NEW f \in FileIds, files[f].state = "absent",
                      files'[f].state = "live"
               PROVE  ~NameTaken(files'[f].folder, files'[f].name)
    BY DEF FreeNamesTaken
  <2>1. ASSUME NEW r \in Requests, CreateFile(r)
        PROVE  ~NameTaken(files'[f].folder, files'[f].name)
    <3>1. req[r].pc = "CreateFile" /\ Busy(req[r]) /\ OpInv(req[r])
      BY <1>1, <2>1 DEF CreateFile, At, Busy, ServedInv
    <3>2. ~NameTaken(req[r].folder, req[r].name)
      BY <1>1, <3>1 DEF SerialInv, SerialHandler, OpInv
    <3>3. files'[f].folder = req[r].folder /\ files'[f].name = req[r].name
      BY <1>1, <2>1, NewRow
    <3> QED BY <3>2, <3>3
  <2>2. ASSUME NEW r \in Requests,
               \/ UpdateFileVersion(r) \/ RenameFile(r) \/ MoveFile(r)
               \/ SoftDeleteFile(r)
        PROVE  FALSE
    BY <1>1, <2>2, RowUpdates DEF Exists
  <2>3. \A d \in Folders : ~ DeleteFolder(d)
    BY <1>1, FolderFilesGo
  <2> QED BY <1>1, <2>1, <2>2, <2>3, OtherSteps
<1>2. IInv /\ ServedInv /\ SerialInv /\ [Next]_vars => [FreeNamesTaken]_vars
  BY <1>1
<1>3. Spec => []SerialInv
  BY SerialInvariance
<1> QED
  BY <1>2, <1>3, Invariance, ServedInvariance, PTL
  DEF Spec, UploadsTakeFreeNames, FreeNamesTaken

Granted(f) ==
  LET old == files[f]
      new == files'[f]
  IN  old.state = "live" =>
        /\ new.name # old.name \/ new.folder # old.folder
             => "Rename" \in Grants[old.folder]
        /\ new.version # old.version /\ old.version # 0
             => "Write" \in Grants[old.folder]
        /\ new.state # old.state => "Delete" \in Grants[old.folder]

\* A call that changes a live file's row has the permission its RPC asks for
\* on the folder the file is in when it is changed.
THEOREM SerialWritesGranted == OneAtATime => (Spec => WritesAreGranted)
<1> SUFFICES ASSUME OneAtATime PROVE Spec => WritesAreGranted
  OBVIOUS
<1>1. ASSUME IInv, ServedInv, SerialInv, [Next]_vars, req' # req, NEW f \in FileIds
      PROVE  Granted(f)
  <2>1. CASE files'[f] = files[f]
    BY <2>1 DEF Granted
  <2>2. ASSUME NEW r \in Requests, CreateFile(r) PROVE Granted(f)
    BY <1>1, <2>1, <2>2, NewRow DEF Granted
  <2>3. ASSUME NEW r \in Requests, f = req[r].file,
               \/ UpdateFileVersion(r) \/ RenameFile(r) \/ MoveFile(r)
               \/ SoftDeleteFile(r)
        PROVE  Granted(f)
    <3> PICK h : h = req[r]
      OBVIOUS
    <3>1. /\ h.pc \in {"UpdateFileVersion", "RenameFile", "MoveFile", "SoftDeleteFile"}
          /\ UpdateFileVersion(r) => h.pc = "UpdateFileVersion"
          /\ RenameFile(r) \/ MoveFile(r) => h.pc \in {"RenameFile", "MoveFile"}
          /\ SoftDeleteFile(r) => h.pc = "SoftDeleteFile"
      BY <2>3 DEF UpdateFileVersion, RenameFile, MoveFile, SoftDeleteFile, Updates, At
    <3>2. SerialHandler(h) /\ OpInv(h)
      BY <1>1, <3>1 DEF SerialInv, Busy, ServedInv
    <3>3. \/ h.op = "UploadFile" /\ h.pc = "UpdateFileVersion" /\ files[f].version = 0
          \/ /\ h.op # "UploadFile" /\ files[f].folder = h.folder
             /\ Required[h.op] \in Grants[h.folder]
      BY <2>3, <3>1, <3>2 DEF SerialHandler, OpInv
    <3>4. /\ h.pc \in {"RenameFile", "MoveFile"} => Required[h.op] = "Rename"
          /\ h.pc = "SoftDeleteFile" => Required[h.op] = "Delete"
          /\ h.pc = "UpdateFileVersion" /\ h.op # "UploadFile" =>
               Required[h.op] = "Write"
          /\ h.pc # "UpdateFileVersion" => h.op # "UploadFile"
      BY <3>1, <3>2 DEF OpInv, Required
    <3>5. /\ SoftDeleteFile(r) \/ files'[f].state = files[f].state
          /\ UpdateFileVersion(r) \/ files'[f].version = files[f].version
          /\ \/ RenameFile(r) \/ MoveFile(r)
             \/ /\ files'[f].name = files[f].name
                /\ files'[f].folder = files[f].folder
      BY <1>1, <2>3, RowUpdates
    <3>6. CASE SoftDeleteFile(r)
      <4>1. "Delete" \in Grants[files[f].folder] /\ h.pc = "SoftDeleteFile"
        BY <3>1, <3>3, <3>4, <3>6
      <4> QED BY <3>1, <3>5, <4>1 DEF Granted
    <3>7. CASE RenameFile(r) \/ MoveFile(r)
      <4>1. "Rename" \in Grants[files[f].folder] /\ h.pc \in {"RenameFile", "MoveFile"}
        BY <3>1, <3>3, <3>4, <3>7
      <4> QED BY <3>1, <3>5, <4>1 DEF Granted
    <3>8. CASE UpdateFileVersion(r)
      <4>1. h.pc = "UpdateFileVersion"
        BY <3>1, <3>8
      <4>2. files[f].version = 0 \/ "Write" \in Grants[files[f].folder]
        BY <3>3, <3>4, <4>1
      <4> QED BY <3>1, <3>5, <4>1, <4>2 DEF Granted
    <3> QED BY <2>3, <3>6, <3>7, <3>8
  <2>4. ASSUME NEW r \in Requests, f # req[r].file,
               \/ UpdateFileVersion(r) \/ RenameFile(r) \/ MoveFile(r)
               \/ SoftDeleteFile(r)
        PROVE  Granted(f)
    BY <1>1, <2>1, <2>4, RowUpdates
  <2>5. \A d \in Folders : ~ DeleteFolder(d)
    BY <1>1 DEF DeleteFolder
  <2> QED BY <1>1, <2>1, <2>2, <2>3, <2>4, <2>5, OtherSteps
<1>2. IInv /\ ServedInv /\ SerialInv /\ [Next]_vars
        => [req' # req => \A f \in FileIds : Granted(f)]_vars
  BY <1>1
<1>3. Spec => []SerialInv
  BY SerialInvariance
<1> QED
  BY <1>2, <1>3, Invariance, ServedInvariance, PTL
  DEF Spec, WritesAreGranted, Granted
=============================================================================
