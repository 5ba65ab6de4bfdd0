# Mandala workspace: a verification project

TLA+ models of the Mandala workspace server, the TLC runs that check them on
small instances, and proofs that TLAPS checks for every value of the constants.
Paths below are relative to `server/internal/` unless they start with
`client/`, `proto/`, `server/` or `README.md`.

## 1. The system

A Go server keeps files in a tree of folders, with versions, permission bits
per folder and user, and logins by device keys; a desktop client (Wails) calls
it over gRPC. Every RPC runs in a goroutine of its own. Handlers make several
calls on the database and the store and **open no transaction around them**;
only `MoveFolder`, `SoftDeleteFolder` are transactions inside the database
layer. No lock, version column or unique index orders two handlers, except the
unique email and the unique (user, folder) permission row. The database is
PostgreSQL in production (`server/README.md:57`) and SQLite in tests and in
`server/cmd/server/main.go:22`; the SQL is the same but for placeholders and ids,
the guarantees are not.

| component | state | operations | correct when |
|---|---|---|---|
| file service `grpc/file_service/` with `db/*/file.go` | tables files, versions, `folders.version_retention` | UploadFile, UploadVersion, DownloadFile, ModifyFile, DeleteFile, SetRetentionPolicy, ListVersions | a file's current version exists, is its newest and names stored content; deletion is final; pruning keeps the last n; numbers and names do not repeat |
| folder service `grpc/folder_service/` with `db/*/folder.go` | table folders (parent, path, inheritance, deleted_at), table permissions | CreateFolder, MoveFolder, DeleteFolder, ListFolder | the paths are the tree's; nothing live is left in, or reachable under, a deleted folder; a creator keeps access |
| effective permissions `db/*/permission.go`, `permission/` | reads folders and permissions | GetUserEffectivePermissions, HasPermission | the bits follow inheritance and its breaks, and were the user's at some moment of the call |
| upload pipe `grpc/file_service/upload.go` and content store `storage/` | pipe, goroutine, result channel; temporary files, contents under their hashes | uploadStreamToCAS, Store, Retrieve | only whole streams get a name; an answered upload is stored; nobody waits for ever |
| users and devices `grpc/user_service/management.go`, `db/*/user.go` | tables users, devices, root permissions | SetupAdmin, CreateUser, RegisterDevice, RevokeDevice | one first administrator; a revoked device is out |
| logins, sessions, interceptor `grpc/user_service/auth.go`, `grpc/session/`, `grpc/interceptors/` | challenge cache, timers, session set, all in memory | LoginUser, VerifyLoginSignature, authenticate | a challenge is gone once a call with it was answered, and expires; sessions are of active devices |
| client keyring and connection `client/pkg/auth`, `client/internal` | the keyring file (salt and sealed data), data and master key in memory, the token of requests | SetupAdmin, InitKeyring, UnlockKeyring, Login, Save, the interceptor | an open keyring can be opened again; a token stays with its device |
| rest: configuration, logging, start-up, schema script, generated code, user interface, crypto wrappers | none of their own | | |

How they interact: the interceptor lets a request in on its token and session;
each handler asks the permission component for the folder's bits once, at its
start; uploads go through the pipe to the store and then to the tables; folder
changes alter what later permission checks read, but not handlers that have
passed theirs. Restarts keep tables and store and lose sessions, challenges and
running handlers. The client keeps its device's key in the keyring, signs the
server's challenge with it and puts the token it gets into every later request.

What is hard here, and what the properties aim at: check-then-write sequences of
two handlers; a permission or path read early and used late; sequences of calls
of which one fails; a writer whose reader is gone; timers against newer entries;
a session set and a table changed in opposite orders by two handlers; a crash in
the middle; what a database promises about two transactions. `PROJECT.json` lists each hazard at its line.

## 2. Modules

| module | models | composed with |
|---|---|---|
| `FileVersions` | file service and its tables (SQLite; PostgreSQL by `ForeignKeys`) | flat folders, `Grants` in place of the permission walk, the store as a set (`ContentStore` justifies it) |
| `Folders` | rows, paths, moves, deletions and the permission walk, as operators | used by the next two |
| `EffectivePermissions` | one permission check and the writers it meets | extends `Folders` |
| `FolderService` | concurrent folder handlers and one upload | extends `Folders`; its checks and its transactions are single steps |
| `FolderTransactions` | the transactions of `MoveFolder` and `SoftDeleteFolder` by statement and row, and `CreateFolder`, in SQLite and PostgreSQL | extends `Folders`; its `CallsAreOneStep` says when `FolderService`'s steps are what happens |
| `ContentStore` | abstract: a call stores its content whole and succeeds, or fails | |
| `UploadStream` | handler, pipe, goroutine, local or S3 provider | shown to implement `ContentStore` |
| `UserService` | user service, interceptor, sessions, challenges | |
| `Keyring` | the client: keyring file and memory, `AuthService`, the token of a request | the server as two sets, devices and sessions |
| `MC*` | constants of the runs | |
| `FileVersionsProofs`, `FolderServiceProofs`, `FolderTransactionsProofs`, `EffectivePermissionsProofs`, `UploadStreamProofs`, `UserServiceProofs`, `KeyringProofs` | theorems about the module in the name | extend it |
| `FoldersProofs` | lemmas about the operators of `Folders` | the three proof modules above that have folders extend it |

**State and actions.** A table is a function from ids to rows with its
AUTOINCREMENT counter, a Go map in memory is a function or a set, and `req[r]`
is a handler: its program counter (the call it makes next), arguments and locals.
An action is one call on the database, the store or a map together with the
local code up to the next one; early returns are its other branches. Names of
actions are those of the calls (`CreateFile`, `GetVersionRetention`, ...).
A call that fails has done nothing, or has done its work and only the answer is lost.
Where the handler would have gone on, the second is the action of the call followed by a
failure of the next one; after a last call only the reply differs, which is modelled where
a property looks at it (`Outcomes` of `FolderTransactions`, `AnswerLost` of `UserService`:
a `RevokeDevice` whose answer is lost keeps the session). A list may come back short, since
`rows.Err` is never looked at (`db/sqlite/file.go:162`, `:193`): `ListVersions` and
`SelectKept` of `FileVersions` have that as a failure. `ModifyFile` with new metadata only,
or with nothing, is one that asks for another bit, or for none (`Asked`).
A single statement is one step, a function that runs two without a transaction
(`DeleteOldVersions`) is two. The two transactions are one step in `FolderService`
and are taken apart in `FolderTransactions`: there a transaction has a private set of
written rows (`rows`, `gone`) until it commits, a statement first finds its rows and
then updates them one by one, PostgreSQL's statements wait for rows that others have
written and look at the condition again, a cycle of waits ends one transaction, and a
SQLite transaction that wants to write while another one does, or whose snapshot is
old, fails. In `Keyring` a `WriteFile` is two steps, the opening that empties the file
and the write. In `UploadStream` every handler step is a send, a receive or a write to the pipe,
and every step of the goroutine one file-system or S3 call.

**Abstractions.** A content is at once the bytes, their SHA-256 and the URI: the
store's names *are* hashes, and collisions are ignored. Names, keys and users are
model values. Permission bits are sets of names. `UserService` identifies a user
with its unique email, a signature with its key and the second that the signed
challenge carries. Metadata, sizes and times that nothing depends on, logging and
wording are left out. `PRAGMA foreign_keys = ON` runs once, on one connection of
the pool: whether a statement's connection enforces foreign keys is a choice from
`ForeignKeys` (SQLite: both values; PostgreSQL: `{TRUE}`). In `Keyring` a device
stands for its private key and ids, a token for the device it was issued to, a master
key for password and salt, and sealed data opens with its own key only.

**Bounds.** Ids (`MaxFile`, `MaxVersion`, `MaxFolder`, `MaxDevice`), handlers at a
time (`MaxInFlight`, `together`), calls (`Requests`, `Txs`), in `UserService`
challenges, seconds and restarts, in `Keyring` crashes. Bounds are guards: a handler that would pass one stays where it is.
Mutants (operators commented as such, just before what they change) are plausible
errors each of which breaks one property; they are in no specification.

## 3. Runs

| run | instance | shows |
|---|---|---|
| `concurrent` | 3 handlers at once, 2 contents, 3 files and versions, retention 0 or 2, folder deletions, every call may fail and every list come back short | `RowsHaveContent`: rows name stored content; `PointerMatchesContent`: the current version has the file's storage path and belongs to the file; `DownloadsServeTheFile`; `DeletionIsFinal` |
| `serial` | 3 calls one after the other, all operations, two folders of which the caller may write one, retention 0, 1, 2, one file at the start | `VersionNumbersUnique`, `DefaultIsLatest`, `CurrentVersionKept`, `UploadsTakeFreeNames`, `PruneLeavesLastN`, `NoFileOutlivesItsFolder`, `WritesAreGranted` |
| `permissions` | all assignments of 2 bits to a tree of depth 3 with and without breaks; up to 3 writes of others between the queries | `AnswerFollowsInheritance`: the loop computes what the rule says; `AnswerWasTrue`: an answer was right at a moment of the call |
| `folders_concurrent` | 3 handlers at once over a chain of 3 folders and one new, subtree moves and failures included | `ParentIsLast`, `OrphansAreLocked`: a folder that a race leaves live in a deleted one is out of reach (its direct parent: of a live folder further below nothing is said) |
| `folders_serial` | 3 calls in sequence, any of which may fail, two kinds of users, no moves into the own subtree | `PathsAreHierarchical`, `NothingOutlivesItsFolder`, `CreatorKeepsAccess` |
| `transactions` | two calls (moves, deletions, creations) over a tree of depth four with a file in two folders and over an empty one; SQLite, PostgreSQL with any calls, PostgreSQL with calls about unrelated folders; any statement may fail | `CallsAreOneStep`: in SQLite, and in PostgreSQL while only unrelated folders meet, the tables change by the whole effect of one call at a time, and a call that succeeds has had it; `OrphansAreLocked` for any calls in either; under fairness `CallsEnd`: deadlocks end, no call keeps a lock |
| `stream` | 2 uploads of empty, equal or prefixed files, both providers, failures, crash, disk decay | `StoredIsReceived`, `AnsweredIsStored`, `ImplementsStore` (refinement of `ContentStore`), and under fairness `WaitersAreAnswered`, `StoringEnds` |
| `sessions` | 3 calls, 2 at once, on an empty server and on one in use; failures, time, a restart | `RevocationClears`, `RevokedStaysOut`, `UsedChallengesAreGone`, `FreshChallengesStay`, `ChallengesExpire`, `AdminsHaveDevices`, `SetupFindsNobody` |
| `keyring` | four calls, two passwords, three devices, a crash at any point, lost answers and lost sessions; one call at a time while open files can be written, or two at a time and any failure | `FileOpensAgain`: between calls of the first kind the file opens with the key in memory and holds what memory has; `TokensAreTheDevices`: with any calls a token stays with the device it was issued to |
| `x_hang`, `x_revoked`, `x_torn` | the least instance | findings, section 5 |

*Why the bounds are enough.* The races here are between two handlers (a check of
one, a write of the other); a third handler covers a reader or pruner beside them.
Three versions with retention 2 are the fewest with one pruned and the current one
beside another; `serial` has four, and prunes twice. Three calls of `folders_serial` are a
creation or a move, a move or a deletion of what is above it, and one more. A chain of three folders and a fresh one allows a move below, above
and beside, a break of inheritance in the middle, and a row outside the moved
subtree. `AnswerFollowsInheritance` needs depth three: root, a break, and a folder
below. Two challenges, two seconds and `Lifetime = 1` are the fewest in which an old
timer fires while a newer challenge is alive. Two transactions suffice for an old
prefix, for a deadlock and for a stale snapshot, and the tree has a folder to move into
and one below, beside and above each moved one. Four calls of the keyring are a set-up,
a login, a second device or an unlock, and a call more. Where a property holds only without
concurrency, the serial runs say so (`MaxInFlight = 1`, in `FileVersions` also no
failures), and section 5 names the counterexample. Their properties are then about the
sequences of calls, and catch no race: the note of a hazard in `PROJECT.json` says so.

In `permissions` the two environments keep direct grants and moves apart, because
together they refute `AnswerWasTrue` (section 5). `CHECK_DEADLOCK FALSE` is set
where the modelled calls may all have been made (or, in `UploadStream`, where a
handler may be stuck for ever, which is the finding of `x_hang`); the runs of
`FileVersions` end in a stuttering step of their own instead.

**Fairness.** `UploadStream` and `FolderTransactions` assume some. In the first,
`FairSpec` has weak fairness of
`AwaitResult` (a goroutine ready to receive is scheduled) and of the storing
goroutine (Go runs it when it can run, and system and S3 calls return, with an error
or without). Clients owe nothing: a stream may stay open for ever, so the liveness
properties start where the stream has ended or broken. In the second it is weak fairness
of each call's statements: a database goes on with a statement that need not wait, tells
one of the transactions in a deadlock (PostgreSQL looks for them after a second), and
fails a SQLite statement that may not write; the connection or the handler may fail at
any time, but need not.

## 4. Proofs

TLC checks a small instance; the theorems below hold for every value of the constants
that the `ASSUME` of the module admits: any number of handlers, folders, files, ids,
users, contents, and any tables or environment to start from. A theorem has the
property of a run as its conclusion (`Spec => []P`, or `Spec => P` for an action
property), except `TypeCorrect` of `FolderTransactionsProofs`, whose `TypeOK` is its own.

| module | theorem | property |
|---|---|---|
| `FileVersionsProofs` | `TypeCorrect`, `ContentStored`, `PointerSound`, `DownloadsAreTheFiles`, `DeletionFinal` | `TypeOK`, `RowsHaveContent`, `PointerMatchesContent`, `DownloadsServeTheFile`, `DeletionIsFinal` |
| | of serial handlers: `SerialNumbersUnique`, `SerialDefaultIsLatest`, `SerialCurrentKept`, `SerialFoldersKept`, `SerialPruneLeavesLastN`, `SerialFreeNames`, `SerialWritesGranted` | `VersionNumbersUnique`, `DefaultIsLatest`, `CurrentVersionKept`, `NoFileOutlivesItsFolder`, `PruneLeavesLastN`, `UploadsTakeFreeNames`, `WritesAreGranted` |
| `FolderServiceProofs` | `TypeCorrect`, `PathsEndWithParents`, `OrphansOutOfReach` | `TypeOK`, `ParentIsLast`, `OrphansAreLocked` |
| | of serial handlers: `SerialPathsAreHierarchical`, `SerialNothingOutlives`, `SerialCreatorKeepsAccess` | `PathsAreHierarchical`, `NothingOutlivesItsFolder`, `CreatorKeepsAccess` |
| `FolderTransactionsProofs` | `TypeCorrect`, `OrphansOutOfReach` | its `TypeOK`; `OrphansAreLocked` |
| | of SQLite: `SqliteCallsAreOneStep` | `CallsAreOneStep` |
| `EffectivePermissionsProofs` | `TypeCorrect`, `AnswersFollowInheritance`, `AnswersWereTrue` | `TypeOK`, `AnswerFollowsInheritance`, `AnswerWasTrue` |
| `UploadStreamProofs` | `TypeCorrect`, `OnlyReceivedStored`, `SuccessIsStored`, `StoreImplemented` | `TypeOK`, `StoredIsReceived`, `AnsweredIsStored`, `ImplementsStore` |
| `UserServiceProofs` | `TypeCorrect`, `RevocationClearsSessions`, `UsedChallengesAreRemoved`, `NoChallengeIsOverdue`, `AdministratorsCanLogIn`, `RevokedDevicesStayOut`, `FreshChallengesAreKept`, `SetupAdminFindsNobody` | `TypeOK`, `RevocationClears`, `UsedChallengesAreGone`, `ChallengesExpire`, `AdminsHaveDevices`, `RevokedStaysOut`, `FreshChallengesStay`, `SetupFindsNobody` |
| `KeyringProofs` | `TokensStayWithDevices`, `KeyringOpensAgain` | `TokensAreTheDevices`, `FileOpensAgain` |

**Hypotheses.** The theorems named `Serial...` assume `OneAtATime`, as their runs do,
because the properties are false without it (section 5). In `FileVersionsProofs` it is
`MaxInFlight = 1 /\ ~Faults`; in `FolderServiceProofs` it is `MaxInFlight = 1`, no folder
moved below itself, and `Tree(Seeds)`: the tables the server starts on are a tree (calls on
the database may fail). `SerialCreatorKeepsAccess` also assumes `RowsHaveFolders`: the
permission rows at the start are rows of folders, which is the table's foreign key.
`AnswersWereTrue` assumes `Apart`: an environment whose writers change permission rows does
not move or delete folders (section 5 has the counterexample without it).
`SqliteCallsAreOneStep` assumes `SQLite`, that every setting's engine is SQLite: the half
of `CallsAreOneStep` about PostgreSQL is only model-checked.
`KeyringOpensAgain` needs none: `FileOpensAgain` has its condition in itself, the setting
of one call at a time and of writes that do not fail halfway.
The assumptions on a start say that it is one that earlier calls can have left:
`StartsAssumption` of `UserService` (ids in order, rows refer to rows, an administrator has
a device, a session is of an active device), the clauses on paths in `FolderService`,
`FolderTransactions` and `EffectivePermissions` (a path ends with the parent; the folders of
a path have rows). `KeyringAssumption` has finitely many requests, because a call's turn is
decided by how many others are running. `UploadStream`'s streams are finite sequences of
`Chunks`. TLC evaluates every one of these on the runs' constants.

**Arguments.** Hardly a property is inductive; what each needs besides, by module:

- `FileVersions`. `CreateVersion` writes a hash its handler holds, and `UpdateFileVersion`
  links a row inserted calls ago. `IInv` has `TablesInv` for the tables and `HandlerInv` for
  what the calls a handler has made have established. Stability is one lemma: tables only
  *grow* (`Grows`), and `HandlersStable` shows that growth keeps every other handler's part.
  For downloads, `ServedInv` says that every row of a file has a content some upload of that
  file sent, and that an upload's record keeps file and content once it has a file.
- `FileVersions`, serial. `SerialInv` has, for the tables, that a later version has the
  greater number (pruned ones included) and that no version is newer than the one its file
  points to, except the one the one running handler is about to link (`LatestIsLinked`).
  This is why pruning cannot make a number come back: the newest row is the current one, and
  `CurrentIsKept` shows that it is in the list to keep, so no foreign key stands against the
  DELETE (`Pruned`). `SerialHandler` says what a handler has read and nobody has changed
  since: the name that is free, the folder that is live, the list to keep, the permission.
  `PruneLeavesLastN` counts: `GreatestNumber` shows by induction on N that the rows with
  fewer than N newer ones are min(N, how many there are).
- `FolderService`. `ParentIsLast` is inductive once a handler's path is known to end with its
  target (`HandlerInv`); `OrphansAreLocked` follows by `FoldersProofs`' `OrphanUnresolved`: a
  chain that passes a deleted folder does not resolve. The serial theorems rest on three
  lemmas about trees (`CreatedTree`, `MovedTree`, `DeletedTree`) and on `FreshInv`, that what
  the handler has read is still true. `CreatorKeepsAccess` follows the effective bits of the
  parent into the row that the creator gets (`CreatorInv`), and `WalkedOfAppend` shows
  what one more folder at the end of a chain does to them.
- `FolderTransactions`. The same property, from an invariant that includes the rows a
  transaction has written and not committed: they end with their parents too.
- `FolderTransactions`, SQLite. `SqliteInv` has a single writer, and `Progress` for each
  call: the path it has read is still that of the table or its snapshot is stale, and what
  it sees of the table at each statement is so much of the whole effect as it has come to.
  In the third statement that is the effect of the first in the rows still to update and
  the whole effect in all others; `RowsDone` shows that the rows the statement finds are
  those that differ. So the commit writes what `Folders`' `Moved` and `Deleted` give.
  `CommittedProgress` needs of the others only that they have written nothing.
- `EffectivePermissions`. The loop is a recursive function; what it returns for a chain of any
  length (`WalkedIsGrantedAlong`) is proved by induction over a set of numbers, from the
  least-element theorem of the library. `WalkInv` says how far it has come; `TruthInv` says
  which state of the tables the answer will be the truth of.
- `UploadStream`. `HandlerInv` and `WorkerInv` relate the two ends of the pipe: the
  goroutine's temporary file holds the part of the stream that the handler has passed on,
  and past the end of the stream that is the whole of it.
  `StoreImplemented` maps each step to a step of `ContentStore` or a stutter.
- `UserService`. `RowsInv`, `CacheInv`, `SessionsInv` for tables, challenge cache and
  sessions, `HandlerInv` for what a handler has read from them; `Used` says that a
  verification's challenge is gone from its deletion on. That the row of a revoked device
  stays (`RevokedStaysOut`) needs that the next id has no row; that a new session is of a
  login whose device was active when the call began needs that the key a login has read
  was an active device's, and that no device becomes active again.
  `left` marks the devices whose session outlives a revocation: by a login in flight, or
  because the answer of the revocation was lost. A `RemoveSession` clears the mark.
- `Keyring`. `TokensAreTheDevices` holds of memory, file and records together, since each is
  copied to the others. `FileOpensAgain` needs the invariant of a single running call
  (`Serial`): which of memory and file is ahead at each of its steps.

**Only model-checked.** Liveness under fairness and all that needs ENABLED
(`WaitersAreAnswered`, `StoringEnds`, `CallsEnd`), which the installed provers do not reach;
`CallsAreOneStep` of PostgreSQL while only unrelated folders meet (section 7); and the
three violations of section 5. Every other property of every run is a theorem above.

## 5. Findings

Each has a run whose counterexample is the behaviour described.

- `x_hang`: a store that fails early leaves `pw.Write` without a reader
  (`grpc/file_service/upload.go:50`).
- `x_revoked`: a login in flight outlives a revocation
  (`grpc/user_service/auth.go:90`).
- `x_torn`: PostgreSQL, two moves of one folder, or of a folder and of one below it. The
  second transaction reads its path before the first one commits, waits for the row,
  and then looks for the descendants under the old prefix (`db/postgres/folder.go:161`):
  it finds none and leaves them with the paths of the first move. In SQLite the second
  move fails instead, and `MovesTakeAlong` holds.

Also true of the code, stated in the modules but without a run; change the constants
as given to see the counterexample.

| property | change | where |
|---|---|---|
| `VersionNumbersUnique`, `DefaultIsLatest` | `serial` with `MaxInFlight = 2`, or with `Faults = TRUE` | `upload.go:226`, `:247` |
| `PruneLeavesLastN` | the same; two statements, `db/sqlite/file.go:181`, `:212` | `server/README.md:74` |
| `WritesAreGranted` | the same: the file moves after the check | `upload.go:196` |
| `NoFileOutlivesItsFolder`, `NothingOutlivesItsFolder` | two in flight: the folder is deleted after the check | `upload.go:118`, `db/sqlite/folder.go:230` |
| `NamesUnique`, `UploadsTakeFreeNames` | the same: two uploads of one name both find it free. `ModifyFile` does not check names at all. With `Faults = TRUE` a lookup that fails counts as free | `upload.go:98` |
| `CurrentVersionKept` | the same: pruning deletes the version another upload is about to link, where foreign keys are off; with `ForeignKeys = {TRUE}`, as in PostgreSQL, the link fails instead and the property holds | `db/sqlite/file.go:212` |
| `FilesHaveVersions` | `serial` with `Faults = TRUE` | `upload.go:141` |
| `PathsAreHierarchical` | `folders_serial` with `SubtreeMoves = TRUE`: a folder moves below itself and becomes its own ancestor | `grpc/folder_service/manage.go:58` |
| `PathsAreHierarchical` | `folders_serial` with two in flight: a parent's path read early | `grpc/folder_service/create.go:50` |
| `BrokenFoldersAreGranted` | `folders_serial`: a call fails after the folder is inserted | `create.go:64` |
| `FilePathsAreCurrent` | any move: `files.path` is not rewritten | `db/sqlite/folder.go:186` |
| `AnswerWasTrue` | `Environments <- GrantsAndMoves` | `db/sqlite/permission.go:85` |
| `ErrorWasTrue` | any environment with deletions | `db/sqlite/permission.go:63` |
| `ServedIsAsked` | `stream`: Retrieve does not hash (`README.md:71` says it does) | `storage/local.go:88` |
| `OneFirstAdministrator` | `sessions`: two `SetupAdmin` on an empty server both count no user | `management.go:22` |
| `CallsAreOneStep` | `transactions`, without its condition on the database: the interleavings of `x_torn`, and a folder created below one that is being moved | `db/postgres/folder.go:150` |
| `FileOpensAgain` | `keyring`, without its condition on failing writes: a write that fails leaves less than the data, and when less than a salt is left the next `Save` takes zeros for the salt, reports success, and the file never opens again | `client/pkg/auth/auth.go:135` |
| `FileOpensAgain` | the same, without its condition on single calls: a `Save` beside an `Init` or an `Unlock` seals one device's data with another's key or salt | `client/pkg/auth/auth.go:122` |

And without a property: two verifications of one device that overlap can both load the same
challenge and both open the session with it (`grpc/user_service/auth.go:70`); what is proved
is that none is left to a call that begins after one of them was answered. A `RevokeDevice` whose UPDATE
commits though the answer is lost returns before it removes the session
(`grpc/user_service/management.go:159`), which stays until somebody calls again.
The interceptor's list of open methods
(`grpc/interceptors/auth.go:29`) lacks `SetupAdmin`, though the client calls it without a
token (`client/internal/grpcclient/connection.go:118`), so an empty server refuses its
first call. The model takes the list as part of the start (`open`): the empty start has
SetupAdmin in it, the populated one has the list as it is. A challenge is the device and
the time in seconds, not random (`server/README.md:66`), so two challenges of one second
are equal. Tokens have no expiry (`README.md:57` says they do).

PostgreSQL's schema script ends its tables with an `ALTER TABLE ... ADD CONSTRAINT` that
fails when the constraint exists (`db/sql/InitializeDB.postgres.sql:61`), and `Setup`
runs the script at every start (`db/postgres/postgres.go:40`): the server starts on a
PostgreSQL database once. Its `EnsureRootFolder` gives the root the id 1 without advancing
the sequence (`db/postgres/folder.go:21`), so the first `CreateFolder` gets 1 again and
fails; the `transactions` run has this step (`Insert` on the fresh database).

`SetupAdmin` registers the administrator's device before the key is on the client's disk
(`client/internal/services/auth.go:137`): a lost answer or a full disk leaves a server whose
only administrator has no key, and that takes no second one. Nothing locks the keyring
again, though `client/README.md:67` has the keys zeroed when a session ends. A handler
that hangs as in `x_hang` also keeps `GracefulStop` (`server/server.go:154`) from ending.

## 6. Not modelled

- **The other handlers over PostgreSQL's torn transactions**: `FolderService` composes
  the handlers with whole transactions, and `FolderTransactions` shows where that is
  right; a product of both is beyond TLC, and the torn cases are findings already.
- **Client**: its stream interceptor (the same as the unary one), `WorkspaceService` and
  downloads to disk (calls passed on), a crash of the disk under a written file.
- **ListFolder, ListVersions (as RPCs), store `Delete`**: read only, or no caller.
- **Start-up, schema script, configuration, logging, user interface, generated code,
  crypto wrappers, `permission/permission.go`**: no state of their own, pure I/O or no
  caller.

## 7. Plan

Order of work, most important first; all but the last are done.

1. `FileVersions`: the data users would lose.
2. `Folders`, `EffectivePermissions`, `FolderService`: who may do what, where.
3. `ContentStore`, `UploadStream`: liveness and refinement.
4. `UserService`: who is in.
5. `Keyring`: the device's key and its token.
6. `FolderTransactions`: the transactions that `FolderService` takes as steps.
7. Proofs of the invariants and action properties of every module, and of the
   refinement of `ContentStore` (section 4).
   In SQLite a call of `FolderTransactions` is one step (`CallsAreOneStep`).
8. The same for PostgreSQL while only calls about unrelated folders meet. It needs that
   the subtrees of running calls stay apart when one of them commits, which depends on
   paths that agree with each other: what lies under a path that leads through a folder
   lies under that folder.

## 8. Reproducing

`tlc -config X.cfg M` with the module and configuration that `PROJECT.json` names for a
run; `tlapm M.tla` for each of the eight modules `*Proofs` (SMT, Zenon, LS4; the
longest take some minutes).
