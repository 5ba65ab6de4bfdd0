---------------------------- MODULE UploadStream ----------------------------
(***************************************************************************)
(* One upload to the content store (uploadStreamToCAS): the handler copies *)
(* the chunks of the client's stream into an unbuffered pipe, a goroutine  *)
(* of its own reads the pipe and runs the provider's Store, which writes   *)
(* and hashes a temporary file and publishes it under its hash, and the    *)
(* result comes back over a channel with room for it.  Several uploads     *)
(* share the store; the process may crash, storage calls may fail.         *)
(***************************************************************************)
EXTENDS Naturals, SequencesExt

CONSTANTS
  Uploads,     \* the calls of uploadStreamToCAS
  Chunks,      \* what one message of a client's stream carries
  Streams,     \* the contents clients send, each a sequence of chunks
  Schemes,     \* the provider is one of these: "file" (the server's), "s3"
  EarlyFaults, \* whether Store may fail before it has read its whole input
  Faults,      \* whether it may fail after that
  Crashes,     \* whether the process may crash
  Decay        \* whether the disk may lose what a stored file holds

ASSUME UploadAssumption ==
  /\ Streams \subseteq Seq(Chunks)
  /\ Schemes \subseteq {"file", "s3"}
  /\ {EarlyFaults, Faults, Crashes, Decay} \subseteq BOOLEAN

VARIABLES
  scheme,  \* the default provider, fixed by the server's configuration
  sent,    \* what each client means to send
  handler, \* the handler: program counter and number of chunks received
  pipe,    \* the writer's end of the pipe
  worker,  \* the goroutine: program counter and the result of Store
  temps,   \* the temporary files, by the upload that made them
  store,   \* the store: from hashes to what the file of that name holds
  served   \* what downloads were given: the hash asked and the content

vars == <<scheme, sent, handler, pipe, worker, temps, store, served>>

\* SHA-256, without collisions.
Hash(content) == [sha256 |-> content]
Contents == UNION {{SubSeq(s, 1, n) : n \in 0 .. Len(s)} : s \in Streams}
Lost     == <<"lost">>

HandlerStates ==
  [pc : {"idle", "Recv", "Write", "Await", "ok", "failed"}, got : Nat]
WorkerStates ==
  [pc : {"none", "CreateTemp", "Copy", "Exists", "Prepare", "Publish", "Return", "sent"},
   result : {"none", "ok", "error"}]

Init ==
  /\ scheme \in Schemes
  /\ sent \in [Uploads -> Streams]
  /\ handler = [u \in Uploads |-> [pc |-> "idle", got |-> 0]]
  /\ pipe    = [u \in Uploads |-> "open"]
  /\ worker  = [u \in Uploads |-> [pc |-> "none", result |-> "none"]]
  /\ temps = <<>> /\ store = <<>> /\ served = {}
-----------------------------------------------------------------------------
(* The handler.                                                            *)

HandlerTo(u, pc) == handler' = [handler EXCEPT ![u].pc = pc]
WorkerTo(u, pc)  == worker' = [worker EXCEPT ![u].pc = pc]
Returns(u, result) == worker' = [worker EXCEPT ![u] = [pc |-> "Return", result |-> result]]
RemoveTemp(u) == temps' = [v \in DOMAIN temps \ {u} |-> temps[v]]

\* The pipe is made and the goroutine started.
Begin(u) ==
  /\ handler[u].pc = "idle"
  /\ HandlerTo(u, "Recv")
  /\ WorkerTo(u, "CreateTemp")
  /\ UNCHANGED <<scheme, sent, pipe, temps, store, served>>

\* Mutant: the handler takes one chunk too many for the end of the stream.
RecvChunkPastEnd(u) ==
  /\ handler[u].pc = "Recv" /\ handler[u].got <= Len(sent[u])
  /\ handler' = [handler EXCEPT ![u] = [pc |-> "Write", got |-> @.got + 1]]
  /\ UNCHANGED <<scheme, sent, pipe, worker, temps, store, served>>

\* A chunk arrives; pw.Write returns when the reader has taken all of it.
RecvChunk(u) ==
  /\ handler[u].pc = "Recv" /\ handler[u].got < Len(sent[u])
  /\ handler' = [handler EXCEPT ![u] = [pc |-> "Write", got |-> @.got + 1]]
  /\ UNCHANGED <<scheme, sent, pipe, worker, temps, store, served>>

\* Mutant: the end of the stream does not close the pipe.
RecvEOFLeavesOpen(u) ==
  /\ handler[u].pc = "Recv" /\ handler[u].got = Len(sent[u])
  /\ HandlerTo(u, "Await")
  /\ UNCHANGED <<scheme, sent, pipe, worker, temps, store, served>>

\* The stream ends: the reader is told, the result is waited for.
RecvEOF(u) ==
  /\ handler[u].pc = "Recv" /\ handler[u].got = Len(sent[u])
  /\ HandlerTo(u, "Await")
  /\ pipe' = [pipe EXCEPT ![u] = "closed"]
  /\ UNCHANGED <<scheme, sent, worker, temps, store, served>>

\* Mutant: a broken stream closes the pipe as a finished one does.
RecvErrorCloses(u) ==
  /\ handler[u].pc = "Recv"
  /\ HandlerTo(u, "failed")
  /\ pipe' = [pipe EXCEPT ![u] = "closed"]
  /\ UNCHANGED <<scheme, sent, worker, temps, store, served>>

\* The stream breaks: the reader gets the error, nobody waits for the result.
RecvError(u) ==
  /\ handler[u].pc = "Recv"
  /\ HandlerTo(u, "failed")
  /\ pipe' = [pipe EXCEPT ![u] = "broken"]
  /\ UNCHANGED <<scheme, sent, worker, temps, store, served>>

\* Mutant: the handler answers without the goroutine's result.
AwaitNothing(u) ==
  /\ handler[u].pc = "Await"
  /\ HandlerTo(u, "ok")
  /\ UNCHANGED <<scheme, sent, pipe, worker, temps, store, served>>

AwaitResult(u) ==
  /\ handler[u].pc = "Await" /\ worker[u].pc = "sent"
  /\ HandlerTo(u, IF worker[u].result = "ok" THEN "ok" ELSE "failed")
  /\ UNCHANGED <<scheme, sent, pipe, worker, temps, store, served>>
-----------------------------------------------------------------------------
(* The goroutine: StoreInDefault and the provider's Store.                 *)

CreateTemp(u) ==
  /\ worker[u].pc = "CreateTemp"
  /\ WorkerTo(u, "Copy")
  /\ temps' = [v \in DOMAIN temps \cup {u} |-> IF v = u THEN <<>> ELSE temps[v]]
  /\ UNCHANGED <<scheme, sent, handler, pipe, store, served>>

\* No provider has the scheme, or no temporary file could be made.
CreateTempFails(u) ==
  /\ EarlyFaults /\ worker[u].pc = "CreateTemp"
  /\ Returns(u, "error")
  /\ UNCHANGED <<scheme, sent, handler, pipe, temps, store, served>>

\* io.Copy takes the chunk that the handler is writing.
CopyChunk(u) ==
  /\ worker[u].pc = "Copy" /\ handler[u].pc = "Write"
  /\ temps' = [temps EXCEPT ![u] = Append(@, sent[u][handler[u].got])]
  /\ HandlerTo(u, "Recv")
  /\ UNCHANGED <<scheme, sent, pipe, worker, store, served>>

\* Writing the temporary file fails, with or without the last part of the
\* chunk read (io.Copy reads at most 32 KiB at a time).
CopyFails(u) ==
  /\ EarlyFaults /\ worker[u].pc = "Copy" /\ handler[u].pc = "Write"
  /\ Returns(u, "error")
  /\ \E pc \in {"Recv", "Write"} : HandlerTo(u, pc)
  /\ UNCHANGED <<scheme, sent, pipe, temps, store, served>>

CopyEnds(u) ==
  /\ worker[u].pc = "Copy" /\ pipe[u] = "closed"
  /\ WorkerTo(u, "Exists")
  /\ UNCHANGED <<scheme, sent, handler, pipe, temps, store, served>>

CopyBroken(u) ==
  /\ worker[u].pc = "Copy" /\ pipe[u] = "broken"
  /\ Returns(u, "error")
  /\ UNCHANGED <<scheme, sent, handler, pipe, temps, store, served>>

\* Content of that hash is there already: nothing to write.
Exists(u) ==
  /\ worker[u].pc = "Exists" /\ Hash(temps[u]) \in DOMAIN store
  /\ Returns(u, "ok")
  /\ UNCHANGED <<scheme, sent, handler, pipe, temps, store, served>>

\* It is not, or the call that looks for it fails.
Missing(u) ==
  /\ worker[u].pc = "Exists" /\ (Hash(temps[u]) \notin DOMAIN store \/ Faults)
  /\ WorkerTo(u, "Prepare")
  /\ UNCHANGED <<scheme, sent, handler, pipe, temps, store, served>>

\* MkdirAll of the shard, or Seek to the start of the temporary file.
Prepare(u) ==
  /\ worker[u].pc = "Prepare"
  /\ WorkerTo(u, "Publish")
  /\ UNCHANGED <<scheme, sent, handler, pipe, temps, store, served>>

PrepareFails(u) ==
  /\ Faults /\ worker[u].pc = "Prepare"
  /\ Returns(u, "error")
  /\ UNCHANGED <<scheme, sent, handler, pipe, temps, store, served>>

Published(u) ==
  [h \in DOMAIN store \cup {Hash(temps[u])} |->
     IF h = Hash(temps[u]) THEN temps[u] ELSE store[h]]

\* The local provider renames the temporary file, which replaces another's.
Rename(u) ==
  /\ scheme = "file" /\ worker[u].pc = "Publish"
  /\ store' = Published(u)
  /\ RemoveTemp(u)
  /\ Returns(u, "ok")
  /\ UNCHANGED <<scheme, sent, handler, pipe, served>>

\* The S3 provider uploads a copy of it.
UploadObject(u) ==
  /\ scheme = "s3" /\ worker[u].pc = "Publish"
  /\ store' = Published(u)
  /\ Returns(u, "ok")
  /\ UNCHANGED <<scheme, sent, handler, pipe, temps, served>>

\* Mutant: the error of Rename or UploadObject is not returned.
PublishErrorIgnored(u) ==
  /\ Faults /\ worker[u].pc = "Publish"
  /\ Returns(u, "ok")
  /\ UNCHANGED <<scheme, sent, handler, pipe, temps, store, served>>

\* Either reports a failure; a failed call to S3 may have stored the object.
PublishFails(u) ==
  /\ Faults /\ worker[u].pc = "Publish"
  /\ store' \in {store} \cup (IF scheme = "s3" THEN {Published(u)} ELSE {})
  /\ Returns(u, "error")
  /\ UNCHANGED <<scheme, sent, handler, pipe, temps, served>>

\* Mutant: the channel has no room: the result is sent only to a handler that waits.
ReturnUnbuffered(u) ==
  /\ worker[u].pc = "Return" /\ handler[u].pc = "Await"
  /\ RemoveTemp(u)
  /\ WorkerTo(u, "sent")
  /\ UNCHANGED <<scheme, sent, handler, pipe, store, served>>

\* The deferred removal of the temporary file (gone already if it was
\* renamed), and the result into the channel, which has room for it.
Return(u) ==
  /\ worker[u].pc = "Return"
  /\ RemoveTemp(u)
  /\ WorkerTo(u, "sent")
  /\ UNCHANGED <<scheme, sent, handler, pipe, store, served>>
-----------------------------------------------------------------------------
(* Downloads, the disk and the process.                                    *)

\* A download of what an upload answered: Retrieve opens the file or object
\* and the bytes go to the client.
Retrieve(u) ==
  /\ handler[u].pc = "ok" /\ Hash(sent[u]) \in DOMAIN store
  /\ served' = served \cup {[asked |-> Hash(sent[u]), got |-> store[Hash(sent[u])]]}
  /\ UNCHANGED <<scheme, sent, handler, pipe, worker, temps, store>>

\* A stored file no longer holds what was written to it.
Degrade ==
  /\ Decay
  /\ \E h \in DOMAIN store : store' = [store EXCEPT ![h] = Lost]
  /\ UNCHANGED <<scheme, sent, handler, pipe, worker, temps, served>>

Running(u) == handler[u].pc \in {"Recv", "Write", "Await"}

\* Handlers and goroutines end with the process; files stay.
Crash ==
  /\ Crashes
  /\ \E u \in Uploads : Running(u) \/ worker[u].pc \notin {"none", "sent"}
  /\ handler' = [u \in Uploads |-> IF Running(u) THEN [handler[u] EXCEPT !.pc = "failed"]
                                                 ELSE handler[u]]
  /\ worker' = [u \in Uploads |-> [worker[u] EXCEPT !.pc = "none"]]
  /\ UNCHANGED <<scheme, sent, pipe, temps, store, served>>

Client(u) == Begin(u) \/ RecvChunk(u) \/ RecvEOF(u) \/ RecvError(u) \/ Retrieve(u)

Goroutine(u) ==
  \/ CreateTemp(u) \/ CreateTempFails(u)
  \/ CopyChunk(u) \/ CopyFails(u) \/ CopyEnds(u) \/ CopyBroken(u)
  \/ Exists(u) \/ Missing(u) \/ Prepare(u) \/ PrepareFails(u)
  \/ Rename(u) \/ UploadObject(u) \/ PublishFails(u) \/ Return(u)

Next ==
  \/ \E u \in Uploads : Client(u) \/ AwaitResult(u) \/ Goroutine(u)
  \/ Degrade
  \/ Crash

Spec == Init /\ [][Next]_vars

\* The scheduler runs every goroutine that can run, and calls on the file
\* system return.  Clients owe nothing.
FairSpec == Spec /\ \A u \in Uploads : WF_vars(AwaitResult(u)) /\ WF_vars(Goroutine(u))
-----------------------------------------------------------------------------
(* Properties.                                                             *)

\* What the variables may hold; a temporary file holds what its client sent
\* so far.
TypeOK ==
  /\ sent \in [Uploads -> Streams]
  /\ handler \in [Uploads -> HandlerStates]
  /\ \A u \in Uploads : handler[u].got <= Len(sent[u])
  /\ scheme \in Schemes
  /\ pipe \in [Uploads -> {"open", "closed", "broken"}]
  /\ worker \in [Uploads -> WorkerStates]
  /\ DOMAIN temps \subseteq Uploads
  /\ \A u \in DOMAIN temps : IsPrefix(temps[u], sent[u])
  /\ \A h \in DOMAIN store : store[h] \in Contents \cup {Lost}
  /\ \A d \in served : d.got \in Contents \cup {Lost}

\* A name in the store is the hash of a stream that was received to its end:
\* what an interrupted upload, a failed one or a crash leaves behind is never
\* found under a hash (upload.go:47, local.go:57-78).
StoredIsReceived ==
  \A h \in DOMAIN store :
    \E u \in Uploads : h = Hash(sent[u]) /\ handler[u].got = Len(sent[u]) /\ pipe[u] = "closed"

\* What an upload answered with success is in the store, whole unless the
\* disk lost it: also when another upload of the same content stored,
\* replaced or failed to store it (upload.go:56, local.go:68-85).
AnsweredIsStored ==
  \A u \in Uploads : handler[u].pc = "ok" =>
    /\ Hash(sent[u]) \in DOMAIN store
    /\ store[Hash(sent[u])] \in {sent[u], Lost}

\* A handler that waits for the result gets it: the goroutine sees the end of
\* the stream and answers, whatever it could not do (upload.go:42, upload.go:56).
WaitersAreAnswered ==
  \A u \in Uploads : handler[u].pc = "Await" ~> handler[u].pc # "Await"

\* When the stream has ended or broken, the goroutine ends too and, unless the
\* process crashed, its temporary file is gone, though no handler may wait for
\* it (upload.go:33-38, local.go:51).
StoringEnds ==
  \A u \in Uploads :
    pipe[u] # "open" ~> \/ worker[u].pc = "sent" /\ u \notin DOMAIN temps
                       \/ worker[u].pc = "none"

\* The chunk that a handler writes to the pipe is taken: an upload ends in an
\* answer even if the store fails, "`INTERNAL` (13) | Server-side error (DB,
\* Storage, etc.)" (client/Client-RPC.md:113).
WritersGetOn ==
  \A u \in Uploads : handler[u].pc = "Write" ~> handler[u].pc # "Write"

\* A download gives what its hash names: "Content is re-hashed using SHA-256
\* on every retrieve operation" (README.md:71).
ServedIsAsked == \A d \in served : d.asked = Hash(d.got)

\* Seen from the file service an upload is one call on a store of contents
\* (module ContentStore), named by their hashes.
Abstract ==
  INSTANCE ContentStore WITH
    call   <- [u \in Uploads |-> IF Running(u) THEN "running" ELSE handler[u].pc],
    stored <- {c \in Contents : Hash(c) \in DOMAIN store}

\* The handler, the pipe and the goroutine implement that store.
ImplementsStore == Abstract!Spec
=============================================================================
