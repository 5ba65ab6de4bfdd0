------------------------- MODULE UploadStreamProofs -------------------------
(***************************************************************************)
(* Proofs about UploadStream, for any number of uploads, any streams and   *)
(* either provider, whether or not storage calls fail, the process crashes *)
(* and the disk decays: its type invariant, that only streams received to  *)
(* their end are found under a hash, that an answer of success means the   *)
(* content is stored, and that it implements ContentStore.                 *)
(***************************************************************************)
EXTENDS UploadStream, SequenceTheorems, TLAPS

\* How many chunks the goroutine has taken from the pipe.
Taken(u) == IF handler[u].pc = "Write" THEN handler[u].got - 1 ELSE handler[u].got

\* The handler's program counter and its end of the pipe go together.
HandlerInv(u) ==
  /\ handler[u].pc = "idle" => handler[u].got = 0 /\ worker[u].pc = "none"
  /\ handler[u].pc = "Write" => handler[u].got > 0
  /\ handler[u].pc \in {"idle", "Recv", "Write"} => pipe[u] = "open"
  /\ handler[u].pc \in {"Await", "ok"} => pipe[u] = "closed"
  /\ pipe[u] = "closed" =>
       /\ handler[u].got = Len(sent[u])
       /\ worker[u].pc \notin {"none", "sent"} => handler[u].pc = "Await"
  /\ handler[u].pc = "ok" => Hash(sent[u]) \in DOMAIN store

\* The goroutine's temporary file holds what it took; past the end of the
\* stream that is all of it, and the handler waits; a result of success
\* means that the content is stored.
WorkerInv(u) ==
  /\ worker[u].pc = "CreateTemp" => Taken(u) = 0
  /\ worker[u].pc = "Copy" =>
       u \in DOMAIN temps /\ temps[u] = SubSeq(sent[u], 1, Taken(u))
  /\ worker[u].pc \in {"Exists", "Prepare", "Publish"} =>
       /\ u \in DOMAIN temps /\ temps[u] = sent[u]
       /\ handler[u].pc = "Await"
  /\ worker[u].pc \in {"Return", "sent"} /\ worker[u].result = "ok" =>
       Hash(sent[u]) \in DOMAIN store

\* A name in the store is the hash of a stream received to its end, and the
\* file of that name holds that stream or nothing of use.
StoreInv ==
  \A h \in DOMAIN store : \E u \in Uploads :
    /\ h = Hash(sent[u]) /\ store[h] \in {sent[u], Lost}
    /\ pipe[u] = "closed"

IInv == TypeOK /\ StoreInv /\ \A u \in Uploads : HandlerInv(u) /\ WorkerInv(u)
-----------------------------------------------------------------------------
(* Lemmas about streams and about steps in general.                        *)

LEMMA StreamType ==
  ASSUME TypeOK, NEW u \in Uploads
  PROVE  /\ sent[u] \in Streams
         /\ sent[u] \in Seq(Chunks)
         /\ Len(sent[u]) \in Nat
         /\ SubSeq(sent[u], 1, Len(sent[u])) = sent[u]
         /\ SubSeq(sent[u], 1, 0) = <<>>
<1>1. sent[u] \in Streams /\ sent[u] \in Seq(Chunks)
  BY UploadAssumption DEF TypeOK
<1>2. Len(sent[u]) \in Nat
  BY <1>1
<1> QED BY <1>1, <1>2, SubSeqFull, SubSeqEmpty

\* The chunks taken and the next one are a longer beginning of the stream.
LEMMA NextChunk ==
  ASSUME NEW s \in Seq(Chunks), NEW n \in Nat, n < Len(s)
  PROVE  Append(SubSeq(s, 1, n), s[n + 1]) = SubSeq(s, 1, n + 1)
<1>1. Len(s) \in Nat /\ \A i \in 1 .. Len(s) : s[i] \in Chunks
  OBVIOUS
<1>2. \A i \in 1 .. n : s[i] \in Chunks
  BY <1>1
<1>3. \A i \in 1 .. n + 1 : s[i] \in Chunks
  BY <1>1
<1>4. /\ SubSeq(s, 1, n) \in Seq(Chunks) /\ Len(SubSeq(s, 1, n)) = n
      /\ \A i \in 1 .. n : SubSeq(s, 1, n)[i] = s[i]
  <2>1. CASE n = 0
    BY <2>1, SubSeqEmpty
  <2>2. CASE n # 0
    BY <1>2, <2>2, SubSeqProperties
  <2> QED BY <2>1, <2>2
<1>5. /\ SubSeq(s, 1, n + 1) \in Seq(Chunks) /\ Len(SubSeq(s, 1, n + 1)) = n + 1
      /\ \A i \in 1 .. n + 1 : SubSeq(s, 1, n + 1)[i] = s[i]
  BY <1>3, SubSeqProperties
<1> DEFINE a == Append(SubSeq(s, 1, n), s[n + 1])
           b == SubSeq(s, 1, n + 1)
<1>6. /\ a \in Seq(Chunks) /\ Len(a) = n + 1
      /\ \A i \in 1 .. n : a[i] = s[i]
      /\ a[n + 1] = s[n + 1]
  BY <1>1, <1>4, AppendProperties
<1>7. b \in Seq(Chunks) /\ Len(b) = n + 1
  BY <1>5
<1>8. ASSUME NEW i \in 1 .. n + 1 PROVE a[i] = b[i]
  BY <1>5, <1>6
<1> HIDE DEF a, b
<1>9. a = b
  BY <1>6, <1>7, <1>8, SeqEqual
<1> QED BY <1>9 DEF a, b

\* A beginning of a stream is one in the sense of IsPrefix, and a content.
LEMMA BeginningIsPrefix ==
  ASSUME NEW s \in Streams, NEW n \in Nat, n <= Len(s)
  PROVE  IsPrefix(SubSeq(s, 1, n), s) /\ SubSeq(s, 1, n) \in Contents
<1>1. s \in Seq(Chunks) /\ Len(s) \in Nat
  BY UploadAssumption
<1>2. \A i \in 1 .. n : s[i] \in Chunks
  BY <1>1
<1>3. SubSeq(s, 1, n) \in Seq(Chunks) /\ Len(SubSeq(s, 1, n)) = n
  <2>1. CASE n = 0
    BY <2>1, SubSeqEmpty
  <2>2. CASE n # 0
    BY <1>2, <2>2, SubSeqProperties
  <2> QED BY <2>1, <2>2
<1>4. SubSeq(SubSeq(s, 1, n), 1, n) = SubSeq(s, 1, n)
  BY <1>3, SubSeqFull
<1>5. n \in 0 .. Len(s)
  BY <1>1
<1> QED BY <1>1, <1>3, <1>4, <1>5 DEF IsPrefix, Contents

LEMMA StreamIsContent ==
  ASSUME TypeOK, NEW u \in Uploads PROVE sent[u] \in Contents
<1>1. /\ sent[u] \in Streams /\ Len(sent[u]) \in Nat
      /\ SubSeq(sent[u], 1, Len(sent[u])) = sent[u]
  BY StreamType
<1>2. SubSeq(sent[u], 1, Len(sent[u])) \in Contents
  BY <1>1, BeginningIsPrefix
<1> QED BY <1>1, <1>2

\* What a step of upload u keeps: everything of the other uploads, and the
\* names in the store.
Frame(u) ==
  /\ UNCHANGED <<scheme, sent>>
  /\ handler' = [handler EXCEPT ![u] = handler'[u]]
  /\ pipe'    = [pipe EXCEPT ![u] = pipe'[u]]
  /\ worker'  = [worker EXCEPT ![u] = worker'[u]]
  /\ handler'[u] \in HandlerStates /\ handler'[u].got <= Len(sent[u])
  /\ pipe'[u] \in {"open", "closed", "broken"}
  /\ worker'[u] \in WorkerStates
  /\ \A v \in Uploads \ {u} :
       v \in DOMAIN temps => v \in DOMAIN temps' /\ temps'[v] = temps[v]
  /\ DOMAIN store \subseteq DOMAIN store'
  /\ pipe[u] = "closed" => pipe'[u] = "closed"

LEMMA OthersStable ==
  ASSUME IInv, NEW u \in Uploads, Frame(u), NEW v \in Uploads, v # u
  PROVE  HandlerInv(v)' /\ WorkerInv(v)'
<1>1. HandlerInv(v) /\ WorkerInv(v)
  BY DEF IInv
<1>2. /\ handler'[v] = handler[v] /\ pipe'[v] = pipe[v] /\ worker'[v] = worker[v]
      /\ sent' = sent
      /\ v \in DOMAIN temps => v \in DOMAIN temps' /\ temps'[v] = temps[v]
      /\ DOMAIN store \subseteq DOMAIN store'
  BY DEF Frame, IInv, TypeOK
<1> QED BY <1>1, <1>2 DEF HandlerInv, WorkerInv, Taken

\* The data of the type invariant: temporary files, store and downloads.
DataType ==
  /\ DOMAIN temps \subseteq Uploads
  /\ \A u \in DOMAIN temps : IsPrefix(temps[u], sent[u])
  /\ \A h \in DOMAIN store : store[h] \in Contents \cup {Lost}
  /\ \A d \in served : d.got \in Contents \cup {Lost}

LEMMA FrameType ==
  ASSUME IInv, NEW u \in Uploads, Frame(u), DataType'
  PROVE  TypeOK'
<1>1. /\ handler \in [Uploads -> HandlerStates]
      /\ pipe \in [Uploads -> {"open", "closed", "broken"}]
      /\ worker \in [Uploads -> WorkerStates]
  BY DEF IInv, TypeOK
<1>2. /\ handler' \in [Uploads -> HandlerStates]
      /\ pipe' \in [Uploads -> {"open", "closed", "broken"}]
      /\ worker' \in [Uploads -> WorkerStates]
  BY <1>1 DEF Frame
<1>3. \A v \in Uploads : handler'[v].got <= Len(sent[v])
  BY <1>1 DEF Frame, IInv, TypeOK
<1>4. sent' = sent /\ scheme' = scheme
  BY DEF Frame
<1> QED BY <1>2, <1>3, <1>4 DEF TypeOK, DataType, IInv

\* A step of upload u keeps the invariant if it keeps those of u and of the
\* store.
LEMMA StepInv ==
  ASSUME IInv, NEW u \in Uploads, Frame(u), DataType', StoreInv',
         HandlerInv(u)', WorkerInv(u)'
  PROVE  IInv'
<1>1. TypeOK'
  BY FrameType
<1>2. \A v \in Uploads : HandlerInv(v)' /\ WorkerInv(v)'
  BY OthersStable
<1> QED BY <1>1, <1>2 DEF IInv

\* A step that touches no file can break nothing but upload u's own invariants.
LEMMA ControlInv ==
  ASSUME IInv, NEW u \in Uploads, Frame(u), UNCHANGED <<temps, store, served>>,
         HandlerInv(u)', WorkerInv(u)'
  PROVE  IInv'
<1>1. DataType'
  BY DEF DataType, Frame, IInv, TypeOK, Contents
<1>2. StoreInv'
  BY DEF StoreInv, Frame, IInv, TypeOK
<1> QED BY <1>1, <1>2, StepInv
-----------------------------------------------------------------------------
(* The handler's steps and the goroutine's steps keep the invariant.       *)

LEMMA BeginInv ==
  ASSUME IInv, NEW u \in Uploads, Begin(u) PROVE IInv'
<1>1. Frame(u)
  BY DEF Begin, HandlerTo, WorkerTo, Frame, IInv, TypeOK, HandlerStates, WorkerStates
<1>2. HandlerInv(u)' /\ WorkerInv(u)'
  BY DEF Begin, HandlerTo, WorkerTo, IInv, TypeOK, HandlerStates, WorkerStates,
     HandlerInv, WorkerInv, Taken
<1> QED BY <1>1, <1>2, ControlInv DEF Begin

LEMMA RecvChunkInv ==
  ASSUME IInv, NEW u \in Uploads, RecvChunk(u) PROVE IInv'
<1>1. Frame(u)
  BY StreamType DEF RecvChunk, Frame, IInv, TypeOK, HandlerStates
<1>2. HandlerInv(u)' /\ WorkerInv(u)'
  BY DEF RecvChunk, IInv, TypeOK, HandlerStates, HandlerInv, WorkerInv, Taken
<1> QED BY <1>1, <1>2, ControlInv DEF RecvChunk

LEMMA RecvEOFInv ==
  ASSUME IInv, NEW u \in Uploads, RecvEOF(u) PROVE IInv'
<1>1. Frame(u)
  BY DEF RecvEOF, HandlerTo, Frame, IInv, TypeOK, HandlerStates
<1>2. HandlerInv(u)' /\ WorkerInv(u)'
  BY DEF RecvEOF, HandlerTo, IInv, TypeOK, HandlerStates, HandlerInv, WorkerInv, Taken
<1> QED BY <1>1, <1>2, ControlInv DEF RecvEOF

LEMMA RecvErrorInv ==
  ASSUME IInv, NEW u \in Uploads, RecvError(u) PROVE IInv'
<1>1. pipe[u] = "open"
  BY DEF RecvError, IInv, HandlerInv
<1>2. Frame(u)
  BY <1>1 DEF RecvError, HandlerTo, Frame, IInv, TypeOK, HandlerStates
<1>3. HandlerInv(u)' /\ WorkerInv(u)'
  BY DEF RecvError, HandlerTo, IInv, TypeOK, HandlerStates, HandlerInv, WorkerInv, Taken
<1> QED BY <1>2, <1>3, ControlInv DEF RecvError

LEMMA AwaitResultInv ==
  ASSUME IInv, NEW u \in Uploads, AwaitResult(u) PROVE IInv'
<1>1. Frame(u)
  BY DEF AwaitResult, HandlerTo, Frame, IInv, TypeOK, HandlerStates
<1>2. HandlerInv(u)' /\ WorkerInv(u)'
  BY DEF AwaitResult, HandlerTo, IInv, TypeOK, HandlerStates,
     HandlerInv, WorkerInv, Taken
<1> QED BY <1>1, <1>2, ControlInv DEF AwaitResult

\* The steps of the goroutine that touch no file.
GoroutineControl(u) ==
  \/ CreateTempFails(u) \/ CopyFails(u) \/ CopyEnds(u) \/ CopyBroken(u)
  \/ Exists(u) \/ Missing(u) \/ Prepare(u) \/ PrepareFails(u)

LEMMA GoroutineControlInv ==
  ASSUME IInv, NEW u \in Uploads, GoroutineControl(u) PROVE IInv'
<1>1. UNCHANGED <<scheme, sent, pipe, temps, store, served>>
  BY DEF GoroutineControl, CreateTempFails, CopyFails, CopyEnds, CopyBroken,
     Exists, Missing, Prepare, PrepareFails
<1>2. /\ \/ UNCHANGED handler
         \/ handler[u].pc = "Write" /\ \E pc \in {"Recv", "Write"} : HandlerTo(u, pc)
      /\ worker[u].pc \notin {"none", "sent"}
      /\ \/ \E pc \in {"Exists", "Prepare", "Publish"} : WorkerTo(u, pc)
         \/ \E res \in {"ok", "error"} : Returns(u, res)
  BY DEF GoroutineControl, CreateTempFails, CopyFails, CopyEnds, CopyBroken,
     Exists, Missing, Prepare, PrepareFails
<1>3. Frame(u)
  <2>1. /\ handler' = [handler EXCEPT ![u] = handler'[u]]
        /\ handler'[u] \in HandlerStates /\ handler'[u].got <= Len(sent[u])
    BY <1>2 DEF HandlerTo, IInv, TypeOK, HandlerStates
  <2>2. /\ worker' = [worker EXCEPT ![u] = worker'[u]]
        /\ worker'[u] \in WorkerStates
    BY <1>2 DEF WorkerTo, Returns, IInv, TypeOK, WorkerStates
  <2> QED BY <1>1, <2>1, <2>2 DEF Frame, IInv, TypeOK
<1>4. HandlerInv(u)'
  <2>1. worker'[u].pc \notin {"none", "sent"}
    BY <1>2 DEF WorkerTo, Returns, IInv, TypeOK, WorkerStates
  <2>2. HandlerInv(u)
    BY DEF IInv
  <2>3. CASE UNCHANGED handler
    BY <1>1, <1>2, <2>1, <2>2, <2>3 DEF HandlerInv
  <2>4. ASSUME handler[u].pc = "Write", NEW pc \in {"Recv", "Write"}, HandlerTo(u, pc)
        PROVE  HandlerInv(u)'
    <3>1. handler'[u].pc = pc /\ handler'[u].got = handler[u].got
      BY <2>4 DEF HandlerTo, IInv, TypeOK, HandlerStates
    <3> QED BY <1>1, <2>1, <2>2, <2>4, <3>1 DEF HandlerInv
  <2> QED BY <1>2, <2>3, <2>4
<1>5. ASSUME CopyEnds(u) PROVE WorkerInv(u)'
  <2>1. /\ worker[u].pc = "Copy" /\ pipe[u] = "closed" /\ worker'[u].pc = "Exists"
        /\ worker[u].result = worker'[u].result
    BY <1>5 DEF CopyEnds, WorkerTo, IInv, TypeOK, WorkerStates
  <2>2. handler[u].got = Len(sent[u]) /\ handler[u].pc = "Await"
    BY <2>1 DEF IInv, HandlerInv
  <2>3. u \in DOMAIN temps /\ temps[u] = SubSeq(sent[u], 1, Len(sent[u]))
    BY <2>1, <2>2 DEF IInv, WorkerInv, Taken
  <2> QED BY <1>1, <1>5, <2>1, <2>2, <2>3, StreamType DEF WorkerInv, CopyEnds, IInv
<1>6. ASSUME ~ CopyEnds(u) PROVE WorkerInv(u)'
  BY <1>1, <1>6 DEF GoroutineControl, CreateTempFails, CopyFails, CopyBroken,
     Exists, Missing, Prepare, PrepareFails, HandlerTo, WorkerTo, Returns,
     IInv, TypeOK, WorkerStates, WorkerInv
<1> QED BY <1>1, <1>3, <1>4, <1>5, <1>6, ControlInv

-----------------------------------------------------------------------------
(* The steps on files keep the invariant.                                  *)

LEMMA CreateTempInv ==
  ASSUME IInv, NEW u \in Uploads, CreateTemp(u) PROVE IInv'
<1>1. Frame(u)
  BY DEF CreateTemp, WorkerTo, Frame, IInv, TypeOK, WorkerStates
<1>2. HandlerInv(u)'
  BY DEF CreateTemp, WorkerTo, IInv, TypeOK, WorkerStates, HandlerInv
<1>3. WorkerInv(u)'
  <2>1. worker'[u].pc = "Copy" /\ temps'[u] = <<>> /\ u \in DOMAIN temps'
    BY DEF CreateTemp, WorkerTo, IInv, TypeOK, WorkerStates
  <2>2. Taken(u)' = 0 /\ sent' = sent
    BY DEF CreateTemp, IInv, WorkerInv, Taken
  <2> QED BY <2>1, <2>2, StreamType DEF WorkerInv, IInv
<1>4. DataType'
  <2>1. <<>> = SubSeq(sent[u], 1, 0) /\ sent[u] \in Streams /\ Len(sent[u]) \in Nat
    BY StreamType DEF IInv
  <2>2. IsPrefix(SubSeq(sent[u], 1, 0), sent[u])
    BY <2>1, BeginningIsPrefix
  <2> QED BY <2>1, <2>2 DEF CreateTemp, DataType, IInv, TypeOK, Contents
<1>5. StoreInv'
  BY DEF StoreInv, CreateTemp, IInv
<1> QED BY <1>1, <1>2, <1>3, <1>4, <1>5, StepInv

LEMMA CopyChunkInv ==
  ASSUME IInv, NEW u \in Uploads, CopyChunk(u) PROVE IInv'
<1> DEFINE n == handler[u].got - 1
<1>1. /\ sent[u] \in Streams /\ sent[u] \in Seq(Chunks) /\ Len(sent[u]) \in Nat
      /\ n \in Nat /\ n + 1 = handler[u].got /\ n < Len(sent[u])
  BY StreamType DEF CopyChunk, IInv, TypeOK, HandlerStates, HandlerInv
<1>2. u \in DOMAIN temps /\ temps[u] = SubSeq(sent[u], 1, n)
  BY DEF CopyChunk, IInv, WorkerInv, Taken
<1>3. /\ handler' = [handler EXCEPT ![u].pc = "Recv"]
      /\ handler'[u].pc = "Recv" /\ handler'[u].got = n + 1
      /\ temps' = [temps EXCEPT ![u] = Append(temps[u], sent[u][n + 1])]
      /\ UNCHANGED <<scheme, sent, pipe, worker, store, served>>
  BY <1>1 DEF CopyChunk, HandlerTo, IInv, TypeOK, HandlerStates
<1> HIDE DEF n
<1>4. temps'[u] = SubSeq(sent[u], 1, n + 1)
  BY <1>1, <1>2, <1>3, NextChunk
<1>5. Frame(u)
  BY <1>1, <1>3 DEF Frame, IInv, TypeOK, HandlerStates
<1>6. HandlerInv(u)'
  BY <1>3 DEF CopyChunk, IInv, HandlerInv
<1>7. WorkerInv(u)'
  BY <1>2, <1>3, <1>4 DEF CopyChunk, WorkerInv, Taken
<1>8. DataType'
  <2>1. IsPrefix(temps'[u], sent[u])
    BY <1>1, <1>4, BeginningIsPrefix
  <2> QED BY <1>3, <2>1 DEF DataType, IInv, TypeOK, Contents
<1>9. StoreInv'
  BY <1>3 DEF StoreInv, IInv
<1> QED BY <1>5, <1>6, <1>7, <1>8, <1>9, StepInv

\* What a published file does to the store.
LEMMA PublishedStore ==
  ASSUME IInv, NEW u \in Uploads, worker[u].pc = "Publish"
  PROVE  /\ u \in DOMAIN temps /\ temps[u] = sent[u] /\ sent[u] \in Contents
         /\ DOMAIN Published(u) = DOMAIN store \cup {Hash(sent[u])}
         /\ Published(u)[Hash(sent[u])] = sent[u]
         /\ \A h \in DOMAIN store : h # Hash(sent[u]) => Published(u)[h] = store[h]
         /\ handler[u].pc = "Await" /\ pipe[u] = "closed"
<1>1. /\ u \in DOMAIN temps /\ temps[u] = sent[u]
      /\ handler[u].pc = "Await" /\ pipe[u] = "closed"
  BY DEF IInv, WorkerInv, HandlerInv
<1>2. sent[u] \in Contents
  BY StreamIsContent DEF IInv
<1> QED BY <1>1, <1>2 DEF Published

LEMMA PublishInv ==
  ASSUME IInv, NEW u \in Uploads,
         Rename(u) \/ UploadObject(u) \/ PublishFails(u)
  PROVE  IInv'
<1>1. /\ worker[u].pc = "Publish"
      /\ UNCHANGED <<scheme, sent, handler, pipe, served>>
      /\ \/ store' = Published(u) /\ \E res \in {"ok", "error"} : Returns(u, res)
         \/ UNCHANGED store /\ Returns(u, "error")
      /\ UNCHANGED temps \/ RemoveTemp(u)
  BY DEF Rename, UploadObject, PublishFails
<1>2. /\ worker' = [worker EXCEPT ![u] = worker'[u]]
      /\ worker'[u] \in WorkerStates /\ worker'[u].pc = "Return"
      /\ worker'[u].result = "ok" => store' = Published(u)
  BY <1>1 DEF Returns, IInv, TypeOK, WorkerStates
<1>3. /\ temps[u] = sent[u] /\ sent[u] \in Contents
      /\ DOMAIN Published(u) = DOMAIN store \cup {Hash(sent[u])}
      /\ Published(u)[Hash(sent[u])] = sent[u]
      /\ \A h \in DOMAIN store : h # Hash(sent[u]) => Published(u)[h] = store[h]
      /\ handler[u].pc = "Await" /\ pipe[u] = "closed"
  BY <1>1, PublishedStore
<1>4. DOMAIN store \subseteq DOMAIN store'
  BY <1>1, <1>3
<1>5. /\ DOMAIN temps' \subseteq DOMAIN temps
      /\ \A v \in DOMAIN temps' : temps'[v] = temps[v]
      /\ \A v \in Uploads \ {u} : v \in DOMAIN temps => v \in DOMAIN temps'
  BY <1>1 DEF RemoveTemp
<1>6. Frame(u)
  BY <1>1, <1>2, <1>4, <1>5 DEF Frame, IInv, TypeOK
<1>7. HandlerInv(u)'
  BY <1>1, <1>2, <1>3, <1>4 DEF IInv, HandlerInv
<1>8. WorkerInv(u)'
  BY <1>1, <1>2, <1>3 DEF WorkerInv
<1>9. StoreInv'
  <2>1. StoreInv /\ sent' = sent /\ pipe' = pipe
    BY <1>1 DEF IInv
  <2>2. CASE UNCHANGED store
    BY <2>1, <2>2 DEF StoreInv
  <2>3. CASE store' = Published(u)
    BY <2>1, <2>3, <1>3 DEF StoreInv
  <2> QED BY <1>1, <2>2, <2>3
<1>10. DataType'
  <2>1. \A v \in DOMAIN temps' : IsPrefix(temps'[v], sent'[v])
    BY <1>1, <1>5 DEF IInv, TypeOK
  <2>2. \A h \in DOMAIN store' : store'[h] \in Contents \cup {Lost}
    BY <1>1, <1>3 DEF IInv, TypeOK
  <2> QED BY <1>1, <1>5, <2>1, <2>2 DEF DataType, IInv, TypeOK, Contents
<1> QED BY <1>6, <1>7, <1>8, <1>9, <1>10, StepInv

LEMMA ReturnInv ==
  ASSUME IInv, NEW u \in Uploads, Return(u) PROVE IInv'
<1>1. /\ worker' = [worker EXCEPT ![u] = worker'[u]]
      /\ worker'[u] \in WorkerStates /\ worker'[u].pc = "sent"
      /\ worker'[u].result = worker[u].result
      /\ worker[u].pc = "Return"
      /\ UNCHANGED <<scheme, sent, handler, pipe, store, served>>
      /\ DOMAIN temps' = DOMAIN temps \ {u}
      /\ \A v \in DOMAIN temps' : temps'[v] = temps[v]
  BY DEF Return, WorkerTo, RemoveTemp, IInv, TypeOK, WorkerStates
<1>2. Frame(u)
  BY <1>1 DEF Frame, IInv, TypeOK
<1>3. HandlerInv(u)' /\ WorkerInv(u)'
  BY <1>1 DEF IInv, HandlerInv, WorkerInv
<1>4. DataType' /\ StoreInv'
  BY <1>1 DEF DataType, StoreInv, IInv, TypeOK, Contents
<1> QED BY <1>2, <1>3, <1>4, StepInv
-----------------------------------------------------------------------------
(* Downloads, the disk and the process keep the invariant.                 *)

LEMMA RetrieveInv ==
  ASSUME IInv, NEW u \in Uploads, Retrieve(u) PROVE IInv'
<1>1. UNCHANGED <<scheme, sent, handler, pipe, worker, temps, store>>
  BY DEF Retrieve
<1>2. \A d \in served' : d.got \in Contents \cup {Lost}
  BY DEF Retrieve, IInv, TypeOK
<1>3. TypeOK'
  BY <1>1, <1>2 DEF IInv, TypeOK, Contents
<1> QED BY <1>1, <1>3 DEF IInv, StoreInv, HandlerInv, WorkerInv, Taken

LEMMA DegradeInv ==
  ASSUME IInv, Degrade PROVE IInv'
<1>1. /\ UNCHANGED <<scheme, sent, handler, pipe, worker, temps, served>>
      /\ DOMAIN store' = DOMAIN store
      /\ \A h \in DOMAIN store : store'[h] \in {store[h], Lost}
  BY DEF Degrade
<1>2. TypeOK'
  BY <1>1 DEF IInv, TypeOK, Contents
<1>3. StoreInv'
  BY <1>1 DEF IInv, StoreInv
<1> QED BY <1>1, <1>2, <1>3 DEF IInv, HandlerInv, WorkerInv, Taken

LEMMA CrashInv ==
  ASSUME IInv, Crash PROVE IInv'
<1>1. UNCHANGED <<scheme, sent, pipe, temps, store, served>>
  BY DEF Crash
<1>2. ASSUME NEW u \in Uploads
      PROVE  /\ worker'[u].pc = "none" /\ worker'[u] \in WorkerStates
             /\ handler'[u] \in HandlerStates
             /\ handler'[u].got = handler[u].got
             /\ \/ Running(u) /\ handler'[u].pc = "failed"
                \/ ~ Running(u) /\ handler'[u].pc = handler[u].pc
  <2>1. handler[u] \in HandlerStates /\ worker[u] \in WorkerStates
    BY DEF IInv, TypeOK
  <2>2. worker'[u] = [worker[u] EXCEPT !.pc = "none"]
    BY DEF Crash
  <2>3. Running(u) => handler'[u] = [handler[u] EXCEPT !.pc = "failed"]
    BY DEF Crash
  <2>4. ~ Running(u) => handler'[u] = handler[u]
    BY DEF Crash
  <2> QED BY <2>1, <2>2, <2>3, <2>4 DEF HandlerStates, WorkerStates
<1>3. DOMAIN handler' = Uploads /\ DOMAIN worker' = Uploads
      /\ handler' = [u \in Uploads |-> handler'[u]]
      /\ worker' = [u \in Uploads |-> worker'[u]]
  BY DEF Crash
<1>4. TypeOK'
  BY <1>1, <1>2, <1>3 DEF IInv, TypeOK, Contents
<1>5. StoreInv'
  BY <1>1 DEF IInv, StoreInv
<1>6. ASSUME NEW u \in Uploads PROVE HandlerInv(u)' /\ WorkerInv(u)'
  BY <1>1, <1>2 DEF IInv, HandlerInv, WorkerInv, Running
<1> QED BY <1>4, <1>5, <1>6 DEF IInv

LEMMA Initially == Init => IInv
<1> SUFFICES ASSUME Init PROVE IInv
  OBVIOUS
<1>1. \A u \in Uploads : sent[u] \in Streams /\ Len(sent[u]) \in Nat
  BY UploadAssumption DEF Init
<1>2. TypeOK
  BY <1>1 DEF Init, TypeOK, HandlerStates, WorkerStates
<1>3. StoreInv /\ \A u \in Uploads : HandlerInv(u) /\ WorkerInv(u)
  BY DEF Init, StoreInv, HandlerInv, WorkerInv
<1> QED BY <1>2, <1>3 DEF IInv

LEMMA NextInv == IInv /\ [Next]_vars => IInv'
<1> SUFFICES ASSUME IInv, [Next]_vars PROVE IInv'
  OBVIOUS
<1>1. ASSUME NEW u \in Uploads, Client(u) \/ AwaitResult(u) PROVE IInv'
  BY <1>1, BeginInv, RecvChunkInv, RecvEOFInv, RecvErrorInv, RetrieveInv,
     AwaitResultInv DEF Client
<1>2. ASSUME NEW u \in Uploads, Goroutine(u) PROVE IInv'
  BY <1>2, CreateTempInv, CopyChunkInv, GoroutineControlInv, PublishInv, ReturnInv
  DEF Goroutine, GoroutineControl
<1>3. ASSUME UNCHANGED vars PROVE IInv'
  BY <1>3 DEF vars, IInv, TypeOK, Contents, StoreInv, HandlerInv, WorkerInv, Taken
<1> QED BY <1>1, <1>2, <1>3, DegradeInv, CrashInv DEF Next

LEMMA Invariance == Spec => []IInv
BY Initially, NextInv, PTL DEF Spec
-----------------------------------------------------------------------------
(* The theorems.                                                           *)

\* Every reachable state has the types the module declares: a temporary file
\* always holds a beginning of its client's stream, whatever failed.
THEOREM TypeCorrect == Spec => []TypeOK
<1>1. IInv => TypeOK
  BY DEF IInv
<1> QED BY <1>1, Invariance, PTL

\* A name in the store is the hash of a stream that was received to its end.
THEOREM OnlyReceivedStored == Spec => []StoredIsReceived
<1>1. IInv => StoredIsReceived
  BY DEF IInv, StoreInv, HandlerInv, StoredIsReceived
<1> QED BY <1>1, Invariance, PTL

\* What an upload answered with success is in the store, whole unless the
\* disk lost it.
THEOREM SuccessIsStored == Spec => []AnsweredIsStored
<1>1. IInv => AnsweredIsStored
  <2> SUFFICES ASSUME IInv, NEW u \in Uploads, handler[u].pc = "ok"
               PROVE  /\ Hash(sent[u]) \in DOMAIN store
                      /\ store[Hash(sent[u])] \in {sent[u], Lost}
    BY DEF AnsweredIsStored
  <2>1. Hash(sent[u]) \in DOMAIN store
    BY DEF IInv, HandlerInv
  <2>2. PICK v \in Uploads : /\ Hash(sent[u]) = Hash(sent[v])
                             /\ store[Hash(sent[u])] \in {sent[v], Lost}
    BY <2>1 DEF IInv, StoreInv
  <2>3. sent[u] = sent[v]
    BY <2>2 DEF Hash
  <2> QED BY <2>1, <2>2, <2>3
<1> QED BY <1>1, Invariance, PTL

-----------------------------------------------------------------------------
(* The refinement: every step of the handlers, the goroutines, the disk    *)
(* and the process is a step of the abstract store or no step of it.       *)

\* The abstract state of a call and of the store, as Abstract reads them.
Call(u) == IF Running(u) THEN "running" ELSE handler[u].pc
Calls   == [u \in Uploads |-> Call(u)]
Stored  == {c \in Contents : Hash(c) \in DOMAIN store}

\* What the abstract state sees of a step: the streams never change, and a
\* step that leaves the handlers' progress and the names in the store alone
\* is no step of the abstract store.
LEMMA Invisible ==
  ASSUME UNCHANGED sent, \A u \in Uploads : Call(u)' = Call(u),
         DOMAIN store' = DOMAIN store
  PROVE  UNCHANGED Abstract!vars
<1>1. Calls' = Calls
  BY DEF Calls
<1>2. Stored' = Stored
  BY DEF Stored, Contents
<1> QED BY <1>1, <1>2 DEF Abstract!vars, Calls, Call, Stored

LEMMA InitMaps == Init => Abstract!Init
<1> SUFFICES ASSUME Init PROVE Abstract!Init
  OBVIOUS
<1>1. \A u \in Uploads : Call(u) = "idle"
  BY DEF Init, Call, Running
<1>2. Calls = [u \in Uploads |-> "idle"]
  BY <1>1 DEF Calls
<1>3. Stored = {}
  BY DEF Init, Stored
<1> QED BY <1>2, <1>3 DEF Init, Abstract!Init, Calls, Call, Stored

\* A step of one handler: its call goes from one state to another.
LEMMA OneCall ==
  ASSUME IInv, NEW u \in Uploads, handler' = [handler EXCEPT ![u] = handler'[u]]
  PROVE  Calls' = [Calls EXCEPT ![u] = Call(u)']
<1>1. \A v \in Uploads : v # u => handler'[v] = handler[v]
  BY DEF IInv, TypeOK
<1>2. \A v \in Uploads : v # u => Call(v)' = Call(v)
  BY <1>1 DEF Call, Running
<1> QED BY <1>2 DEF Calls

LEMMA ClientMaps ==
  ASSUME IInv, NEW u \in Uploads, Client(u) \/ AwaitResult(u)
  PROVE  Abstract!Next \/ UNCHANGED Abstract!vars
<1>1. sent' = sent /\ store' = store
  BY DEF Client, Begin, RecvChunk, RecvEOF, RecvError, Retrieve, AwaitResult
<1>2. Stored' = Stored
  BY <1>1 DEF Stored, Contents
<1>3. CASE Begin(u)
  <2>1. Call(u) = "idle" /\ Call(u)' = "running"
    BY <1>3 DEF Begin, HandlerTo, Call, Running, IInv, TypeOK, HandlerStates
  <2>2. Calls' = [Calls EXCEPT ![u] = "running"]
    BY <1>3, <2>1, OneCall DEF Begin, HandlerTo, IInv, TypeOK, HandlerStates
  <2>3. Abstract!Start(u)
    BY <1>1, <1>2, <2>1, <2>2 DEF Abstract!Start, Calls, Call, Stored
  <2> QED BY <2>3 DEF Abstract!Next
<1>4. CASE RecvChunk(u) \/ RecvEOF(u) \/ Retrieve(u)
  <2>1. \A v \in Uploads : Call(v)' = Call(v)
    BY <1>4 DEF RecvChunk, RecvEOF, Retrieve, HandlerTo, Call, Running,
       IInv, TypeOK, HandlerStates
  <2> QED BY <1>1, <2>1, Invisible
<1>5. CASE RecvError(u)
  <2>1. Call(u) = "running" /\ Call(u)' = "failed"
    BY <1>5 DEF RecvError, HandlerTo, Call, Running, IInv, TypeOK, HandlerStates
  <2>2. Calls' = [Calls EXCEPT ![u] = "failed"]
    BY <1>5, <2>1, OneCall DEF RecvError, HandlerTo, IInv, TypeOK, HandlerStates
  <2>3. Abstract!Fail(u)
    BY <1>1, <1>2, <2>1, <2>2 DEF Abstract!Fail, Calls, Call, Stored
  <2> QED BY <2>3 DEF Abstract!Next
<1>6. CASE AwaitResult(u)
  <2>1. /\ Call(u) = "running"
        /\ Call(u)' = IF worker[u].result = "ok" THEN "ok" ELSE "failed"
    BY <1>6 DEF AwaitResult, HandlerTo, Call, Running, IInv, TypeOK, HandlerStates
  <2>2. Calls' = [Calls EXCEPT ![u] = Call(u)']
    BY <1>6, OneCall DEF AwaitResult, HandlerTo, IInv, TypeOK, HandlerStates
  <2>3. CASE worker[u].result = "ok"
    <3>1. Hash(sent[u]) \in DOMAIN store
      BY <1>6, <2>3 DEF AwaitResult, IInv, WorkerInv
    <3>2. sent[u] \in Contents
      BY StreamIsContent DEF IInv
    <3>3. sent[u] \in Stored
      BY <3>1, <3>2 DEF Stored
    <3>4. Abstract!Succeed(u)
      BY <1>1, <1>2, <2>1, <2>2, <2>3, <3>3 DEF Abstract!Succeed, Calls, Call, Stored
    <3> QED BY <3>4 DEF Abstract!Next
  <2>4. CASE worker[u].result # "ok"
    <3>1. Abstract!Fail(u)
      BY <1>1, <1>2, <2>1, <2>2, <2>4 DEF Abstract!Fail, Calls, Call, Stored
    <3> QED BY <3>1 DEF Abstract!Next
  <2> QED BY <2>3, <2>4
<1> QED BY <1>3, <1>4, <1>5, <1>6 DEF Client

\* Only publishing a file is a step of the abstract store, and its call runs.
LEMMA GoroutineMaps ==
  ASSUME IInv, NEW u \in Uploads, Goroutine(u)
  PROVE  Abstract!Next \/ UNCHANGED Abstract!vars
<1>1. sent' = sent
  BY DEF Goroutine, CreateTemp, CreateTempFails, CopyChunk, CopyFails, CopyEnds,
     CopyBroken, Exists, Missing, Prepare, PrepareFails, Rename, UploadObject,
     PublishFails, Return
<1>2. \A v \in Uploads : Call(v)' = Call(v)
  <2>1. UNCHANGED handler \/ CopyChunk(u) \/ CopyFails(u)
    BY DEF Goroutine, CreateTemp, CreateTempFails, CopyEnds, CopyBroken, Exists,
       Missing, Prepare, PrepareFails, Rename, UploadObject, PublishFails, Return
  <2>2. CASE UNCHANGED handler
    BY <2>2 DEF Call, Running
  <2>3. handler \in [Uploads -> HandlerStates]
    BY DEF IInv, TypeOK
  <2>4. CASE CopyChunk(u)
    BY <2>3, <2>4 DEF CopyChunk, HandlerTo, Call, Running, HandlerStates
  <2>5. CASE CopyFails(u)
    BY <2>3, <2>5 DEF CopyFails, HandlerTo, Call, Running, HandlerStates
  <2> QED BY <2>1, <2>2, <2>4, <2>5
<1>3. \/ UNCHANGED store
      \/ worker[u].pc = "Publish" /\ store' = Published(u)
  BY DEF Goroutine, CreateTemp, CreateTempFails, CopyChunk, CopyFails, CopyEnds,
     CopyBroken, Exists, Missing, Prepare, PrepareFails, Rename, UploadObject,
     PublishFails, Return
<1>4. CASE UNCHANGED store
  BY <1>1, <1>2, <1>4, Invisible
<1>5. CASE worker[u].pc = "Publish" /\ store' = Published(u)
  <2>1. /\ sent[u] \in Contents /\ handler[u].pc = "Await"
        /\ DOMAIN store' = DOMAIN store \cup {Hash(sent[u])}
    BY <1>5, PublishedStore
  <2>2. \A c : Hash(c) = Hash(sent[u]) => c = sent[u]
    BY DEF Hash
  <2>3. Stored' = Stored \cup {sent[u]}
    BY <1>1, <2>1, <2>2 DEF Stored, Contents
  <2>4. Calls' = Calls /\ Call(u) = "running"
    BY <1>2, <2>1 DEF Calls, Call, Running
  <2>5. Abstract!Keep(u)
    BY <1>1, <2>3, <2>4 DEF Abstract!Keep, Calls, Call, Stored
  <2> QED BY <2>5 DEF Abstract!Next
<1> QED BY <1>3, <1>4, <1>5

LEMMA CrashMaps ==
  ASSUME IInv, Crash PROVE Abstract!Next
<1>1. sent' = sent /\ Stored' = Stored
  BY DEF Crash, Stored, Contents
<1>2. ASSUME NEW u \in Uploads
      PROVE  Call(u)' = IF Call(u) = "running" THEN "failed" ELSE Call(u)
  <2>1. handler[u] \in HandlerStates
    BY DEF IInv, TypeOK
  <2>2. Running(u) => handler'[u] = [handler[u] EXCEPT !.pc = "failed"]
    BY DEF Crash
  <2>3. ~ Running(u) => handler'[u] = handler[u]
    BY DEF Crash
  <2> QED BY <2>1, <2>2, <2>3 DEF Call, Running, HandlerStates
<1>3. Calls' = [u \in Uploads |-> IF Calls[u] = "running" THEN "failed" ELSE Calls[u]]
  BY <1>2 DEF Calls
<1>4. Abstract!Crash
  BY <1>1, <1>3 DEF Abstract!Crash, Calls, Call, Stored
<1> QED BY <1>4 DEF Abstract!Next

LEMMA NextMaps == IInv /\ [Next]_vars => [Abstract!Next]_(Abstract!vars)
<1> SUFFICES ASSUME IInv, [Next]_vars
             PROVE  Abstract!Next \/ UNCHANGED Abstract!vars
  OBVIOUS
<1>1. ASSUME Degrade \/ UNCHANGED vars PROVE UNCHANGED Abstract!vars
  BY <1>1, Invisible DEF Degrade, vars, Call, Running
<1> QED BY <1>1, ClientMaps, GoroutineMaps, CrashMaps DEF Next

\* The handler, the pipe, the goroutine and the provider implement the store
\* that the file service relies on.
THEOREM StoreImplemented == Spec => ImplementsStore
BY InitMaps, NextMaps, Invariance, PTL DEF Spec, ImplementsStore, Abstract!Spec
=============================================================================
