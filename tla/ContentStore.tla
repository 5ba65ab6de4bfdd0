---------------------------- MODULE ContentStore ----------------------------
(***************************************************************************)
(* What the file service relies on when it hands a stream to the content   *)
(* store (module FileVersions takes an upload to the store as one step):   *)
(* a call that answers "ok" finds its content stored, content that no call *)
(* sent is never stored, and stored content stays.  Module UploadStream    *)
(* shows that the pipe, the goroutine and the provider implement this.     *)
(***************************************************************************)

CONSTANTS Uploads, Streams

VARIABLES
  call,   \* the state of each call
  sent,   \* the content its client sends
  stored  \* the contents in the store

vars == <<call, sent, stored>>

Init ==
  /\ call = [u \in Uploads |-> "idle"]
  /\ sent \in [Uploads -> Streams]
  /\ stored = {}

Start(u) ==
  /\ call[u] = "idle"
  /\ call' = [call EXCEPT ![u] = "running"]
  /\ UNCHANGED <<sent, stored>>

\* The content is stored at some moment of the call, whatever it answers.
Keep(u) ==
  /\ call[u] = "running"
  /\ stored' = stored \cup {sent[u]}
  /\ UNCHANGED <<call, sent>>

Succeed(u) ==
  /\ call[u] = "running" /\ sent[u] \in stored
  /\ call' = [call EXCEPT ![u] = "ok"]
  /\ UNCHANGED <<sent, stored>>

Fail(u) ==
  /\ call[u] = "running"
  /\ call' = [call EXCEPT ![u] = "failed"]
  /\ UNCHANGED <<sent, stored>>

\* The process ends and every running call with it.
Crash ==
  /\ call' = [u \in Uploads |-> IF call[u] = "running" THEN "failed" ELSE call[u]]
  /\ UNCHANGED <<sent, stored>>

Next == Crash \/ \E u \in Uploads : Start(u) \/ Keep(u) \/ Succeed(u) \/ Fail(u)

Spec == Init /\ [][Next]_vars
=============================================================================
