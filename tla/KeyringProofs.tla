--------------------------- MODULE KeyringProofs ---------------------------
(***************************************************************************)
(* Proofs about Keyring, for any number of calls, passwords and devices,   *)
(* and whatever fails: a token is kept with the device it was issued to,   *)
(* however calls interleave; and the file opens again between calls that   *)
(* come one at a time.                                                     *)
(***************************************************************************)
EXTENDS Keyring, SequenceTheorems, FiniteSetTheorems, TLAPS

\* Data whose token, if there is one, is its device's.
Honest == {d \in [device : Nat, token : Nat] : d.token \in {0, d.device}}

Secrets == {NoKey} \cup ((Passwords \cup {0}) \X Nat)

Labels == {"idle", "done", "Register", "Create", "Write", "SetData", "SetKey", "Read",
           "Challenge", "Verify", "SetToken", "ReadSalt", "Marshal", "Seal", "Send"}
Methods == {"none", "SetupAdmin", "InitKeyring", "Unlock", "Login", "Call"}
Replies == {"none", "ok", "failed", "crashed", "Unauthenticated"}

Handlers ==
  [pc : Labels, op : Methods, password : Passwords \cup {0}, device : Nat, object : Nat,
   salt : Nat, key : Secrets, data : Honest, reply : Replies]

Files == [kind : {"absent", "short", "broken", "whole"}, salt : Nat, key : Secrets,
          data : Honest]

StateOK ==
  /\ setting \in Settings /\ file \in Files /\ inits \in Nat /\ unsaved \in BOOLEAN
  /\ objects \in Seq(Honest)
  /\ mem \in [data : 0 .. Len(objects), key : Secrets]
  /\ mem.key # NoKey => mem.data # 0

\* A login keeps the object that it was given; memory has data when a key is
\* about to be set, and when the data is taken to be saved.
HandlerInv(h) ==
  /\ h.pc \in {"Challenge", "Verify", "SetToken"} => h.object \in DOMAIN objects
  /\ h.pc \in {"SetKey", "Marshal"} => mem.data # 0

IInv ==
  /\ StateOK
  /\ req \in [Requests -> Handlers]
  /\ \A r \in Requests : HandlerInv(req[r])

-----------------------------------------------------------------------------
(* Calls one at a time, and no write that fails halfway.                   *)

Serial == setting.together = 1 /\ ~ setting.writeErrors

\* The file opens with the key in memory and holds the device in memory.
Opens ==
  /\ mem.data # 0 /\ file.kind = "whole"
  /\ file.key = mem.key /\ file.salt = mem.key[2]
  /\ file.data.device = objects[mem.data].device

Settled == mem = Locked \/ (Opens /\ (unsaved \/ file.data = objects[mem.data]))

\* What the call that runs knows about the file and memory.
Knows(h) ==
  /\ h.pc \in {"Register", "Create", "Read", "Challenge", "Verify", "SetToken", "Send"} =>
       Settled
  /\ h.pc \in {"Register", "Create"} => h.op # "Login"
  /\ h.pc \in {"Challenge", "Verify", "SetToken"} => h.op = "Login" /\ mem.data # 0
  /\ h.pc \in {"ReadSalt", "Marshal", "Seal"} => Opens /\ h.op = "Login"
  /\ h.pc \in {"Marshal", "Seal"} => h.salt = mem.key[2]
  /\ h.pc = "Seal" => h.data = objects[mem.data]
  /\ h.pc = "Write" => file = Short
  /\ h.pc = "Write" /\ h.op = "Login" =>
       /\ mem.data # 0 /\ h.key = mem.key /\ h.salt = mem.key[2]
       /\ h.data = objects[mem.data]
  /\ h.pc = "Write" /\ h.op # "Login" => h.salt = h.key[2]
  /\ h.pc = "SetData" =>
       file.kind = "whole" /\ file.key = h.key /\ file.salt = h.key[2] /\ file.data = h.data
  /\ h.pc = "SetKey" =>
       /\ file.kind = "whole" /\ file.key = h.key /\ file.salt = h.key[2]
       /\ file.data = objects[mem.data]

SerialInv ==
  Serial =>
    /\ \A q, r \in Requests : Running(q) /\ Running(r) => q = r
    /\ (\A r \in Requests : ~ Running(r)) => Settled
    /\ \A r \in Requests : Running(r) => Knows(req[r])

-----------------------------------------------------------------------------
(* Lemmas about records and about steps in general.                        *)

LEMMA RecordTypes ==
  /\ NoData \in Honest /\ Idle \in Handlers
  /\ Absent \in Files /\ Short \in Files
  /\ \A s \in Nat : Broken(s) \in Files
  /\ \A s \in Nat, k \in Secrets, d \in Honest : Whole(s, k, d) \in Files
<1>1. NoData \in Honest /\ NoKey \in Secrets
  BY DEF NoData, Honest, Secrets
<1>2. Idle \in Handlers
  BY <1>1 DEF Idle, Handlers, Labels, Methods, Replies
<1>3. Absent \in Files
  BY <1>1 DEF Absent, Files
<1>4. Short \in Files /\ \A s \in Nat : Broken(s) \in Files
  BY <1>3 DEF Short, Broken, Files
<1>5. \A s \in Nat, k \in Secrets, d \in Honest : Whole(s, k, d) \in Files
  BY DEF Whole, Files
<1> QED BY <1>1, <1>2, <1>3, <1>4, <1>5

LEMMA LockedType ==
  ASSUME NEW n \in Nat
  PROVE  Locked \in [data : 0 .. n, key : Secrets] /\ Locked.key = NoKey
<1>1. NoKey \in Secrets /\ 0 \in 0 .. n
  BY DEF Secrets
<1> QED BY <1>1 DEF Locked

LEMMA DevicesAreNumbers == \A d \in Devices : d \in Nat
BY KeyringAssumption DEF Devices

LEMMA ReplyType ==
  ASSUME NEW h \in Handlers, NEW c \in Replies
  PROVE  Reply(h, c) \in Handlers /\ Reply(h, c).pc = "done" /\ HandlerInv(Reply(h, c))
<1>1. Reply(h, c) \in Handlers /\ Reply(h, c).pc = "done"
  BY RecordTypes DEF Reply, Handlers, Labels
<1> QED BY <1>1 DEF HandlerInv

LEMMA GotoType ==
  ASSUME NEW h \in Handlers, NEW l \in Labels
  PROVE  /\ Goto(h, l) \in Handlers /\ Goto(h, l).pc = l /\ Goto(h, l).op = h.op
         /\ Goto(h, l).object = h.object /\ Goto(h, l).data = h.data
         /\ Goto(h, l).key = h.key /\ Goto(h, l).salt = h.salt
         /\ Goto(h, l).password = h.password /\ Goto(h, l).device = h.device
BY DEF Goto, Handlers

LEMMA StepInv ==
  ASSUME IInv, NEW r \in Requests, NEW h \in Handlers, Becomes(r, h),
         StateOK', HandlerInv(h)', DOMAIN objects \subseteq DOMAIN objects',
         mem.data # 0 => mem'.data # 0
  PROVE  IInv'
<1>1. /\ req' \in [Requests -> Handlers]
      /\ \A q \in Requests : req'[q] = IF q = r THEN h ELSE req[q]
  BY DEF Becomes, IInv
<1>2. \A q \in Requests : HandlerInv(req[q])'
  BY <1>1 DEF IInv, HandlerInv
<1> QED BY <1>1, <1>2 DEF IInv

\* A step that leaves the memory of the process alone.
LEMMA FileStep ==
  ASSUME IInv, NEW r \in Requests, NEW h \in Handlers, Becomes(r, h),
         UNCHANGED <<setting, process>>, file' \in Files, inits' \in Nat,
         unsaved' \in BOOLEAN, HandlerInv(h)
  PROVE  IInv'
<1>1. setting' = setting /\ objects' = objects /\ mem' = mem
  BY DEF process
<1>2. StateOK'
  BY <1>1 DEF StateOK, IInv
<1>3. HandlerInv(h)'
  BY <1>1 DEF HandlerInv
<1> QED BY <1>1, <1>2, <1>3, StepInv

LEMMA BeginInv ==
  ASSUME IInv, NEW r \in Requests,
         SetupAdmin(r) \/ InitKeyring(r) \/ UnlockKeyring(r) \/ Login(r) \/ Call(r)
  PROVE  IInv'
<1>1. UNCHANGED <<setting, file, process, inits, unsaved>>
  BY DEF SetupAdmin, InitKeyring, UnlockKeyring, Login, Call
<1>2. file \in Files /\ inits \in Nat /\ unsaved \in BOOLEAN /\ objects \in Seq(Honest)
      /\ mem.data \in 0 .. Len(objects) /\ mem.data \in Nat
  <2>1. mem.data \in 0 .. Len(objects)
    BY DEF IInv, StateOK
  <2>2. mem.data \in Nat
    BY <2>1
  <2> QED BY <2>1, <2>2 DEF IInv, StateOK
<1>3. \E h \in Handlers : Begin(r, h) /\ HandlerInv(h)
  <2>1. CASE SetupAdmin(r)
    <3>1. PICK p \in Passwords :
            Begin(r, [Idle EXCEPT !.op = "SetupAdmin", !.pc = "Register", !.password = p])
      BY <2>1 DEF SetupAdmin
    <3>2. PICK h : h = [Idle EXCEPT !.op = "SetupAdmin", !.pc = "Register", !.password = p]
      OBVIOUS
    <3>3. h \in Handlers /\ h.pc = "Register"
      BY <3>2, RecordTypes DEF Handlers, Labels, Methods
    <3> QED BY <3>1, <3>2, <3>3 DEF HandlerInv
  <2>2. CASE InitKeyring(r)
    <3>1. PICK p \in Passwords, d \in Devices :
            Begin(r, [Idle EXCEPT !.op = "InitKeyring", !.pc = "Create",
                                  !.password = p, !.device = d])
      BY <2>2 DEF InitKeyring
    <3>2. PICK h : h = [Idle EXCEPT !.op = "InitKeyring", !.pc = "Create",
                                    !.password = p, !.device = d]
      OBVIOUS
    <3>3. h \in Handlers /\ h.pc = "Create"
      BY <3>2, RecordTypes, DevicesAreNumbers DEF Handlers, Labels, Methods
    <3> QED BY <3>1, <3>2, <3>3 DEF HandlerInv
  <2>3. CASE UnlockKeyring(r)
    <3>1. PICK p \in Passwords :
            Begin(r, [Idle EXCEPT !.op = "Unlock", !.pc = "Read", !.password = p])
      BY <2>3 DEF UnlockKeyring
    <3>2. PICK h : h = [Idle EXCEPT !.op = "Unlock", !.pc = "Read", !.password = p]
      OBVIOUS
    <3>3. h \in Handlers /\ h.pc = "Read"
      BY <3>2, RecordTypes DEF Handlers, Labels, Methods
    <3> QED BY <3>1, <3>2, <3>3 DEF HandlerInv
  <2>4. CASE Login(r)
    <3>1. PICK h : /\ h = [Idle EXCEPT !.op = "Login", !.pc = "Challenge", !.object = mem.data]
                   /\ Begin(r, IF mem.data = 0 THEN Reply(h, "failed") ELSE h)
      BY <2>4 DEF Login
    <3>2. h \in Handlers /\ h.pc = "Challenge" /\ h.object = mem.data
      BY <1>2, <3>1, RecordTypes DEF Handlers, Labels, Methods
    <3>3. mem.data # 0 => HandlerInv(h)
      BY <1>2, <3>2 DEF HandlerInv
    <3> QED BY <3>1, <3>2, <3>3, ReplyType DEF Replies
  <2>5. CASE Call(r)
    <3>1. Token \in Nat
      BY <1>2 DEF Token, Honest
    <3>2. PICK h : /\ h = [Idle EXCEPT !.op = "Call", !.pc = "Send", !.device = Token]
                   /\ Begin(r, IF Token = 0 THEN Reply(h, "Unauthenticated") ELSE h)
      BY <2>5 DEF Call
    <3>3. h \in Handlers /\ h.pc = "Send"
      BY <3>1, <3>2, RecordTypes DEF Handlers, Labels, Methods
    <3>4. HandlerInv(h)
      BY <3>3 DEF HandlerInv
    <3> QED BY <3>2, <3>3, <3>4, ReplyType DEF Replies
  <2> QED BY <2>1, <2>2, <2>3, <2>4, <2>5
<1> QED BY <1>1, <1>2, <1>3, FileStep DEF Begin

\* Calls that only ask the server, or take what they need from memory.
LEMMA ServerInv ==
  ASSUME IInv, NEW r \in Requests,
         Register(r) \/ Challenge(r) \/ Verify(r) \/ Send(r) \/ Marshal(r)
  PROVE  IInv'
<1> DEFINE h == req[r]
<1>1. /\ h \in Handlers /\ HandlerInv(h) /\ file \in Files /\ inits \in Nat
      /\ unsaved \in BOOLEAN /\ objects \in Seq(Honest) /\ mem.data \in 0 .. Len(objects)
  BY DEF IInv, StateOK
<1>2. UNCHANGED <<setting, file, process, inits, unsaved>>
  BY DEF Register, Challenge, Verify, Send, Marshal, Alone
<1>3. \E g \in Handlers : Becomes(r, g) /\ HandlerInv(g)
  <2>1. CASE \E c \in {"failed", "ok", "Unauthenticated"} : Becomes(r, Reply(h, c))
    BY <1>1, <2>1, ReplyType DEF Replies
  <2>2. CASE Challenge(r) /\ Becomes(r, Goto(h, "Verify"))
    <3>1. Goto(h, "Verify") \in Handlers /\ Goto(h, "Verify").pc = "Verify"
          /\ Goto(h, "Verify").object = h.object /\ h.pc = "Challenge"
      BY <1>1, <2>2, GotoType DEF Challenge, At, Labels
    <3> QED BY <1>1, <2>2, <3>1 DEF HandlerInv
  <2>3. CASE Verify(r) /\ Becomes(r, Goto(h, "SetToken"))
    <3>1. Goto(h, "SetToken") \in Handlers /\ Goto(h, "SetToken").pc = "SetToken"
          /\ Goto(h, "SetToken").object = h.object /\ h.pc = "Verify"
      BY <1>1, <2>3, GotoType DEF Verify, At, Labels
    <3> QED BY <1>1, <2>3, <3>1 DEF HandlerInv
  <2>4. CASE Register(r) /\ \E d \in Devices : Becomes(r, [Goto(h, "Create") EXCEPT !.device = d])
    <3>d. PICK d \in Devices : Becomes(r, [Goto(h, "Create") EXCEPT !.device = d])
      BY <2>4
    <3>1. PICK g : g = [Goto(h, "Create") EXCEPT !.device = d] /\ Becomes(r, g)
      BY <3>d
    <3>2. g \in Handlers /\ g.pc = "Create"
      BY <1>1, <3>1, DevicesAreNumbers DEF Goto, Handlers, Labels
    <3> QED BY <3>1, <3>2 DEF HandlerInv
  <2>5. CASE Marshal(r)
    <3>1. PICK g : g = [Goto(h, "Seal") EXCEPT !.data = objects[mem.data]] /\ Becomes(r, g)
      BY <2>5 DEF Marshal, Alone
    <3>2. objects[mem.data] \in Honest
      BY <1>1, <2>5 DEF Marshal, At, HandlerInv
    <3>3. g \in Handlers /\ g.pc = "Seal"
      BY <1>1, <3>1, <3>2 DEF Goto, Handlers, Labels
    <3> QED BY <3>1, <3>3 DEF HandlerInv
  <2> QED BY <2>1, <2>2, <2>3, <2>4, <2>5 DEF Register, Challenge, Verify, Send, Alone
<1> QED BY <1>1, <1>2, <1>3, FileStep

\* Calls that read or write the file.
LEMMA FileInv ==
  ASSUME IInv, NEW r \in Requests,
         Create(r) \/ Write(r) \/ Read(r) \/ ReadSalt(r) \/ Seal(r)
  PROVE  IInv'
<1> DEFINE h == req[r]
<1>1. /\ h \in Handlers /\ HandlerInv(h) /\ file \in Files /\ inits \in Nat
      /\ unsaved \in BOOLEAN /\ mem.key \in Secrets /\ (mem.key # NoKey => mem.data # 0)
  BY DEF IInv, StateOK
<1>2. UNCHANGED <<setting, process>>
  BY DEF Create, Write, Read, ReadSalt, Seal
<1>3. CASE \E c \in {"failed", "ok"} : Becomes(r, Reply(h, c))
  <2>1. file' \in Files /\ inits' \in Nat /\ unsaved' \in BOOLEAN
    <3>1. h.salt \in Nat /\ h.key \in Secrets /\ h.data \in Honest
      BY <1>1 DEF Handlers
    <3>2. CASE Create(r)
      BY <1>1, <3>2, RecordTypes DEF Create
    <3>3. CASE Write(r)
      <4>1. file' \in {Whole(h.salt, h.key, h.data), Short, Broken(h.salt)}
        BY <3>3 DEF Write
      <4>2. inits' = inits /\ unsaved' \in BOOLEAN
        BY <1>1, <3>3 DEF Write
      <4> QED BY <1>1, <3>1, <4>1, <4>2, RecordTypes
    <3>4. CASE Read(r)
      BY <1>1, <3>4 DEF Read
    <3>5. CASE ReadSalt(r)
      BY <1>1, <3>5 DEF ReadSalt
    <3>6. CASE Seal(r)
      BY <1>1, <3>6, RecordTypes DEF Seal
    <3> QED BY <3>2, <3>3, <3>4, <3>5, <3>6
  <2> QED BY <1>1, <1>2, <1>3, <2>1, ReplyType, FileStep DEF Replies
<1>4. CASE Create(r) /\ ~ \E c \in {"failed", "ok"} : Becomes(r, Reply(h, c))
  <2>1. PICK g : /\ g = [Goto(h, "Write") EXCEPT
                          !.salt = inits + 1, !.key = <<h.password, inits + 1>>,
                          !.data = [device |-> h.device, token |-> 0]]
                 /\ Becomes(r, g)
    BY <1>4 DEF Create
  <2>2. [device |-> h.device, token |-> 0] \in Honest /\ <<h.password, inits + 1>> \in Secrets
    BY <1>1 DEF Handlers, Honest, Secrets
  <2>3. g \in Handlers /\ g.pc = "Write"
    <3>1. PICK s \in Nat, k \in Secrets, d \in Honest :
            g = [Goto(h, "Write") EXCEPT !.salt = s, !.key = k, !.data = d]
      <4>1. inits + 1 \in Nat
        BY <1>1
      <4> QED BY <2>1, <2>2, <4>1
    <3> QED BY <1>1, <3>1 DEF Goto, Handlers, Labels
  <2>4. file' \in Files /\ inits' \in Nat /\ unsaved' \in BOOLEAN
    BY <1>1, <1>4, RecordTypes DEF Create
  <2> QED BY <1>2, <2>1, <2>3, <2>4, FileStep DEF HandlerInv
<1>5. CASE Write(r) /\ ~ \E c \in {"failed", "ok"} : Becomes(r, Reply(h, c))
  <2>1. Becomes(r, Goto(h, "SetData"))
    BY <1>5 DEF Write
  <2>2. Goto(h, "SetData") \in Handlers /\ HandlerInv(Goto(h, "SetData"))
    BY <1>1, GotoType DEF HandlerInv, Labels
  <2>3. file' \in Files /\ inits' \in Nat /\ unsaved' \in BOOLEAN
    <3>1. h.salt \in Nat /\ h.key \in Secrets /\ h.data \in Honest
      BY <1>1 DEF Handlers
    <3> QED BY <1>1, <1>5, <3>1, RecordTypes DEF Write
  <2> QED BY <1>2, <2>1, <2>2, <2>3, FileStep
<1>6. CASE Read(r) /\ ~ \E c \in {"failed", "ok"} : Becomes(r, Reply(h, c))
  <2>1. PICK g : /\ g = [Goto(h, "SetData") EXCEPT !.data = file.data,
                                                  !.key = <<h.password, file.salt>>]
                 /\ Becomes(r, g)
    BY <1>6 DEF Read
  <2>2. file.data \in Honest /\ <<h.password, file.salt>> \in Secrets
    BY <1>1 DEF Handlers, Files, Secrets
  <2>3. g \in Handlers /\ g.pc = "SetData"
    BY <1>1, <2>1, <2>2 DEF Goto, Handlers, Labels
  <2>4. file' \in Files /\ inits' \in Nat /\ unsaved' \in BOOLEAN
    BY <1>1, <1>6 DEF Read
  <2> QED BY <1>2, <2>1, <2>3, <2>4, FileStep DEF HandlerInv
<1>7. CASE ReadSalt(r) /\ ~ \E c \in {"failed", "ok"} : Becomes(r, Reply(h, c))
  <2>1. PICK g : g = [Goto(h, "Marshal") EXCEPT !.salt = file.salt] /\ Becomes(r, g)
    BY <1>7 DEF ReadSalt
  <2>2. mem.data # 0
    BY <1>1, <1>7 DEF ReadSalt
  <2>3. g \in Handlers /\ g.pc = "Marshal"
    BY <1>1, <2>1 DEF Goto, Handlers, Labels, Files
  <2>4. file' \in Files /\ inits' \in Nat /\ unsaved' \in BOOLEAN
    BY <1>1, <1>7 DEF ReadSalt
  <2> QED BY <1>2, <2>1, <2>2, <2>3, <2>4, FileStep DEF HandlerInv
<1>8. CASE Seal(r) /\ ~ \E c \in {"failed", "ok"} : Becomes(r, Reply(h, c))
  <2>1. PICK g : g = [Goto(h, "Write") EXCEPT !.key = mem.key] /\ Becomes(r, g)
    BY <1>8 DEF Seal
  <2>2. g \in Handlers /\ g.pc = "Write"
    BY <1>1, <2>1 DEF Goto, Handlers, Labels
  <2>3. file' \in Files /\ inits' \in Nat /\ unsaved' \in BOOLEAN
    BY <1>1, <1>8, RecordTypes DEF Seal
  <2> QED BY <1>2, <2>1, <2>2, <2>3, FileStep DEF HandlerInv
<1> QED BY <1>3, <1>4, <1>5, <1>6, <1>7, <1>8

\* Calls that write memory: an object is added, a key is set, or a token, and
\* the token is the one for the object's own device.
LEMMA MemoryInv ==
  ASSUME IInv, NEW r \in Requests, SetData(r) \/ SetKey(r) \/ SetToken(r)
  PROVE  IInv'
<1> DEFINE h == req[r]
<1>1. /\ h \in Handlers /\ HandlerInv(h) /\ setting \in Settings /\ file \in Files
      /\ inits \in Nat /\ unsaved \in BOOLEAN /\ objects \in Seq(Honest)
      /\ mem \in [data : 0 .. Len(objects), key : Secrets]
      /\ (mem.key # NoKey => mem.data # 0)
      /\ DOMAIN objects = 1 .. Len(objects) /\ Len(objects) \in Nat
  BY DEF IInv, StateOK
<1>2. h.data \in Honest /\ h.key \in Secrets
  BY <1>1 DEF Handlers
<1>3. setting' = setting /\ file' = file /\ inits' = inits /\ unsaved' = unsaved
  BY DEF SetData, SetKey, SetToken
<1>4. CASE SetData(r)
  <2>1. /\ objects' = Append(objects, h.data)
        /\ mem' = [mem EXCEPT !.data = Len(objects) + 1]
        /\ Becomes(r, Goto(h, "SetKey"))
    BY <1>4 DEF SetData
  <2>2. objects' \in Seq(Honest) /\ Len(objects') = Len(objects) + 1
    BY <1>1, <1>2, <2>1, AppendProperties
  <2>3. mem'.data = Len(objects) + 1 /\ mem' \in [data : 0 .. Len(objects'), key : Secrets]
    BY <1>1, <2>1, <2>2
  <2>4. mem'.data # 0
    BY <1>1, <2>3
  <2>5. StateOK'
    BY <1>1, <1>3, <2>2, <2>3, <2>4 DEF StateOK
  <2>6. Goto(h, "SetKey") \in Handlers /\ Goto(h, "SetKey").pc = "SetKey"
    BY <1>1, GotoType DEF Labels
  <2>7. PICK g \in Handlers : g = Goto(h, "SetKey")
    BY <2>6
  <2>8. HandlerInv(g)'
    BY <2>4, <2>6, <2>7 DEF HandlerInv
  <2>9. DOMAIN objects \subseteq DOMAIN objects'
    BY <1>1, <2>2
  <2> QED BY <2>1, <2>4, <2>5, <2>7, <2>8, <2>9, StepInv
<1>5. CASE SetKey(r)
  <2>1. /\ objects' = objects /\ mem' = [mem EXCEPT !.key = h.key]
        /\ Becomes(r, Reply(h, "ok")) /\ h.pc = "SetKey"
    BY <1>5 DEF SetKey, At
  <2>2. /\ mem' \in [data : 0 .. Len(objects), key : Secrets]
        /\ mem'.data = mem.data /\ mem.data # 0
    BY <1>1, <1>2, <2>1 DEF HandlerInv
  <2>3. StateOK'
    BY <1>1, <1>3, <2>1, <2>2 DEF StateOK
  <2>4. PICK g \in Handlers : g = Reply(h, "ok") /\ g.pc = "done"
    BY <1>1, ReplyType DEF Replies
  <2>5. HandlerInv(g)'
    BY <2>4 DEF HandlerInv
  <2> QED BY <2>1, <2>2, <2>3, <2>4, <2>5, StepInv
<1>6. CASE SetToken(r)
  <2>1. /\ objects' = [objects EXCEPT ![h.object].token = objects[h.object].device]
        /\ mem' = mem /\ Becomes(r, Goto(h, "ReadSalt")) /\ h.pc = "SetToken"
    BY <1>6 DEF SetToken, Signer, At
  <2>2. PICK i \in 1 .. Len(objects) : i = h.object
    BY <1>1, <2>1 DEF HandlerInv
  <2>3. PICK d : d = [objects[i] EXCEPT !.token = objects[i].device]
    OBVIOUS
  <2>4. d \in Honest
    <3>1. objects[i] \in Honest
      BY <1>1, <2>2
    <3> QED BY <2>3, <3>1 DEF Honest
  <2>5. objects' = [objects EXCEPT ![i] = d]
    BY <2>1, <2>2, <2>3
  <2>6. objects' \in Seq(Honest) /\ Len(objects') = Len(objects)
    BY <1>1, <2>4, <2>5, ExceptSeq
  <2>7. StateOK'
    BY <1>1, <1>3, <2>1, <2>6 DEF StateOK
  <2>8. PICK g \in Handlers : g = Goto(h, "ReadSalt") /\ g.pc = "ReadSalt"
    BY <1>1, GotoType DEF Labels
  <2>9. HandlerInv(g)'
    BY <2>8 DEF HandlerInv
  <2>10. DOMAIN objects' = DOMAIN objects
    BY <1>1, <2>6
  <2> QED BY <2>1, <2>7, <2>8, <2>9, <2>10, StepInv
<1> QED BY <1>4, <1>5, <1>6

\* A crash leaves the file, or cuts what was being written.
LEMMA CrashInv == ASSUME IInv, Crash PROVE IInv'
<1>1. /\ file' \in {file} \cup {Broken(req[r].salt) : r \in {q \in Requests : At(q, "Write")}}
      /\ objects' = <<>> /\ mem' = Locked /\ unsaved' = FALSE
      /\ req' = [r \in Requests |-> IF Running(r) THEN Reply(req[r], "crashed") ELSE req[r]]
      /\ setting' = setting /\ inits' = inits
  BY DEF Crash
<1>2. \A r \in Requests : req[r] \in Handlers /\ req[r].salt \in Nat
  BY DEF IInv, Handlers
<1>3. file' \in Files
  BY <1>1, <1>2, RecordTypes DEF IInv, StateOK
<1>4. objects' \in Seq(Honest) /\ Len(objects') = 0
  BY <1>1, EmptySeq
<1>5. StateOK'
  <2>1. mem' \in [data : 0 .. Len(objects'), key : Secrets] /\ mem'.key = NoKey
    BY <1>1, <1>4, LockedType
  <2> QED BY <1>1, <1>3, <1>4, <2>1 DEF IInv, StateOK
<1>6. ASSUME NEW r \in Requests PROVE req'[r] \in Handlers /\ req'[r].pc \in {"idle", "done"}
  BY <1>1, <1>2, ReplyType DEF Running, Replies
<1>7. req' \in [Requests -> Handlers]
  BY <1>1, <1>6
<1>8. \A r \in Requests : HandlerInv(req[r])'
  BY <1>6 DEF HandlerInv
<1> QED BY <1>5, <1>7, <1>8 DEF IInv

LEMMA Initially == Init => IInv
<1> SUFFICES ASSUME Init PROVE IInv
  OBVIOUS
<1>1. /\ setting \in Settings /\ objects = <<>> /\ mem = Locked /\ unsaved = FALSE
      /\ req = [r \in Requests |-> Idle]
  BY DEF Init
<1>2. file \in Files /\ inits \in Nat
  <2>1. CASE file = Absent /\ inits = 0
    BY <2>1, RecordTypes
  <2>2. CASE (\E p \in Passwords : file = Whole(1, <<p, 1>>, [device |-> 1, token |-> 0]))
             /\ inits = 1
    <3>1. \A p \in Passwords : <<p, 1>> \in Secrets
      BY DEF Secrets
    <3>2. [device |-> 1, token |-> 0] \in Honest
      BY DEF Honest
    <3> QED BY <2>2, <3>1, <3>2, RecordTypes
  <2> QED BY <2>1, <2>2 DEF Init
<1>3. objects \in Seq(Honest) /\ Len(objects) = 0
  BY <1>1, EmptySeq
<1>4. StateOK
  <2>1. mem \in [data : 0 .. Len(objects), key : Secrets] /\ mem.key = NoKey
    BY <1>1, <1>3, LockedType
  <2> QED BY <1>1, <1>2, <1>3, <2>1 DEF StateOK
<1>5. HandlerInv(Idle)
  BY DEF HandlerInv, Idle
<1> QED BY <1>1, <1>4, <1>5, RecordTypes DEF IInv

LEMMA NextInv == IInv /\ [Next]_vars => IInv'
<1> SUFFICES ASSUME IInv, [Next]_vars PROVE IInv'
  OBVIOUS
<1>1. CASE UNCHANGED vars \/ ServerRestart
  BY <1>1 DEF vars, process, ServerRestart, IInv, StateOK, HandlerInv
<1> QED BY <1>1, BeginInv, ServerInv, FileInv, MemoryInv, CrashInv DEF Next

LEMMA Invariance == Spec => []IInv
BY Initially, NextInv, PTL DEF Spec

\* A token is kept with the device it was issued to, in memory and in the file,
\* whatever calls meet and whatever fails.
THEOREM TokensStayWithDevices == Spec => []TokensAreTheDevices
<1>1. IInv => TokensAreTheDevices
  BY DEF IInv, StateOK, Files, Honest, TokensAreTheDevices
<1> QED BY <1>1, Invariance, PTL
-----------------------------------------------------------------------------
(* Calls one at a time: what the file and memory agree on.                 *)

\* Nobody runs beside a call that runs, and it knows how far the file is.
LEMMA WhatRuns ==
  ASSUME SerialInv, Serial, NEW r \in Requests, Running(r)
  PROVE  Knows(req[r]) /\ \A q \in Requests : Running(q) => q = r
BY DEF SerialInv

LEMMA NobodyRuns ==
  ASSUME IInv, SerialInv, Serial, NEW r \in Requests, NEW h, Begin(r, h)
  PROVE  Settled /\ \A q \in Requests : ~ Running(q)
<1>1. Cardinality({q \in Requests : Running(q)}) < 1
  BY DEF Begin, Serial
<1>2. IsFiniteSet({q \in Requests : Running(q)})
  BY KeyringAssumption, FS_Subset
<1>3. Cardinality({q \in Requests : Running(q)}) = 0
  BY <1>1, <1>2, FS_CardinalityType
<1>4. {q \in Requests : Running(q)} = {}
  BY <1>2, <1>3, FS_EmptySet
<1> QED BY <1>4 DEF SerialInv

LEMMA SerialStep ==
  ASSUME IInv, SerialInv, NEW r \in Requests, NEW h, Becomes(r, h), setting' = setting,
         Serial => \A q \in Requests : Running(q) => q = r,
         Serial => IF h.pc \in {"idle", "done"} THEN Settled' ELSE Knows(h)'
  PROVE  SerialInv'
<1>1. Serial' <=> Serial
  BY DEF Serial
<1>2. \A q \in Requests : req'[q] = IF q = r THEN h ELSE req[q]
  BY DEF Becomes, IInv
<1>3. \A q \in Requests : Running(q)' <=> IF q = r THEN h.pc \notin {"idle", "done"}
                                                   ELSE Running(q)
  BY <1>2 DEF Running
<1>4. SUFFICES ASSUME Serial
               PROVE  /\ \A p, q \in Requests : Running(p)' /\ Running(q)' => p = q
                      /\ (\A q \in Requests : ~ Running(q)') => Settled'
                      /\ \A q \in Requests : Running(q)' => Knows(req[q])'
  BY <1>1 DEF SerialInv
<1>5. \A q \in Requests : Running(q)' => q = r
  BY <1>3, <1>4
<1>6. (\A q \in Requests : ~ Running(q)') => Settled'
  BY <1>3, <1>4
<1>7. Running(r)' => Knows(req[r])'
  <2>1. req'[r] = h
    BY <1>2
  <2>2. Running(r)' => h.pc \notin {"idle", "done"}
    BY <1>3
  <2>3. Knows(req[r])' <=> Knows(h)'
    BY <2>1 DEF Knows
  <2> QED BY <1>4, <2>2, <2>3
<1> QED BY <1>5, <1>6, <1>7

LEMMA ReplyIsDone == \A h, c : Reply(h, c).pc = "done"
BY DEF Reply, Idle

\* A step that leaves the file and memory as they are.
LEMMA SettledStays ==
  ASSUME UNCHANGED <<file, objects, mem>>, unsaved' = unsaved
  PROVE  (Settled' <=> Settled) /\ (Opens' <=> Opens)
BY DEF Settled, Opens, Locked

LEMMA SerialBegin ==
  ASSUME IInv, SerialInv, NEW r \in Requests,
         SetupAdmin(r) \/ InitKeyring(r) \/ UnlockKeyring(r) \/ Login(r) \/ Call(r)
  PROVE  SerialInv'
<1>1. setting' = setting /\ UNCHANGED <<file, objects, mem>> /\ unsaved' = unsaved
  BY DEF SetupAdmin, InitKeyring, UnlockKeyring, Login, Call, process
<1>2. PICK h : /\ Begin(r, h)
               /\ \/ h.pc \in {"done", "Read", "Send"}
                  \/ h.pc \in {"Register", "Create"} /\ h.op # "Login"
                  \/ h.pc = "Challenge" /\ h.op = "Login" /\ mem.data # 0
  <2>1. CASE SetupAdmin(r)
    <3>1. PICK p \in Passwords :
            Begin(r, [Idle EXCEPT !.op = "SetupAdmin", !.pc = "Register", !.password = p])
      BY <2>1 DEF SetupAdmin
    <3>2. PICK h : h = [Idle EXCEPT !.op = "SetupAdmin", !.pc = "Register", !.password = p]
      OBVIOUS
    <3>3. h.pc = "Register" /\ h.op # "Login"
      BY <3>2 DEF Idle
    <3> QED BY <3>1, <3>2, <3>3
  <2>2. CASE InitKeyring(r)
    <3>1. PICK p \in Passwords, d \in Devices :
            Begin(r, [Idle EXCEPT !.op = "InitKeyring", !.pc = "Create",
                                  !.password = p, !.device = d])
      BY <2>2 DEF InitKeyring
    <3>2. PICK h : h = [Idle EXCEPT !.op = "InitKeyring", !.pc = "Create",
                                  !.password = p, !.device = d]
      OBVIOUS
    <3>3. h.pc = "Create" /\ h.op # "Login"
      BY <3>2 DEF Idle
    <3> QED BY <3>1, <3>2, <3>3
  <2>3. CASE UnlockKeyring(r)
    <3>1. PICK p \in Passwords :
            Begin(r, [Idle EXCEPT !.op = "Unlock", !.pc = "Read", !.password = p])
      BY <2>3 DEF UnlockKeyring
    <3>2. PICK h : h = [Idle EXCEPT !.op = "Unlock", !.pc = "Read", !.password = p]
      OBVIOUS
    <3>3. h.pc = "Read"
      BY <3>2 DEF Idle
    <3> QED BY <3>1, <3>2, <3>3
  <2>4. CASE Login(r)
    <3>1. PICK h : /\ h = [Idle EXCEPT !.op = "Login", !.pc = "Challenge", !.object = mem.data]
                   /\ Begin(r, IF mem.data = 0 THEN Reply(h, "failed") ELSE h)
      BY <2>4 DEF Login
    <3>2. h.pc = "Challenge" /\ h.op = "Login"
      BY <3>1 DEF Idle
    <3> QED BY <3>1, <3>2, ReplyIsDone
  <2>5. CASE Call(r)
    <3>1. PICK h : /\ h = [Idle EXCEPT !.op = "Call", !.pc = "Send", !.device = Token]
                   /\ Begin(r, IF Token = 0 THEN Reply(h, "Unauthenticated") ELSE h)
      BY <2>5 DEF Call
    <3>2. h.pc = "Send"
      BY <3>1 DEF Idle
    <3> QED BY <3>1, <3>2, ReplyIsDone
  <2> QED BY <2>1, <2>2, <2>3, <2>4, <2>5
<1>3. ASSUME Serial
      PROVE  Settled /\ \A q \in Requests : ~ Running(q)
  BY <1>2, <1>3, NobodyRuns
<1>4. Serial => Settled'
  BY <1>1, <1>3, SettledStays
<1>5. Serial => IF h.pc \in {"idle", "done"} THEN Settled' ELSE Knows(h)'
  BY <1>1, <1>2, <1>4 DEF Knows
<1>6. Becomes(r, h)
  BY <1>2 DEF Begin
<1> QED BY <1>1, <1>3, <1>5, <1>6, SerialStep

LEMMA SerialServer ==
  ASSUME IInv, SerialInv, NEW r \in Requests,
         Register(r) \/ Challenge(r) \/ Verify(r) \/ Send(r) \/ Marshal(r)
  PROVE  SerialInv'
<1> DEFINE h == req[r]
<1>1. setting' = setting /\ UNCHANGED <<file, objects, mem>> /\ unsaved' = unsaved
  BY DEF Register, Challenge, Verify, Send, Marshal, Alone, process
<1>2. Running(r)
  BY DEF Register, Challenge, Verify, Send, Marshal, Running, At
<1>3. ASSUME Serial
      PROVE  Knows(h) /\ \A q \in Requests : Running(q) => q = r
  BY <1>2, <1>3, WhatRuns
<1>4. CASE Register(r) \/ Challenge(r) \/ Verify(r) \/ Send(r)
  <2>1. PICK g : /\ Becomes(r, g)
                 /\ \/ g.pc = "done"
                    \/ h.pc = "Register" /\ g.pc = "Create" /\ g.op = h.op
                    \/ h.pc = "Challenge" /\ g.pc = "Verify" /\ g.op = h.op
                    \/ h.pc = "Verify" /\ g.pc = "SetToken" /\ g.op = h.op
    <3>1. /\ Goto(h, "Verify").pc = "Verify" /\ Goto(h, "Verify").op = h.op
          /\ Goto(h, "SetToken").pc = "SetToken" /\ Goto(h, "SetToken").op = h.op
      BY GotoType DEF IInv, Labels
    <3>2. \A d : /\ [Goto(h, "Create") EXCEPT !.device = d].pc = "Create"
                 /\ [Goto(h, "Create") EXCEPT !.device = d].op = h.op
      BY DEF Goto, IInv, Handlers
    <3>3. CASE Register(r)
      <4>1. h.pc = "Register"
        BY <3>3 DEF Register, At
      <4>2. CASE Becomes(r, Reply(h, "failed"))
        BY <4>2, ReplyIsDone
      <4>3. CASE \E d \in Devices : Becomes(r, [Goto(h, "Create") EXCEPT !.device = d])
        <5>1. PICK d \in Devices : Becomes(r, [Goto(h, "Create") EXCEPT !.device = d])
          BY <4>3
        <5>2. PICK g : g = [Goto(h, "Create") EXCEPT !.device = d]
          OBVIOUS
        <5> QED BY <3>2, <4>1, <5>1, <5>2
      <4> QED BY <3>3, <4>2, <4>3 DEF Register
    <3>4. CASE Challenge(r)
      BY <3>1, <3>4, ReplyIsDone DEF Challenge, At, Alone
    <3>5. CASE Verify(r)
      BY <3>1, <3>5, ReplyIsDone DEF Verify, At
    <3>6. CASE Send(r)
      BY <3>6, ReplyIsDone DEF Send, Alone
    <3> QED BY <1>4, <3>3, <3>4, <3>5, <3>6
  <2>2. h.pc \in {"Register", "Challenge", "Verify", "Send"}
    BY <1>4 DEF Register, Challenge, Verify, Send, At
  <2>3. Serial => Settled'
    BY <1>1, <1>3, <2>2, SettledStays DEF Knows
  <2>4. Serial => IF g.pc \in {"idle", "done"} THEN Settled' ELSE Knows(g)'
    BY <1>1, <1>3, <2>1, <2>3 DEF Knows
  <2> QED BY <1>1, <1>3, <2>1, <2>4, SerialStep
<1>5. CASE Marshal(r)
  <2>1. PICK g : g = [Goto(h, "Seal") EXCEPT !.data = objects[mem.data]] /\ Becomes(r, g)
    BY <1>5 DEF Marshal, Alone
  <2>2. g.pc = "Seal" /\ g.op = h.op /\ g.salt = h.salt /\ g.data = objects[mem.data]
    BY <2>1 DEF Goto, IInv, Handlers
  <2>3. Serial => Opens /\ h.op = "Login" /\ h.salt = mem.key[2]
    BY <1>3, <1>5 DEF Marshal, At, Knows
  <2>4. Serial => Opens'
    BY <1>1, <2>3, SettledStays
  <2>5. Serial => Knows(g)'
    BY <1>1, <2>2, <2>3, <2>4 DEF Knows
  <2> QED BY <1>1, <1>3, <2>1, <2>2, <2>5, SerialStep
<1> QED BY <1>4, <1>5

LEMMA SerialFile ==
  ASSUME IInv, SerialInv, NEW r \in Requests,
         Create(r) \/ Write(r) \/ Read(r) \/ ReadSalt(r) \/ Seal(r)
  PROVE  SerialInv'
<1> DEFINE h == req[r]
<1>1. setting' = setting /\ objects' = objects /\ mem' = mem
  BY DEF Create, Write, Read, ReadSalt, Seal, process
<1>2. Running(r)
  BY DEF Create, Write, Read, ReadSalt, Seal, Running, At
<1>3. ASSUME Serial
      PROVE  Knows(h) /\ \A q \in Requests : Running(q) => q = r
  BY <1>2, <1>3, WhatRuns
<1>4. h \in Handlers /\ file \in Files /\ unsaved \in BOOLEAN
  BY DEF IInv, StateOK
<1>5. CASE Create(r)
  <2>1. h.pc = "Create"
    BY <1>5 DEF Create, At
  <2>2. CASE Becomes(r, Reply(h, "failed")) /\ file' = file
    <3>1. Serial => Settled'
      BY <1>1, <1>3, <1>5, <2>1, <2>2, SettledStays DEF Knows, Create
    <3> QED BY <1>1, <1>3, <2>2, <3>1, ReplyIsDone, SerialStep
  <2>3. CASE ~ (Becomes(r, Reply(h, "failed")) /\ file' = file)
    <3>1. PICK g : /\ g = [Goto(h, "Write") EXCEPT
                            !.salt = inits + 1, !.key = <<h.password, inits + 1>>,
                            !.data = [device |-> h.device, token |-> 0]]
                   /\ Becomes(r, g) /\ file' = Short
      BY <1>5, <2>3 DEF Create
    <3>2. g.pc = "Write" /\ g.op = h.op /\ g.salt = inits + 1 /\ g.key[2] = inits + 1
      BY <1>4, <3>1 DEF Goto, Handlers
    <3>3. Serial => g.op # "Login"
      BY <1>3, <2>1, <3>2 DEF Knows
    <3>4. Serial => Knows(g)'
      BY <3>1, <3>2, <3>3 DEF Knows, Short
    <3> QED BY <1>1, <1>3, <3>1, <3>2, <3>4, SerialStep
  <2> QED BY <2>2, <2>3
<1>6. CASE Write(r)
  <2>1. h.pc = "Write"
    BY <1>6 DEF Write, At
  <2>2. Serial => /\ file' = Whole(h.salt, h.key, h.data)
                  /\ Becomes(r, IF h.op = "Login" THEN Reply(h, "ok") ELSE Goto(h, "SetData"))
    BY <1>3, <1>6, <2>1 DEF Write, Knows, Serial
  <2>3. Serial => /\ file'.kind = "whole" /\ file'.key = h.key /\ file'.salt = h.salt
                  /\ file'.data = h.data
    BY <2>2 DEF Whole
  <2>4. CASE ~ Serial
    <3>1. \E g : Becomes(r, g)
      BY <1>6 DEF Write
    <3> QED BY <1>1, <2>4, <3>1, SerialStep
  <2>5. CASE Serial /\ h.op = "Login"
    <3>1. Settled'
      BY <1>1, <1>3, <1>4, <2>1, <2>3, <2>5 DEF Knows, Settled, Opens
    <3> QED BY <1>1, <1>3, <2>2, <2>5, <3>1, ReplyIsDone, SerialStep
  <2>6. CASE Serial /\ h.op # "Login"
    <3>1. PICK g : g = Goto(h, "SetData") /\ Becomes(r, g)
      BY <2>2, <2>6
    <3>2. g.pc = "SetData" /\ g.key = h.key /\ g.data = h.data
      BY <1>4, <3>1, GotoType DEF Labels
    <3>3. Knows(g)'
      BY <1>3, <2>1, <2>3, <2>6, <3>2 DEF Knows
    <3> QED BY <1>1, <1>3, <3>1, <3>2, <3>3, SerialStep
  <2> QED BY <2>4, <2>5, <2>6
<1>7. CASE Read(r)
  <2> DEFINE k     == <<h.password, file.salt>>
             opens == file.kind = "whole" /\ file.key = k
  <2>1. /\ h.pc = "Read" /\ file' = file /\ unsaved' = (unsaved /\ ~ opens)
        /\ Becomes(r, IF opens THEN [Goto(h, "SetData") EXCEPT !.data = file.data, !.key = k]
                      ELSE Reply(h, "failed"))
    BY <1>7 DEF Read, At
  <2>2. CASE opens
    <3>1. PICK g : /\ g = [Goto(h, "SetData") EXCEPT !.data = file.data, !.key = k]
                   /\ Becomes(r, g)
      BY <2>1, <2>2
    <3>2. g.pc = "SetData" /\ g.key = k /\ g.data = file.data /\ k[2] = file.salt
      BY <1>4, <3>1 DEF Goto, Handlers
    <3>3. Knows(g)'
      BY <2>1, <2>2, <3>2 DEF Knows
    <3> QED BY <1>1, <1>3, <3>1, <3>2, <3>3, SerialStep
  <2>3. CASE ~ opens
    <3>1. unsaved' = unsaved
      BY <1>4, <2>1, <2>3
    <3>2. Serial => Settled'
      BY <1>1, <1>3, <2>1, <3>1, SettledStays DEF Knows
    <3> QED BY <1>1, <1>3, <2>1, <2>3, <3>2, ReplyIsDone, SerialStep
  <2> QED BY <2>2, <2>3
<1>8. CASE ReadSalt(r)
  <2>1. h.pc = "ReadSalt" /\ file' = file
    BY <1>8 DEF ReadSalt, At
  <2>2. Serial => Opens /\ Opens' /\ h.op = "Login"
    BY <1>1, <1>3, <2>1 DEF Knows, Opens
  <2>3. CASE mem.key = NoKey \/ file = Absent
    <3>1. Becomes(r, Reply(h, "ok")) /\ unsaved' = TRUE
      BY <1>8, <2>3 DEF ReadSalt
    <3>2. Serial => Settled'
      BY <2>2, <3>1 DEF Settled
    <3> QED BY <1>1, <1>3, <3>1, <3>2, ReplyIsDone, SerialStep
  <2>4. CASE ~ (mem.key = NoKey \/ file = Absent)
    <3>1. PICK g : g = [Goto(h, "Marshal") EXCEPT !.salt = file.salt] /\ Becomes(r, g)
      BY <1>8, <2>4 DEF ReadSalt
    <3>2. g.pc = "Marshal" /\ g.op = h.op /\ g.salt = file.salt
      BY <1>4, <3>1 DEF Goto, Handlers
    <3>3. Serial => file.salt = mem'.key[2]
      BY <1>1, <2>2 DEF Opens
    <3>4. Serial => Knows(g)'
      BY <2>2, <3>2, <3>3 DEF Knows
    <3> QED BY <1>1, <1>3, <3>1, <3>2, <3>4, SerialStep
  <2> QED BY <2>3, <2>4
<1>9. CASE Seal(r)
  <2>1. h.pc = "Seal"
    BY <1>9 DEF Seal, At
  <2>2. CASE Becomes(r, Reply(h, "ok")) /\ unsaved' = TRUE /\ file' = file
    <3>1. Serial => Settled'
      BY <1>1, <1>3, <2>1, <2>2 DEF Knows, Settled, Opens
    <3> QED BY <1>1, <1>3, <2>2, <3>1, ReplyIsDone, SerialStep
  <2>3. CASE ~ (Becomes(r, Reply(h, "ok")) /\ unsaved' = TRUE /\ file' = file)
    <3>1. PICK g : g = [Goto(h, "Write") EXCEPT !.key = mem.key] /\ Becomes(r, g) /\ file' = Short
      BY <1>9, <2>3 DEF Seal
    <3>2. g.pc = "Write" /\ g.op = h.op /\ g.key = mem.key /\ g.salt = h.salt /\ g.data = h.data
      BY <1>4, <3>1 DEF Goto, Handlers
    <3>3. Serial => /\ h.op = "Login" /\ mem.data # 0 /\ h.salt = mem.key[2]
                    /\ h.data = objects[mem.data]
      BY <1>3, <2>1 DEF Knows, Opens
    <3>4. file' = Short'
      BY <3>1 DEF Short, Absent, NoKey, NoData
    <3>5. Serial => Knows(g)'
      BY <1>1, <3>2, <3>3, <3>4 DEF Knows
    <3> QED BY <1>1, <1>3, <3>1, <3>2, <3>5, SerialStep
  <2> QED BY <2>2, <2>3
<1> QED BY <1>5, <1>6, <1>7, <1>8, <1>9

LEMMA SerialMemory ==
  ASSUME IInv, SerialInv, NEW r \in Requests, SetData(r) \/ SetKey(r) \/ SetToken(r)
  PROVE  SerialInv'
<1> DEFINE h == req[r]
<1>1. setting' = setting /\ file' = file /\ unsaved' = unsaved
  BY DEF SetData, SetKey, SetToken
<1>2. Running(r)
  BY DEF SetData, SetKey, SetToken, Running, At
<1>3. ASSUME Serial
      PROVE  Knows(h) /\ \A q \in Requests : Running(q) => q = r
  BY <1>2, <1>3, WhatRuns
<1>4. /\ h \in Handlers /\ HandlerInv(h) /\ objects \in Seq(Honest) /\ Len(objects) \in Nat
      /\ mem \in [data : 0 .. Len(objects), key : Secrets]
      /\ DOMAIN objects = 1 .. Len(objects)
  BY DEF IInv, StateOK
<1>5. CASE SetData(r)
  <2>1. /\ objects' = Append(objects, h.data) /\ h.pc = "SetData"
        /\ mem' = [mem EXCEPT !.data = Len(objects) + 1]
        /\ Becomes(r, Goto(h, "SetKey"))
    BY <1>5 DEF SetData, At
  <2>2. h.data \in Honest
    BY <1>4 DEF Handlers
  <2>3. objects'[Len(objects) + 1] = h.data /\ mem'.data = Len(objects) + 1
    BY <1>4, <2>1, <2>2, AppendProperties
  <2>4. PICK g : g = Goto(h, "SetKey") /\ Becomes(r, g)
    BY <2>1
  <2>5. g.pc = "SetKey" /\ g.key = h.key
    BY <1>4, <2>4, GotoType DEF Labels
  <2>6. Serial => Knows(g)'
    BY <1>1, <1>3, <2>1, <2>3, <2>5 DEF Knows
  <2> QED BY <1>1, <1>3, <2>4, <2>5, <2>6, SerialStep
<1>6. CASE SetKey(r)
  <2>1. /\ objects' = objects /\ mem' = [mem EXCEPT !.key = h.key]
        /\ Becomes(r, Reply(h, "ok")) /\ h.pc = "SetKey"
    BY <1>6 DEF SetKey, At
  <2>2. mem'.key = h.key /\ mem'.data = mem.data /\ mem.data # 0
    BY <1>4, <2>1 DEF HandlerInv
  <2>3. Serial => Settled'
    BY <1>1, <1>3, <2>1, <2>2 DEF Knows, Settled, Opens
  <2> QED BY <1>1, <1>3, <2>1, <2>3, ReplyIsDone, SerialStep
<1>7. CASE SetToken(r)
  <2>1. /\ objects' = [objects EXCEPT ![h.object].token = objects[h.object].device]
        /\ mem' = mem /\ h.pc = "SetToken" /\ Becomes(r, Goto(h, "ReadSalt"))
    BY <1>7 DEF SetToken, Signer, At
  <2>2. \A i \in DOMAIN objects : objects'[i].device = objects[i].device
    <3>1. \A i \in DOMAIN objects : objects[i] \in Honest
      BY <1>4
    <3> QED BY <1>4, <2>1, <3>1 DEF Honest
  <2>3. PICK g : g = Goto(h, "ReadSalt") /\ Becomes(r, g)
    BY <2>1
  <2>4. g.pc = "ReadSalt" /\ g.op = h.op
    BY <1>4, <2>3, GotoType DEF Labels
  <2>5. Serial => Opens /\ h.op = "Login" /\ mem.data # 0
    BY <1>3, <2>1 DEF Knows, Settled, Locked
  <2>6. mem.data # 0 => mem.data \in DOMAIN objects
    BY <1>4
  <2>7. Serial => Opens'
    BY <1>1, <2>1, <2>2, <2>5, <2>6 DEF Opens
  <2>8. Serial => Knows(g)'
    BY <2>4, <2>5, <2>7 DEF Knows
  <2> QED BY <1>1, <1>3, <2>3, <2>4, <2>8, SerialStep
<1> QED BY <1>5, <1>6, <1>7

LEMMA SerialCrash == ASSUME IInv, SerialInv, Crash PROVE SerialInv'
<1>1. /\ mem' = Locked
      /\ req' = [r \in Requests |-> IF Running(r) THEN Reply(req[r], "crashed") ELSE req[r]]
  BY DEF Crash
<1>2. Settled'
  BY <1>1 DEF Settled, Locked, NoKey
<1>3. \A r \in Requests : ~ Running(r)'
  BY <1>1, ReplyIsDone DEF Running
<1> QED BY <1>2, <1>3 DEF SerialInv

LEMMA SerialNext == IInv /\ SerialInv /\ [Next]_vars => SerialInv'
<1> SUFFICES ASSUME IInv, SerialInv, [Next]_vars PROVE SerialInv'
  OBVIOUS
<1>1. CASE UNCHANGED vars \/ ServerRestart
  <2>1. UNCHANGED <<setting, file, objects, mem, unsaved, req>>
    BY <1>1 DEF vars, process, ServerRestart
  <2> QED BY <2>1 DEF SerialInv, Serial, Running, Knows, Settled, Opens, Locked, Short,
                     Absent, NoKey, NoData
<1> QED BY <1>1, SerialBegin, SerialServer, SerialFile, SerialMemory, SerialCrash DEF Next

\* Between calls that come one at a time, and while no write to an open file
\* fails, an unlocked keyring can be unlocked again from its file, and finds the
\* same device and, unless a failed Save was reported, the same token there.
THEOREM KeyringOpensAgain == Spec => []FileOpensAgain
<1>1. Init => SerialInv
  <2> SUFFICES ASSUME Init PROVE SerialInv
    OBVIOUS
  <2>1. mem = Locked /\ \A r \in Requests : ~ Running(r)
    BY DEF Init, Running, Idle
  <2> QED BY <2>1 DEF SerialInv, Settled
<1>2. SerialInv => FileOpensAgain
  BY DEF SerialInv, Serial, Settled, Opens, FileOpensAgain
<1> QED BY <1>1, <1>2, SerialNext, Invariance, PTL DEF Spec
=============================================================================
