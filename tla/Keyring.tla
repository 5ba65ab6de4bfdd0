------------------------------ MODULE Keyring ------------------------------
(***************************************************************************)
(* The client's keyring: the file with the salt and the sealed data, the   *)
(* data and the master key in memory, and the calls of AuthService that    *)
(* use them: SetupAdmin, InitKeyring, UnlockKeyring, Login, and a request  *)
(* through the interceptor of the connection.  Nothing locks the keyring.  *)
(*                                                                         *)
(* A device stands for its private key and its ids, a token for the device *)
(* it was issued to, a master key for the password and the salt it is      *)
(* derived from; what is sealed with one opens with the same one only.  The *)
(* file is opened empty and then written.  The two words of a Go string or *)
(* slice that is assigned while it is read are taken to change together.   *)
(***************************************************************************)
EXTENDS Integers, Sequences, FiniteSets

CONSTANTS
  Requests,  \* the calls of the user interface
  Passwords,
  Settings,  \* how the calls come and what may fail, see below
  Faults,    \* whether the server may be out of reach, or a file not open
  MaxDevice, \* bound: devices
  MaxCrash   \* bound: crashes of the client

Devices == 1 .. MaxDevice

\* together: calls at the same time; writeErrors: whether a write to an open
\* file may fail, as on a full disk.
ASSUME KeyringAssumption ==
  /\ IsFiniteSet(Requests)
  /\ Faults \in BOOLEAN /\ MaxDevice \in Nat /\ MaxCrash \in Nat
  /\ \A s \in Settings : s.together \in Nat /\ s.writeErrors \in BOOLEAN

VARIABLES
  setting,    \* one of Settings
  file,       \* the keyring file
  objects,    \* the values of type KeyringData that exist in memory
  mem,        \* the fields data, as an index of objects, and masterKey
  inits,      \* how many salts were made
  unsaved,    \* a token in memory that Save failed to write
  registered, \* the devices that the server knows
  sessions,   \* and those logged in
  crashes,    \* how often the client crashed
  req         \* the calls

process == <<objects, mem>>
server  == <<registered, sessions>>
vars    == <<setting, file, process, inits, unsaved, server, crashes, req>>

NoKey  == <<>>
NoData == [device |-> 0, token |-> 0]
Locked == [data |-> 0, key |-> NoKey]

\* "short": less than a salt; "broken": a salt, and nothing that opens.
Absent     == [kind |-> "absent", salt |-> 0, key |-> NoKey, data |-> NoData]
Short      == [Absent EXCEPT !.kind = "short"]
Broken(s)  == [Absent EXCEPT !.kind = "broken", !.salt = s]
Whole(s, key, data) == [kind |-> "whole", salt |-> s, key |-> key, data |-> data]

Idle == [pc |-> "idle", op |-> "none", password |-> 0, device |-> 0, object |-> 0,
         salt |-> 0, key |-> NoKey, data |-> NoData, reply |-> "none"]

\* A new installation, or one that has been set up by the first administrator.
Init ==
  /\ setting \in Settings
  /\ \/ file = Absent /\ inits = 0 /\ registered = {}
     \/ /\ \E p \in Passwords :
             file = Whole(1, <<p, 1>>, [device |-> 1, token |-> 0])
        /\ inits = 1 /\ registered = {1}
  /\ objects = <<>> /\ mem = Locked /\ unsaved = FALSE
  /\ sessions = {} /\ crashes = 0
  /\ req = [r \in Requests |-> Idle]
-----------------------------------------------------------------------------
At(r, label)   == req[r].pc = label
Running(r)     == req[r].pc \notin {"idle", "done"}
Goto(h, label) == [h EXCEPT !.pc = label]
Reply(h, code) == [Idle EXCEPT !.pc = "done", !.op = h.op, !.reply = code]
Becomes(r, h)  == req' = [req EXCEPT ![r] = h]

Begin(r, h) ==
  /\ At(r, "idle")
  /\ Cardinality({q \in Requests : Running(q)}) < setting.together
  /\ Becomes(r, h)

Fresh(d) == d \in Devices /\ d = Cardinality(registered) + 1

\* Only the call itself changes.
Alone(r, h) ==
  Becomes(r, h) /\ UNCHANGED <<setting, file, process, inits, unsaved, server, crashes>>
-----------------------------------------------------------------------------
(* SetupAdmin and InitKeyring. *)

SetupAdmin(r) == \E p \in Passwords :
  /\ Begin(r, [Idle EXCEPT !.op = "SetupAdmin", !.pc = "Register", !.password = p])
  /\ UNCHANGED <<setting, file, process, inits, unsaved, server, crashes>>

\* The server answers the first one only; the answer may be lost, and with it
\* the administrator's key.
Register(r) ==
  /\ At(r, "Register")
  /\ \/ /\ registered # {} \/ Faults
        /\ Becomes(r, Reply(req[r], "failed"))
        /\ UNCHANGED registered
     \/ /\ registered = {}
        /\ \E d \in Devices :
             /\ Fresh(d) /\ registered' = {d}
             /\ \/ Becomes(r, [Goto(req[r], "Create") EXCEPT !.device = d])
                \/ Faults /\ Becomes(r, Reply(req[r], "failed"))
  /\ UNCHANGED <<setting, file, process, inits, unsaved, sessions, crashes>>

\* With a device that was registered elsewhere.
InitKeyring(r) == \E p \in Passwords, d \in Devices :
  /\ Fresh(d) /\ registered # {}
  /\ registered' = registered \cup {d}
  /\ Begin(r, [Idle EXCEPT !.op = "InitKeyring", !.pc = "Create",
                           !.password = p, !.device = d])
  /\ UNCHANGED <<setting, file, process, inits, unsaved, sessions, crashes>>

\* Mutant: the data is taken into memory before the file is written.
CreateAfter(r) ==
  LET h == req[r]
      d == [device |-> h.device, token |-> 0]
  IN  /\ At(r, "Create")
      /\ inits' = inits + 1
      /\ objects' = Append(objects, d)
      /\ mem' = [data |-> Len(objects) + 1, key |-> <<h.password, inits + 1>>]
      /\ \/ /\ file' = Short
            /\ Becomes(r, [Goto(h, "Write") EXCEPT
                 !.salt = inits + 1, !.key = <<h.password, inits + 1>>, !.data = d])
         \/ Faults /\ Becomes(r, Reply(h, "failed")) /\ UNCHANGED file
      /\ UNCHANGED <<setting, unsaved, server, crashes>>

\* Keyring.Init: a new salt; the old file is gone when the new one is open.
Create(r) ==
  LET h == req[r]
  IN  /\ At(r, "Create")
      /\ inits' = inits + 1
      /\ \/ /\ file' = Short
            /\ Becomes(r, [Goto(h, "Write") EXCEPT
                 !.salt = inits + 1, !.key = <<h.password, inits + 1>>,
                 !.data = [device |-> h.device, token |-> 0]])
         \/ Faults /\ Becomes(r, Reply(h, "failed")) /\ UNCHANGED file
      /\ UNCHANGED <<setting, process, unsaved, server, crashes>>

\* Of two writers the second may leave a tail of the first one's data.  Login
\* only logs that its Save failed.
Write(r) ==
  LET h == req[r]
  IN  /\ At(r, "Write")
      /\ \/ /\ file' \in {Whole(h.salt, h.key, h.data)} \cup
                         (IF file = Short THEN {} ELSE {Broken(h.salt)})
            /\ unsaved' = FALSE
            /\ Becomes(r, IF h.op = "Login" THEN Reply(h, "ok") ELSE Goto(h, "SetData"))
         \/ /\ setting.writeErrors
            /\ file' \in {Short, Broken(h.salt)}
            /\ unsaved' = (h.op = "Login" \/ unsaved)
            /\ Becomes(r, Reply(h, IF h.op = "Login" THEN "ok" ELSE "failed"))
      /\ UNCHANGED <<setting, process, inits, server, crashes>>

\* The two assignments at the end of Init and of Unlock.
SetData(r) ==
  /\ At(r, "SetData")
  /\ objects' = Append(objects, req[r].data)
  /\ mem' = [mem EXCEPT !.data = Len(objects) + 1]
  /\ Becomes(r, Goto(req[r], "SetKey"))
  /\ UNCHANGED <<setting, file, inits, unsaved, server, crashes>>

SetKey(r) ==
  /\ At(r, "SetKey")
  /\ mem' = [mem EXCEPT !.key = req[r].key]
  /\ Becomes(r, Reply(req[r], "ok"))
  /\ UNCHANGED <<setting, file, objects, inits, unsaved, server, crashes>>
-----------------------------------------------------------------------------
(* UnlockKeyring. *)

UnlockKeyring(r) == \E p \in Passwords :
  /\ Begin(r, [Idle EXCEPT !.op = "Unlock", !.pc = "Read", !.password = p])
  /\ UNCHANGED <<setting, file, process, inits, unsaved, server, crashes>>

\* A call that fails leaves memory as it was.
Read(r) ==
  LET h == req[r]
      k == <<h.password, file.salt>>
      opens == file.kind = "whole" /\ file.key = k
  IN  /\ At(r, "Read")
      /\ Becomes(r, IF opens
                    THEN [Goto(h, "SetData") EXCEPT !.data = file.data, !.key = k]
                    ELSE Reply(h, "failed"))
      /\ unsaved' = (unsaved /\ ~opens)
      /\ UNCHANGED <<setting, file, process, inits, server, crashes>>
-----------------------------------------------------------------------------
(* Login. *)

\* GetData: the object is kept for the whole call.
Login(r) ==
  LET h == [Idle EXCEPT !.op = "Login", !.pc = "Challenge", !.object = mem.data]
  IN  /\ Begin(r, IF mem.data = 0 THEN Reply(h, "failed") ELSE h)
      /\ UNCHANGED <<setting, file, process, inits, unsaved, server, crashes>>

Signer(r) == objects[req[r].object].device

Challenge(r) ==
  /\ At(r, "Challenge")
  /\ \/ Signer(r) \in registered /\ Alone(r, Goto(req[r], "Verify"))
     \/ (Signer(r) \notin registered \/ Faults) /\ Alone(r, Reply(req[r], "failed"))

Verify(r) ==
  /\ At(r, "Verify")
  /\ \/ /\ sessions' = sessions \cup {Signer(r)}
        /\ \/ Becomes(r, Goto(req[r], "SetToken"))
           \/ Faults /\ Becomes(r, Reply(req[r], "failed"))
     \/ Faults /\ Becomes(r, Reply(req[r], "failed")) /\ UNCHANGED sessions
  /\ UNCHANGED <<setting, file, process, inits, unsaved, registered, crashes>>

\* Mutant: the keyring is asked for its data again.
SetTokenAgain(r) ==
  /\ At(r, "SetToken")
  /\ objects' = [objects EXCEPT ![mem.data].token = Signer(r)]
  /\ Becomes(r, Goto(req[r], "ReadSalt"))
  /\ UNCHANGED <<setting, file, mem, inits, unsaved, server, crashes>>

SetToken(r) ==
  /\ At(r, "SetToken")
  /\ objects' = [objects EXCEPT ![req[r].object].token = Signer(r)]
  /\ Becomes(r, Goto(req[r], "ReadSalt"))
  /\ UNCHANGED <<setting, file, mem, inits, unsaved, server, crashes>>

\* Keyring.Save: the salt of the file, which is zeros when the file has less:
\* the buffer that ReadFile returns is longer than its contents.
ReadSalt(r) ==
  LET h == req[r]
  IN  /\ At(r, "ReadSalt")
      /\ IF mem.key = NoKey \/ file = Absent
         THEN Becomes(r, Reply(h, "ok")) /\ unsaved' = TRUE
         ELSE /\ Becomes(r, [Goto(h, "Marshal") EXCEPT !.salt = file.salt])
              /\ UNCHANGED unsaved
      /\ UNCHANGED <<setting, file, process, inits, server, crashes>>

Marshal(r) ==
  /\ At(r, "Marshal")
  /\ Alone(r, [Goto(req[r], "Seal") EXCEPT !.data = objects[mem.data]])

Seal(r) ==
  LET h == req[r]
  IN  /\ At(r, "Seal")
      /\ \/ /\ Becomes(r, [Goto(h, "Write") EXCEPT !.key = mem.key])
            /\ file' = Short
            /\ UNCHANGED unsaved
         \/ /\ Faults /\ Becomes(r, Reply(h, "ok"))
            /\ unsaved' = TRUE
            /\ UNCHANGED file
      /\ UNCHANGED <<setting, process, inits, server, crashes>>
-----------------------------------------------------------------------------
(* A request, the client's and the server's end. *)

Token == IF mem.data = 0 THEN 0 ELSE objects[mem.data].token

\* Without a token the interceptor answers itself.
Call(r) ==
  LET h == [Idle EXCEPT !.op = "Call", !.pc = "Send", !.device = Token]
  IN  /\ Begin(r, IF Token = 0 THEN Reply(h, "Unauthenticated") ELSE h)
      /\ UNCHANGED <<setting, file, process, inits, unsaved, server, crashes>>

Send(r) ==
  /\ At(r, "Send")
  /\ Alone(r, Reply(req[r], IF req[r].device \in sessions THEN "ok"
                                                          ELSE "Unauthenticated"))

\* The client's process ends, what it was writing is cut.
Crash ==
  /\ crashes < MaxCrash /\ crashes' = crashes + 1
  /\ file' \in {file} \cup {Broken(req[r].salt) : r \in {q \in Requests : At(q, "Write")}}
  /\ objects' = <<>> /\ mem' = Locked /\ unsaved' = FALSE
  /\ req' = [r \in Requests |-> IF Running(r) THEN Reply(req[r], "crashed") ELSE req[r]]
  /\ UNCHANGED <<setting, inits, server>>

ServerRestart ==
  /\ sessions # {} /\ sessions' = {}
  /\ UNCHANGED <<setting, file, process, inits, unsaved, registered, crashes, req>>

Next ==
  \/ \E r \in Requests :
       \/ SetupAdmin(r) \/ InitKeyring(r) \/ UnlockKeyring(r) \/ Login(r) \/ Call(r)
       \/ Register(r) \/ Create(r) \/ Write(r) \/ SetData(r) \/ SetKey(r) \/ Read(r)
       \/ Challenge(r) \/ Verify(r) \/ SetToken(r) \/ ReadSalt(r) \/ Marshal(r)
       \/ Seal(r) \/ Send(r)
  \/ Crash \/ ServerRestart

Spec == Init /\ [][Next]_vars
-----------------------------------------------------------------------------
\* Between calls that come one at a time, and while no write to an open file
\* fails, an unlocked keyring is one that can be unlocked again: the file opens
\* with the key in memory, derived from its own salt, and holds the same device
\* and, unless a Save was reported to have failed, the same token.  Failed
\* calls, crashes and other passwords change nothing about it.
FileOpensAgain ==
  (/\ setting.together = 1 /\ ~setting.writeErrors
   /\ mem # Locked /\ \A r \in Requests : ~Running(r)) =>
     /\ file.kind = "whole" /\ file.key = mem.key /\ file.salt = mem.key[2]
     /\ file.data.device = objects[mem.data].device
     /\ unsaved \/ file.data = objects[mem.data]

\* Whatever calls meet and whatever fails, a token is kept with the device it
\* was issued to, in memory and in the file: a login that another Init or Unlock
\* overtakes does not hand its token to the other device.
TokensAreTheDevices ==
  /\ \A i \in DOMAIN objects : objects[i].token \in {0, objects[i].device}
  /\ file.data.token \in {0, file.data.device}
=============================================================================
