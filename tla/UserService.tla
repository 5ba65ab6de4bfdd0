---------------------------- MODULE UserService ----------------------------
(***************************************************************************)
(* The user service and the authentication interceptor: SetupAdmin,        *)
(* LoginUser, VerifyLoginSignature, CreateUser, RegisterDevice and         *)
(* RevokeDevice, run by concurrent handlers over the users and devices     *)
(* tables (which survive a restart) and two maps in memory, the challenge  *)
(* cache and the session set (which do not).  One action per call on the   *)
(* database or on a map.                                                   *)
(*                                                                         *)
(* A user stands for its email, which is unique, and its id.  The maps'    *)
(* keys "user:device" are the device alone: a request that names a device  *)
(* with another user finds nothing, as one for an unknown device does.  A  *)
(* token is the pair it encrypts and never expires, and signatures cannot  *)
(* be forged: one is its key and the second of the challenge it signs.     *)
(***************************************************************************)
EXTENDS Integers, FiniteSets

CONSTANTS
  Requests,      \* the calls a behaviour makes: each is served by a handler
  Users, Keys,
  None,          \* no user or key
  Starts,        \* what the server finds, see below
  ForeignKeys,   \* whether a statement's connection enforces foreign keys
  Faults,        \* whether a statement of the database may fail
  Lifetime,      \* of a challenge, in seconds (the code: 180)
  MaxDevice,     \* bound: ids of devices
  MaxEntry,      \* bound: challenges issued
  MaxTime,       \* bound: the clock
  MaxRestart,    \* bound: restarts of the server
  MaxInFlight    \* bound: handlers running at the same time

DeviceIds == 1 .. MaxDevice
RootBits  == {"UserCreate", "DeviceSetup", "Admin"}

\* A device row; keys are never changed and rows never removed.
DeviceRecords == [state : {"absent", "active", "revoked"},
                  user : Users \cup {None}, key : Keys \cup {None}]
NoDevice == [state |-> "absent", user |-> None, key |-> None]

ASSUME ConstantsAssumption ==
  /\ ForeignKeys \subseteq BOOLEAN /\ Faults \in BOOLEAN
  /\ Lifetime \in Nat \ {0} /\ MaxDevice \in Nat /\ MaxEntry \in Nat
  /\ MaxTime \in Nat /\ MaxRestart \in Nat /\ MaxInFlight \in Nat
  /\ None \notin Users /\ None \notin Keys
  /\ \A s \in Starts :
       /\ s.users \subseteq Users /\ s.devices \in [DeviceIds -> DeviceRecords]
       /\ s.perms \in [Users -> SUBSET RootBits] /\ s.next \in 1 .. MaxDevice + 1
       /\ s.sessions \subseteq DeviceIds /\ s.open \subseteq {"SetupAdmin"}

\* A start is a database that earlier calls have left: ids are given in order,
\* rows refer to rows, an administrator has a device, and a session is one of a
\* device that may log in.
ASSUME StartsAssumption ==
  \A s \in Starts :
    /\ \A d \in DeviceIds :
         IF d >= s.next THEN s.devices[d] = NoDevice
         ELSE s.devices[d].state # "absent" /\ s.devices[d].user \in s.users
    /\ \A d \in s.sessions : s.devices[d].state = "active"
    /\ \A u \in Users : s.perms[u] # {} => u \in s.users
    /\ \A u \in Users : "Admin" \in s.perms[u] =>
         \E d \in DeviceIds : s.devices[d].user = u

VARIABLES
  users,      \* table users
  devices,    \* table devices
  nextDevice, \* its AUTOINCREMENT counter
  perms,      \* table permissions: the rows of the root folder
  challenges, \* the challenge cache
  timers,     \* the challenges whose timer has not fired
  issued,     \* how many challenges were made: an entry's identity
  sessions,   \* the session set
  tokens,     \* the tokens clients have, each as the device in it
  clock,      \* seconds
  restarts,   \* how often the server was restarted
  open,       \* methods the interceptor lets pass besides the two of a login
  left,       \* devices whose session their revocation has left behind
  req         \* the handlers: program counter, arguments and locals

tables == <<users, devices, nextDevice, perms>>
memory == <<challenges, timers, issued, sessions, tokens, left>>
world  == <<clock, restarts, open>>
vars   == <<tables, memory, world, req>>
-----------------------------------------------------------------------------
(* Entries and handlers. *)

Entries == [n : 1 .. MaxEntry, device : DeviceIds, at : 0 .. MaxTime]
NoEntry == [n |-> 0, device |-> 0, at |-> 0]

Labels == {"idle", "done", "StoreChallenge", "DeleteChallenge", "GetKey",
           "AddSession", "Permission", "CreateUser", "RegisterDevice",
           "RevokeDevice", "RemoveSession", "SetupUser", "SetupDevice",
           "SetupGrant"}
Statements == {"GetKey", "Permission", "CreateUser", "RegisterDevice",
               "RevokeDevice", "SetupUser", "SetupDevice", "SetupGrant"}

\* What a call of the management methods asks for on the root folder.
Required == [CreateUser |-> "UserCreate", RegisterDevice |-> "DeviceSetup",
             RevokeDevice |-> "Admin"]
Methods == DOMAIN Required \cup {"none", "LoginUser", "VerifyLoginSignature",
                                 "SetupAdmin"}
Replies == {"none", "ok", "NotFound", "Unauthenticated", "PermissionDenied",
            "Internal"}

Handlers ==
  [pc : Labels, op : Methods, reply : Replies, caller : Users \cup {None},
   user : Users \cup {None}, device : DeviceIds \cup {0},
   key : Keys \cup {None}, at : 0 .. MaxTime, entry : Entries \cup {NoEntry},
   live : BOOLEAN] \* whether the device was active when the call began

Idle == [pc |-> "idle", op |-> "none", reply |-> "none", caller |-> None,
         user |-> None, device |-> 0, key |-> None, at |-> 0,
         entry |-> NoEntry, live |-> FALSE]

IsActive(d) == devices[d].state = "active"
May(u, bit) == perms[u] \cap {bit, "Admin"} # {}

\* A server that starts with what is in the database, or has been running.
Init ==
  /\ \E s \in Starts :
       /\ users = s.users /\ devices = s.devices /\ nextDevice = s.next
       /\ perms = s.perms /\ sessions = s.sessions /\ tokens = s.sessions
       /\ open = s.open
  /\ challenges = [d \in DeviceIds |-> NoEntry] /\ timers = {} /\ issued = 0
  /\ clock = 0 /\ restarts = 0 /\ left = {}
  /\ req = [r \in Requests |-> Idle]

Running(r) == req[r].pc \notin {"idle", "done"}

\* A call begins, with the method and the arguments in "call".
Begin(r, call) ==
  /\ req[r].pc = "idle"
  /\ Cardinality({q \in Requests : Running(q)}) < MaxInFlight
  /\ req' = [req EXCEPT ![r] = call]

At(r, label) == req[r].pc = label
Goto(r, label) == req' = [req EXCEPT ![r].pc = label]
Answer(r, reply) == req' = [req EXCEPT ![r].pc = "done", ![r].reply = reply]
Replied(call, reply) == [call EXCEPT !.pc = "done", !.reply = reply]
-----------------------------------------------------------------------------
(* LoginUser. *)

\* GetDevicePublicKey: an error of the database is answered in the same way.  A
\* request without ids, and below without a signature, is answered before that.
StartLogin(r) ==
  /\ \E d \in DeviceIds, failed \in {FALSE, Faults} :
       LET call == [Idle EXCEPT !.op = "LoginUser", !.device = d,
                      !.pc = "StoreChallenge", !.live = IsActive(d)]
       IN  Begin(r, IF IsActive(d) /\ ~failed THEN call
                    ELSE Replied(call, "NotFound"))
  /\ UNCHANGED <<tables, memory, world>>

Entry(d) == [n |-> issued + 1, device |-> d, at |-> clock]

\* Mutant: only the first challenge of a device starts a timer.
StoreChallengeOneTimer(r) ==
  /\ At(r, "StoreChallenge") /\ issued < MaxEntry
  /\ LET d == req[r].device IN
       /\ challenges' = [challenges EXCEPT ![d] = Entry(d)]
       /\ timers' = IF challenges[d] = NoEntry THEN timers \cup {Entry(d)}
                                               ELSE timers
  /\ issued' = issued + 1 /\ Answer(r, "ok")
  /\ UNCHANGED <<tables, sessions, tokens, left, world>>

\* The challenge is the device and the second; it replaces an older one, whose
\* timer goes on.
StoreChallenge(r) ==
  /\ At(r, "StoreChallenge") /\ issued < MaxEntry
  /\ challenges' = [challenges EXCEPT ![req[r].device] = Entry(req[r].device)]
  /\ timers' = timers \cup {Entry(req[r].device)}
  /\ issued' = issued + 1 /\ Answer(r, "ok")
  /\ UNCHANGED <<tables, sessions, tokens, left, world>>

\* Mutant: Delete instead of CompareAndDelete.
ExpireAny(t) ==
  /\ clock >= t.at + Lifetime
  /\ timers' = timers \ {t}
  /\ challenges' = [challenges EXCEPT ![t.device] = NoEntry]
  /\ UNCHANGED <<tables, issued, sessions, tokens, left, world, req>>

\* The timer of a challenge: CompareAndDelete compares the entries' addresses.
Expire(t) ==
  /\ clock >= t.at + Lifetime
  /\ timers' = timers \ {t}
  /\ challenges' = [challenges EXCEPT ![t.device] =
                      IF @ = t THEN NoEntry ELSE @]
  /\ UNCHANGED <<tables, issued, sessions, tokens, left, world, req>>
-----------------------------------------------------------------------------
(* VerifyLoginSignature. *)

\* Load.
StartVerify(r) ==
  /\ \E d \in DeviceIds, k \in Keys, at \in 0 .. clock :
       LET call == [Idle EXCEPT !.op = "VerifyLoginSignature", !.device = d,
                      !.key = k, !.at = at, !.pc = "DeleteChallenge",
                      !.entry = challenges[d], !.live = IsActive(d)]
       IN  Begin(r, IF challenges[d] # NoEntry THEN call
                    ELSE Replied(call, "Unauthenticated"))
  /\ UNCHANGED <<tables, memory, world>>

\* Mutant: a challenge is kept until a signature for it is right.
DeleteChallengeLater(r) ==
  /\ At(r, "DeleteChallenge") /\ Goto(r, "GetKey")
  /\ LET h == req[r] IN
       challenges' = IF h.key = devices[h.device].key /\ h.at = h.entry.at
                     THEN [challenges EXCEPT ![h.device] = NoEntry]
                     ELSE challenges
  /\ UNCHANGED <<tables, timers, issued, sessions, tokens, left, world>>

\* Whatever the device's challenge is by now.
DeleteChallenge(r) ==
  /\ At(r, "DeleteChallenge") /\ Goto(r, "GetKey")
  /\ challenges' = [challenges EXCEPT ![req[r].device] = NoEntry]
  /\ UNCHANGED <<tables, timers, issued, sessions, tokens, left, world>>

\* Mutant: the key of a revoked device is found.
GetKeyOfRevoked(r) ==
  /\ At(r, "GetKey")
  /\ LET h == req[r] IN
       \/ devices[h.device].state = "absent" /\ Answer(r, "NotFound")
       \/ /\ devices[h.device].state # "absent"
          /\ IF h.key = devices[h.device].key /\ h.at = h.entry.at
             THEN Goto(r, "AddSession") ELSE Answer(r, "Unauthenticated")
  /\ UNCHANGED <<tables, memory, world>>

\* GetDevicePublicKey and the check of the signature.
GetKey(r) ==
  /\ At(r, "GetKey")
  /\ LET h == req[r] IN
       \/ ~IsActive(h.device) /\ Answer(r, "NotFound")
       \/ /\ IsActive(h.device)
          /\ IF h.key = devices[h.device].key /\ h.at = h.entry.at
             THEN Goto(r, "AddSession") ELSE Answer(r, "Unauthenticated")
  /\ UNCHANGED <<tables, memory, world>>

\* The session is there also if no token can be made for it.
AddSession(r) ==
  /\ At(r, "AddSession")
  /\ LET d == req[r].device IN
       /\ sessions' = sessions \cup {d}
       /\ left' = IF IsActive(d) THEN left ELSE left \cup {d}
       /\ \/ tokens' = tokens \cup {d} /\ Answer(r, "ok")
          \/ Faults /\ tokens' = tokens /\ Answer(r, "Internal")
  /\ UNCHANGED <<tables, challenges, timers, issued, world>>
-----------------------------------------------------------------------------
(* The interceptor and the management methods. *)

\* The interceptor: the token is genuine, its session must be there.
StartCall(r) ==
  /\ \E t \in tokens, op \in DOMAIN Required, u \in Users, d \in DeviceIds,
        k \in Keys :
       LET call == [Idle EXCEPT !.op = op, !.caller = devices[t].user,
                      !.pc = "Permission",
                      !.user = IF op = "RevokeDevice" THEN None ELSE u,
                      !.device = IF op = "RevokeDevice" THEN d ELSE 0,
                      !.key = IF op = "RegisterDevice" THEN k ELSE None]
       IN  Begin(r, IF t \in sessions THEN call
                    ELSE Replied(call, "Unauthenticated"))
  /\ UNCHANGED <<tables, memory, world>>

CheckPermission(r) ==
  /\ At(r, "Permission")
  /\ IF May(req[r].caller, Required[req[r].op])
     THEN Goto(r, req[r].op) ELSE Answer(r, "PermissionDenied")
  /\ UNCHANGED <<tables, memory, world>>

\* The statement is done, but its answer is lost: to the handler it has failed.
AnswerLost(r) == Faults /\ Answer(r, "Internal")

\* An email is unique.
InsertUser(u) == u \notin users /\ users' = users \cup {u}

\* Mutant: the id the next device gets is not counted on.
InsertDeviceAgain(u, k) ==
  /\ nextDevice \in DeviceIds
  /\ TRUE \in ForeignKeys => u \in users
  /\ devices' = [devices EXCEPT ![nextDevice] =
                   [state |-> "active", user |-> u, key |-> k]]
  /\ nextDevice' = nextDevice

\* Bound: no more devices are registered than there are ids.
InsertDevice(u, k) ==
  /\ nextDevice \in DeviceIds
  /\ u \in users \/ FALSE \in ForeignKeys
  /\ devices' = [devices EXCEPT ![nextDevice] =
                   [state |-> "active", user |-> u, key |-> k]]
  /\ nextDevice' = nextDevice + 1

CreateUser(r) ==
  /\ At(r, "CreateUser")
  /\ InsertUser(req[r].user) /\ (Answer(r, "ok") \/ AnswerLost(r))
  /\ UNCHANGED <<devices, nextDevice, perms, memory, world>>

RegisterDevice(r) ==
  /\ At(r, "RegisterDevice")
  /\ InsertDevice(req[r].user, req[r].key) /\ (Answer(r, "ok") \/ AnswerLost(r))
  /\ UNCHANGED <<users, perms, memory, world>>

\* A constraint of a table refuses the row.
Refused(r) ==
  /\ \/ At(r, "CreateUser") /\ req[r].user \in users
     \/ At(r, "SetupUser") /\ req[r].user \in users
     \/ At(r, "RegisterDevice") /\ req[r].user \notin users /\ TRUE \in ForeignKeys
  /\ Answer(r, "Internal")
  /\ UNCHANGED <<tables, memory, world>>

Revoked(d) == [devices EXCEPT ![d].state = IF @ = "active" THEN "revoked" ELSE @]

\* Mutant: the session is forgotten.
RevokeDeviceOnly(r) ==
  /\ At(r, "RevokeDevice") /\ Answer(r, "ok")
  /\ devices' = Revoked(req[r].device)
  /\ UNCHANGED <<users, nextDevice, perms, memory, world>>

\* The database's RevokeDevice: no row changed is no error.  When the answer is
\* lost the session stays, until somebody calls again.
RevokeDevice(r) ==
  /\ At(r, "RevokeDevice")
  /\ devices' = Revoked(req[r].device)
  /\ \/ Goto(r, "RemoveSession") /\ left' = left
     \/ AnswerLost(r) /\ left' = left \cup (sessions \cap {req[r].device})
  /\ UNCHANGED <<users, nextDevice, perms, challenges, timers, issued, sessions,
                 tokens, world>>

RemoveSession(r) ==
  /\ At(r, "RemoveSession") /\ Answer(r, "ok")
  /\ sessions' = sessions \ {req[r].device} /\ left' = left \ {req[r].device}
  /\ UNCHANGED <<tables, challenges, timers, issued, tokens, world>>
-----------------------------------------------------------------------------
(* SetupAdmin: a count and three insertions, in no transaction. *)

\* Mutant: the users are not counted.
StartSetupUncounted(r) ==
  /\ \E u \in Users, k \in Keys, failed \in {FALSE, Faults} :
       LET call == [Idle EXCEPT !.op = "SetupAdmin", !.user = u, !.key = k,
                      !.pc = "SetupUser"]
       IN  Begin(r, IF "SetupAdmin" \in open /\ ~failed THEN call
                    ELSE Replied(call, "Internal"))
  /\ UNCHANGED <<tables, memory, world>>

StartSetup(r) ==
  /\ \E u \in Users, k \in Keys, failed \in {FALSE, Faults} :
       LET call == [Idle EXCEPT !.op = "SetupAdmin", !.user = u, !.key = k,
                      !.pc = "SetupUser"]
           reply == CASE open = {} /\ sessions \cap tokens = {} -> "Unauthenticated"
                      [] users # {} -> "PermissionDenied"
                      [] OTHER -> "Internal"
       IN  Begin(r, IF "SetupAdmin" \in open /\ users = {} /\ ~failed THEN call
                    ELSE Replied(call, reply))
  /\ UNCHANGED <<tables, memory, world>>

SetupUser(r) ==
  /\ At(r, "SetupUser")
  /\ InsertUser(req[r].user) /\ (Goto(r, "SetupDevice") \/ AnswerLost(r))
  /\ UNCHANGED <<devices, nextDevice, perms, memory, world>>

\* Mutant: the error of the registration is ignored.
SetupDeviceUnchecked(r) ==
  /\ At(r, "SetupDevice") /\ Goto(r, "SetupGrant")
  /\ \/ InsertDevice(req[r].user, req[r].key)
     \/ Faults /\ UNCHANGED <<devices, nextDevice>>
  /\ UNCHANGED <<users, perms, memory, world>>

SetupDevice(r) ==
  /\ At(r, "SetupDevice")
  /\ InsertDevice(req[r].user, req[r].key) /\ (Goto(r, "SetupGrant") \/ AnswerLost(r))
  /\ UNCHANGED <<users, perms, memory, world>>

SetupGrant(r) ==
  /\ At(r, "SetupGrant") /\ (Answer(r, "ok") \/ AnswerLost(r))
  /\ perms' = [perms EXCEPT ![req[r].user] = {"Admin"}]
  /\ UNCHANGED <<users, devices, nextDevice, memory, world>>
-----------------------------------------------------------------------------
(* Failures, time and restarts. *)

\* A statement changes nothing and the handler answers an error of its own; one
\* that fails after it has changed the tables is AnswerLost.
Fail(r) ==
  /\ Faults /\ req[r].pc \in Statements
  /\ Answer(r, IF At(r, "GetKey") THEN "NotFound" ELSE "Internal")
  /\ UNCHANGED <<tables, memory, world>>

\* Timers fire within the second they are due.
Tick ==
  /\ clock < MaxTime /\ \A t \in timers : clock < t.at + Lifetime
  /\ clock' = clock + 1
  /\ UNCHANGED <<tables, memory, restarts, open, req>>

\* The maps, the timers and the handlers are lost.
Restart ==
  /\ restarts < MaxRestart /\ restarts' = restarts + 1
  /\ challenges' = [d \in DeviceIds |-> NoEntry] /\ timers' = {}
  /\ sessions' = {} /\ left' = {}
  /\ req' = [r \in Requests |->
               IF Running(r) THEN Replied(req[r], "none") ELSE req[r]]
  /\ UNCHANGED <<tables, issued, tokens, clock, open>>

Handler(r) ==
  \/ StartLogin(r)      \/ StoreChallenge(r)
  \/ StartVerify(r)     \/ DeleteChallenge(r) \/ GetKey(r) \/ AddSession(r)
  \/ StartCall(r)       \/ CheckPermission(r)
  \/ CreateUser(r)      \/ RegisterDevice(r)  \/ Refused(r)
  \/ RevokeDevice(r)    \/ RemoveSession(r)
  \/ StartSetup(r)      \/ SetupUser(r)
  \/ SetupDevice(r)     \/ SetupGrant(r)
  \/ Fail(r)

Next ==
  \/ \E r \in Requests : Handler(r)
  \/ \E t \in timers : Expire(t)
  \/ Tick
  \/ Restart

Spec == Init /\ [][Next]_vars
-----------------------------------------------------------------------------
(* Properties. *)

\* Types; ids are handed out in order, and every row but those has one.
TypeOK ==
  /\ users \subseteq Users /\ devices \in [DeviceIds -> DeviceRecords]
  /\ nextDevice \in 1 .. MaxDevice + 1
  /\ \A d \in DeviceIds : devices[d].state = "absent" <=> d >= nextDevice
  /\ perms \in [Users -> SUBSET RootBits]
  /\ challenges \in [DeviceIds -> Entries \cup {NoEntry}]
  /\ timers \subseteq Entries /\ issued \in 0 .. MaxEntry
  /\ sessions \subseteq DeviceIds /\ tokens \subseteq DeviceIds
  /\ clock \in 0 .. MaxTime /\ restarts \in 0 .. MaxRestart
  /\ open \subseteq {"SetupAdmin"} /\ left \subseteq DeviceIds
  /\ req \in [Requests -> Handlers]

IsRevoked(d) == devices[d].state = "revoked"

Removing(d) == \E r \in Requests : At(r, "RemoveSession") /\ req[r].device = d

\* RevokeDevice changes the table first and the session set second: a session
\* of a revoked device is about to be removed, or the revocations have left it
\* behind: a login that had the device's key already added it after the last
\* one that succeeded, or that one's answer was lost on the way to the handler
\* (management.go:159, management.go:165, auth.go:90).
RevocationClears ==
  \A d \in sessions : IsRevoked(d) => Removing(d) \/ d \in left

\* A revocation is final: the row stays revoked, for no registration gets its id
\* again, and VerifyLoginSignature reads the key after the challenge, so that a
\* login that begins when its device is revoked opens no session, also with a
\* challenge that the device got before.
RevokedStaysOut ==
  [][/\ \A d \in DeviceIds : IsRevoked(d) => devices'[d] = devices[d]
     /\ \A d \in sessions' \ sessions :
          \E r \in Requests : /\ At(r, "AddSession")
                              /\ req[r].device = d /\ req[r].live]_vars

\* The documentation: RevokeDevice invalidates a device and its session at
\* once.
RevokedHasNoSession == \A d \in sessions : IsRevoked(d) => Removing(d)

\* A challenge is taken out of the cache before its signature is looked at: a
\* call that was answered, whatever the answer, leaves none to try again.
UsedChallengesAreGone ==
  \A r \in Requests :
    req[r].op = "VerifyLoginSignature" /\ At(r, "done") =>
      req[r].entry \notin {challenges[d] : d \in DeviceIds} \ {NoEntry}

\* A challenge leaves the cache for a newer one of the device, when its time is
\* over, for a verification of the device or with the process: the timer of a
\* challenge that was replaced does not remove its successor.
FreshChallengesStay ==
  [][\A d \in DeviceIds :
       challenges[d] # NoEntry /\ challenges'[d] # challenges[d] =>
         \/ challenges'[d].n > challenges[d].n
         \/ clock - challenges[d].at >= Lifetime
         \/ \E r \in Requests : At(r, "DeleteChallenge") /\ req[r].device = d
         \/ restarts' # restarts]_vars

\* No challenge is older than its lifetime, in however many logins a device
\* replaced it.
ChallengesExpire ==
  \A d \in DeviceIds :
    challenges[d] # NoEntry => clock <= challenges[d].at + Lifetime

\* SetupAdmin gives the administrator's bit last: however it fails, and
\* whatever is run beside it, an administrator is a user with a device to log
\* in from.
AdminsHaveDevices ==
  \A u \in Users :
    "Admin" \in perms[u] =>
      u \in users /\ \E d \in DeviceIds : devices[d].user = u

\* A SetupAdmin that is let in finds nobody who could act: no administrator, no
\* device and no session, however an earlier one failed in the middle and
\* whatever a restart cut off; the caller was not an authenticated one
\* (management.go:22, management.go:33-64).
SetupFindsNobody ==
  [][\A r \in Requests :
       At(r, "idle") /\ req'[r].op = "SetupAdmin" /\ req'[r].pc = "SetupUser" =>
         /\ \A u \in Users : perms[u] = {}
         /\ \A d \in DeviceIds : devices[d] = NoDevice
         /\ sessions = {}]_vars

\* The comment of SetupAdmin: it makes the first administrator, and only one.
OneFirstAdministrator ==
  Cardinality({r \in Requests : req[r].op = "SetupAdmin" /\ req[r].reply = "ok"}) <= 1
=============================================================================
