------------------------- MODULE UserServiceProofs -------------------------
(***************************************************************************)
(* Proofs about UserService, for any number of users, keys, devices,       *)
(* requests and restarts, any lifetime of a challenge, whatever statements *)
(* fail and whether or not the connection enforces foreign keys.           *)
(***************************************************************************)
EXTENDS UserService, TLAPS

\* The tables: an id that was not given yet has no row, permissions are those
\* of users, and before there is a user there is nothing.
RowsInv ==
  /\ \A d \in DeviceIds :
       IF devices[d].state = "absent" THEN devices[d] = NoDevice
       ELSE devices[d].user \in Users
  /\ users = {} => nextDevice = 1
  /\ \A u \in Users : perms[u] # {} => u \in users
  /\ AdminsHaveDevices

\* The cache: a challenge is one of a device that was registered, its timer is
\* running, and no timer is overdue.
CacheInv ==
  /\ \A d \in DeviceIds : challenges[d] # NoEntry =>
       /\ challenges[d] \in timers /\ challenges[d].device = d
       /\ challenges[d].n <= issued /\ devices[d].state # "absent"
  /\ \A t \in timers : clock <= t.at + Lifetime

SessionsInv ==
  /\ \A d \in sessions \cup tokens : devices[d].state # "absent"
  /\ RevocationClears

\* What a handler knows of the tables: each fact stays true once it is.
HandlerInv(h) ==
  /\ h.entry # NoEntry => h.entry.n <= issued
  /\ h.pc \in {"StoreChallenge", "DeleteChallenge", "GetKey", "AddSession"} =>
       h.device \in DeviceIds /\ devices[h.device].state # "absent"
  /\ h.pc \in {"DeleteChallenge", "GetKey", "AddSession"} =>
       /\ h.entry \in Entries /\ h.entry.device = h.device
       /\ h.live \/ IsRevoked(h.device)
  /\ h.pc = "AddSession" => h.live
  /\ h.pc = "Permission" =>
       /\ h.op \in DOMAIN Required /\ h.caller \in Users
       /\ h.op # "RevokeDevice" => h.user \in Users
       /\ h.op = "RegisterDevice" => h.key \in Keys
       /\ h.op = "RevokeDevice" => h.device \in DeviceIds
  /\ h.pc \in {"CreateUser", "RegisterDevice"} => users # {}
  /\ h.pc \in {"CreateUser", "RegisterDevice", "SetupUser", "SetupDevice", "SetupGrant"} =>
       h.user \in Users
  /\ h.pc \in {"RegisterDevice", "SetupUser", "SetupDevice"} => h.key \in Keys
  /\ h.pc \in {"RevokeDevice", "RemoveSession"} => h.device \in DeviceIds
  /\ h.pc \in {"SetupDevice", "SetupGrant"} => h.user \in users
  /\ h.pc = "SetupGrant" => \E d \in DeviceIds : devices[d].user = h.user

\* The challenge that a verification took is in the cache no more.
Used(h) ==
  h.op = "VerifyLoginSignature" /\ h.pc \notin {"idle", "DeleteChallenge"}
    /\ h.entry # NoEntry => \A d \in DeviceIds : challenges[d] # h.entry

IInv ==
  /\ TypeOK /\ RowsInv /\ CacheInv /\ SessionsInv
  /\ \A r \in Requests : HandlerInv(req[r]) /\ Used(req[r])

-----------------------------------------------------------------------------
(* What a step may do to the state that handlers know of.                  *)

WorldOK ==
  /\ users \subseteq Users /\ devices \in [DeviceIds -> DeviceRecords]
  /\ nextDevice \in 1 .. MaxDevice + 1
  /\ \A d \in DeviceIds : devices[d].state = "absent" <=> d >= nextDevice
  /\ perms \in [Users -> SUBSET RootBits]
  /\ challenges \in [DeviceIds -> Entries \cup {NoEntry}]
  /\ timers \subseteq Entries /\ issued \in 0 .. MaxEntry
  /\ sessions \subseteq DeviceIds /\ tokens \subseteq DeviceIds
  /\ clock \in 0 .. MaxTime /\ restarts \in 0 .. MaxRestart
  /\ open \subseteq {"SetupAdmin"} /\ left \subseteq DeviceIds

\* Users and devices are not removed, a revocation is final.
Grows ==
  /\ users \subseteq users' /\ issued <= issued'
  /\ \A d \in DeviceIds : devices[d].state # "absent" =>
       devices'[d].state # "absent" /\ devices'[d].user = devices[d].user
  /\ \A d \in DeviceIds : IsRevoked(d) => IsRevoked(d)'

\* What the cache gets is new.
NewEntries ==
  \A d \in DeviceIds :
    challenges'[d] \in {challenges[d], NoEntry} \/ challenges'[d].n > issued

Become(r, h) == req' = [req EXCEPT ![r] = h]

\* g is h at another label, or with another reply.
Same(g, h) ==
  /\ g.op = h.op /\ g.caller = h.caller /\ g.user = h.user /\ g.device = h.device
  /\ g.key = h.key /\ g.at = h.at /\ g.entry = h.entry /\ g.live = h.live

LEMMA HandlerKept ==
  ASSUME IInv, Grows, WorldOK', NEW h \in Handlers, HandlerInv(h)
  PROVE  HandlerInv(h)'
<1>1. h.entry # NoEntry => h.entry.n <= issued'
  <2>1. issued \in Nat /\ issued' \in Nat /\ issued <= issued'
    BY ConstantsAssumption DEF IInv, TypeOK, WorldOK, Grows
  <2>2. ASSUME h.entry # NoEntry PROVE h.entry.n \in Nat /\ h.entry.n <= issued
    BY <2>2, ConstantsAssumption DEF HandlerInv, Handlers, Entries
  <2> QED BY <2>1, <2>2
<1>2. users # {} => users' # {}
  BY DEF Grows
<1>3. ASSUME h.pc = "SetupGrant"
      PROVE  \E d \in DeviceIds : devices'[d].user = h.user
  <2>1. PICK d \in DeviceIds : devices[d].user = h.user
    BY <1>3 DEF HandlerInv
  <2>2. h.user # None
    BY <1>3, ConstantsAssumption DEF HandlerInv
  <2>3. devices[d].state # "absent"
    BY <2>1, <2>2 DEF IInv, RowsInv, NoDevice
  <2> QED BY <2>1, <2>3 DEF Grows
<1>4. /\ h.pc \in {"StoreChallenge", "DeleteChallenge", "GetKey", "AddSession"} =>
           h.device \in DeviceIds /\ devices'[h.device].state # "absent"
      /\ h.pc \in {"DeleteChallenge", "GetKey", "AddSession"} =>
           /\ h.entry \in Entries /\ h.entry.device = h.device
           /\ h.live \/ IsRevoked(h.device)'
  BY DEF HandlerInv, Grows
<1> QED BY <1>1, <1>2, <1>3, <1>4 DEF HandlerInv, Grows

LEMMA UsedKept ==
  ASSUME IInv, NewEntries, NEW h \in Handlers, HandlerInv(h), Used(h)
  PROVE  Used(h)'
<1> SUFFICES ASSUME h.op = "VerifyLoginSignature", h.pc \notin {"idle", "DeleteChallenge"},
                    h.entry # NoEntry, NEW d \in DeviceIds
             PROVE  challenges'[d] # h.entry
  BY DEF Used
<1>1. challenges[d] # h.entry
  BY DEF Used
<1>2. h.entry.n \in Nat /\ h.entry.n <= issued /\ issued \in Nat
  BY ConstantsAssumption DEF HandlerInv, Handlers, Entries, IInv, TypeOK
<1> QED BY <1>1, <1>2 DEF NewEntries

LEMMA StepInv ==
  ASSUME IInv, NEW r \in Requests, NEW h \in Handlers, Become(r, h), Grows, NewEntries,
         HandlerInv(h)', Used(h)', WorldOK', RowsInv', CacheInv', SessionsInv'
  PROVE  IInv'
<1>1. /\ req' \in [Requests -> Handlers]
      /\ \A q \in Requests : req'[q] = IF q = r THEN h ELSE req[q]
  BY DEF Become, IInv, TypeOK
<1>2. ASSUME NEW q \in Requests, q # r PROVE HandlerInv(req[q])' /\ Used(req[q])'
  <2>1. req[q] \in Handlers /\ HandlerInv(req[q]) /\ Used(req[q]) /\ req'[q] = req[q]
    BY <1>1, <1>2 DEF IInv, TypeOK
  <2>2. PICK g \in Handlers : g = req[q] /\ HandlerInv(g) /\ Used(g)
    BY <2>1
  <2>3. HandlerInv(g)' /\ Used(g)'
    BY <2>2, HandlerKept, UsedKept
  <2> QED BY <2>1, <2>2, <2>3 DEF HandlerInv, Used
<1>3. HandlerInv(req[r])' /\ Used(req[r])'
  BY <1>1 DEF HandlerInv, Used
<1>4. TypeOK'
  BY <1>1 DEF TypeOK, WorldOK
<1>5. \A q \in Requests : HandlerInv(req[q])' /\ Used(req[q])'
  BY <1>2, <1>3
<1> QED BY <1>4, <1>5 DEF IInv

\* Neither map is touched; a revocation may leave a session behind.
MapsKept ==
  UNCHANGED <<challenges, timers, issued, sessions, tokens, world>> /\ left \subseteq left'

\* A step that does not touch the maps: sessions stay about to be removed, or
\* left behind.
LEMMA TableStep ==
  ASSUME IInv, NEW r \in Requests, NEW h \in Handlers, Become(r, h),
         MapsKept, ~ At(r, "RemoveSession"), Grows,
         HandlerInv(h)', Used(h), WorldOK', RowsInv',
         \A d \in sessions :
           IsRevoked(d)' => \/ IsRevoked(d) \/ d \in left'
                            \/ h.pc = "RemoveSession" /\ h.device = d
  PROVE  IInv'
<1>1. /\ challenges' = challenges /\ timers' = timers /\ issued' = issued
      /\ sessions' = sessions /\ tokens' = tokens /\ left \subseteq left' /\ clock' = clock
  BY DEF MapsKept, world
<1>2. \A q \in Requests : req'[q] = IF q = r THEN h ELSE req[q]
  BY DEF Become, IInv, TypeOK
<1>3. NewEntries /\ Used(h)'
  BY <1>1 DEF NewEntries, Used
<1>4. CacheInv'
  BY <1>1 DEF CacheInv, Grows, IInv
<1>5. SessionsInv'
  <2>1. ASSUME NEW d \in DeviceIds, Removing(d) PROVE Removing(d)'
    BY <1>2, <2>1 DEF Removing, At
  <2>2. ASSUME NEW d \in sessions, IsRevoked(d)' PROVE Removing(d)' \/ d \in left'
    <3>1. d \in DeviceIds
      BY DEF IInv, TypeOK
    <3>2. CASE IsRevoked(d)
      BY <1>1, <2>1, <3>1, <3>2 DEF IInv, SessionsInv, RevocationClears
    <3>3. CASE h.pc = "RemoveSession" /\ h.device = d
      BY <1>2, <3>3 DEF Removing, At
    <3> QED BY <2>2, <3>2, <3>3
  <2>3. RevocationClears'
    BY <1>1, <2>2 DEF RevocationClears
  <2>4. \A d \in sessions' \cup tokens' : devices'[d].state # "absent"
    BY <1>1 DEF IInv, TypeOK, SessionsInv, Grows
  <2> QED BY <2>3, <2>4 DEF SessionsInv
<1> QED BY <1>3, <1>4, <1>5, StepInv

\* A step that only moves its handler.
LEMMA QuietStep ==
  ASSUME IInv, NEW r \in Requests, NEW h \in Handlers, Become(r, h),
         UNCHANGED <<tables, memory, world>>, ~ At(r, "RemoveSession"),
         HandlerInv(h), Used(h)
  PROVE  IInv'
<1>1. /\ users' = users /\ devices' = devices /\ nextDevice' = nextDevice /\ perms' = perms
      /\ challenges' = challenges /\ timers' = timers /\ issued' = issued
      /\ sessions' = sessions /\ tokens' = tokens /\ left' = left
      /\ clock' = clock /\ restarts' = restarts /\ open' = open
  BY DEF tables, memory, world
<1>2. Grows
  BY <1>1, ConstantsAssumption DEF Grows, IsRevoked, IInv, TypeOK
<1>3. WorldOK'
  BY <1>1 DEF WorldOK, IInv, TypeOK
<1>4. RowsInv'
  BY <1>1 DEF RowsInv, AdminsHaveDevices, IInv
<1>5. HandlerInv(h)'
  BY <1>2, <1>3, HandlerKept
<1>6. MapsKept /\ \A d \in sessions : IsRevoked(d)' => IsRevoked(d)
  BY <1>1 DEF MapsKept, world, IsRevoked
<1> QED BY <1>2, <1>3, <1>4, <1>5, <1>6, TableStep
-----------------------------------------------------------------------------
(* The records of handlers.                                                *)

LEMMA MethodNames ==
  DOMAIN Required = {"CreateUser", "RegisterDevice", "RevokeDevice"}
BY DEF Required

LEMMA IdleType == Idle \in Handlers
BY ConstantsAssumption, MethodNames DEF Idle, Handlers, Labels, Methods, Replies, NoEntry

LEMMA GoesTo ==
  ASSUME IInv, NEW r \in Requests, NEW l \in Labels, Goto(r, l)
  PROVE  \E h \in Handlers : Become(r, h) /\ h.pc = l /\ Same(h, req[r])
<1> DEFINE h == [req[r] EXCEPT !.pc = l]
<1>1. req[r] \in Handlers /\ req \in [Requests -> Handlers]
  BY DEF IInv, TypeOK
<1>2. h \in Handlers /\ h.pc = l /\ Same(h, req[r])
  BY <1>1 DEF Handlers, Same
<1>3. Become(r, h)
  BY <1>1 DEF Become, Goto
<1> QED BY <1>2, <1>3

LEMMA Answers ==
  ASSUME IInv, NEW r \in Requests, NEW c \in Replies, Answer(r, c)
  PROVE  \E h \in Handlers : Become(r, h) /\ h.pc = "done" /\ Same(h, req[r])
<1> DEFINE h == [req[r] EXCEPT !.pc = "done", !.reply = c]
<1>1. req[r] \in Handlers /\ req \in [Requests -> Handlers]
  BY DEF IInv, TypeOK
<1>2. h \in Handlers /\ h.pc = "done" /\ Same(h, req[r])
  BY <1>1 DEF Handlers, Same, Labels
<1>3. Become(r, h)
  BY <1>1 DEF Become, Answer
<1> QED BY <1>2, <1>3

\* A handler that is done knows no more than it did.
LEMMA DoneInv ==
  ASSUME NEW g, NEW h, g.pc = "done", Same(g, h), HandlerInv(h)
  PROVE  HandlerInv(g)
BY DEF HandlerInv, Same

LEMMA UsedSame ==
  ASSUME NEW g, NEW h, Same(g, h), h.pc \notin {"idle", "DeleteChallenge"}, Used(h)
  PROVE  Used(g)
BY DEF Used, Same

-----------------------------------------------------------------------------
(* One lemma per handler step.                                             *)

LEMMA RepliedType ==
  ASSUME NEW h \in Handlers, NEW c \in Replies
  PROVE  /\ Replied(h, c) \in Handlers /\ Replied(h, c).pc = "done"
         /\ Same(Replied(h, c), h)
BY DEF Replied, Handlers, Labels, Same

LEMMA StartLoginBegins ==
  ASSUME IInv, NEW r \in Requests, StartLogin(r)
  PROVE  \E h \in Handlers : Begin(r, h) /\ HandlerInv(h) /\ Used(h) /\ h.op = "LoginUser"
<1>1. PICK d \in DeviceIds, failed \in {FALSE, Faults} :
        LET call == [Idle EXCEPT !.op = "LoginUser", !.device = d,
                       !.pc = "StoreChallenge", !.live = IsActive(d)]
        IN  Begin(r, IF IsActive(d) /\ ~failed THEN call ELSE Replied(call, "NotFound"))
  BY DEF StartLogin
<1>2. PICK call : call = [Idle EXCEPT !.op = "LoginUser", !.device = d,
                            !.pc = "StoreChallenge", !.live = IsActive(d)]
  OBVIOUS
<1>3. IsActive(d) \in BOOLEAN
  BY DEF IsActive
<1>4. /\ call \in Handlers /\ call.pc = "StoreChallenge" /\ call.op = "LoginUser"
      /\ call.device = d /\ call.entry = NoEntry
  BY <1>2, <1>3, IdleType, MethodNames DEF Handlers, Labels, Methods, Idle
<1>5. CASE IsActive(d) /\ ~failed
  <2>1. HandlerInv(call) /\ Used(call)
    BY <1>4, <1>5 DEF HandlerInv, Used, IsActive
  <2> QED BY <1>1, <1>2, <1>4, <1>5, <2>1
<1>6. CASE ~ (IsActive(d) /\ ~failed)
  <2> DEFINE done == Replied(call, "NotFound")
  <2>1. done \in Handlers /\ done.pc = "done" /\ done.op = "LoginUser" /\ done.entry = NoEntry
    BY <1>4, RepliedType DEF Replies, Same
  <2>2. Begin(r, done)
    BY <1>1, <1>2, <1>6
  <2> HIDE DEF done
  <2>3. HandlerInv(done) /\ Used(done)
    BY <2>1 DEF HandlerInv, Used
  <2> QED BY <2>1, <2>2, <2>3
<1> QED BY <1>5, <1>6

\* The entry is new: its number is the next one, its second is now.
LEMMA EntryType ==
  ASSUME IInv, issued < MaxEntry, NEW d \in DeviceIds
  PROVE  /\ Entry(d) \in Entries /\ Entry(d) # NoEntry /\ Entry(d).device = d
         /\ Entry(d).n = issued + 1 /\ Entry(d).at = clock
BY ConstantsAssumption DEF Entry, Entries, NoEntry, IInv, TypeOK

LEMMA StoreChallengeInv ==
  ASSUME IInv, NEW r \in Requests, StoreChallenge(r) PROVE IInv'
<1>1. HandlerInv(req[r]) /\ Used(req[r]) /\ req[r] \in Handlers /\ WorldOK
  BY DEF IInv, TypeOK, WorldOK
<1>2. /\ req[r].pc = "StoreChallenge" /\ issued < MaxEntry
      /\ challenges' = [challenges EXCEPT ![req[r].device] = Entry(req[r].device)]
      /\ timers' = timers \cup {Entry(req[r].device)}
      /\ issued' = issued + 1 /\ Answer(r, "ok")
      /\ users' = users /\ devices' = devices /\ nextDevice' = nextDevice /\ perms' = perms
      /\ sessions' = sessions /\ tokens' = tokens /\ left' = left
      /\ clock' = clock /\ restarts' = restarts /\ open' = open
  BY DEF StoreChallenge, At, tables, world
<1>3. PICK d \in DeviceIds : d = req[r].device /\ devices[d].state # "absent"
  BY <1>1, <1>2 DEF HandlerInv
<1>4. PICK e : e = Entry(d)
  OBVIOUS
<1>5. /\ e \in Entries /\ e # NoEntry /\ e.device = d
      /\ e.n = issued + 1 /\ e.at = clock
  BY <1>2, <1>4, EntryType
<1>6. /\ challenges' = [challenges EXCEPT ![d] = e] /\ timers' = timers \cup {e}
      /\ issued \in Nat /\ issued' = issued + 1 /\ issued' \in 0 .. MaxEntry
  BY <1>1, <1>2, <1>3, <1>4, ConstantsAssumption DEF WorldOK
<1>7. \A x \in DeviceIds : challenges'[x] = IF x = d THEN e ELSE challenges[x]
  BY <1>1, <1>6 DEF WorldOK
<1>8. Grows
  BY <1>2, <1>6 DEF Grows, IsRevoked
<1>9. NewEntries
  BY <1>5, <1>6, <1>7 DEF NewEntries
<1>10. WorldOK'
  <2>1. challenges' \in [DeviceIds -> Entries \cup {NoEntry}] /\ timers' \subseteq Entries
    BY <1>1, <1>5, <1>6 DEF WorldOK
  <2> QED BY <1>1, <1>2, <1>6, <2>1 DEF WorldOK
<1>11. RowsInv'
  BY <1>2 DEF RowsInv, AdminsHaveDevices, IInv
<1>12. CacheInv'
  <2>1. ASSUME NEW x \in DeviceIds, challenges'[x] # NoEntry
        PROVE  /\ challenges'[x] \in timers' /\ challenges'[x].device = x
               /\ challenges'[x].n <= issued' /\ devices'[x].state # "absent"
    <3>1. CASE x = d
      BY <1>2, <1>3, <1>5, <1>6, <1>7, <3>1
    <3>2. CASE x # d
      <4>1. challenges[x] \in Entries
        BY <1>1, <1>7, <2>1, <3>2 DEF WorldOK
      <4>2. challenges[x].n \in Nat
        BY <4>1, ConstantsAssumption DEF Entries
      <4>3. /\ challenges[x] \in timers /\ challenges[x].device = x
            /\ challenges[x].n <= issued /\ devices[x].state # "absent"
        BY <1>7, <2>1, <3>2 DEF IInv, CacheInv
      <4> QED BY <1>2, <1>6, <1>7, <3>2, <4>2, <4>3
    <3> QED BY <3>1, <3>2
  <2>2. \A t \in timers' : clock' <= t.at + Lifetime
    <3>1. clock <= e.at + Lifetime
      BY <1>1, <1>5, ConstantsAssumption DEF WorldOK
    <3> QED BY <1>2, <1>6, <3>1 DEF IInv, CacheInv
  <2> QED BY <2>1, <2>2 DEF CacheInv
<1>13. PICK h \in Handlers : Become(r, h) /\ h.pc = "done" /\ Same(h, req[r])
  BY <1>2, Answers DEF Replies
<1>14. HandlerInv(h) /\ Used(h)
  BY <1>1, <1>2, <1>13, DoneInv, UsedSame
<1>15. HandlerInv(h)' /\ Used(h)'
  BY <1>8, <1>9, <1>10, <1>14, HandlerKept, UsedKept
<1>16. SessionsInv'
  <2>1. \A x : Removing(x) => Removing(x)'
    BY <1>2, <1>13 DEF Removing, At, Become, IInv, TypeOK
  <2> QED BY <1>2, <2>1 DEF SessionsInv, RevocationClears, IsRevoked, IInv
<1> QED BY <1>8, <1>9, <1>10, <1>11, <1>12, <1>13, <1>15, <1>16, StepInv

LEMMA StartVerifyBegins ==
  ASSUME IInv, NEW r \in Requests, StartVerify(r)
  PROVE  \E h \in Handlers : Begin(r, h) /\ HandlerInv(h) /\ Used(h) /\ h.op = "VerifyLoginSignature"
<1>1. PICK d \in DeviceIds, k \in Keys, at \in 0 .. clock :
        LET call == [Idle EXCEPT !.op = "VerifyLoginSignature", !.device = d,
                       !.key = k, !.at = at, !.pc = "DeleteChallenge",
                       !.entry = challenges[d], !.live = IsActive(d)]
        IN  Begin(r, IF challenges[d] # NoEntry THEN call
                     ELSE Replied(call, "Unauthenticated"))
  BY DEF StartVerify
<1>2. PICK call : call = [Idle EXCEPT !.op = "VerifyLoginSignature", !.device = d,
                            !.key = k, !.at = at, !.pc = "DeleteChallenge",
                            !.entry = challenges[d], !.live = IsActive(d)]
  OBVIOUS
<1>3. /\ IsActive(d) \in BOOLEAN /\ challenges[d] \in Entries \cup {NoEntry}
      /\ at \in 0 .. MaxTime
  BY ConstantsAssumption DEF IsActive, IInv, TypeOK
<1>4. /\ call \in Handlers /\ call.pc = "DeleteChallenge" /\ call.op = "VerifyLoginSignature"
      /\ call.device = d /\ call.entry = challenges[d] /\ call.live = IsActive(d)
  BY <1>2, <1>3, IdleType, MethodNames DEF Handlers, Labels, Methods, Idle
<1>5. CASE challenges[d] # NoEntry
  <2>1. /\ challenges[d].device = d /\ challenges[d].n <= issued
        /\ devices[d].state # "absent" /\ challenges[d] \in Entries
    BY <1>3, <1>5 DEF IInv, CacheInv
  <2>2. IsActive(d) \/ IsRevoked(d)
    BY <2>1 DEF IsActive, IsRevoked, IInv, TypeOK, DeviceRecords
  <2>3. HandlerInv(call) /\ Used(call)
    BY <1>4, <2>1, <2>2 DEF HandlerInv, Used
  <2> QED BY <1>1, <1>2, <1>4, <1>5, <2>3
<1>6. CASE challenges[d] = NoEntry
  <2> DEFINE done == Replied(call, "Unauthenticated")
  <2>1. /\ done \in Handlers /\ done.pc = "done" /\ done.entry = NoEntry
        /\ done.op = "VerifyLoginSignature"
    BY <1>4, <1>6, RepliedType DEF Replies, Same
  <2>2. Begin(r, done)
    BY <1>1, <1>2, <1>6
  <2> HIDE DEF done
  <2>3. HandlerInv(done) /\ Used(done)
    BY <2>1 DEF HandlerInv, Used
  <2> QED BY <2>1, <2>2, <2>3
<1> QED BY <1>5, <1>6

\* The challenge that the handler loaded was the device's: once the device has
\* none it is nowhere in the cache.
LEMMA DeleteChallengeInv ==
  ASSUME IInv, NEW r \in Requests, DeleteChallenge(r) PROVE IInv'
<1>1. HandlerInv(req[r]) /\ Used(req[r]) /\ req[r] \in Handlers /\ WorldOK
  BY DEF IInv, TypeOK, WorldOK
<1>2. /\ req[r].pc = "DeleteChallenge" /\ Goto(r, "GetKey")
      /\ challenges' = [challenges EXCEPT ![req[r].device] = NoEntry]
      /\ timers' = timers /\ issued' = issued
      /\ users' = users /\ devices' = devices /\ nextDevice' = nextDevice /\ perms' = perms
      /\ sessions' = sessions /\ tokens' = tokens /\ left' = left
      /\ clock' = clock /\ restarts' = restarts /\ open' = open
  BY DEF DeleteChallenge, At, tables, world
<1>3. PICK d \in DeviceIds : d = req[r].device
  BY <1>1, <1>2 DEF HandlerInv
<1>4. \A x \in DeviceIds : challenges'[x] = IF x = d THEN NoEntry ELSE challenges[x]
  BY <1>1, <1>2, <1>3 DEF WorldOK
<1>5. Grows /\ NewEntries
  BY <1>1, <1>2, <1>4, ConstantsAssumption DEF Grows, IsRevoked, NewEntries, WorldOK
<1>6. WorldOK'
  <2>1. challenges' \in [DeviceIds -> Entries \cup {NoEntry}]
    BY <1>1, <1>2 DEF WorldOK
  <2> QED BY <1>1, <1>2, <2>1 DEF WorldOK
<1>7. RowsInv'
  BY <1>2 DEF RowsInv, AdminsHaveDevices, IInv
<1>8. CacheInv'
  BY <1>2, <1>4 DEF CacheInv, IInv
<1>9. PICK h \in Handlers : Become(r, h) /\ h.pc = "GetKey" /\ Same(h, req[r])
  BY <1>2, GoesTo DEF Labels
<1>10. HandlerInv(h)
  BY <1>1, <1>2, <1>9 DEF HandlerInv, Same
<1>11. HandlerInv(h)'
  BY <1>5, <1>6, <1>10, HandlerKept
<1>12. Used(h)'
  <2>1. h.entry.device = d
    BY <1>1, <1>2, <1>3, <1>9 DEF HandlerInv, Same
  <2>2. ASSUME NEW x \in DeviceIds, h.entry # NoEntry PROVE challenges'[x] # h.entry
    <3>1. CASE x = d
      BY <1>4, <2>2, <3>1
    <3>2. CASE x # d
      BY <1>4, <2>1, <2>2, <3>2 DEF IInv, CacheInv
    <3> QED BY <3>1, <3>2
  <2> QED BY <2>2 DEF Used
<1>13. SessionsInv'
  <2>1. \A x : Removing(x) => Removing(x)'
    BY <1>2, <1>9 DEF Removing, At, Become, IInv, TypeOK
  <2> QED BY <1>2, <2>1 DEF SessionsInv, RevocationClears, IsRevoked, IInv
<1> QED BY <1>5, <1>6, <1>7, <1>8, <1>9, <1>11, <1>12, <1>13, StepInv

LEMMA GetKeyInv ==
  ASSUME IInv, NEW r \in Requests, GetKey(r) PROVE IInv'
<1>1. HandlerInv(req[r]) /\ Used(req[r])
  BY DEF IInv
<1>2. /\ req[r].pc = "GetKey" /\ UNCHANGED <<tables, memory, world>>
      /\ \/ \E c \in {"NotFound", "Unauthenticated"} : Answer(r, c)
         \/ IsActive(req[r].device) /\ Goto(r, "AddSession")
  BY DEF GetKey, At
<1>3. ASSUME NEW c \in {"NotFound", "Unauthenticated"}, Answer(r, c) PROVE IInv'
  <2>1. PICK h \in Handlers : Become(r, h) /\ h.pc = "done" /\ Same(h, req[r])
    BY <1>3, Answers DEF Replies
  <2>2. HandlerInv(h) /\ Used(h)
    BY <1>1, <1>2, <2>1, DoneInv, UsedSame
  <2> QED BY <1>2, <2>1, <2>2, QuietStep DEF At
<1>4. ASSUME IsActive(req[r].device), Goto(r, "AddSession") PROVE IInv'
  <2>1. PICK h \in Handlers : Become(r, h) /\ h.pc = "AddSession" /\ Same(h, req[r])
    BY <1>4, GoesTo DEF Labels
  <2>2. HandlerInv(h)
    BY <1>1, <1>2, <1>4, <2>1 DEF HandlerInv, Same, IsActive, IsRevoked
  <2>3. Used(h)
    BY <1>1, <1>2, <2>1, UsedSame
  <2> QED BY <1>2, <2>1, <2>2, <2>3, QuietStep DEF At
<1> QED BY <1>2, <1>3, <1>4

\* A session that is added for a device that is revoked by now is one left behind.
LEMMA AddSessionInv ==
  ASSUME IInv, NEW r \in Requests, AddSession(r) PROVE IInv'
<1>1. HandlerInv(req[r]) /\ Used(req[r]) /\ req[r] \in Handlers /\ WorldOK
  BY DEF IInv, TypeOK, WorldOK
<1>2. /\ req[r].pc = "AddSession"
      /\ challenges' = challenges /\ timers' = timers /\ issued' = issued
      /\ users' = users /\ devices' = devices /\ nextDevice' = nextDevice /\ perms' = perms
      /\ clock' = clock /\ restarts' = restarts /\ open' = open
      /\ sessions' = sessions \cup {req[r].device}
      /\ left' = IF IsActive(req[r].device) THEN left ELSE left \cup {req[r].device}
      /\ tokens' \in {tokens, tokens \cup {req[r].device}}
      /\ \E c \in {"ok", "Internal"} : Answer(r, c)
  BY DEF AddSession, At, tables, world
<1>3. PICK d \in DeviceIds : d = req[r].device /\ devices[d].state # "absent"
  BY <1>1, <1>2 DEF HandlerInv
<1>4. Grows /\ NewEntries
  BY <1>1, <1>2, ConstantsAssumption DEF Grows, IsRevoked, NewEntries, WorldOK
<1>5. WorldOK'
  BY <1>1, <1>2, <1>3 DEF WorldOK
<1>6. RowsInv'
  BY <1>2 DEF RowsInv, AdminsHaveDevices, IInv
<1>7. CacheInv'
  BY <1>2 DEF CacheInv, IInv
<1>8. PICK h \in Handlers : Become(r, h) /\ h.pc = "done" /\ Same(h, req[r])
  BY <1>2, Answers DEF Replies
<1>9. HandlerInv(h) /\ Used(h)
  BY <1>1, <1>2, <1>8, DoneInv, UsedSame
<1>10. HandlerInv(h)' /\ Used(h)'
  BY <1>4, <1>5, <1>9, HandlerKept, UsedKept
<1>11. SessionsInv'
  <2>1. \A x : Removing(x) => Removing(x)'
    BY <1>2, <1>8 DEF Removing, At, Become, IInv, TypeOK
  <2>2. ASSUME NEW x \in sessions', IsRevoked(x)' PROVE Removing(x)' \/ x \in left'
    <3>1. CASE x = d
      BY <1>2, <1>3, <2>2, <3>1 DEF IsActive, IsRevoked
    <3>2. CASE x # d
      BY <1>2, <1>3, <2>1, <2>2, <3>2 DEF IInv, SessionsInv, RevocationClears, IsRevoked
    <3> QED BY <3>1, <3>2
  <2>3. \A x \in sessions' \cup tokens' : devices'[x].state # "absent"
    BY <1>2, <1>3 DEF SessionsInv, IInv
  <2> QED BY <2>2, <2>3 DEF SessionsInv, RevocationClears
<1> QED BY <1>4, <1>5, <1>6, <1>7, <1>8, <1>10, <1>11, StepInv

LEMMA RemoveSessionInv ==
  ASSUME IInv, NEW r \in Requests, RemoveSession(r) PROVE IInv'
<1>1. HandlerInv(req[r]) /\ Used(req[r]) /\ req[r] \in Handlers /\ WorldOK
  BY DEF IInv, TypeOK, WorldOK
<1>2. /\ req[r].pc = "RemoveSession" /\ Answer(r, "ok")
      /\ challenges' = challenges /\ timers' = timers /\ issued' = issued
      /\ users' = users /\ devices' = devices /\ nextDevice' = nextDevice /\ perms' = perms
      /\ clock' = clock /\ restarts' = restarts /\ open' = open
      /\ sessions' = sessions \ {req[r].device}
      /\ left' = left \ {req[r].device} /\ tokens' = tokens
  BY DEF RemoveSession, At, tables, world
<1>3. Grows /\ NewEntries
  BY <1>1, <1>2, ConstantsAssumption DEF Grows, IsRevoked, NewEntries, WorldOK
<1>4. WorldOK'
  BY <1>1, <1>2 DEF WorldOK
<1>5. RowsInv'
  BY <1>2 DEF RowsInv, AdminsHaveDevices, IInv
<1>6. CacheInv'
  BY <1>2 DEF CacheInv, IInv
<1>7. PICK h \in Handlers : Become(r, h) /\ h.pc = "done" /\ Same(h, req[r])
  BY <1>2, Answers DEF Replies
<1>8. HandlerInv(h) /\ Used(h)
  BY <1>1, <1>2, <1>7, DoneInv, UsedSame
<1>9. HandlerInv(h)' /\ Used(h)'
  BY <1>3, <1>4, <1>8, HandlerKept, UsedKept
<1>10. SessionsInv'
  <2>1. \A x : x # req[r].device /\ Removing(x) => Removing(x)'
    BY <1>7 DEF Removing, At, Become, IInv, TypeOK
  <2> QED BY <1>2, <2>1 DEF SessionsInv, RevocationClears, IsRevoked, IInv
<1> QED BY <1>3, <1>4, <1>5, <1>6, <1>7, <1>9, <1>10, StepInv

LEMMA StartCallBegins ==
  ASSUME IInv, NEW r \in Requests, StartCall(r)
  PROVE  \E h \in Handlers : Begin(r, h) /\ HandlerInv(h) /\ Used(h) /\ h.op \in DOMAIN Required
<1>1. PICK t \in tokens, op \in DOMAIN Required, u \in Users, d \in DeviceIds, k \in Keys :
        LET call == [Idle EXCEPT !.op = op, !.caller = devices[t].user,
                       !.pc = "Permission",
                       !.user = IF op = "RevokeDevice" THEN None ELSE u,
                       !.device = IF op = "RevokeDevice" THEN d ELSE 0,
                       !.key = IF op = "RegisterDevice" THEN k ELSE None]
        IN  Begin(r, IF t \in sessions THEN call ELSE Replied(call, "Unauthenticated"))
  BY DEF StartCall
<1>2. PICK user : user = IF op = "RevokeDevice" THEN None ELSE u
  OBVIOUS
<1>3. PICK device : device = IF op = "RevokeDevice" THEN d ELSE 0
  OBVIOUS
<1>4. PICK key : key = IF op = "RegisterDevice" THEN k ELSE None
  OBVIOUS
<1>5. devices[t].user \in Users
  BY DEF IInv, TypeOK, SessionsInv, RowsInv
<1>6. PICK call : call = [Idle EXCEPT !.op = op, !.caller = devices[t].user,
                            !.pc = "Permission", !.user = user, !.device = device,
                            !.key = key]
  OBVIOUS
<1>7. /\ user \in Users \cup {None} /\ device \in DeviceIds \cup {0}
      /\ key \in Keys \cup {None} /\ op \in Methods
  BY <1>2, <1>3, <1>4 DEF Methods
<1>8. /\ call \in Handlers /\ call.pc = "Permission" /\ call.op = op
      /\ call.caller = devices[t].user /\ call.user = user /\ call.device = device
      /\ call.key = key /\ call.entry = NoEntry
  BY <1>5, <1>6, <1>7, IdleType DEF Handlers, Labels, Idle
<1>9. HandlerInv(call) /\ Used(call)
  <2>1. /\ op # "RevokeDevice" => user \in Users
        /\ op = "RegisterDevice" => key \in Keys
        /\ op = "RevokeDevice" => device \in DeviceIds
    BY <1>2, <1>3, <1>4
  <2> QED BY <1>5, <1>8, <2>1 DEF HandlerInv, Used
<1>10. Begin(r, IF t \in sessions THEN call ELSE Replied(call, "Unauthenticated"))
  BY <1>1, <1>2, <1>3, <1>4, <1>6
<1>11. CASE t \in sessions
  BY <1>8, <1>9, <1>10, <1>11
<1>12. CASE t \notin sessions
  <2> DEFINE done == Replied(call, "Unauthenticated")
  <2>1. done \in Handlers /\ done.pc = "done" /\ done.entry = NoEntry /\ done.op = op
    BY <1>8, RepliedType DEF Replies, Same
  <2>2. Begin(r, done)
    BY <1>10, <1>12
  <2> HIDE DEF done
  <2>3. HandlerInv(done) /\ Used(done)
    BY <2>1 DEF HandlerInv, Used
  <2> QED BY <2>1, <2>2, <2>3
<1> QED BY <1>11, <1>12

\* Who may do something is a user: there is one.
LEMMA CheckPermissionInv ==
  ASSUME IInv, NEW r \in Requests, CheckPermission(r) PROVE IInv'
<1>1. HandlerInv(req[r]) /\ Used(req[r])
  BY DEF IInv
<1>2. /\ req[r].pc = "Permission" /\ UNCHANGED <<tables, memory, world>>
      /\ \/ Answer(r, "PermissionDenied")
         \/ May(req[r].caller, Required[req[r].op]) /\ Goto(r, req[r].op)
  BY DEF CheckPermission, At
<1>3. ASSUME Answer(r, "PermissionDenied") PROVE IInv'
  <2>1. PICK h \in Handlers : Become(r, h) /\ h.pc = "done" /\ Same(h, req[r])
    BY <1>3, Answers DEF Replies
  <2>2. HandlerInv(h) /\ Used(h)
    BY <1>1, <1>2, <2>1, DoneInv, UsedSame
  <2> QED BY <1>2, <2>1, <2>2, QuietStep DEF At
<1>4. ASSUME May(req[r].caller, Required[req[r].op]), Goto(r, req[r].op) PROVE IInv'
  <2>1. /\ req[r].op \in {"CreateUser", "RegisterDevice", "RevokeDevice"}
        /\ req[r].caller \in Users
        /\ req[r].op # "RevokeDevice" => req[r].user \in Users
        /\ req[r].op = "RegisterDevice" => req[r].key \in Keys
        /\ req[r].op = "RevokeDevice" => req[r].device \in DeviceIds
    BY <1>1, <1>2, MethodNames DEF HandlerInv
  <2>2. req[r].op \in Labels
    BY <2>1 DEF Labels
  <2>3. PICK h \in Handlers : Become(r, h) /\ h.pc = req[r].op /\ Same(h, req[r])
    BY <1>4, <2>2, GoesTo
  <2>4. users # {}
    <3>1. perms[req[r].caller] # {}
      BY <1>4 DEF May
    <3> QED BY <2>1, <3>1 DEF IInv, RowsInv
  <2>5. HandlerInv(h)
    BY <1>1, <2>1, <2>3, <2>4 DEF HandlerInv, Same
  <2>6. Used(h)
    BY <1>1, <1>2, <2>3, UsedSame
  <2> QED BY <1>2, <2>3, <2>5, <2>6, QuietStep DEF At
<1> QED BY <1>2, <1>3, <1>4

LEMMA RefusedInv ==
  ASSUME IInv, NEW r \in Requests, Refused(r) \/ Fail(r) PROVE IInv'
<1>1. HandlerInv(req[r]) /\ Used(req[r])
  BY DEF IInv
<1>2. /\ req[r].pc \in Statements /\ UNCHANGED <<tables, memory, world>>
      /\ \E c \in {"Internal", "NotFound"} : Answer(r, c)
  BY DEF Refused, Fail, At, Statements
<1>3. PICK h \in Handlers : Become(r, h) /\ h.pc = "done" /\ Same(h, req[r])
  BY <1>2, Answers DEF Replies
<1>4. req[r].pc \notin {"idle", "DeleteChallenge", "RemoveSession"}
  BY <1>2 DEF Statements
<1>5. HandlerInv(h) /\ Used(h)
  BY <1>1, <1>3, <1>4, DoneInv, UsedSame
<1> QED BY <1>2, <1>3, <1>4, <1>5, QuietStep DEF At

\* A user is added, and no more permissions or devices than there were.
LEMMA InsertUserInv ==
  ASSUME IInv, NEW r \in Requests, CreateUser(r) \/ SetupUser(r) PROVE IInv'
<1>1. HandlerInv(req[r]) /\ Used(req[r]) /\ req[r] \in Handlers /\ WorldOK
  BY DEF IInv, TypeOK, WorldOK
<1>2. /\ req[r].pc \in {"CreateUser", "SetupUser"} /\ UNCHANGED <<memory, world>>
      /\ users' = users \cup {req[r].user}
      /\ devices' = devices /\ nextDevice' = nextDevice /\ perms' = perms
      /\ \/ \E c \in {"ok", "Internal"} : Answer(r, c)
         \/ req[r].pc = "SetupUser" /\ Goto(r, "SetupDevice")
  BY DEF CreateUser, SetupUser, InsertUser, At, AnswerLost
<1>3. req[r].user \in Users
  BY <1>1, <1>2 DEF HandlerInv
<1>4. issued' = issued
  BY <1>2 DEF memory
<1>5. Grows
  BY <1>1, <1>2, <1>4, ConstantsAssumption DEF Grows, IsRevoked, WorldOK
<1>6. WorldOK'
  BY <1>1, <1>2, <1>3 DEF WorldOK, memory, world
<1>7. RowsInv'
  BY <1>2 DEF RowsInv, AdminsHaveDevices, IInv
<1>8. /\ ~ At(r, "RemoveSession") /\ MapsKept
      /\ \A d \in sessions : IsRevoked(d)' => IsRevoked(d)
  BY <1>2 DEF IsRevoked, At, MapsKept, memory
<1>9. ASSUME NEW c \in {"ok", "Internal"}, Answer(r, c) PROVE IInv'
  <2>1. PICK h \in Handlers : Become(r, h) /\ h.pc = "done" /\ Same(h, req[r])
    BY <1>9, Answers DEF Replies
  <2>2. HandlerInv(h) /\ Used(h)
    BY <1>1, <1>2, <2>1, DoneInv, UsedSame
  <2>3. HandlerInv(h)'
    BY <1>5, <1>6, <2>2, HandlerKept
  <2> QED BY <1>2, <1>5, <1>6, <1>7, <1>8, <2>1, <2>2, <2>3, TableStep
<1>10. ASSUME req[r].pc = "SetupUser", Goto(r, "SetupDevice") PROVE IInv'
  <2>1. PICK h \in Handlers : Become(r, h) /\ h.pc = "SetupDevice" /\ Same(h, req[r])
    BY <1>10, GoesTo DEF Labels
  <2>2. Used(h)
    BY <1>1, <1>2, <2>1, UsedSame
  <2>3. HandlerInv(h)'
    BY <1>1, <1>2, <1>4, <1>10, <2>1 DEF HandlerInv, Same
  <2> QED BY <1>2, <1>5, <1>6, <1>7, <1>8, <2>1, <2>2, <2>3, TableStep
<1> QED BY <1>2, <1>9, <1>10

\* A device is added under the next id, which had no row.
LEMMA InsertDeviceInv ==
  ASSUME IInv, NEW r \in Requests, RegisterDevice(r) \/ SetupDevice(r) PROVE IInv'
<1>1. HandlerInv(req[r]) /\ Used(req[r]) /\ req[r] \in Handlers /\ WorldOK
  BY DEF IInv, TypeOK, WorldOK
<1>2. /\ req[r].pc \in {"RegisterDevice", "SetupDevice"} /\ UNCHANGED <<memory, world>>
      /\ nextDevice \in DeviceIds
      /\ devices' = [devices EXCEPT ![nextDevice] =
                       [state |-> "active", user |-> req[r].user, key |-> req[r].key]]
      /\ nextDevice' = nextDevice + 1
      /\ users' = users /\ perms' = perms
      /\ \/ \E c \in {"ok", "Internal"} : Answer(r, c)
         \/ req[r].pc = "SetupDevice" /\ Goto(r, "SetupGrant")
  BY DEF RegisterDevice, SetupDevice, InsertDevice, At, AnswerLost
<1>3. req[r].user \in Users /\ req[r].key \in Keys /\ users # {}
  BY <1>1, <1>2 DEF HandlerInv
<1>4. PICK new \in DeviceIds :
        /\ new = nextDevice /\ devices[new].state = "absent" /\ new + 1 \in 1 .. MaxDevice + 1
        /\ \A d \in DeviceIds : d # new => (d >= new + 1 <=> d >= new)
  BY <1>1, <1>2, ConstantsAssumption DEF WorldOK, DeviceIds
<1>5. /\ devices'[new] = [state |-> "active", user |-> req[r].user, key |-> req[r].key]
      /\ \A d \in DeviceIds \ {new} : devices'[d] = devices[d]
  BY <1>1, <1>2, <1>4 DEF WorldOK
<1>6. issued' = issued
  BY <1>2 DEF memory
<1>7. Grows
  BY <1>1, <1>2, <1>4, <1>5, <1>6, ConstantsAssumption DEF Grows, IsRevoked, WorldOK
<1>8. WorldOK'
  <2>1. [state |-> "active", user |-> req[r].user, key |-> req[r].key] \in DeviceRecords
    BY <1>3 DEF DeviceRecords
  <2>2. devices' \in [DeviceIds -> DeviceRecords]
    BY <1>1, <1>2, <2>1 DEF WorldOK
  <2>3. nextDevice' \in 1 .. MaxDevice + 1
    BY <1>2, <1>4
  <2>4. \A d \in DeviceIds : devices'[d].state = "absent" <=> d >= nextDevice'
    <3>1. devices'[new].state # "absent" /\ ~ (new >= nextDevice')
      BY <1>2, <1>4, <1>5, ConstantsAssumption DEF DeviceIds
    <3>2. ASSUME NEW d \in DeviceIds, d # new
          PROVE  devices'[d].state = "absent" <=> d >= nextDevice'
      BY <1>1, <1>2, <1>4, <1>5, <3>2 DEF WorldOK
    <3> QED BY <3>1, <3>2
  <2> QED BY <1>1, <1>2, <2>2, <2>3, <2>4 DEF WorldOK, memory, world
<1>9. RowsInv'
  <2>1. ASSUME NEW d \in DeviceIds
        PROVE  IF devices'[d].state = "absent" THEN devices'[d] = NoDevice
               ELSE devices'[d].user \in Users
    <3>1. CASE d = new
      BY <1>3, <1>5, <3>1
    <3>2. CASE d # new
      BY <1>5, <3>2 DEF IInv, RowsInv
    <3> QED BY <3>1, <3>2
  <2>2. AdminsHaveDevices'
    <3>1. ASSUME NEW u \in Users, NEW d \in DeviceIds, devices[d].user = u
          PROVE  devices'[d].user = u
      <4>1. devices[d].state # "absent"
        BY <3>1, ConstantsAssumption DEF IInv, RowsInv, NoDevice
      <4> QED BY <1>7, <3>1, <4>1 DEF Grows
    <3> QED BY <1>2, <3>1 DEF IInv, RowsInv, AdminsHaveDevices
  <2> QED BY <1>2, <1>3, <2>1, <2>2 DEF RowsInv, IInv
<1>10. /\ ~ At(r, "RemoveSession") /\ MapsKept
       /\ \A d \in sessions : IsRevoked(d)' => IsRevoked(d)
  <2>1. sessions \subseteq DeviceIds
    BY <1>1 DEF WorldOK
  <2> QED BY <1>2, <1>5, <2>1 DEF IsRevoked, At, MapsKept, memory
<1>11. ASSUME NEW c \in {"ok", "Internal"}, Answer(r, c) PROVE IInv'
  <2>1. PICK h \in Handlers : Become(r, h) /\ h.pc = "done" /\ Same(h, req[r])
    BY <1>11, Answers DEF Replies
  <2>2. HandlerInv(h) /\ Used(h)
    BY <1>1, <1>2, <2>1, DoneInv, UsedSame
  <2>3. HandlerInv(h)'
    BY <1>7, <1>8, <2>2, HandlerKept
  <2> QED BY <1>2, <1>7, <1>8, <1>9, <1>10, <2>1, <2>2, <2>3, TableStep
<1>12. ASSUME req[r].pc = "SetupDevice", Goto(r, "SetupGrant") PROVE IInv'
  <2>1. PICK h \in Handlers : Become(r, h) /\ h.pc = "SetupGrant" /\ Same(h, req[r])
    BY <1>12, GoesTo DEF Labels
  <2>2. Used(h)
    BY <1>1, <1>2, <2>1, UsedSame
  <2>3. \E d \in DeviceIds : devices'[d].user = h.user
    BY <1>5, <2>1 DEF Same
  <2>4. HandlerInv(h)'
    BY <1>1, <1>2, <1>6, <1>12, <2>1, <2>3 DEF HandlerInv, Same
  <2> QED BY <1>2, <1>7, <1>8, <1>9, <1>10, <2>1, <2>2, <2>4, TableStep
<1> QED BY <1>2, <1>11, <1>12

\* A device is revoked, and its session is about to be removed, or left behind
\* by an answer that is lost.
LEMMA RevokeDeviceInv ==
  ASSUME IInv, NEW r \in Requests, RevokeDevice(r) PROVE IInv'
<1>1. HandlerInv(req[r]) /\ Used(req[r]) /\ req[r] \in Handlers /\ WorldOK
  BY DEF IInv, TypeOK, WorldOK
<1>2. /\ req[r].pc = "RevokeDevice" /\ devices' = Revoked(req[r].device)
      /\ users' = users /\ nextDevice' = nextDevice /\ perms' = perms
      /\ UNCHANGED <<challenges, timers, issued, sessions, tokens, world>>
      /\ \/ Goto(r, "RemoveSession") /\ left' = left
         \/ Answer(r, "Internal") /\ left' = left \cup (sessions \cap {req[r].device})
  BY DEF RevokeDevice, At, AnswerLost
<1>3. PICK d \in DeviceIds : d = req[r].device
  BY <1>1, <1>2 DEF HandlerInv
<1>4. /\ \A x \in DeviceIds \ {d} : devices'[x] = devices[x]
      /\ devices'[d] = [devices[d] EXCEPT !.state = IF @ = "active" THEN "revoked" ELSE @]
      /\ devices[d] \in DeviceRecords
  BY <1>1, <1>2, <1>3 DEF Revoked, WorldOK
<1>5. /\ devices'[d] \in DeviceRecords /\ devices'[d].user = devices[d].user
      /\ devices'[d].state = (IF devices[d].state = "active" THEN "revoked" ELSE devices[d].state)
      /\ devices[d].state # "active" => devices'[d] = devices[d]
  BY <1>4 DEF DeviceRecords
<1>6. issued' = issued /\ MapsKept
  BY <1>2 DEF MapsKept
<1>7. Grows
  <2>1. issued <= issued'
    BY <1>1, <1>6, ConstantsAssumption DEF WorldOK
  <2>2. \A x \in DeviceIds : /\ devices'[x].user = devices[x].user
                             /\ devices[x].state # "active" => devices'[x] = devices[x]
                             /\ devices[x].state = "active" => devices'[x].state # "absent"
    BY <1>4, <1>5
  <2> QED BY <1>2, <2>1, <2>2 DEF Grows, IsRevoked
<1>8. WorldOK'
  <2>1. devices' \in [DeviceIds -> DeviceRecords]
    BY <1>1, <1>2, <1>3, <1>4, <1>5 DEF WorldOK, Revoked
  <2>2. \A x \in DeviceIds : devices'[x].state = "absent" <=> devices[x].state = "absent"
    BY <1>4, <1>5
  <2>3. left' \subseteq DeviceIds
    BY <1>1, <1>2 DEF WorldOK
  <2> QED BY <1>1, <1>2, <2>1, <2>2, <2>3 DEF WorldOK, world
<1>9. \A x \in DeviceIds : devices'[x].user = devices[x].user
  BY <1>4, <1>5
<1>10. RowsInv'
  <2>1. ASSUME NEW x \in DeviceIds
        PROVE  IF devices'[x].state = "absent" THEN devices'[x] = NoDevice
               ELSE devices'[x].user \in Users
    BY <1>4, <1>5 DEF IInv, RowsInv
  <2>2. AdminsHaveDevices'
    BY <1>2, <1>9 DEF IInv, RowsInv, AdminsHaveDevices
  <2> QED BY <1>2, <2>1, <2>2 DEF RowsInv, IInv
<1>11. \A x \in sessions : IsRevoked(x)' => IsRevoked(x) \/ x = d
  BY <1>1, <1>4 DEF IsRevoked, WorldOK
<1>12. ASSUME Goto(r, "RemoveSession") PROVE IInv'
  <2>1. PICK h \in Handlers : Become(r, h) /\ h.pc = "RemoveSession" /\ Same(h, req[r])
    BY <1>12, GoesTo DEF Labels
  <2>2. Used(h)
    BY <1>1, <1>2, <2>1, UsedSame
  <2>3. HandlerInv(h)'
    BY <1>1, <1>2, <1>6, <2>1 DEF HandlerInv, Same
  <2>4. ~ At(r, "RemoveSession") /\ h.device = d
    BY <1>2, <1>3, <2>1 DEF At, Same
  <2> QED BY <1>6, <1>7, <1>8, <1>10, <1>11, <2>1, <2>2, <2>3, <2>4, TableStep
<1>13. ASSUME Answer(r, "Internal"), left' = left \cup (sessions \cap {req[r].device})
       PROVE  IInv'
  <2>1. PICK h \in Handlers : Become(r, h) /\ h.pc = "done" /\ Same(h, req[r])
    BY <1>13, Answers DEF Replies
  <2>2. HandlerInv(h) /\ Used(h)
    BY <1>1, <1>2, <2>1, DoneInv, UsedSame
  <2>3. HandlerInv(h)'
    BY <1>7, <1>8, <2>2, HandlerKept
  <2>4. ~ At(r, "RemoveSession")
    BY <1>2 DEF At
  <2>5. \A x \in sessions : IsRevoked(x)' => IsRevoked(x) \/ x \in left'
    BY <1>3, <1>11, <1>13
  <2> QED BY <1>6, <1>7, <1>8, <1>10, <2>1, <2>2, <2>3, <2>4, <2>5, TableStep
<1> QED BY <1>2, <1>12, <1>13

\* SetupAdmin begins: whatever else it is, it is no verification.
LEMMA StartSetupBegins ==
  ASSUME IInv, NEW r \in Requests, StartSetup(r)
  PROVE  \E h \in Handlers : Begin(r, h) /\ HandlerInv(h) /\ Used(h) /\ (users = {} \/ h.pc = "done")
<1>1. PICK u \in Users, k \in Keys, failed \in {FALSE, Faults} :
        LET call == [Idle EXCEPT !.op = "SetupAdmin", !.user = u, !.key = k,
                       !.pc = "SetupUser"]
            reply == CASE open = {} /\ sessions \cap tokens = {} -> "Unauthenticated"
                       [] users # {} -> "PermissionDenied"
                       [] OTHER -> "Internal"
        IN  Begin(r, IF "SetupAdmin" \in open /\ users = {} /\ ~failed THEN call
                     ELSE Replied(call, reply))
  BY DEF StartSetup
<1>2. PICK call : call = [Idle EXCEPT !.op = "SetupAdmin", !.user = u, !.key = k,
                            !.pc = "SetupUser"]
  OBVIOUS
<1>3. PICK reply \in Replies :
        reply = CASE open = {} /\ sessions \cap tokens = {} -> "Unauthenticated"
                  [] users # {} -> "PermissionDenied"
                  [] OTHER -> "Internal"
  BY DEF Replies
<1>4. /\ call \in Handlers /\ call.pc = "SetupUser" /\ call.op = "SetupAdmin"
      /\ call.user = u /\ call.key = k /\ call.entry = NoEntry
  BY <1>2, IdleType, MethodNames DEF Handlers, Labels, Methods, Idle
<1>5. Replied(call, reply) \in Handlers /\ Replied(call, reply).pc = "done"
      /\ Replied(call, reply).op = "SetupAdmin" /\ Replied(call, reply).entry = NoEntry
  BY <1>4, RepliedType DEF Same
<1>6. (Begin(r, call) /\ users = {}) \/ Begin(r, Replied(call, reply))
  BY <1>1, <1>2, <1>3
<1>7. HandlerInv(call) /\ Used(call)
  BY <1>4 DEF HandlerInv, Used
<1>8. HandlerInv(Replied(call, reply)) /\ Used(Replied(call, reply))
  BY <1>5 DEF HandlerInv, Used
<1> QED BY <1>4, <1>5, <1>6, <1>7, <1>8

LEMMA BegunInv ==
  ASSUME IInv, NEW r \in Requests,
         StartLogin(r) \/ StartVerify(r) \/ StartCall(r) \/ StartSetup(r)
  PROVE  IInv'
<1>1. PICK h \in Handlers : Begin(r, h) /\ HandlerInv(h) /\ Used(h)
  BY StartLoginBegins, StartVerifyBegins, StartCallBegins, StartSetupBegins
<1>2. UNCHANGED <<tables, memory, world>>
  BY DEF StartLogin, StartVerify, StartCall, StartSetup
<1> QED BY <1>1, <1>2, QuietStep DEF Begin, Become, At

\* The administrator's bit comes last: the user and the device are there.
LEMMA SetupGrantInv ==
  ASSUME IInv, NEW r \in Requests, SetupGrant(r) PROVE IInv'
<1>1. HandlerInv(req[r]) /\ Used(req[r]) /\ req[r] \in Handlers /\ WorldOK
  BY DEF IInv, TypeOK, WorldOK
<1>2. /\ req[r].pc = "SetupGrant" /\ UNCHANGED <<memory, world>>
      /\ \E c \in {"ok", "Internal"} : Answer(r, c)
      /\ perms' = [perms EXCEPT ![req[r].user] = {"Admin"}]
      /\ users' = users /\ devices' = devices /\ nextDevice' = nextDevice
  BY DEF SetupGrant, At, AnswerLost
<1>3. /\ req[r].user \in Users /\ req[r].user \in users
      /\ \E d \in DeviceIds : devices[d].user = req[r].user
  BY <1>1, <1>2 DEF HandlerInv
<1>4. issued' = issued
  BY <1>2 DEF memory
<1>5. Grows
  BY <1>1, <1>2, <1>4, ConstantsAssumption DEF Grows, IsRevoked, WorldOK
<1>6. WorldOK'
  <2>1. perms' \in [Users -> SUBSET RootBits]
    BY <1>1, <1>2 DEF WorldOK, RootBits
  <2> QED BY <1>1, <1>2, <2>1 DEF WorldOK, memory, world
<1>7. RowsInv'
  <2>1. \A u \in Users : u # req[r].user => perms'[u] = perms[u]
    BY <1>1, <1>2 DEF WorldOK
  <2>2. AdminsHaveDevices'
    BY <1>2, <1>3, <2>1 DEF AdminsHaveDevices, IInv, RowsInv
  <2> QED BY <1>2, <1>3, <2>1, <2>2 DEF RowsInv, IInv
<1>8. PICK h \in Handlers : Become(r, h) /\ h.pc = "done" /\ Same(h, req[r])
  BY <1>2, Answers DEF Replies
<1>9. HandlerInv(h) /\ Used(h)
  BY <1>1, <1>2, <1>8, DoneInv, UsedSame
<1>10. HandlerInv(h)'
  BY <1>5, <1>6, <1>9, HandlerKept
<1>11. /\ ~ At(r, "RemoveSession") /\ MapsKept
       /\ \A d \in sessions : IsRevoked(d)' => IsRevoked(d)
  BY <1>2 DEF IsRevoked, At, MapsKept, memory
<1> QED BY <1>2, <1>5, <1>6, <1>7, <1>8, <1>9, <1>10, <1>11, TableStep

-----------------------------------------------------------------------------
(* Timers, time and restarts, and the invariant.                           *)

\* A timer removes its own challenge, for the entries of a device differ.
LEMMA ExpireInv ==
  ASSUME IInv, NEW t \in timers, Expire(t) PROVE IInv'
<1>1. /\ timers' = timers \ {t}
      /\ challenges' = [challenges EXCEPT ![t.device] = IF @ = t THEN NoEntry ELSE @]
      /\ users' = users /\ devices' = devices /\ nextDevice' = nextDevice /\ perms' = perms
      /\ issued' = issued /\ sessions' = sessions /\ tokens' = tokens /\ left' = left
      /\ clock' = clock /\ restarts' = restarts /\ open' = open /\ req' = req
  BY DEF Expire, tables, world
<1>2. t \in Entries /\ t.device \in DeviceIds /\ t # NoEntry
  BY DEF IInv, TypeOK, Entries, NoEntry, DeviceIds
<1>3. \A d \in DeviceIds :
        challenges'[d] = IF challenges[d] = t THEN NoEntry ELSE challenges[d]
  BY <1>1, <1>2 DEF IInv, TypeOK, CacheInv
<1>4. NewEntries
  BY <1>3 DEF NewEntries
<1>5. Grows
  BY <1>1, ConstantsAssumption DEF Grows, IsRevoked, IInv, TypeOK
<1>6. WorldOK'
  <2>1. challenges' \in [DeviceIds -> Entries \cup {NoEntry}]
    BY <1>1, <1>2 DEF IInv, TypeOK
  <2> QED BY <1>1, <2>1 DEF WorldOK, IInv, TypeOK
<1>7. TypeOK'
  BY <1>1, <1>6 DEF WorldOK, IInv, TypeOK
<1>8. RowsInv' /\ SessionsInv'
  BY <1>1 DEF IInv, RowsInv, SessionsInv, RevocationClears, AdminsHaveDevices, IsRevoked,
              Removing, At
<1>9. CacheInv'
  BY <1>1, <1>2, <1>3 DEF IInv, CacheInv
<1>10. \A r \in Requests : HandlerInv(req[r])' /\ Used(req[r])'
  <2>1. ASSUME NEW r \in Requests PROVE HandlerInv(req[r])' /\ Used(req[r])'
    <3>1. PICK h \in Handlers : h = req[r] /\ HandlerInv(h) /\ Used(h)
      BY DEF IInv, TypeOK
    <3>2. HandlerInv(h)' /\ Used(h)'
      BY <1>4, <1>5, <1>6, <3>1, HandlerKept, UsedKept
    <3> QED BY <1>1, <3>1, <3>2 DEF HandlerInv, Used
  <2> QED BY <2>1
<1> QED BY <1>7, <1>8, <1>9, <1>10 DEF IInv

LEMMA TickInv == ASSUME IInv, Tick PROVE IInv'
<1>1. /\ clock < MaxTime /\ clock' = clock + 1
      /\ \A t \in timers : clock < t.at + Lifetime
      /\ users' = users /\ devices' = devices /\ nextDevice' = nextDevice /\ perms' = perms
      /\ challenges' = challenges /\ timers' = timers /\ issued' = issued
      /\ sessions' = sessions /\ tokens' = tokens /\ left' = left
      /\ restarts' = restarts /\ open' = open /\ req' = req
  BY DEF Tick, tables, memory
<1>2. clock \in Nat /\ timers \subseteq Entries /\ MaxTime \in Nat /\ clock' \in 0 .. MaxTime
  BY <1>1, ConstantsAssumption DEF IInv, TypeOK
<1>3. TypeOK'
  BY <1>1, <1>2 DEF IInv, TypeOK
<1>4. RowsInv' /\ SessionsInv'
  BY <1>1 DEF IInv, RowsInv, SessionsInv, RevocationClears, AdminsHaveDevices, IsRevoked,
              Removing, At
<1>5. CacheInv'
  <2>1. ASSUME NEW t \in timers PROVE clock + 1 <= t.at + Lifetime
    <3>1. t.at \in Nat /\ Lifetime \in Nat /\ clock < t.at + Lifetime
      BY <1>1, <1>2, ConstantsAssumption DEF Entries
    <3> QED BY <1>2, <3>1
  <2> QED BY <1>1, <2>1 DEF IInv, CacheInv
<1>6. \A r \in Requests : HandlerInv(req[r])' /\ Used(req[r])'
  BY <1>1 DEF IInv, HandlerInv, Used, IsRevoked
<1> QED BY <1>3, <1>4, <1>5, <1>6 DEF IInv

LEMMA RestartInv == ASSUME IInv, Restart PROVE IInv'
<1>1. /\ challenges' = [d \in DeviceIds |-> NoEntry] /\ timers' = {}
      /\ sessions' = {} /\ left' = {}
      /\ req' = [r \in Requests |->
                   IF Running(r) THEN Replied(req[r], "none") ELSE req[r]]
      /\ users' = users /\ devices' = devices /\ nextDevice' = nextDevice /\ perms' = perms
      /\ issued' = issued /\ tokens' = tokens /\ clock' = clock /\ open' = open
      /\ restarts < MaxRestart /\ restarts' = restarts + 1
  BY DEF Restart, tables
<1>2. Grows
  BY <1>1, ConstantsAssumption DEF Grows, IsRevoked, IInv, TypeOK
<1>3. WorldOK'
  <2>1. restarts' \in 0 .. MaxRestart
    BY <1>1, ConstantsAssumption DEF IInv, TypeOK
  <2> QED BY <1>1, <2>1 DEF WorldOK, IInv, TypeOK
<1>4. RowsInv' /\ SessionsInv' /\ CacheInv'
  BY <1>1 DEF IInv, RowsInv, SessionsInv, RevocationClears, AdminsHaveDevices, CacheInv
<1>5. ASSUME NEW r \in Requests
      PROVE  req'[r] \in Handlers /\ HandlerInv(req[r])' /\ Used(req[r])'
  <2>1. req[r] \in Handlers /\ HandlerInv(req[r])
    BY DEF IInv, TypeOK
  <2>2. PICK h \in Handlers : h = req'[r] /\ HandlerInv(h)
    <3>1. CASE Running(r)
      <4>1. req'[r] = Replied(req[r], "none")
        BY <1>1, <3>1
      <4>2. /\ req'[r] \in Handlers /\ req'[r].pc = "done" /\ Same(req'[r], req[r])
        BY <2>1, <4>1, RepliedType DEF Replies
      <4>3. HandlerInv(req'[r])
        <5>1. PICK g : g = req'[r]
          OBVIOUS
        <5> QED BY <2>1, <4>2, <5>1, DoneInv
      <4> QED BY <4>2, <4>3
    <3>2. CASE ~ Running(r)
      BY <1>1, <2>1, <3>2
    <3> QED BY <3>1, <3>2
  <2>3. HandlerInv(h)'
    BY <1>2, <1>3, <2>2, HandlerKept
  <2>4. Used(h)'
    BY <1>1 DEF Used
  <2> QED BY <2>2, <2>3, <2>4 DEF HandlerInv, Used
<1>6. req' \in [Requests -> Handlers]
  BY <1>1, <1>5
<1>7. TypeOK'
  BY <1>3, <1>6 DEF WorldOK, TypeOK
<1> QED BY <1>4, <1>5, <1>7 DEF IInv

LEMMA Initially == Init => IInv
<1> SUFFICES ASSUME Init PROVE IInv
  OBVIOUS
<1>1. PICK s \in Starts :
        /\ users = s.users /\ devices = s.devices /\ nextDevice = s.next
        /\ perms = s.perms /\ sessions = s.sessions /\ tokens = s.sessions
        /\ open = s.open
  BY DEF Init
<1>2. /\ s.users \subseteq Users /\ s.devices \in [DeviceIds -> DeviceRecords]
      /\ s.perms \in [Users -> SUBSET RootBits] /\ s.next \in 1 .. MaxDevice + 1
      /\ s.sessions \subseteq DeviceIds /\ s.open \subseteq {"SetupAdmin"}
  BY ConstantsAssumption
<1>3. /\ \A d \in DeviceIds :
           IF d >= s.next THEN s.devices[d] = NoDevice
           ELSE s.devices[d].state # "absent" /\ s.devices[d].user \in s.users
      /\ \A d \in s.sessions : s.devices[d].state = "active"
      /\ \A u \in Users : s.perms[u] # {} => u \in s.users
      /\ \A u \in Users : "Admin" \in s.perms[u] =>
           \E d \in DeviceIds : s.devices[d].user = u
  BY StartsAssumption
<1>4. /\ challenges = [d \in DeviceIds |-> NoEntry] /\ timers = {} /\ issued = 0
      /\ clock = 0 /\ restarts = 0 /\ left = {}
      /\ \A r \in Requests : req[r] = Idle
      /\ req = [r \in Requests |-> Idle]
  BY DEF Init
<1>5. \A d \in DeviceIds : devices[d].state = "absent" <=> d >= nextDevice
  BY <1>1, <1>2, <1>3 DEF NoDevice
<1>6. TypeOK
  <2>1. 0 \in 0 .. MaxEntry /\ 0 \in 0 .. MaxTime /\ 0 \in 0 .. MaxRestart
    BY ConstantsAssumption
  <2>2. req \in [Requests -> Handlers]
    BY <1>4, IdleType
  <2> QED BY <1>1, <1>2, <1>4, <1>5, <2>1, <2>2 DEF TypeOK
<1>7. RowsInv
  <2>1. \A d \in DeviceIds :
          IF devices[d].state = "absent" THEN devices[d] = NoDevice
          ELSE devices[d].user \in Users
    BY <1>1, <1>2, <1>3 DEF NoDevice
  <2>2. users = {} => nextDevice = 1
    <3>1. ASSUME users = {}, nextDevice # 1 PROVE FALSE
      <4>1. 1 \in DeviceIds /\ ~ (1 >= s.next)
        BY <1>1, <1>2, <3>1, ConstantsAssumption DEF DeviceIds
      <4> QED BY <1>1, <1>3, <3>1, <4>1
    <3> QED BY <3>1
  <2>3. AdminsHaveDevices
    BY <1>1, <1>3 DEF AdminsHaveDevices
  <2> QED BY <1>1, <1>3, <2>1, <2>2, <2>3 DEF RowsInv
<1>8. CacheInv
  BY <1>4 DEF CacheInv
<1>9. SessionsInv
  BY <1>1, <1>3 DEF SessionsInv, RevocationClears, IsRevoked
<1>10. HandlerInv(Idle) /\ Used(Idle)
  BY DEF HandlerInv, Used, Idle
<1> QED BY <1>4, <1>6, <1>7, <1>8, <1>9, <1>10 DEF IInv

LEMMA HandlerStep ==
  ASSUME IInv, NEW r \in Requests, Handler(r) PROVE IInv'
BY BegunInv, StoreChallengeInv, DeleteChallengeInv, GetKeyInv,
   AddSessionInv, CheckPermissionInv, InsertUserInv, InsertDeviceInv,
   RefusedInv, RevokeDeviceInv, RemoveSessionInv, SetupGrantInv DEF Handler

LEMMA NextInv == IInv /\ [Next]_vars => IInv'
<1> SUFFICES ASSUME IInv, [Next]_vars PROVE IInv'
  OBVIOUS
<1>1. CASE UNCHANGED vars
  BY <1>1 DEF vars, tables, memory, world, IInv, TypeOK, RowsInv, CacheInv, SessionsInv,
              RevocationClears, AdminsHaveDevices, IsRevoked, Removing, At, HandlerInv, Used
<1> QED BY <1>1, HandlerStep, ExpireInv, TickInv, RestartInv DEF Next

LEMMA Invariance == Spec => []IInv
BY Initially, NextInv, PTL DEF Spec
-----------------------------------------------------------------------------
(* The theorems.                                                           *)

\* Every reachable state has the types the module declares; ids of devices are
\* given in order, none twice.
THEOREM TypeCorrect == Spec => []TypeOK
<1>1. IInv => TypeOK
  BY DEF IInv
<1> QED BY <1>1, Invariance, PTL

\* A session of a revoked device is about to be removed, or was left behind by a
\* login in flight or by a lost answer.
THEOREM RevocationClearsSessions == Spec => []RevocationClears
<1>1. IInv => RevocationClears
  BY DEF IInv, SessionsInv
<1> QED BY <1>1, Invariance, PTL

\* A verification that was answered leaves its challenge to nobody who comes
\* later; one that loaded it before may still go on with it.
THEOREM UsedChallengesAreRemoved == Spec => []UsedChallengesAreGone
<1>1. IInv => UsedChallengesAreGone
  BY DEF IInv, Used, UsedChallengesAreGone, At
<1> QED BY <1>1, Invariance, PTL

\* No challenge in the cache is older than its lifetime.
THEOREM NoChallengeIsOverdue == Spec => []ChallengesExpire
<1>1. IInv => ChallengesExpire
  BY DEF IInv, CacheInv, ChallengesExpire
<1> QED BY <1>1, Invariance, PTL

\* An administrator is a user with a device, however SetupAdmin fails.
THEOREM AdministratorsCanLogIn == Spec => []AdminsHaveDevices
<1>1. IInv => AdminsHaveDevices
  BY DEF IInv, RowsInv
<1> QED BY <1>1, Invariance, PTL

\* The row of a device that is revoked never changes again: a new device gets
\* an id without a row, and a revocation changes active rows only.  And only
\* AddSession adds a session, for a handler that began when its device was
\* active.
THEOREM RevokedDevicesStayOut == Spec => RevokedStaysOut
<1> DEFINE Began(d) == \E r \in Requests : /\ At(r, "AddSession")
                                           /\ req[r].device = d /\ req[r].live
<1>1. ASSUME IInv, Next, NEW d \in DeviceIds, IsRevoked(d) PROVE devices'[d] = devices[d]
  <2>1. ASSUME NEW r \in Requests, RegisterDevice(r) \/ SetupDevice(r)
        PROVE  devices'[d] = devices[d]
    <3>1. /\ nextDevice \in DeviceIds
          /\ devices' = [devices EXCEPT ![nextDevice] =
                           [state |-> "active", user |-> req[r].user, key |-> req[r].key]]
      BY <2>1 DEF RegisterDevice, SetupDevice, InsertDevice
    <3>2. devices[nextDevice].state = "absent"
      BY <1>1, <3>1, ConstantsAssumption DEF IInv, TypeOK, DeviceIds
    <3>3. d # nextDevice
      BY <1>1, <3>2 DEF IsRevoked
    <3> QED BY <1>1, <3>1, <3>3 DEF IInv, TypeOK
  <2>2. ASSUME NEW r \in Requests, RevokeDevice(r) PROVE devices'[d] = devices[d]
    <3>1. devices' = [devices EXCEPT ![req[r].device].state =
                        IF @ = "active" THEN "revoked" ELSE @]
      BY <2>2 DEF RevokeDevice, Revoked
    <3>2. CASE d # req[r].device
      BY <1>1, <3>1, <3>2 DEF IInv, TypeOK
    <3>3. CASE d = req[r].device
      <4>1. devices'[d] = [devices[d] EXCEPT !.state = devices[d].state]
        BY <1>1, <3>1, <3>3 DEF IInv, TypeOK, IsRevoked
      <4> QED BY <1>1, <4>1 DEF IInv, TypeOK, DeviceRecords
    <3> QED BY <3>2, <3>3
  <2>3. ASSUME NEW r \in Requests, Handler(r), ~ RegisterDevice(r), ~ SetupDevice(r),
               ~ RevokeDevice(r)
        PROVE  devices' = devices
    BY <2>3 DEF Handler, StartLogin, StoreChallenge, StartVerify, DeleteChallenge, GetKey,
                AddSession, StartCall, CheckPermission, CreateUser, Refused,
                RemoveSession, StartSetup, SetupUser, SetupGrant, Fail, tables
  <2>4. ASSUME (\E t \in timers : Expire(t)) \/ Tick \/ Restart PROVE devices' = devices
    BY <2>4 DEF Expire, Tick, Restart, tables
  <2> QED BY <1>1, <2>1, <2>2, <2>3, <2>4 DEF Next
<1>2. ASSUME IInv, Next, NEW d \in sessions' \ sessions PROVE Began(d)
  <2>1. CASE sessions' = sessions
    BY <1>2, <2>1
  <2>2. ASSUME NEW r \in Requests, AddSession(r) PROVE Began(d)
    <3>1. At(r, "AddSession") /\ req[r].device = d
      BY <1>2, <2>2 DEF AddSession
    <3>2. req[r].live
      BY <1>2, <3>1 DEF IInv, HandlerInv, At
    <3> QED BY <3>1, <3>2
  <2>3. ASSUME NEW r \in Requests, Handler(r), ~ AddSession(r) PROVE sessions' \subseteq sessions
    BY <2>3 DEF Handler, StartLogin, StoreChallenge, StartVerify, DeleteChallenge, GetKey,
                StartCall, CheckPermission, CreateUser, RegisterDevice, Refused,
                RevokeDevice, RemoveSession, StartSetup, SetupUser, SetupDevice, SetupGrant,
                Fail, memory
  <2>4. ASSUME (\E t \in timers : Expire(t)) \/ Tick \/ Restart PROVE sessions' \subseteq sessions
    BY <2>4 DEF Expire, Tick, Restart, memory
  <2> QED BY <1>2, <2>2, <2>3, <2>4 DEF Next
<1>3. IInv /\ [Next]_vars =>
        [/\ \A d \in DeviceIds : IsRevoked(d) => devices'[d] = devices[d]
         /\ \A d \in sessions' \ sessions : Began(d)]_vars
  BY <1>1, <1>2
<1> QED BY <1>3, Invariance, PTL DEF Spec, RevokedStaysOut

\* A challenge leaves the cache for a newer one, when its time is over, for a
\* verification of its device or with the process; never for an old timer.
THEOREM FreshChallengesAreKept == Spec => FreshChallengesStay
<1> DEFINE Reason(d) == \/ challenges'[d].n > challenges[d].n
                        \/ clock - challenges[d].at >= Lifetime
                        \/ \E r \in Requests : At(r, "DeleteChallenge") /\ req[r].device = d
                        \/ restarts' # restarts
<1>1. IInv /\ [Next]_vars =>
        [\A d \in DeviceIds :
           challenges[d] # NoEntry /\ challenges'[d] # challenges[d] => Reason(d)]_vars
  <2> SUFFICES ASSUME IInv, Next, NEW d \in DeviceIds, challenges[d] # NoEntry,
                      challenges'[d] # challenges[d]
               PROVE  Reason(d)
    BY DEF vars
  <2>1. /\ challenges \in [DeviceIds -> Entries \cup {NoEntry}] /\ challenges[d] \in Entries
        /\ challenges[d].n \in Nat /\ challenges[d].at \in Nat /\ challenges[d].n <= issued
        /\ issued \in Nat /\ clock \in Nat /\ Lifetime \in Nat /\ timers \subseteq Entries
    BY ConstantsAssumption DEF IInv, TypeOK, CacheInv, Entries
  <2>2. ASSUME NEW r \in Requests, StoreChallenge(r) PROVE Reason(d)
    <3>1. /\ issued < MaxEntry
          /\ challenges' = [challenges EXCEPT ![req[r].device] = Entry(req[r].device)]
      BY <2>2 DEF StoreChallenge
    <3>2. challenges'[d] = Entry(d)
      BY <2>1, <3>1
    <3> QED BY <2>1, <3>1, <3>2, EntryType
  <2>3. ASSUME NEW r \in Requests, DeleteChallenge(r) PROVE Reason(d)
    BY <2>1, <2>3 DEF DeleteChallenge
  <2>4. ASSUME NEW t \in timers, Expire(t) PROVE Reason(d)
    <3>1. clock >= t.at + Lifetime /\ t \in Entries
          /\ challenges' = [challenges EXCEPT ![t.device] = IF @ = t THEN NoEntry ELSE @]
      BY <2>1, <2>4 DEF Expire
    <3>2. challenges[d] = t
      BY <2>1, <3>1
    <3> QED BY <2>1, <3>1, <3>2
  <2>5. ASSUME Restart PROVE Reason(d)
    BY <2>5, ConstantsAssumption DEF Restart, IInv, TypeOK
  <2>6. ASSUME Tick PROVE challenges' = challenges
    BY <2>6 DEF Tick, memory
  <2>7. ASSUME NEW r \in Requests, Handler(r), ~ StoreChallenge(r), ~ DeleteChallenge(r)
        PROVE  challenges' = challenges
    BY <2>7 DEF Handler, StartLogin, StartVerify, GetKey, AddSession,
                StartCall, CheckPermission, CreateUser, RegisterDevice, Refused,
                RevokeDevice, RemoveSession, StartSetup, SetupUser, SetupDevice, SetupGrant,
                Fail, memory
  <2> QED BY <2>2, <2>3, <2>4, <2>5, <2>6, <2>7 DEF Next
<1> QED BY <1>1, Invariance, PTL DEF Spec, FreshChallengesStay

\* A SetupAdmin that is let in finds no permission, no device and no session.
THEOREM SetupAdminFindsNobody == Spec => SetupFindsNobody
<1> DEFINE Nobody == /\ \A u \in Users : perms[u] = {}
                     /\ \A d \in DeviceIds : devices[d] = NoDevice
                     /\ sessions = {}
<1>1. IInv /\ [Next]_vars =>
        [\A r \in Requests :
           At(r, "idle") /\ req'[r].op = "SetupAdmin" /\ req'[r].pc = "SetupUser" => Nobody]_vars
  <2> SUFFICES ASSUME IInv, Next, NEW r \in Requests, At(r, "idle"),
                      req'[r].op = "SetupAdmin", req'[r].pc = "SetupUser"
               PROVE  Nobody
    BY DEF vars
  <2>1. req \in [Requests -> Handlers] /\ req[r] \in Handlers /\ req[r].pc = "idle"
    BY DEF IInv, TypeOK, At
  <2>2. users = {}
    <3>1. CASE StartSetup(r)
      <4>1. PICK h : Begin(r, h) /\ (users = {} \/ h.pc = "done")
        BY <3>1, StartSetupBegins
      <4> QED BY <2>1, <4>1 DEF Begin
    <3>2. CASE StartLogin(r) \/ StartVerify(r) \/ StartCall(r)
      <4>1. PICK h : Begin(r, h) /\ h.op # "SetupAdmin"
        BY <3>2, StartLoginBegins, StartVerifyBegins, StartCallBegins, MethodNames
      <4> QED BY <2>1, <4>1 DEF Begin
    <3>3. ASSUME NEW q \in Requests, Handler(q), q # r PROVE req'[r] = req[r]
      BY <2>1, <3>3, ZenonT(60) DEF Handler, StartLogin, StoreChallenge, StartVerify, DeleteChallenge,
           GetKey, AddSession, StartCall, CheckPermission, CreateUser, RegisterDevice, Refused,
           RevokeDevice, RemoveSession, StartSetup, SetupUser, SetupDevice, SetupGrant, Fail,
           Begin, Goto, Answer, AnswerLost
    <3>4. ASSUME Handler(r), ~ StartSetup(r), ~ StartLogin(r), ~ StartVerify(r), ~ StartCall(r)
          PROVE  FALSE
      BY <2>1, <3>4 DEF Handler, StoreChallenge, DeleteChallenge, GetKey, AddSession,
           CheckPermission, CreateUser, RegisterDevice, Refused, RevokeDevice, RemoveSession,
           SetupUser, SetupDevice, SetupGrant, Fail, At, Statements
    <3>5. ASSUME (\E t \in timers : Expire(t)) \/ Tick \/ Restart PROVE req'[r] = req[r]
      BY <2>1, <3>5 DEF Expire, Tick, Restart, Running
    <3> QED BY <2>1, <3>1, <3>2, <3>3, <3>4, <3>5 DEF Next
  <2>3. /\ \A u \in Users : perms[u] = {}
        /\ nextDevice = 1
    BY <2>2 DEF IInv, RowsInv
  <2>4. \A d \in DeviceIds : devices[d].state = "absent"
    BY <2>3, ConstantsAssumption DEF IInv, TypeOK, DeviceIds
  <2>5. /\ \A d \in DeviceIds : devices[d] = NoDevice
        /\ sessions = {}
    BY <2>4 DEF IInv, TypeOK, RowsInv, SessionsInv
  <2> QED BY <2>3, <2>5
<1> QED BY <1>1, Invariance, PTL DEF Spec, SetupFindsNobody
=============================================================================
