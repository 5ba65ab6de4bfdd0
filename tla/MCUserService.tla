--------------------------- MODULE MCUserService ---------------------------
(***************************************************************************)
(* The constants of the runs of UserService.                               *)
(***************************************************************************)
EXTENDS UserService, TLC

CONSTANTS root, ann, bob, k1, k2

Device(u, k) == [state |-> "active", user |-> u, key |-> k]

\* An empty database, with SetupAdmin open to callers without a token.
Empty ==
  [users |-> {}, devices |-> [d \in DeviceIds |-> NoDevice], next |-> 1,
   perms |-> [u \in Users |-> {}], sessions |-> {}, open |-> {"SetupAdmin"}]

\* An administrator who is logged in and a user with a device.
Populated ==
  [users |-> {root, ann},
   devices |-> [d \in DeviceIds |-> CASE d = 1 -> Device(root, k1)
                                      [] d = 2 -> Device(ann, k2)
                                      [] OTHER -> NoDevice],
   next |-> 3, perms |-> [u \in Users |-> IF u = root THEN {"Admin"} ELSE {}],
   sessions |-> {1}, open |-> {}]

BothStarts  == {Empty, Populated}
OnlyRunning == {Populated}

\* Handlers are interchangeable, and no property tells one from another.
RequestSymmetry == Permutations(Requests)
=============================================================================
