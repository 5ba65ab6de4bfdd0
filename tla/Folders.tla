------------------------------ MODULE Folders ------------------------------
(***************************************************************************)
(* The folders table and one user's rows of the permissions table: what    *)
(* each method of the database provider that writes them does, and what    *)
(* GetUserEffectivePermissions computes from them.                         *)
(*                                                                         *)
(* A path "1/2/" is the sequence <<1, 2>> of the ids of the ancestors, the *)
(* root's is <<>>; the pattern "1/2/%" matches the paths it is a prefix    *)
(* of.  A bitmask is a set of bits.                                        *)
(***************************************************************************)
EXTENDS SequencesExt

CONSTANTS
  MaxFolder, \* bound: ids of folders
  Bits       \* the permission bits told apart

ASSUME FoldersAssumption == MaxFolder \in Nat \ {0} /\ "Admin" \in Bits

FolderIds == 1 .. MaxFolder
Root      == 1

FolderRecords ==
  [state : {"absent", "live", "deleted"}, parent : FolderIds \cup {0},
   path : Seq(FolderIds), inherit : BOOLEAN]

Tables     == [FolderIds -> FolderRecords]
Bitmasks   == [FolderIds -> SUBSET Bits]
NoFolder   == [state |-> "absent", parent |-> 0, path |-> <<>>, inherit |-> TRUE]

Exists(t, f) == f \in FolderIds /\ t[f].state # "absent"
IsLive(t, f) == f \in FolderIds /\ t[f].state = "live"

\* The path of the folders in f, and of the ids to look up for f itself.
PathIn(t, f) == Append(t[f].path, f)
-----------------------------------------------------------------------------
(* The statements that write. *)

Created(t, f, parent, path, inherit) ==
  [t EXCEPT ![f] = [state |-> "live", parent |-> parent, path |-> path,
                    inherit |-> inherit]]

\* Mutants: the pattern lacks the folder's own id; nothing below is updated.
MovedWide(t, f, parent, path) ==
  LET old == t[f].path
      u   == [t EXCEPT ![f].parent = parent, ![f].path = path]
  IN  [g \in FolderIds |->
        IF g # f /\ IsLive(u, g) /\ IsPrefix(old, u[g].path)
        THEN [u[g] EXCEPT !.path = path \o SubSeq(@, Len(old) + 1, Len(@))]
        ELSE u[g]]
MovedAlone(t, f, parent, path) ==
  [t EXCEPT ![f].parent = parent, ![f].path = path]

\* One transaction: the row of f first, then the live rows below its old path,
\* f's own among them if it was moved into its own subtree.
Moved(t, f, parent, path) ==
  LET old == PathIn(t, f)
      new == Append(path, f)
      u   == [t EXCEPT ![f].parent = parent, ![f].path = path]
  IN  [g \in FolderIds |->
        IF IsLive(u, g) /\ IsPrefix(old, u[g].path)
        THEN [u[g] EXCEPT !.path = new \o SubSeq(@, Len(old) + 1, Len(@))]
        ELSE u[g]]

\* The folders under f by their paths, deleted ones included.
Below(t, f) ==
  {g \in FolderIds : Exists(t, g) /\ IsPrefix(PathIn(t, f), t[g].path)}

\* Mutant: the descendants are left.
DeletedAlone(t, f) == [t EXCEPT ![f].state = "deleted"]

\* One transaction: f and the live folders below it.
Deleted(t, f) ==
  [g \in FolderIds |-> IF IsLive(t, g) /\ g \in {f} \cup Below(t, f)
                       THEN [t[g] EXCEPT !.state = "deleted"] ELSE t[g]]
-----------------------------------------------------------------------------
(* GetUserEffectivePermissions. *)

\* Mutant: deleted folders count.
AllLiveAny(t, chain) == TRUE

\* As many live folders are found as the chain has ids: none of them deleted
\* and none twice in the chain.
AllLive(t, chain) ==
  Cardinality({g \in ToSet(chain) : IsLive(t, g)}) >= Len(chain)

\* Mutant: a break clears the administrator's bit too.
AfterBreakAll(granted, inherits, i) == IF inherits THEN granted ELSE {}

\* What is left of the bits of the ancestors at the i-th folder of the chain:
\* one that does not inherit keeps no bit but the administrator's.
AfterBreak(granted, inherits, i) ==
  IF ~inherits /\ i > 1 THEN granted \cap {"Admin"} ELSE granted

\* The loop over a chain, from the root down.
Walked(chain, inherit, perm) ==
  LET granted[i \in 0 .. Len(chain)] ==
        IF i = 0 THEN {}
        ELSE AfterBreak(granted[i - 1], inherit[chain[i]], i) \cup perm[chain[i]]
  IN  granted[Len(chain)]

Inherits(t) == [f \in FolderIds |-> t[f].inherit]

\* What the call answers when nothing else happens during it.
Resolves(t, f)        == Exists(t, f) /\ AllLive(t, PathIn(t, f))
Effective(t, perm, f) == Walked(PathIn(t, f), Inherits(t), perm)

\* What it should mean: a bit is granted by a folder of the chain when every
\* folder after it inherits, the administrator's bit also past a break.
GrantedAlong(chain, inherit, perm, n) ==
  {b \in Bits : \E i \in 1 .. n :
     /\ b \in perm[chain[i]]
     /\ b = "Admin" \/ \A j \in i + 1 .. n : inherit[chain[j]]}
=============================================================================
