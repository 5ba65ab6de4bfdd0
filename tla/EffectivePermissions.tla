----------------------- MODULE EffectivePermissions -----------------------
(***************************************************************************)
(* One call of GetUserEffectivePermissions, from its beginning to its end: *)
(* three queries without a transaction, then a loop over the chain of      *)
(* folders, while other handlers create, move and delete folders.  The     *)
(* function is the same, placeholders apart, for both databases.  The      *)
(* user's bits are whatever an administrator left in the permissions       *)
(* table; the one write to it is that of CreateFolder, for a folder that   *)
(* does not inherit.                                                       *)
(***************************************************************************)
EXTENDS Folders

CONSTANTS
  Environments \* what a call may meet, see below

\* The folders table and the user's bits at the start are of these sets, the
\* other handlers do these writes, and at most so many during the call.  A path is
\* made of ids that were given.
ASSUME EnvironmentsAssumption ==
  \A e \in Environments :
    /\ e.folders \subseteq Tables /\ e.perms \subseteq Bitmasks
    /\ \A t \in e.folders, f \in FolderIds : Exists(t, f) =>
         \A i \in 1 .. Len(t[f].path) : Exists(t, t[f].path[i])
    /\ e.writes \subseteq {"create", "grant", "move", "delete"}
    /\ e.maxWrites \in Nat

VARIABLES
  folders,   \* table folders
  perms,     \* the user's rows of table permissions
  ungranted, \* folders whose creator, the user, has no row for them yet
  call,      \* the call: program counter and locals
  truths,    \* what it could have answered at the moments since it began
  writes,    \* what the other handlers write,
  left       \* and how many writes of theirs are left

vars   == <<folders, perms, ungranted, call, truths, writes, left>>
tables == <<folders, perms, ungranted>>

Calls ==
  [pc : {"path", "chain", "perms", "walk", "ok", "error"}, folder : FolderIds, chain : Seq(FolderIds),
   inherit : [FolderIds -> BOOLEAN], perm : Bitmasks,
   i : Nat, granted : SUBSET Bits]

CallOf(f) == [pc |-> "path", folder |-> f, chain |-> <<>>,
              inherit |-> [g \in FolderIds |-> FALSE],
              perm |-> [g \in FolderIds |-> {}], i |-> 1, granted |-> {}]

\* The answer of a call that nothing interrupts, {} and no success for an error.
Truth(t, p, f) ==
  IF Resolves(t, f) THEN [ok |-> TRUE, granted |-> Effective(t, p, f)]
                    ELSE [ok |-> FALSE, granted |-> {}]

Init ==
  /\ \E e \in Environments :
       /\ folders \in e.folders /\ perms \in e.perms
       /\ writes = e.writes /\ left = e.maxWrites
  /\ ungranted = {}
  /\ call \in {CallOf(f) : f \in FolderIds}
  /\ truths = {Truth(folders, perms, call.folder)}

\* truths is kept by every step.
Observed == truths' = truths \cup {Truth(folders', perms', call.folder)}
-----------------------------------------------------------------------------
(* The call. *)

At(label) == call.pc = label
Ended     == call.pc \in {"ok", "error"}

\* Mutant: an outcome the callers do not know.
ReadPathOther ==
  /\ At("path")
  /\ call' = IF Exists(folders, call.folder)
             THEN [call EXCEPT !.pc = "chain", !.chain = PathIn(folders, call.folder)]
             ELSE [call EXCEPT !.pc = "unknown"]
  /\ UNCHANGED tables

\* Query 1.  A deleted folder is still found.
ReadPath ==
  /\ At("path")
  /\ call' = IF Exists(folders, call.folder)
             THEN [call EXCEPT !.pc = "chain", !.chain = PathIn(folders, call.folder)]
             ELSE [call EXCEPT !.pc = "error"]
  /\ UNCHANGED tables

\* Query 2.
ReadChain ==
  /\ At("chain")
  /\ call' = IF AllLive(folders, call.chain)
             THEN [call EXCEPT !.pc = "perms",
                     !.inherit = [f \in FolderIds |->
                        f \in ToSet(call.chain) /\ folders[f].inherit]]
             ELSE [call EXCEPT !.pc = "error"]
  /\ UNCHANGED tables

\* Mutant: the path is read again to look up the permissions.
ReadPermsAgain ==
  /\ At("perms")
  /\ call' = [call EXCEPT !.pc = "walk",
                !.perm = [f \in FolderIds |->
                   IF f \in ToSet(PathIn(folders, call.folder))
                   THEN perms[f] ELSE {}]]
  /\ UNCHANGED tables

\* Query 3: a folder without a row has no bits.
ReadPerms ==
  /\ At("perms")
  /\ call' = [call EXCEPT !.pc = "walk",
                !.perm = [f \in FolderIds |->
                   IF f \in ToSet(call.chain) THEN perms[f] ELSE {}]]
  /\ UNCHANGED tables

\* The body of the loop, and its end.
Walk ==
  /\ At("walk")
  /\ LET c == call
     IN  call' = IF c.i <= Len(c.chain)
                 THEN [c EXCEPT !.i = @ + 1,
                         !.granted = AfterBreak(@, c.inherit[c.chain[c.i]], c.i)
                                       \cup c.perm[c.chain[c.i]]]
                 ELSE [c EXCEPT !.pc = "ok"]
  /\ UNCHANGED tables
-----------------------------------------------------------------------------
(* The other handlers: their calls on the same tables. *)

\* By the user or by someone else; the folder is new and inherits or not.
CreateFolder(f, parent, inherit, own) ==
  /\ "create" \in writes
  /\ ~Exists(folders, f) /\ \A g \in 1 .. f - 1 : Exists(folders, g)
  /\ IsLive(folders, parent)
  /\ folders' = Created(folders, f, parent, PathIn(folders, parent), inherit)
  /\ ungranted' = IF own /\ ~inherit THEN ungranted \cup {f} ELSE ungranted
  /\ UNCHANGED <<perms, call>>

\* The last call of the user's CreateFolder of f, with the bits the user has
\* on the parent.
SetUserPermission(f) ==
  /\ "grant" \in writes
  /\ f \in ungranted
  /\ Resolves(folders, folders[f].parent)
  /\ perms' = [perms EXCEPT ![f] = Effective(folders, perms, folders[f].parent)]
  /\ ungranted' = ungranted \ {f}
  /\ UNCHANGED <<folders, call>>

MoveFolder(f, parent) ==
  /\ "move" \in writes
  /\ IsLive(folders, f) /\ IsLive(folders, parent)
  /\ folders' = Moved(folders, f, parent, PathIn(folders, parent))
  /\ UNCHANGED <<perms, ungranted, call>>

SoftDeleteFolder(f) ==
  /\ "delete" \in writes
  /\ IsLive(folders, f)
  /\ folders' = Deleted(folders, f)
  /\ UNCHANGED <<perms, ungranted, call>>

Query == (ReadPath \/ ReadChain \/ ReadPerms \/ Walk) /\ UNCHANGED left

Write ==
  /\ left > 0
  /\ left' = left - 1
  /\ \/ \E f, parent \in FolderIds, inherit, own \in BOOLEAN :
          CreateFolder(f, parent, inherit, own)
     \/ \E f \in FolderIds : SetUserPermission(f)
     \/ \E f, parent \in FolderIds : MoveFolder(f, parent)
     \/ \E f \in FolderIds : SoftDeleteFolder(f)

\* Nothing that happens after the call concerns it.
Next == ~Ended /\ (Query \/ Write) /\ Observed /\ UNCHANGED writes

Spec == Init /\ [][Next]_vars
-----------------------------------------------------------------------------
\* The tables and the call have the shapes declared above.
TypeOK ==
  /\ folders \in Tables
  /\ perms \in Bitmasks
  /\ ungranted \subseteq FolderIds
  /\ call \in Calls
  /\ truths \subseteq [ok : BOOLEAN, granted : SUBSET Bits]
  /\ writes \subseteq {"create", "grant", "move", "delete"}
  /\ left \in Nat

\* The loop, which clears and accumulates from the root down, grants exactly
\* the bits that reach the folder from an ancestor with no break in between,
\* and the administrator's bit of any ancestor.
AnswerFollowsInheritance ==
  At("ok") =>
    call.granted = GrantedAlong(call.chain, call.inherit, call.perm,
                                Len(call.chain))

\* Permissions that are granted were the caller's at some moment of the call,
\* whatever was moved or deleted between its queries: a chain that is read
\* first and looked up later does not mix two positions of the folder.
AnswerWasTrue ==
  At("ok") => [ok |-> TRUE, granted |-> call.granted] \in truths

\* A call fails only if at some moment of it there were no permissions to
\* tell: the folder, or an ancestor it then had, was deleted or unknown.
ErrorWasTrue ==
  At("error") => [ok |-> FALSE, granted |-> {}] \in truths
=============================================================================
