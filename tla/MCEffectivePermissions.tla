---------------------- MODULE MCEffectivePermissions ----------------------
(***************************************************************************)
(* The constants of the runs of EffectivePermissions.                      *)
(***************************************************************************)
EXTENDS EffectivePermissions

Row(parent, path, inherit) ==
  [state |-> "live", parent |-> parent, path |-> path, inherit |-> inherit]

\* 1 has 2 and 3, 2 has 4; 2 and 4 may break inheritance.
Tree(inherit2, inherit4) ==
  [f \in FolderIds |->
     CASE f = 1 -> Row(0, <<>>, TRUE)
       [] f = 2 -> Row(1, <<1>>, inherit2)
       [] f = 3 -> Row(1, <<1>>, TRUE)
       [] f = 4 -> Row(2, <<1, 2>>, inherit4)
       [] OTHER -> NoFolder]

AllTrees    == {Tree(i2, i4) : i2, i4 \in BOOLEAN}
WithoutFour == {[Tree(i2, TRUE) EXCEPT ![4] = NoFolder] : i2 \in BOOLEAN}
BothTrees   == AllTrees \cup WithoutFour

\* Any bits on the folders of the tree.
AnyPerms == {p \in Bitmasks : \A f \in FolderIds : f > 4 => p[f] = {}}

\* One bit on one of the two folders below the root, another one on the other.
SidePerms ==
  {[f \in FolderIds |-> IF f = 2 THEN {b} ELSE IF f = 3 THEN Bits \ {b} ELSE {}] :
     b \in Bits}

\* Every assignment of bits, and rows written during the call.
Grants == [folders |-> BothTrees, perms |-> AnyPerms,
           writes |-> {"create", "grant"}, maxWrites |-> 2]

\* The folders change shape during the call.
Moves == [folders |-> BothTrees, perms |-> SidePerms,
          writes |-> {"create", "move", "delete"}, maxWrites |-> 3]

GrantsOrMoves == {Grants, Moves}

\* Rows are written and folders move during one call.
GrantsAndMoves ==
  {[folders |-> WithoutFour, perms |-> SidePerms,
    writes |-> {"create", "grant", "move"}, maxWrites |-> 3]}
=============================================================================
