-------------------------- MODULE MCFolderService --------------------------
(***************************************************************************)
(* The constants of the runs of FolderService.                             *)
(***************************************************************************)
EXTENDS FolderService

Row(parent, path) ==
  [state |-> "live", parent |-> parent, path |-> path, inherit |-> TRUE]

\* The root, a folder in it and one in that.
Chain3 ==
  [f \in FolderIds |->
     CASE f = 1 -> Row(0, <<>>)
       [] f = 2 -> Row(1, <<1>>)
       [] f = 3 -> Row(2, <<1, 2>>)
       [] OTHER -> NoFolder]

\* The user is the administrator and may create files.
AdminPerms ==
  [f \in FolderIds |-> IF f = Root THEN {"Admin", "Create"} ELSE {}]

\* The user may do everything in 2 but nothing in the root and not delete 3.
MemberPerms ==
  [f \in FolderIds |->
     IF f = 2 THEN Bits \ {"Admin", "DeleteFolder"}
     ELSE IF f = 3 THEN {"DeleteFolder"} ELSE {}]

OnlyAdmin == {AdminPerms}
TwoUsers  == {AdminPerms, MemberPerms}

RequestSymmetry == Permutations(Requests)
=============================================================================
