------------------------ MODULE MCFolderTransactions ------------------------
(***************************************************************************)
(* The constants of the runs of FolderTransactions.                        *)
(***************************************************************************)
EXTENDS FolderTransactions

Row(parent, path) ==
  [state |-> "live", parent |-> parent, path |-> path, inherit |-> TRUE]

\* 2 and 4 in the root, 3 in 2, 5 in 3.
Tree ==
  [f \in FolderIds |->
     CASE f = 1 -> Row(0, <<>>)
       [] f = 2 -> Row(1, <<1>>)
       [] f = 3 -> Row(2, <<1, 2>>)
       [] f = 4 -> Row(1, <<1>>)
       [] f = 5 -> Row(3, <<1, 2, 3>>)
       [] OTHER -> NoFolder]

OnlyRoot == [f \in FolderIds |-> IF f = 1 THEN Row(0, <<>>) ELSE NoFolder]

\* A file in 3, one in 4.
InTree   == [f \in FileIds |-> [state |-> "live", folder |-> f + 2]]
NoFiles  == [f \in FileIds |-> [state |-> "absent", folder |-> 0]]

Used(database, unrelated) ==
  [engine |-> database, apart |-> unrelated, folders |-> Tree, files |-> InTree,
   next |-> 6]

\* The first folders after EnsureRootFolder.
Fresh(database, id) ==
  [engine |-> database, apart |-> FALSE, folders |-> OnlyRoot, files |-> NoFiles,
   next |-> id]

Both == {Used("sqlite", FALSE), Used("postgres", TRUE), Used("postgres", FALSE),
         Fresh("sqlite", 2), Fresh("postgres", 1)}

OnlyPostgres == {Used("postgres", FALSE)}
=============================================================================
