-------------------------- MODULE MCFileVersions --------------------------
(***************************************************************************)
(* The constants of the runs of FileVersions.                              *)
(***************************************************************************)
EXTENDS FileVersions, TLC

CONSTANTS d1, d2, n1, n2, c1, c2, c3

\* No file at the start.
NoSeeds == <<>>

\* One file in folder d1, uploaded with the first content.
OneSeed == <<[folder |-> d1, name |-> n1, content |-> c1]>>

\* The caller may do everything in every folder.
AllGrants == [d \in Folders |-> Bits]

\* Everything in d1; in d2 the caller can neither write nor administer.
SplitGrants ==
  [d \in Folders |-> IF d = d1 THEN Bits ELSE Bits \ {"Write", "Admin"}]

\* Handlers are interchangeable, and no property tells one from another.
RequestSymmetry == Permutations(Requests)
=============================================================================
