----------------------------- MODULE MCKeyring -----------------------------
(***************************************************************************)
(* The constants of the runs of Keyring.                                   *)
(***************************************************************************)
EXTENDS Keyring, TLC

\* Calls one at a time and no failed write; or two at a time and any failure.
BothSettings == {[together |-> 1, writeErrors |-> FALSE],
              [together |-> 2, writeErrors |-> TRUE]}

RequestSymmetry == Permutations(Requests)
=============================================================================
