------------------------------ MODULE MCCodesList ------------------------------
(***************************************************************************)
(* A small instance of CodesList.  The slots for requests are alike.       *)
(***************************************************************************)
EXTENDS CodesList

CallSymmetry == Permutations(Calls)
=============================================================================
