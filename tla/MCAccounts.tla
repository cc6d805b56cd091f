------------------------------ MODULE MCAccounts ------------------------------
(***************************************************************************)
(* Small instances of Accounts.                                            *)
(***************************************************************************)
EXTENDS Accounts, TLC

CONSTANTS a, A, b

\* a and A are one address to CITEXT.
MCEmails == {a, A, b}

MCFold == (a :> a) @@ (A :> a) @@ (b :> b)

\* Ids, passwords and goroutines are interchangeable.
Symmetry == Permutations(UserIds) \cup Permutations(Passwords) \cup Permutations(Requests)
=============================================================================
