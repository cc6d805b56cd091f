---------------------------- MODULE MCCodesBackend ----------------------------
(***************************************************************************)
(* Small instances of CodesBackend.                                        *)
(***************************************************************************)
EXTENDS CodesDirectory, TLC

\* The goroutines, users, slugs and ids are interchangeable.
Symmetry ==
    Permutations(Requests) \cup Permutations(Visits) \cup Permutations(Users)
        \cup Permutations(CodeIds) \cup Permutations(Slugs)
=============================================================================
