------------------------------ MODULE CodeStore ------------------------------
(***************************************************************************)
(* The Postgres tables codes and dynamic_codes, and the statements         *)
(* internal/codes/repository.go runs on them.  A statement is one step:    *)
(* each is a single SQL statement or, for CreateDynamic, one transaction.  *)
(*                                                                         *)
(* Of a code's columns the tables keep its owner, is_dynamic and label;    *)
(* type and payload never change after the insert and no statement reads   *)
(* them back.  Timestamps belong to listing and are left out.              *)
(***************************************************************************)
EXTENDS Naturals

CONSTANTS
    Users,      \* the authenticated users (rows of users)
    CodeIds,    \* the values gen_random_uuid() can return
    Slugs,      \* the values GenerateSlug can return
    Dests,      \* destination URLs
    Labels,     \* labels a code can carry, NULL included
    Absent      \* no row, a nil pointer, a cache miss

VARIABLES
    codes,          \* codes[i]: the row with id i, or Absent
    dynamic_codes,  \* dynamic_codes[i]: the row with code_id i, or Absent
    minted          \* the ids already generated: a UUID is never drawn twice

storeVars == <<codes, dynamic_codes, minted>>

Code == [user : Users, is_dynamic : BOOLEAN, label : Labels]

DynamicCode == [slug : Slugs, destination : Dests]

\* What ResolveSlug returns and Redis caches: a destination and its code.
CachedTarget == [destination : Dests, code_id : CodeIds]

\* Absent stands for nil, so it is none of the values it may be told from.
ASSUME AbsentIsNil ==
    Absent \notin Code \cup DynamicCode \cup CachedTarget \cup Slugs \cup Dests
                    \cup Labels \cup Users \cup CodeIds

StoreTypeOK ==
    /\ codes \in [CodeIds -> Code \cup {Absent}]
    /\ dynamic_codes \in [CodeIds -> DynamicCode \cup {Absent}]
    /\ minted \subseteq CodeIds

StoreInit ==
    /\ codes = [i \in CodeIds |-> Absent]
    /\ dynamic_codes = [i \in CodeIds |-> Absent]
    /\ minted = {}

-----------------------------------------------------------------------------
(* Queries *)

\* The rows of a table rows holding slug s; UNIQUE keeps it to one at most.
HoldersIn(rows, s) == {i \in CodeIds : rows[i] # Absent /\ rows[i].slug = s}

Holders(s) == HoldersIn(dynamic_codes, s)

\* The target of slug s in a table rows, or Absent for pgx.ErrNoRows.
TargetIn(rows, s) ==
    IF HoldersIn(rows, s) = {}
      THEN Absent
      ELSE LET i == CHOOSE h \in HoldersIn(rows, s) : TRUE
           IN [destination |-> rows[i].destination, code_id |-> i]

\* ResolveSlug: SELECT destination, code_id FROM dynamic_codes WHERE slug = s.
ResolveSlug(s) == TargetIn(dynamic_codes, s)

\* Mutation: the query forgets WHERE user_id.
ExistsForAnyone(u, i) == u \in Users /\ codes[i] # Absent

\* GetByID finds a row only for the user that owns it.
Owns(u, i) == codes[i] # Absent /\ codes[i].user = u

\* The LEFT JOIN's slug column: Absent (NULL) for a static code.
SlugOf(i) == IF dynamic_codes[i] = Absent THEN Absent ELSE dynamic_codes[i].slug

-----------------------------------------------------------------------------
(* Statements *)

\* Create: one row, no dynamic_codes row.
InsertCode(i, u, l) ==
    /\ codes' = [codes EXCEPT ![i] = [user |-> u, is_dynamic |-> FALSE, label |-> l]]
    /\ minted' = minted \cup {i}
    /\ UNCHANGED dynamic_codes

\* Mutation: the codes row is kept although dynamic_codes was refused.
OrphanOnCollision(i) ==
    /\ codes' = [codes EXCEPT ![i] = [user |-> CHOOSE u \in Users : TRUE,
                                      is_dynamic |-> TRUE,
                                      label |-> CHOOSE l \in Labels : TRUE]]
    /\ minted' = minted \cup {i}
    /\ UNCHANGED dynamic_codes

\* CreateDynamic when dynamic_codes.slug is violated (ErrSlugTaken): the whole
\* transaction is rolled back, and the id i it drew is never seen.
RollbackCollision(i) == i \notin minted /\ UNCHANGED storeVars

\* CreateDynamic when slug s is free: both rows, in one transaction.
InsertDynamicCode(i, u, l, s, d) ==
    /\ codes' = [codes EXCEPT ![i] = [user |-> u, is_dynamic |-> TRUE, label |-> l]]
    /\ dynamic_codes' = [dynamic_codes EXCEPT ![i] = [slug |-> s, destination |-> d]]
    /\ minted' = minted \cup {i}

\* UpdateDestination: by code_id alone.  No row: nothing changes (ErrNotFound).
SetDestination(i, d) ==
    /\ dynamic_codes[i] # Absent
    /\ dynamic_codes' = [dynamic_codes EXCEPT ![i].destination = d]
    /\ UNCHANGED <<codes, minted>>

\* UpdateLabel: the user's own row, or nothing (ErrNotFound).
SetLabel(u, i, l) ==
    /\ Owns(u, i)
    /\ codes' = [codes EXCEPT ![i].label = l]
    /\ UNCHANGED <<dynamic_codes, minted>>

\* Delete: the user's own row, and its dynamic_codes row by ON DELETE CASCADE.
DeleteCode(u, i) ==
    /\ Owns(u, i)
    /\ codes' = [codes EXCEPT ![i] = Absent]
    /\ dynamic_codes' = [dynamic_codes EXCEPT ![i] = Absent]
    /\ UNCHANGED minted
=============================================================================
