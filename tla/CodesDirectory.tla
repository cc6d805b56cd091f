---------------------------- MODULE CodesDirectory ----------------------------
(***************************************************************************)
(* CodesBackend implements SlugDirectory.  A former target of a slug is    *)
(* still within reach of visitors while it is cached, or while a visit     *)
(* that read it has yet to store it.                                       *)
(***************************************************************************)
EXTENDS CodesBackend

\* The visits about to store under slug s.
Storing(s) == {v \in Visits : VisitAt(v, "store") /\ visits[v].slug = s}

\* What visitors of slug s may be handed without a look at Postgres.
Held(s) == {cache[s]} \cup {visits[v].target : v \in Storing(s)}

linkBar == [s \in Slugs |-> ResolveSlug(s)]

fadingBar == [s \in Slugs |-> Held(s) \ {ResolveSlug(s), Absent}]

sentBar == [v \in Visits |->
    IF VisitAt(v, "record")
      THEN [slug |-> visits[v].slug, target |-> visits[v].target]
      ELSE Absent]

Directory == INSTANCE SlugDirectory WITH
    Targets <- CachedTarget, link <- linkBar, fading <- fadingBar, sent <- sentBar

\* Visitors are sent to the slug's current target or to a former one that a
\* cache entry or an earlier visit still holds, and a former target nothing
\* holds any more never comes back: no order of fills, invalidations, retries
\* and crashes revives it.
ImplementsDirectory == Directory!Spec
=============================================================================
