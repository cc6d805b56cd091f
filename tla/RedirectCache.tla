---------------------------- MODULE RedirectCache ----------------------------
(***************************************************************************)
(* The Redis keys redirect:<slug> (internal/codes/redirect.go).  Redis     *)
(* serves one command at a time, so Get, Set and Del are one step each.    *)
(* A call that fails is an action of its caller, which decides what the    *)
(* failure means.                                                          *)
(***************************************************************************)
EXTENDS CodeStore

VARIABLE
    cache       \* cache[s]: the target cached under slug s, or Absent

CacheTypeOK == cache \in [Slugs -> CachedTarget \cup {Absent}]

CacheInit == cache = [s \in Slugs |-> Absent]

\* Lookup: Absent is redis.Nil, a miss.
Lookup(s) == cache[s]

\* Store: SET with redirectTTL, over whatever the key held.
Store(s, t) == cache' = [cache EXCEPT ![s] = t]

\* Invalidate: DEL.
Invalidate(s) == cache' = [cache EXCEPT ![s] = Absent]

\* Mutation: SET without an expiry.
NeverExpires(s) == s \notin Slugs

\* The TTL runs out.  Any entry may be due: time is not modelled.
Expire(s) ==
    /\ cache[s] # Absent
    /\ cache' = [cache EXCEPT ![s] = Absent]
=============================================================================
