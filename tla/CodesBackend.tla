----------------------------- MODULE CodesBackend -----------------------------
(***************************************************************************)
(* The backend's core: owners change dynamic codes through CodeService     *)
(* while visitors are redirected through Redirect, over one Postgres and   *)
(* one Redis.                                                              *)
(*                                                                         *)
(* Nothing orders a visitor's fill of the cache against an owner's         *)
(* invalidation, so an entry can be stale.  Two history variables name the *)
(* two ways this comes about without an invalidation still being due; they *)
(* never guard a step.                                                     *)
(***************************************************************************)
EXTENDS CodeService, Redirect

VARIABLES
    overtaken,  \* the visits whose slug changed between ResolveSlug and Store
    excused     \* the slugs whose entry an overtaken visit stored, or whose
                \* invalidation was lost

vars == <<storeVars, cache, api, visitVars, overtaken, excused>>

Init ==
    /\ StoreInit
    /\ CacheInit
    /\ ServiceInit
    /\ RedirectInit
    /\ overtaken = {}
    /\ excused = {}

-----------------------------------------------------------------------------
(* History *)

\* The visits that a change of the tables overtakes.
Overtaken == {v \in Visits :
    /\ VisitAt(v, "store")
    /\ \E s \in Slugs : s = visits[v].slug /\ ResolveSlug(s)' # ResolveSlug(s)}

\* A write of the tables.
Overtakes == overtaken' = overtaken \cup Overtaken

\* A stored target is as good as its reading: overtaken or current.
Stores(v) ==
    /\ excused' = IF v \in overtaken
                    THEN excused \cup {visits[v].slug}
                    ELSE excused \ {visits[v].slug}
    /\ overtaken' = overtaken \ {v}

\* The slugs of requests that owe an invalidation.
Pending == {api[r].slug : r \in {q \in Requests : At(q, "invalidate")}}

-----------------------------------------------------------------------------
(* Steps *)

\* Steps of request r that leave the tables and the cache alone.
ServiceLocal(r) ==
    /\ \/ \E u \in Users, l \in Labels, d \in Dests \cup {Absent}, isURL \in BOOLEAN :
            BeginCreateDynamic(r, u, l, isURL, d)
       \/ \E s \in Slugs : SlugCollision(r, s)
       \/ \E u \in Users, i \in CodeIds, d \in Dests \cup {Absent}, l \in Labels \cup {Absent} :
            BeginUpdate(r, u, i, d, l)
       \/ \E u \in Users, i \in CodeIds : BeginDelete(r, u, i)
       \/ Reload(r)
       \/ RowGone(r)
       \/ FirstCallFails(r)
       \/ StatementFails(r)
    /\ UNCHANGED <<visitVars, overtaken, excused>>

\* Steps of request r that write the tables.
ServiceWrite(r) ==
    /\ \/ \E u \in Users, l \in Labels : CreateStatic(r, u, l)
       \/ \E s \in Slugs : CreateDynamic(r, s)
       \/ UpdateDestination(r)
       \/ UpdateLabel(r)
       \/ DeleteRow(r)
       \/ \E s \in Slugs : CreateUnacked(r, s)
       \/ LabelUnacked(r)
    /\ Overtakes
    /\ UNCHANGED <<visitVars, excused>>

\* A write whose invalidation will never come.
ServiceWriteUnacked(r) ==
    /\ WriteUnacked(r)
    /\ Overtakes
    /\ excused' = excused \cup ({api[r].slug} \cap Slugs)
    /\ UNCHANGED visitVars

ServiceInvalidate(r) ==
    /\ InvalidateSlug(r)
    /\ excused' = excused \ {api[r].slug}
    /\ UNCHANGED <<visitVars, overtaken>>

ServiceInvalidateFails(r) ==
    /\ InvalidateFails(r)
    /\ excused' = excused \cup {api[r].slug}
    /\ UNCHANGED <<visitVars, overtaken>>

Owner(r) ==
    \/ ServiceLocal(r)
    \/ ServiceWrite(r)
    \/ ServiceWriteUnacked(r)
    \/ ServiceInvalidate(r)
    \/ ServiceInvalidateFails(r)

\* Steps of visit v that leave the cache alone.
VisitorReads(v) ==
    /\ \/ \E s \in Slugs : LookupHit(v, s) \/ LookupMiss(v, s)
       \/ "redis" \in Faults /\ \E s \in Slugs : LookupFails(v, s)
       \/ ResolveFound(v)
       \/ ResolveNotFound(v)
       \/ "postgres" \in Faults /\ ResolveFails(v)
       \/ "redis" \in Faults /\ StoreFails(v)
       \/ RecordScan(v)
       \/ RecordScanFails(v)
    /\ overtaken' = overtaken \ {v}
    /\ UNCHANGED <<api, excused>>

VisitorStores(v) ==
    /\ StoreTarget(v)
    /\ Stores(v)
    /\ UNCHANGED api

Visitor(v) == VisitorReads(v) \/ VisitorStores(v)

\* Redis drops an entry at the end of redirectTTL.
ExpireEntry(s) ==
    /\ Expire(s)
    /\ excused' = excused \ {s}
    /\ UNCHANGED <<storeVars, api, visitVars, overtaken>>

\* The process dies.  Postgres and Redis keep what they hold; the requests,
\* the visits and the scans not yet recorded are gone.
Crash ==
    /\ "crash" \in Faults
    /\ api' = [r \in Requests |-> NoRequest]
    /\ visits' = [v \in Visits |-> NoVisit]
    /\ overtaken' = {}
    /\ excused' = excused \cup Pending
    /\ UNCHANGED <<storeVars, cache, scan_events>>

Next ==
    \/ \E r \in Requests : Owner(r)
    \/ \E v \in Visits : Visitor(v)
    \/ \E s \in Slugs : ExpireEntry(s)
    \/ Crash

Spec == Init /\ [][Next]_vars

(***************************************************************************)
(* A request or a visit under way goes on: the scheduler runs every        *)
(* goroutine, and every call returns, with an answer or an error.  No      *)
(* request has to arrive.  An entry goes when its TTL is up.               *)
(***************************************************************************)
Fairness ==
    /\ \A r \in Requests : WF_vars(~At(r, "idle") /\ Owner(r))
    /\ \A v \in Visits : WF_vars(~VisitAt(v, "idle") /\ Visitor(v))
    /\ \A s \in Slugs : WF_vars(ExpireEntry(s))

FairSpec == Spec /\ Fairness

-----------------------------------------------------------------------------
(* Properties *)

TypeOK ==
    /\ StoreTypeOK
    /\ CacheTypeOK
    /\ ServiceTypeOK
    /\ RedirectTypeOK
    /\ overtaken \subseteq Visits
    /\ excused \subseteq Slugs

\* No two rows of a dynamic_codes table hold one slug.
UniqueIn(rows) ==
    \A i, j \in CodeIds :
        rows[i] # Absent /\ rows[j] # Absent /\ rows[i].slug = rows[j].slug => i = j

\* The tables agree: a code is dynamic exactly when it has a dynamic_codes
\* row, whichever step of whichever request came last, failed or retried; and
\* a slug leads to one code.
RowsAgree ==
    /\ \A i \in CodeIds :
          (dynamic_codes[i] # Absent) <=> (codes[i] # Absent /\ codes[i].is_dynamic)
    /\ UniqueIn(dynamic_codes)

\* The entry of slug s is not what Postgres would answer.
Stale(s) == cache[s] # Absent /\ cache[s] # ResolveSlug(s)

\* The redirect cache is stale only with a reason: the request that changed
\* the code still owes its invalidation, or the invalidation was lost, or a
\* visit that read Postgres before the change stored after it.
StaleIsExplained == \A s \in Slugs : Stale(s) => s \in Pending \cup excused

\* A destination that fails the safety check is never stored, cached or served.
NoUnsafeTarget ==
    /\ \A i \in CodeIds :
          dynamic_codes[i] # Absent => dynamic_codes[i].destination \notin Malicious
    /\ \A s \in Slugs : cache[s] # Absent => cache[s].destination \notin Malicious
    /\ \A v \in Visits :
          visits[v].target # Absent => visits[v].target.destination \notin Malicious

\* Only a request of its owner changes or removes a code, although
\* UpdateDestination names no user and runs long after GetByID did.
OnlyOwnerWrites == [][
    \A i \in CodeIds :
        codes[i] # Absent /\ (codes'[i] # codes[i] \/ dynamic_codes'[i] # dynamic_codes[i])
        => \E r \in Requests : /\ api'[r] # api[r]
                              /\ api[r].user = codes[i].user
                              /\ api[r].id = i
    ]_vars

\* A request that found its code and is then told "not found" tells the truth
\* for good: the code is gone, and with it whatever the request had written.
NotFoundIsFinal == [][
    \A r \in Requests :
        ~At(r, "idle") /\ At(r, "idle")' /\ api'[r].reply = "not_found"
        => codes[api[r].id] = Absent /\ dynamic_codes[api[r].id] = Absent
    ]_vars

\* Every request is answered, whatever other requests do to its code or slug.
RequestsEnd == \A r \in Requests : []<>At(r, "idle")

\* Once owners leave their codes alone, every visitor is sent where Postgres
\* says, or learns that the code is gone: a stale entry outlives neither the
\* visits under way nor its TTL.
EventuallyConsistent ==
    <>[](\A r \in Requests : At(r, "idle")) => <>[](\A s \in Slugs : ~Stale(s))

-----------------------------------------------------------------------------
(* What the repository says and the code does not do *)

\* "Updating the destination must invalidate the cache" and "a subsequent
\* resolve returns the new destination" (internal/codes/service_test.go): with
\* no request under way and nothing lost, the next visitor of a live slug is
\* sent where Postgres says.
ResolveIsCurrent ==
    (\A r \in Requests : At(r, "idle"))
        => \A s \in Slugs : Holders(s) # {} => ~Stale(s)
=============================================================================
