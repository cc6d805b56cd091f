------------------------------- MODULE Redirect -------------------------------
(***************************************************************************)
(* The public side of a dynamic code: GET /r/{slug}                        *)
(* (internal/http/handlers/redirect.go over RedirectService in             *)
(* internal/codes/redirect.go).  Each member of Visits is a goroutine that *)
(* serves one visitor after another.  After the 302 the same member stands *)
(* for the detached goroutine that records the scan.                       *)
(***************************************************************************)
EXTENDS RedirectCache

CONSTANTS
    Visits,         \* the goroutines serving visitors
    MaxScans        \* Bound: scan_events rows counted per slug

ASSUME RedirectAssumption == MaxScans \in Nat

VARIABLES
    visits,         \* visits[v]: where the visit stands and what it holds
    scan_events     \* scan_events[s]: rows recorded for slug s

visitVars == <<visits, scan_events>>

Visit == [
    pc     : {"idle", "resolve", "store", "record"},
    slug   : Slugs \cup {Absent},
    target : CachedTarget \cup {Absent}]    \* in "record": where the 302 leads

RedirectTypeOK ==
    /\ visits \in [Visits -> Visit]
    /\ scan_events \in [Slugs -> 0 .. MaxScans]

NoVisit == [pc |-> "idle", slug |-> Absent, target |-> Absent]

RedirectInit ==
    /\ visits = [v \in Visits |-> NoVisit]
    /\ scan_events = [s \in Slugs |-> 0]

VisitAt(v, step) == visits[v].pc = step

\* http.Redirect with target t; the scan is recorded from here on.
Respond(v, s, t) == visits' = [visits EXCEPT ![v] = [pc |-> "record", slug |-> s, target |-> t]]

\* "This code is no longer active", or the end of the scan's goroutine.
Finish(v) == visits' = [visits EXCEPT ![v] = NoVisit]

-----------------------------------------------------------------------------

\* Resolve begins: a hit is served without a look at Postgres.
LookupHit(v, s) ==
    /\ VisitAt(v, "idle")
    /\ Lookup(s) # Absent
    /\ Respond(v, s, Lookup(s))
    /\ UNCHANGED <<storeVars, cache, scan_events>>

Miss(v, s) ==
    /\ visits' = [visits EXCEPT ![v] = [pc |-> "resolve", slug |-> s, target |-> Absent]]
    /\ UNCHANGED <<storeVars, cache, scan_events>>

LookupMiss(v, s) ==
    /\ VisitAt(v, "idle")
    /\ Lookup(s) = Absent
    /\ Miss(v, s)

\* A lookup error counts as a miss.
LookupFails(v, s) ==
    /\ VisitAt(v, "idle")
    /\ Miss(v, s)

\* The slug has a row: its target is read here and cached later.
ResolveFound(v) ==
    /\ VisitAt(v, "resolve")
    /\ ResolveSlug(visits[v].slug) # Absent
    /\ visits' = [visits EXCEPT ![v].pc = "store",
                                ![v].target = ResolveSlug(visits[v].slug)]
    /\ UNCHANGED <<storeVars, cache, scan_events>>

ResolveNotFound(v) ==
    /\ VisitAt(v, "resolve")
    /\ ResolveSlug(visits[v].slug) = Absent
    /\ Finish(v)
    /\ UNCHANGED <<storeVars, cache, scan_events>>

\* Any other error of ResolveSlug gives the visitor the same 404 page.
ResolveFails(v) ==
    /\ VisitAt(v, "resolve")
    /\ Finish(v)
    /\ UNCHANGED <<storeVars, cache, scan_events>>

\* The target read earlier goes into the cache, and to the visitor.
StoreTarget(v) ==
    /\ VisitAt(v, "store")
    /\ Store(visits[v].slug, visits[v].target)
    /\ Respond(v, visits[v].slug, visits[v].target)
    /\ UNCHANGED <<storeVars, scan_events>>

\* A failed Store is logged; the visitor is served all the same.
StoreFails(v) ==
    /\ VisitAt(v, "store")
    /\ Respond(v, visits[v].slug, visits[v].target)
    /\ UNCHANGED <<storeVars, cache, scan_events>>

\* RecordScan: the insert of the detached goroutine.
RecordScan(v) ==
    /\ VisitAt(v, "record")
    /\ scan_events[visits[v].slug] < MaxScans
    /\ scan_events' = [scan_events EXCEPT ![visits[v].slug] = @ + 1]
    /\ Finish(v)
    /\ UNCHANGED <<storeVars, cache>>

\* The insert fails, or scanRecordTimeout cancels it: the scan is lost.
RecordScanFails(v) ==
    /\ VisitAt(v, "record")
    /\ Finish(v)
    /\ UNCHANGED <<storeVars, cache, scan_events>>
=============================================================================
