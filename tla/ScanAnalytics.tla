----------------------------- MODULE ScanAnalytics -----------------------------
(***************************************************************************)
(* From a visitor's 302 to the owner's analytics: the goroutine that       *)
(* records a scan after the redirect, the table scan_events, the three     *)
(* queries of GET /codes/{id}/analytics, and the life of the server they   *)
(* run in (cmd/api/main.go).                                               *)
(*                                                                         *)
(* Resolving a slug is one step here: module Redirect has its calls.  What *)
(* matters of it is that a cached target may be an earlier holder's.       *)
(***************************************************************************)
EXTENDS CodeStore, FiniteSets

CONSTANTS
    Visits,         \* the goroutines serving visitors
    Reports,        \* the goroutines serving owners' analytics
    Clients,        \* visitors: an address and a user agent, 0 for an empty one
    Days,           \* the UTC days, in order
    TopLimit,       \* topUserAgentsLimit
    MaxScans        \* Bound: 302s per slug

ASSUME AnalyticsAssumption ==
    /\ Clients \subseteq [ip : Nat, agent : Nat]
    /\ Days \subseteq Nat /\ IsFiniteSet(Visits)
    /\ TopLimit \in Nat /\ MaxScans \in Nat
    /\ Absent \notin Nat

VARIABLES
    server,         \* "up", "draining" after the signal, "down"
    today,          \* now(), to the day
    visits,         \* visits[v]: the scan that goroutine v has to record
    scan_events,    \* the rows, id numbering them in the order of the inserts
    reports,        \* reports[a]: an analytics request, or its answer
    held,           \* held[s]: the codes that have had slug s
    redirected,     \* redirected[s]: the 302s given for slug s
    lost            \* lost[s]: the scans of slug s that no one will record

vars == <<storeVars, server, today, visits, scan_events, reports, held, redirected, lost>>

NullIfZero(x) == IF x = 0 THEN Absent ELSE x

\* The row RecordScan inserts.  code, which the table does not have, is the code
\* whose destination the visitor was sent to.
ScanEvent == [
    id         : Nat,
    slug       : Slugs,
    ip_hash    : Nat \cup {Absent},
    user_agent : Nat \cup {Absent},
    scanned_at : Days,
    code       : CodeIds]

Visit == [pc : {"idle", "record"}, slug : Slugs, code : CodeIds, client : Clients]
             \cup {[pc |-> "idle"]}

NoVisit == [pc |-> "idle"]

UserAgentCount == [agent : Nat, count : Nat]

\* since, which no code keeps, is the number of rows when the request began.
Report == [
    pc     : {"idle", "counts", "daily", "agents", "answered"},
    id     : CodeIds \cup {Absent},
    slug   : Slugs \cup {Absent},
    total  : Nat,
    unique : Nat,
    daily  : [Days -> Nat],
    agents : SUBSET UserAgentCount,
    since  : Nat]

NoReport == [pc |-> "idle", id |-> Absent, slug |-> Absent, total |-> 0, unique |-> 0,
             daily |-> [d \in Days |-> 0], agents |-> {}, since |-> 0]

TypeOK ==
    /\ StoreTypeOK
    /\ server \in {"up", "draining", "down"}
    /\ today \in Days
    /\ visits \in [Visits -> Visit]
    /\ scan_events \subseteq ScanEvent
    /\ reports \in [Reports -> Report]
    /\ held \in [Slugs -> SUBSET CodeIds]
    /\ redirected \in [Slugs -> Nat]
    /\ lost \in [Slugs -> Nat]

Init ==
    /\ StoreInit
    /\ server = "up"
    /\ today \in Days /\ \A d \in Days : today <= d
    /\ visits = [v \in Visits |-> NoVisit]
    /\ scan_events = {}
    /\ reports = [a \in Reports |-> NoReport]
    /\ held = [s \in Slugs |-> {}]
    /\ redirected = [s \in Slugs |-> 0]
    /\ lost = [s \in Slugs |-> 0]

scanVars == <<visits, scan_events, redirected, lost>>

-----------------------------------------------------------------------------
(* Owners: the statements that decide who has a slug (CodeService) *)

\* Mutation: a slug is taken although another code has it.
AnySlug(s) == s \in Slugs

\* dynamic_codes.slug is UNIQUE, and no more than that: scan_events keeps the
\* slugs of codes that are gone.
Free(s) == Holders(s) = {}

CreateDynamic(u, i, s) ==
    /\ server # "down"
    /\ i \notin minted
    /\ Free(s)
    /\ \E d \in Dests, l \in Labels : InsertDynamicCode(i, u, l, s, d)
    /\ held' = [held EXCEPT ![s] = @ \cup {i}]
    /\ UNCHANGED <<server, today, scanVars, reports>>

CreateStatic(u, i) ==
    /\ server # "down"
    /\ i \notin minted
    /\ \E l \in Labels : InsertCode(i, u, l)
    /\ UNCHANGED <<server, today, scanVars, reports, held>>

Delete(u, i) ==
    /\ server # "down"
    /\ DeleteCode(u, i)
    /\ UNCHANGED <<server, today, scanVars, reports, held>>

-----------------------------------------------------------------------------
(* Visitors *)

Recording(s) == {v \in Visits : visits[v].pc = "record" /\ visits[v].slug = s}

\* Redirect resolves slug s, perhaps from a target cached for an earlier holder,
\* answers 302 and starts the goroutine that records the scan.  A request under way
\* when the signal came is still served.
Redirect(v, s, i, c) ==
    /\ server # "down"
    /\ visits[v].pc = "idle"
    /\ i \in held[s]
    /\ redirected[s] < MaxScans
    /\ visits' = [visits EXCEPT ![v] = [pc |-> "record", slug |-> s, code |-> i, client |-> c]]
    /\ redirected' = [redirected EXCEPT ![s] = @ + 1]
    /\ UNCHANGED <<storeVars, server, today, scan_events, reports, held, lost>>

\* InsertScanEvent of what goroutine v carries.
Insert(v) ==
    scan_events' = scan_events \cup
        {[id         |-> Cardinality(scan_events) + 1,
          slug       |-> visits[v].slug,
          ip_hash    |-> NullIfZero(visits[v].client.ip),
          user_agent |-> NullIfZero(visits[v].client.agent),
          scanned_at |-> today,
          code       |-> visits[v].code]}

Finish(v) == visits' = [visits EXCEPT ![v] = NoVisit]

\* Mutation: the insert is tried again when its answer is late.
RecordScanAgain(v) ==
    /\ visits[v].pc = "record"
    /\ Cardinality(scan_events) < MaxScans + 1
    /\ Insert(v)
    /\ Finish(v) \/ UNCHANGED visits
    /\ UNCHANGED <<storeVars, server, today, reports, held, redirected, lost>>

\* RecordScan: once, whether or not the answer comes within scanRecordTimeout.
RecordScan(v) ==
    /\ visits[v].pc = "record"
    /\ Insert(v)
    /\ Finish(v)
    /\ UNCHANGED <<storeVars, server, today, reports, held, redirected, lost>>

\* The insert fails, or scanRecordTimeout comes before it.
RecordScanFails(v) ==
    /\ visits[v].pc = "record"
    /\ lost' = [lost EXCEPT ![visits[v].slug] = @ + 1]
    /\ Finish(v)
    /\ UNCHANGED <<storeVars, server, today, scan_events, reports, held, redirected>>

-----------------------------------------------------------------------------
(* Analytics *)

UnderWay(a) == reports[a].pc \in {"counts", "daily", "agents"}

\* GetByID finds the code: a static one has no scans, and is answered at once.
Ask(a, u, i) ==
    /\ server # "down"
    /\ ~UnderWay(a)
    /\ Owns(u, i)
    /\ reports' = [reports EXCEPT ![a] =
                     [NoReport EXCEPT !.pc = IF SlugOf(i) = Absent THEN "answered" ELSE "counts",
                                      !.id = i,
                                      !.slug = SlugOf(i),
                                      !.since = Cardinality(scan_events)]]
    /\ UNCHANGED <<storeVars, server, today, scanVars, held>>

\* GetByID does not: 404.
AskNotFound(a, u, i) ==
    /\ server # "down"
    /\ ~UnderWay(a)
    /\ ~Owns(u, i)
    /\ reports' = [reports EXCEPT ![a] = NoReport]
    /\ UNCHANGED <<storeVars, server, today, scanVars, held>>

\* WHERE slug = s.
ScansOf(s) == {e \in scan_events : e.slug = s}

Of(rows, agent) == Cardinality({e \in rows : e.user_agent = agent})

\* count(DISTINCT ip_hash) leaves NULL out.
Visitors(rows) == Cardinality({e.ip_hash : e \in rows} \ {Absent})

ScanCounts(a) ==
    /\ reports[a].pc = "counts"
    /\ reports' = [reports EXCEPT ![a].pc = "daily",
                                  ![a].total = Cardinality(ScansOf(reports[a].slug)),
                                  ![a].unique = Visitors(ScansOf(reports[a].slug))]
    /\ UNCHANGED <<storeVars, server, today, scanVars, held>>

\* Mutation: a day counts its visitors, not its scans.
VisitorsByDay(rows) == [d \in Days |-> Visitors({e \in rows : e.scanned_at = d})]

\* GROUP BY day.
ByDay(rows) == [d \in Days |-> Cardinality({e \in rows : e.scanned_at = d})]

ScanDaily(a) ==
    /\ reports[a].pc = "daily"
    /\ reports' = [reports EXCEPT ![a].pc = "agents",
                                  ![a].daily = ByDay(ScansOf(reports[a].slug))]
    /\ UNCHANGED <<storeVars, server, today, scanVars, held>>

\* ORDER BY count(*) DESC, user_agent ASC.
Before(p, q) == p.count > q.count \/ (p.count = q.count /\ p.agent < q.agent)

\* The first TopLimit user agents; a NULL one is none.
TopAgents(rows) ==
    LET listed == {[agent |-> x, count |-> Of(rows, x)] :
                      x \in {e.user_agent : e \in rows} \ {Absent}}
    IN {p \in listed : Cardinality({q \in listed : Before(q, p)}) < TopLimit}

ScanTopUserAgents(a) ==
    /\ reports[a].pc = "agents"
    /\ reports' = [reports EXCEPT ![a].pc = "answered",
                                  ![a].agents = TopAgents(ScansOf(reports[a].slug))]
    /\ UNCHANGED <<storeVars, server, today, scanVars, held>>

\* A query fails, and the whole answer with it: 500.
QueryFails(a) ==
    /\ UnderWay(a)
    /\ reports' = [reports EXCEPT ![a] = NoReport]
    /\ UNCHANGED <<storeVars, server, today, scanVars, held>>

-----------------------------------------------------------------------------
(* The server *)

\* SIGINT or SIGTERM: Shutdown takes no more requests.
Stop ==
    /\ server = "up"
    /\ server' = "draining"
    /\ UNCHANGED <<storeVars, today, scanVars, reports, held>>

\* run returns, the pool is closed, the process is gone: scans not recorded by
\* then never are.
Exit ==
    /\ server' = "down"
    /\ visits' = [v \in Visits |-> NoVisit]
    /\ lost' = [s \in Slugs |-> lost[s] + Cardinality(Recording(s))]
    /\ reports' = [a \in Reports |-> IF UnderWay(a) THEN NoReport ELSE reports[a]]
    /\ UNCHANGED <<storeVars, today, scan_events, held, redirected>>

\* Shutdown waits for the requests under way, but not for the scans.
Drained ==
    /\ server = "draining"
    /\ \A a \in Reports : ~UnderWay(a)
    /\ Exit

\* shutdownCtx ends first, or the process dies.
Killed ==
    /\ server # "down"
    /\ Exit

\* run connects to Postgres and Redis, and serves.
Start ==
    /\ server = "down"
    /\ server' = "up"
    /\ UNCHANGED <<storeVars, today, scanVars, reports, held>>

NextDay ==
    /\ today' \in {d \in Days : d > today}
    /\ UNCHANGED <<storeVars, server, scanVars, reports, held>>

Next ==
    \/ \E u \in Users, i \in CodeIds :
          \/ \E s \in Slugs : CreateDynamic(u, i, s)
          \/ CreateStatic(u, i)
          \/ Delete(u, i)
          \/ \E a \in Reports : Ask(a, u, i) \/ AskNotFound(a, u, i)
    \/ \E v \in Visits :
          \/ \E s \in Slugs, i \in CodeIds, c \in Clients : Redirect(v, s, i, c)
          \/ RecordScan(v)
          \/ RecordScanFails(v)
    \/ \E a \in Reports :
          ScanCounts(a) \/ ScanDaily(a) \/ ScanTopUserAgents(a) \/ QueryFails(a)
    \/ Stop
    \/ Drained
    \/ Killed
    \/ Start
    \/ NextDay

Spec == Init /\ [][Next]_vars

-----------------------------------------------------------------------------
(* Properties *)

\* The scans that had been recorded when report a was asked for.
Known(a) == {e \in ScansOf(reports[a].slug) : e.id <= reports[a].since}

\* The sum of the days' counts: as many pairs of a day and one of its scans.
DaysTotal(a) == Cardinality(UNION {{d} \X (1 .. reports[a].daily[d]) : d \in Days})

\* "all-time scan analytics" (service.go): the three queries run one after the
\* other while scans come in, yet an answer leaves out none that was recorded
\* before the request, counts none that was not, never shows more visitors than
\* scans or fewer scans by day than in total, and no user agent it leaves out was
\* ahead of one it lists.
ReportAgrees ==
    \A a \in Reports :
        reports[a].pc = "answered" /\ reports[a].slug # Absent =>
            /\ Cardinality(Known(a)) <= reports[a].total
            /\ reports[a].unique <= reports[a].total
            /\ reports[a].total <= DaysTotal(a)
            /\ DaysTotal(a) <= Cardinality(ScansOf(reports[a].slug))
            /\ \A x \in {e.user_agent : e \in Known(a)}
                         \ ({Absent} \cup {p.agent : p \in reports[a].agents}) :
                  /\ Cardinality(reports[a].agents) = TopLimit
                  /\ \A p \in reports[a].agents : Of(Known(a), x) <= p.count

\* A code that is there is never shown a scan of another one that is there too,
\* however late the scan was recorded and wherever its visitor was sent from: only
\* a slug drawn a second time brings along the scans of a code that is gone.
OwnScans ==
    \A i, j \in CodeIds :
        codes[i] # Absent /\ codes[j] # Absent /\ i # j =>
            \A e \in ScansOf(SlugOf(i)) : e.code # j

\* Every redirect is one scan: recorded, still being recorded, or lost to a failed
\* insert, its timeout, or the end of the process; and none is recorded twice.
ScansAccountedFor ==
    \A s \in Slugs :
        redirected[s] = Cardinality(ScansOf(s)) + Cardinality(Recording(s)) + lost[s]
=============================================================================
