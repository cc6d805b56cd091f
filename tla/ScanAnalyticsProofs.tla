-------------------------- MODULE ScanAnalyticsProofs --------------------------
(***************************************************************************)
(* Proofs about ScanAnalytics, for any users, codes, slugs, visitors and   *)
(* days, any number of scans and any finite set of goroutines.             *)
(***************************************************************************)
EXTENDS ScanAnalytics, FiniteSetTheorems, FunctionTheorems, TLAPS

-----------------------------------------------------------------------------
(* Why it holds: the inductive invariant *)

\* A code that is there keeps the one slug it was given, and no two have one slug.
SlugsHold ==
    /\ \A i \in CodeIds :
          /\ codes[i] # Absent => i \in minted
          /\ dynamic_codes[i] # Absent => codes[i] # Absent
    /\ \A s \in Slugs, i \in CodeIds :
          i \in held[s] => i \in minted /\ (codes[i] # Absent => i \in Holders(s))
    /\ \A s \in Slugs : \A i, j \in Holders(s) : i = j

\* A scan, recorded or not yet, is of a code that has had its slug.
RowsHold ==
    /\ IsFiniteSet(scan_events)
    /\ \A e \in scan_events :
          e.id <= Cardinality(scan_events) /\ e.code \in held[e.slug]
    /\ \A v \in Visits : visits[v].pc = "record" => visits[v].code \in held[visits[v].slug]

\* What report r shows is what its queries, so far, have read.
Shows(r, counted, daily, listed) ==
    /\ r.pc # "counts" => r.total = Cardinality(counted) /\ r.unique = Visitors(counted)
    /\ r.pc \in {"agents", "answered"} => r.daily = ByDay(daily)
    /\ r.pc = "answered" => r.agents = TopAgents(listed)

\* The three queries of a report read ever larger sets of the slug's scans, the first
\* of them no smaller than what was recorded when the report was asked for.
ReportHolds(a) ==
    reports[a].slug # Absent =>
        /\ reports[a].since <= Cardinality(scan_events)
        /\ \E listed \in SUBSET ScansOf(reports[a].slug) :
              \E daily \in SUBSET listed : \E counted \in SUBSET daily :
                 Known(a) \subseteq counted /\ Shows(reports[a], counted, daily, listed)

ReportsHold == \A a \in Reports : ReportHolds(a)

Inv ==
    /\ TypeOK
    /\ SlugsHold
    /\ RowsHold
    /\ ScansAccountedFor
    /\ ReportsHold

-----------------------------------------------------------------------------
(* Counting *)

\* A count of some of the rows is a number.
LEMMA SomeRows ==
    ASSUME IsFiniteSet(scan_events), NEW rows \in SUBSET scan_events
    PROVE  IsFiniteSet(rows) /\ Cardinality(rows) \in Nat
  BY FS_Subset, FS_CardinalityType

\* Goroutines can be counted.
LEMMA SomeVisits ==
    ASSUME NEW some \in SUBSET Visits
    PROVE  IsFiniteSet(some) /\ Cardinality(some) \in Nat
  BY AnalyticsAssumption, FS_Subset, FS_CardinalityType

\* Visitors can be counted, and are no more than their scans.
LEMMA SomeVisitors ==
    ASSUME IsFiniteSet(scan_events), NEW rows \in SUBSET scan_events
    PROVE  Visitors(rows) \in Nat /\ Visitors(rows) <= Cardinality(rows)
<1> DEFINE hash == [e \in rows |-> e.ip_hash]
           seen == {e.ip_hash : e \in rows}
<1>1. IsFiniteSet(rows) /\ Cardinality(rows) \in Nat
  BY SomeRows
<1>2. hash \in Surjection(rows, seen)
  BY DEF Surjection
<1>3. IsFiniteSet(seen) /\ Cardinality(seen) <= Cardinality(rows)
  <2> HIDE DEF hash, seen
  <2> QED
    BY <1>1, <1>2, FS_Surjection
<1>4. PICK all : all = seen
  OBVIOUS
<1>5. IsFiniteSet(all \ {Absent}) /\ Cardinality(all \ {Absent}) <= Cardinality(all)
  BY <1>3, <1>4, FS_Subset
<1>6. Cardinality(all) \in Nat /\ Cardinality(all \ {Absent}) \in Nat
  BY <1>3, <1>4, <1>5, FS_CardinalityType
<1>7. Visitors(rows) = Cardinality(all \ {Absent})
  BY <1>4 DEF Visitors
<1> QED
  BY <1>1, <1>3, <1>4, <1>5, <1>6, <1>7

\* The sum of the counts by day is the count: each row is of one day.
LEMMA DaysAddUp ==
    ASSUME IsFiniteSet(scan_events), NEW rows \in SUBSET scan_events,
           \A e \in rows : e.scanned_at \in Days
    PROVE  Cardinality(UNION {{d} \X (1 .. ByDay(rows)[d]) : d \in Days}) = Cardinality(rows)
<1> DEFINE RowsOf(d) == {e \in rows : e.scanned_at = d}
           pairs == UNION {{d} \X (1 .. ByDay(rows)[d]) : d \in Days}
           Place(d) == CHOOSE f : f \in Bijection(RowsOf(d), 1 .. ByDay(rows)[d])
           pair == [e \in rows |-> <<e.scanned_at, Place(e.scanned_at)[e]>>]
<1>1. IsFiniteSet(rows)
  BY SomeRows
<1>2. ASSUME NEW d \in Days
      PROVE  Place(d) \in Bijection(RowsOf(d), 1 .. ByDay(rows)[d])
  <2>1. RowsOf(d) \in SUBSET scan_events /\ ByDay(rows)[d] = Cardinality(RowsOf(d))
    BY DEF ByDay
  <2>2. IsFiniteSet(RowsOf(d))
    BY <2>1, SomeRows
  <2>3. PICK day : day = RowsOf(d)
    OBVIOUS
  <2>4. ExistsBijection(1 .. Cardinality(day), day)
    BY <2>2, <2>3, FS_CardinalityType
  <2>5. ExistsBijection(day, 1 .. Cardinality(day))
    BY <2>4, Fun_ExistsBijSymmetric
  <2>6. \E f : f \in Bijection(RowsOf(d), 1 .. ByDay(rows)[d])
    BY <2>1, <2>3, <2>5 DEF ExistsBijection
  <2> HIDE DEF RowsOf
  <2> QED
    BY <2>6
<1>3. \A e \in rows : e \in RowsOf(e.scanned_at) /\ e.scanned_at \in Days
  OBVIOUS
<1>4. \A d \in Days : /\ Place(d) \in [RowsOf(d) -> 1 .. ByDay(rows)[d]]
                      /\ \A e, f \in RowsOf(d) : Place(d)[e] = Place(d)[f] => e = f
                      /\ \A n \in 1 .. ByDay(rows)[d] : \E e \in RowsOf(d) : Place(d)[e] = n
  <2> SUFFICES ASSUME NEW d \in Days
               PROVE  /\ Place(d) \in [RowsOf(d) -> 1 .. ByDay(rows)[d]]
                      /\ \A e, f \in RowsOf(d) : Place(d)[e] = Place(d)[f] => e = f
                      /\ \A n \in 1 .. ByDay(rows)[d] : \E e \in RowsOf(d) : Place(d)[e] = n
    OBVIOUS
  <2>1. Place(d) \in Bijection(RowsOf(d), 1 .. ByDay(rows)[d])
    BY <1>2
  <2> HIDE DEF Place, RowsOf
  <2> QED
    BY <2>1 DEF Bijection, Injection, Surjection, IsInjective
<1>5. pair \in Bijection(rows, pairs)
  <2>1. \A e \in rows : pair[e] \in pairs
    <3> SUFFICES ASSUME NEW e \in rows
                 PROVE  pair[e] \in pairs
      OBVIOUS
    <3>1. Place(e.scanned_at)[e] \in 1 .. ByDay(rows)[e.scanned_at]
      <4> HIDE DEF Place, RowsOf
      <4> QED
        BY <1>3, <1>4
    <3>2. pair[e] \in {e.scanned_at} \X (1 .. ByDay(rows)[e.scanned_at])
      <4> HIDE DEF Place
      <4> QED
        BY <3>1
    <3> HIDE DEF pair
    <3> QED
      BY <1>3, <3>2
  <2>2. \A e, f \in rows : pair[e] = pair[f] => e = f
    <3> SUFFICES ASSUME NEW e \in rows, NEW f \in rows, pair[e] = pair[f]
                 PROVE  e = f
      OBVIOUS
    <3>1. e.scanned_at = f.scanned_at /\ Place(e.scanned_at)[e] = Place(f.scanned_at)[f]
      <4> HIDE DEF Place
      <4> QED
        OBVIOUS
    <3>2. f \in RowsOf(e.scanned_at) /\ e \in RowsOf(e.scanned_at)
      BY <3>1
    <3> HIDE DEF Place, RowsOf, pair
    <3> QED
      BY <1>3, <1>4, <3>1, <3>2
  <2>3. \A p \in pairs : \E e \in rows : pair[e] = p
    <3> SUFFICES ASSUME NEW d \in Days, NEW p \in {d} \X (1 .. ByDay(rows)[d])
                 PROVE  \E e \in rows : pair[e] = p
      <4> HIDE DEF pair
      <4> QED
        OBVIOUS
    <3>1. PICK n \in 1 .. ByDay(rows)[d] : p = <<d, n>>
      OBVIOUS
    <3>2. PICK e \in RowsOf(d) : Place(d)[e] = n
      <4> HIDE DEF Place, RowsOf, pair
      <4> QED
        BY <1>4
    <3>3. e \in rows /\ e.scanned_at = d
      OBVIOUS
    <3>4. pair[e] = <<d, n>>
      <4> HIDE DEF Place, RowsOf
      <4> QED
        BY <3>2, <3>3
    <3> QED
      BY <3>1, <3>3, <3>4
  <2>4. pair = [e \in rows |-> pair[e]]
    <3> HIDE DEF Place
    <3> QED
      OBVIOUS
  <2> HIDE DEF pair, pairs
  <2> QED
    BY <2>1, <2>2, <2>3, <2>4 DEF Bijection, Injection, Surjection, IsInjective
<1> HIDE DEF pair, pairs
<1>6. Cardinality(pairs) = Cardinality(rows)
  BY <1>1, <1>5, FS_Bijection DEF ExistsBijection
<1> QED
  BY <1>6 DEF pairs

\* The places in the order of the user agents run from 0 without a gap, so that one
\* beyond the first TopLimit leaves TopLimit before it.
LEMMA TopIsFull ==
    ASSUME NEW listed, IsFiniteSet(listed), listed \subseteq UserAgentCount,
           \A p, q \in listed : p.agent = q.agent => p = q,
           NEW last \in listed, Cardinality({q \in listed : Before(q, last)}) >= TopLimit
    PROVE  Cardinality({p \in listed : Cardinality({q \in listed : Before(q, p)}) < TopLimit})
               = TopLimit
<1> DEFINE Ahead(p) == {q \in listed : Before(q, p)}
           rank == [p \in listed |-> Cardinality(Ahead(p))]
           top == {p \in listed : rank[p] < TopLimit}
           n == Cardinality(listed)
<1>1. n \in Nat /\ TopLimit \in Nat
  BY FS_CardinalityType, AnalyticsAssumption
<1>2. \A p \in listed : IsFiniteSet(Ahead(p)) /\ Cardinality(Ahead(p)) \in Nat
  <2> SUFFICES ASSUME NEW p \in listed
               PROVE  IsFiniteSet(Ahead(p)) /\ Cardinality(Ahead(p)) \in Nat
    OBVIOUS
  <2>1. Ahead(p) \in SUBSET listed
    OBVIOUS
  <2> HIDE DEF Ahead
  <2> QED
    BY <2>1, FS_Subset, FS_CardinalityType
<1>3. \A p, q \in listed : Before(p, q) => rank[p] < rank[q]
  <2> SUFFICES ASSUME NEW p \in listed, NEW q \in listed, Before(p, q)
               PROVE  rank[p] < rank[q]
    OBVIOUS
  <2>1. /\ p.count \in Nat /\ p.agent \in Nat /\ q.count \in Nat /\ q.agent \in Nat
        /\ \A r \in listed : r.count \in Nat /\ r.agent \in Nat
    BY DEF UserAgentCount
  <2>2. Ahead(p) \in SUBSET Ahead(q)
    BY <2>1 DEF Before
  <2>3. p \in Ahead(q) /\ p \notin Ahead(p)
    BY <2>1 DEF Before
  <2>4. PICK behind, ahead : behind = Ahead(q) /\ ahead = Ahead(p)
    OBVIOUS
  <2>5. Cardinality(ahead) <= Cardinality(behind) /\ Cardinality(ahead) # Cardinality(behind)
    BY <1>2, <2>2, <2>3, <2>4, FS_Subset
  <2>6. rank[p] = Cardinality(ahead) /\ rank[q] = Cardinality(behind)
    BY <2>4
  <2> HIDE DEF Ahead, rank
  <2> QED
    BY <1>2, <2>4, <2>5, <2>6
<1>4. \A p, q \in listed : p # q => Before(p, q) \/ Before(q, p)
  BY DEF Before, UserAgentCount
<1>5. \A p \in listed : rank[p] \in 0 .. (n - 1)
  <2> SUFFICES ASSUME NEW p \in listed
               PROVE  rank[p] \in 0 .. (n - 1)
    OBVIOUS
  <2>1. Ahead(p) \in SUBSET listed /\ p \notin Ahead(p)
    BY DEF Before, UserAgentCount
  <2>2. PICK ahead : ahead = Ahead(p)
    OBVIOUS
  <2>3. Cardinality(ahead) <= n /\ Cardinality(ahead) # n
    BY <2>1, <2>2, FS_Subset
  <2>4. rank[p] = Cardinality(ahead) /\ Cardinality(ahead) \in Nat
    BY <1>2, <2>2
  <2> HIDE DEF rank, n
  <2> QED
    BY <1>1, <2>3, <2>4
<1>6. rank \in Injection(listed, 0 .. (n - 1))
  <2>1. \A p, q \in listed : rank[p] = rank[q] => p = q
    <3> HIDE DEF rank, n
    <3> QED
      BY <1>1, <1>3, <1>4, <1>5
  <2>2. rank = [p \in listed |-> rank[p]]
    OBVIOUS
  <2> HIDE DEF rank, n
  <2> QED
    BY <1>5, <2>1, <2>2 DEF Injection, IsInjective
<1>7. IsFiniteSet(0 .. (n - 1)) /\ Cardinality(0 .. (n - 1)) = n
  <2> HIDE DEF n
  <2> QED
    BY <1>1, FS_Interval
<1>8. \A k \in 0 .. (n - 1) : \E p \in listed : rank[p] = k
  <2>1. Cardinality(listed) = Cardinality(0 .. (n - 1))
    BY <1>7
  <2> HIDE DEF rank, n
  <2>2. rank \in Surjection(listed, 0 .. (n - 1))
    BY <1>6, <1>7, <2>1, FS_Injection
  <2> QED
    BY <2>2 DEF Surjection
<1>9. TopLimit <= rank[last] /\ rank[last] < n
  <2>1. TopLimit <= rank[last]
    BY <1>1, <1>2
  <2> HIDE DEF rank, n
  <2> QED
    BY <1>1, <1>5, <2>1
<1> DEFINE place == [p \in top |-> rank[p]]
<1>10. place \in Bijection(top, 0 .. (TopLimit - 1))
  <2>1. \A p \in top : place[p] \in 0 .. (TopLimit - 1) /\ place[p] = rank[p] /\ p \in listed
    <3> HIDE DEF rank, n
    <3> QED
      BY <1>1, <1>5
  <2>2. \A k \in 0 .. (TopLimit - 1) : \E p \in top : place[p] = k
    <3> SUFFICES ASSUME NEW k \in 0 .. (TopLimit - 1)
                 PROVE  \E p \in top : place[p] = k
      OBVIOUS
    <3>1. k \in 0 .. (n - 1)
      <4> HIDE DEF rank, n
      <4> QED
        BY <1>1, <1>5, <1>9
    <3>2. PICK p \in listed : rank[p] = k
      <4> HIDE DEF rank, n
      <4> QED
        BY <1>8, <3>1
    <3> HIDE DEF rank, n
    <3> QED
      BY <1>1, <3>2
  <2>3. \A p, q \in top : place[p] = place[q] => p = q
    <3> HIDE DEF rank, n
    <3> QED
      BY <1>6, <2>1 DEF Injection, IsInjective
  <2>4. place = [p \in top |-> place[p]]
    OBVIOUS
  <2> HIDE DEF place, top, rank
  <2> QED
    BY <2>1, <2>2, <2>3, <2>4 DEF Bijection, Injection, Surjection, IsInjective
<1>11. IsFiniteSet(top) /\ IsFiniteSet(0 .. (TopLimit - 1))
       /\ Cardinality(0 .. (TopLimit - 1)) = TopLimit
  <2>1. top \in SUBSET listed
    OBVIOUS
  <2>2. IsFiniteSet(top)
    <3> HIDE DEF top
    <3> QED
      BY <2>1, FS_Subset
  <2>3. TopLimit - 1 \in Int /\ (0 > TopLimit - 1 => TopLimit = 0)
    BY <1>1
  <2>4. IsFiniteSet(0 .. (TopLimit - 1)) /\ Cardinality(0 .. (TopLimit - 1)) =
            IF 0 > TopLimit - 1 THEN 0 ELSE TopLimit - 1 - 0 + 1
    BY <2>3, FS_Interval
  <2> QED
    BY <1>1, <2>2, <2>3, <2>4
<1>12. Cardinality(top) = TopLimit
  <2> HIDE DEF top, place
  <2> QED
    BY <1>10, <1>11, FS_Bijection DEF ExistsBijection
<1> QED
  BY <1>12

\* A user agent some of whose scans a report had to know and which it leaves out: the
\* list is full, of agents with at least as many scans.
LEMMA LeftOut ==
    ASSUME IsFiniteSet(scan_events), scan_events \subseteq ScanEvent,
           NEW rows \in SUBSET scan_events, NEW known \in SUBSET rows,
           NEW x \in {e.user_agent : e \in known}
                        \ ({Absent} \cup {p.agent : p \in TopAgents(rows)})
    PROVE  /\ Cardinality(TopAgents(rows)) = TopLimit
           /\ \A p \in TopAgents(rows) : Of(known, x) <= p.count
<1> DEFINE agents == {e.user_agent : e \in rows} \ {Absent}
           listed == {[agent |-> y, count |-> Of(rows, y)] : y \in agents}
           last == [agent |-> x, count |-> Of(rows, x)]
           Ahead(p) == {q \in listed : Before(q, p)}
<1>1. \A y : Of(rows, y) \in Nat /\ Of(known, y) \in Nat /\ Of(known, y) <= Of(rows, y)
  <2> SUFFICES ASSUME NEW y
               PROVE  Of(rows, y) \in Nat /\ Of(known, y) \in Nat /\ Of(known, y) <= Of(rows, y)
    OBVIOUS
  <2>1. {e \in rows : e.user_agent = y} \in SUBSET scan_events
        /\ {e \in known : e.user_agent = y} \in SUBSET {e \in rows : e.user_agent = y}
    OBVIOUS
  <2>2. PICK all, some : /\ all = {e \in rows : e.user_agent = y}
                         /\ some = {e \in known : e.user_agent = y}
    OBVIOUS
  <2>3. IsFiniteSet(all) /\ IsFiniteSet(some) /\ Cardinality(some) <= Cardinality(all)
    BY <2>1, <2>2, FS_Subset
  <2> QED
    BY <2>2, <2>3, FS_CardinalityType DEF Of
<1>2. agents \subseteq Nat /\ x \in agents
  BY DEF ScanEvent
<1>3. listed \subseteq UserAgentCount /\ last \in listed
      /\ \A p, q \in listed : p.agent = q.agent => p = q
  <2> HIDE DEF agents
  <2> QED
    BY <1>1, <1>2 DEF UserAgentCount
<1>4. IsFiniteSet(listed)
  <2> DEFINE count == [y \in agents |-> [agent |-> y, count |-> Of(rows, y)]]
             column == [e \in rows |-> e.user_agent]
             seen == {e.user_agent : e \in rows}
  <2>1. column \in Surjection(rows, seen)
    BY DEF Surjection
  <2>2. IsFiniteSet(rows)
    BY SomeRows
  <2>3. IsFiniteSet(seen)
    <3> HIDE DEF column, seen
    <3> QED
      BY <2>1, <2>2, FS_Surjection
  <2>4. IsFiniteSet(agents)
    <3> HIDE DEF seen
    <3> QED
      BY <2>3, FS_RemoveElement DEF seen
  <2>5. count \in Surjection(agents, listed)
    <3> HIDE DEF agents
    <3> QED
      BY DEF Surjection
  <2> HIDE DEF agents, count, listed
  <2> QED
    BY <2>4, <2>5, FS_Surjection
<1>5. TopAgents(rows) = {p \in listed : Cardinality(Ahead(p)) < TopLimit}
  BY DEF TopAgents
<1>6. \A p \in listed : IsFiniteSet(Ahead(p)) /\ Cardinality(Ahead(p)) \in Nat
  <2> SUFFICES ASSUME NEW p \in listed
               PROVE  IsFiniteSet(Ahead(p)) /\ Cardinality(Ahead(p)) \in Nat
    OBVIOUS
  <2>1. Ahead(p) \in SUBSET listed
    OBVIOUS
  <2> HIDE DEF Ahead, listed
  <2> QED
    BY <1>4, <2>1, FS_Subset, FS_CardinalityType
<1>7. last \notin TopAgents(rows)
  <2>1. last.agent = x
    OBVIOUS
  <2> HIDE DEF last
  <2> QED
    BY <2>1
<1>8. TopLimit \in Nat /\ Cardinality(Ahead(last)) >= TopLimit
  <2> HIDE DEF Ahead, last, listed
  <2> QED
    BY <1>3, <1>5, <1>6, <1>7, AnalyticsAssumption
<1>9. Cardinality(TopAgents(rows)) = TopLimit
  <2> HIDE DEF last, listed
  <2> QED
    BY <1>3, <1>4, <1>5, <1>8, TopIsFull
<1>10. ASSUME NEW p \in TopAgents(rows)
       PROVE  Of(known, x) <= p.count
  <2>1. p \in listed /\ Cardinality(Ahead(p)) < TopLimit
    <3> HIDE DEF Ahead, listed
    <3> QED
      BY <1>5, <1>10
  <2>2. CASE Before(last, p)
    <3>1. Ahead(last) \in SUBSET Ahead(p)
      <4>1. \A q \in listed : /\ q.count \in Nat /\ q.agent \in Nat
                              /\ last.count \in Nat /\ last.agent \in Nat
                              /\ p.count \in Nat /\ p.agent \in Nat
        <5> HIDE DEF listed, last
        <5> QED
          BY <1>3, <2>1 DEF UserAgentCount
      <4> HIDE DEF listed, last
      <4> QED
        BY <2>2, <4>1 DEF Before
    <3>2. Cardinality(Ahead(last)) <= Cardinality(Ahead(p))
      <4> HIDE DEF Ahead, listed, last
      <4> QED
        BY <1>6, <2>1, <3>1, FS_Subset
    <3> HIDE DEF Ahead, listed, last
    <3> QED
      BY <1>3, <1>6, <1>8, <2>1, <3>2
  <2>3. CASE ~ Before(last, p)
    <3>1. last.count = Of(rows, x) /\ p.count \in Nat
      <4>1. p \in UserAgentCount
        <5> HIDE DEF listed
        <5> QED
          BY <1>3, <2>1
      <4> QED
        BY <4>1 DEF UserAgentCount
    <3>2. Of(rows, x) <= p.count
      <4> HIDE DEF last
      <4> QED
        BY <1>1, <2>3, <3>1 DEF Before
    <3> QED
      BY <1>1, <3>1, <3>2
  <2> QED
    BY <2>2, <2>3
<1> QED
  BY <1>9, <1>10

-----------------------------------------------------------------------------
(* Reports *)

\* Rows are only added, and a row recorded later is not one a report had to know: the
\* reports a step does not touch still hold.
LEMMA ReportStays ==
    ASSUME Inv, RowsHold', scan_events \subseteq scan_events',
           \A e \in scan_events' \ scan_events : e.id \in Nat /\ e.id > Cardinality(scan_events),
           NEW a \in Reports, reports'[a] = reports[a]
    PROVE  ReportHolds(a)'
<1> SUFFICES ASSUME reports[a].slug # Absent
             PROVE  /\ reports[a].since <= Cardinality(scan_events')
                    /\ \E listed \in SUBSET ScansOf(reports[a].slug)' :
                          \E daily \in SUBSET listed : \E counted \in SUBSET daily :
                             /\ Known(a)' \subseteq counted
                             /\ Shows(reports[a], counted, daily, listed)
  BY DEF ReportHolds, ScansOf, Known
<1>1. /\ reports[a].since \in Nat /\ reports[a].since <= Cardinality(scan_events)
      /\ \E listed \in SUBSET ScansOf(reports[a].slug) :
            \E daily \in SUBSET listed : \E counted \in SUBSET daily :
               Known(a) \subseteq counted /\ Shows(reports[a], counted, daily, listed)
  BY DEF Inv, ReportsHold, ReportHolds, TypeOK, Report
<1>2. Cardinality(scan_events) \in Nat /\ Cardinality(scan_events') \in Nat
      /\ Cardinality(scan_events) <= Cardinality(scan_events')
  BY FS_Subset, FS_CardinalityType DEF Inv, RowsHold
<1>3. ScansOf(reports[a].slug) \subseteq ScansOf(reports[a].slug)'
  BY DEF ScansOf
<1>4. Known(a)' = Known(a)
  <2>1. \A e \in scan_events' \ scan_events : ~ e.id <= reports[a].since
    BY <1>1, <1>2
  <2> QED
    BY <2>1 DEF Known, ScansOf
<1> QED
  BY <1>1, <1>2, <1>3, <1>4

\* As above, for all the reports when none is being answered.
LEMMA ReportsStay ==
    ASSUME Inv, RowsHold', scan_events \subseteq scan_events',
           \A e \in scan_events' \ scan_events : e.id \in Nat /\ e.id > Cardinality(scan_events),
           \A a \in Reports : reports'[a] = reports[a] \/ reports'[a].slug = Absent
    PROVE  ReportsHold'
<1>1. \A a \in Reports : reports'[a].slug = Absent => ReportHolds(a)'
  BY DEF ReportHolds
<1> QED
  BY <1>1, ReportStays DEF ReportsHold

-----------------------------------------------------------------------------
(* Owners *)

storeHolds == <<visits, scan_events, reports, redirected, lost, server, today>>

\* What a statement on the codes leaves to be shown.
LEMMA OwnersSuffice ==
    ASSUME Inv, UNCHANGED storeHolds,
           StoreTypeOK', held' \in [Slugs -> SUBSET CodeIds], SlugsHold',
           \A s \in Slugs : held[s] \subseteq held'[s]
    PROVE  Inv'
<1>1. TypeOK'
  BY DEF Inv, TypeOK, storeHolds
<1>2. RowsHold'
  <2>1. \A e \in scan_events : e.slug \in Slugs
    BY DEF Inv, TypeOK, ScanEvent
  <2>2. \A v \in Visits : visits[v].pc = "record" => visits[v].slug \in Slugs
    BY DEF Inv, TypeOK, Visit
  <2> QED
    BY <2>1, <2>2 DEF Inv, RowsHold, storeHolds
<1>3. ScansAccountedFor'
  BY DEF Inv, ScansAccountedFor, ScansOf, Recording, storeHolds
<1>4. ReportsHold'
  BY <1>2, ReportsStay DEF storeHolds
<1> QED
  BY <1>1, <1>2, <1>3, <1>4 DEF Inv

\* A free slug goes to a new code.
LEMMA CreateDynamicInv ==
    ASSUME Inv, NEW u \in Users, NEW i \in CodeIds, NEW s \in Slugs, CreateDynamic(u, i, s)
    PROVE  Inv'
<1> PICK d \in Dests, l \in Labels : InsertDynamicCode(i, u, l, s, d)
  BY DEF CreateDynamic
<1> DEFINE row == [user |-> u, is_dynamic |-> TRUE, label |-> l]
           target == [slug |-> s, destination |-> d]
<1>1. row \in Code /\ target \in DynamicCode /\ row # Absent /\ target # Absent
  <2>1. row \in Code /\ target \in DynamicCode
    BY DEF Code, DynamicCode
  <2> HIDE DEF row, target
  <2> QED
    BY <2>1, AbsentIsNil
<1>2. StoreTypeOK'
  BY <1>1 DEF Inv, TypeOK, StoreTypeOK, InsertDynamicCode
<1>3. /\ codes' = [codes EXCEPT ![i] = row]
      /\ dynamic_codes' = [dynamic_codes EXCEPT ![i] = target]
      /\ minted' = minted \cup {i}
      /\ held' = [held EXCEPT ![s] = @ \cup {i}]
      /\ i \notin minted
  BY DEF CreateDynamic, InsertDynamicCode
<1>4. /\ codes \in [CodeIds -> Code \cup {Absent}]
      /\ dynamic_codes \in [CodeIds -> DynamicCode \cup {Absent}]
      /\ held \in [Slugs -> SUBSET CodeIds]
  BY DEF Inv, TypeOK, StoreTypeOK
<1>5. held' \in [Slugs -> SUBSET CodeIds] /\ \A r \in Slugs : held[r] \subseteq held'[r]
  BY <1>3, <1>4
<1>6. \A r \in Slugs : Holders(r)' = IF r = s THEN {i} ELSE Holders(r)
  <2>1. dynamic_codes[i] = Absent
    BY <1>3 DEF Inv, SlugsHold
  <2>2. Holders(s) = {}
    BY DEF CreateDynamic, Free
  <2>3. target.slug = s
    OBVIOUS
  <2> HIDE DEF target
  <2> QED
    BY <1>1, <1>3, <1>4, <2>1, <2>2, <2>3 DEF Holders, HoldersIn
<1>7. SlugsHold'
  <2>1. ASSUME NEW j \in CodeIds
        PROVE  /\ codes'[j] # Absent => j \in minted'
               /\ dynamic_codes'[j] # Absent => codes'[j] # Absent
    BY <1>1, <1>3, <1>4 DEF Inv, SlugsHold
  <2>2. ASSUME NEW r \in Slugs, NEW j \in CodeIds, j \in held'[r]
        PROVE  j \in minted' /\ (codes'[j] # Absent => j \in Holders(r)')
    <3>1. CASE j = i
      <4>1. r = s
        BY <1>3, <1>4, <2>2, <3>1 DEF Inv, SlugsHold
      <4> QED
        BY <1>3, <1>6, <3>1, <4>1
    <3>2. CASE j # i
      <4>1. j \in held[r] /\ codes'[j] = codes[j]
        BY <1>3, <1>4, <2>2, <3>2
      <4>2. j \in minted /\ (codes[j] # Absent => j \in Holders(r))
        BY <4>1 DEF Inv, SlugsHold
      <4>3. r = s => codes[j] = Absent
        BY <4>2 DEF CreateDynamic, Free
      <4> QED
        BY <1>3, <1>6, <4>1, <4>2, <4>3
    <3> QED
      BY <3>1, <3>2
  <2>3. ASSUME NEW r \in Slugs, NEW j \in Holders(r)', NEW k \in Holders(r)'
        PROVE  j = k
    BY <1>6 DEF Inv, SlugsHold
  <2> QED
    BY <2>1, <2>2, <2>3 DEF SlugsHold
<1> QED
  BY <1>2, <1>5, <1>7, OwnersSuffice DEF CreateDynamic, storeHolds, scanVars

\* A static code has no slug.
LEMMA CreateStaticInv ==
    ASSUME Inv, NEW u \in Users, NEW i \in CodeIds, CreateStatic(u, i)
    PROVE  Inv'
<1> PICK l \in Labels : InsertCode(i, u, l)
  BY DEF CreateStatic
<1> DEFINE row == [user |-> u, is_dynamic |-> FALSE, label |-> l]
<1>1. row \in Code /\ row # Absent
  <2>1. row \in Code
    BY DEF Code
  <2> HIDE DEF row
  <2> QED
    BY <2>1, AbsentIsNil
<1>2. StoreTypeOK'
  BY <1>1 DEF Inv, TypeOK, StoreTypeOK, InsertCode
<1>3. /\ codes' = [codes EXCEPT ![i] = row]
      /\ minted' = minted \cup {i}
      /\ UNCHANGED <<dynamic_codes, held>>
      /\ i \notin minted
  BY DEF CreateStatic, InsertCode
<1>4. SlugsHold'
  <2>1. \A s \in Slugs : Holders(s)' = Holders(s)
    BY <1>3 DEF Holders, HoldersIn
  <2>2. \A s \in Slugs : i \notin held[s]
    BY <1>3 DEF Inv, SlugsHold
  <2>3. codes \in [CodeIds -> Code \cup {Absent}]
    BY DEF Inv, TypeOK, StoreTypeOK
  <2> HIDE DEF row
  <2> QED
    BY <1>1, <1>3, <2>1, <2>2, <2>3 DEF Inv, SlugsHold
<1> QED
  BY <1>2, <1>3, <1>4, OwnersSuffice DEF CreateStatic, storeHolds, scanVars, Inv, TypeOK

\* A deleted code gives its slug up.
LEMMA DeleteInv ==
    ASSUME Inv, NEW u \in Users, NEW i \in CodeIds, Delete(u, i)
    PROVE  Inv'
<1>1. /\ codes' = [codes EXCEPT ![i] = Absent]
      /\ dynamic_codes' = [dynamic_codes EXCEPT ![i] = Absent]
      /\ UNCHANGED <<minted, held>>
  BY DEF Delete, DeleteCode
<1>2. /\ codes \in [CodeIds -> Code \cup {Absent}]
      /\ dynamic_codes \in [CodeIds -> DynamicCode \cup {Absent}]
  BY DEF Inv, TypeOK, StoreTypeOK
<1>3. StoreTypeOK'
  BY <1>1 DEF Inv, TypeOK, StoreTypeOK
<1>4. \A s \in Slugs : Holders(s)' = Holders(s) \ {i}
  BY <1>1, <1>2 DEF Holders, HoldersIn
<1>5. SlugsHold'
  BY <1>1, <1>2, <1>4 DEF Inv, SlugsHold
<1> QED
  BY <1>1, <1>3, <1>5, OwnersSuffice DEF Delete, storeHolds, scanVars, Inv, TypeOK

-----------------------------------------------------------------------------
(* Visitors *)

\* What the steps of a goroutine leave alone.
visitsHold == <<storeVars, server, today, reports, held>>

\* The slugs agree as long as the tables do.
LEMMA SlugsStay ==
    ASSUME SlugsHold, UNCHANGED <<storeVars, held>>
    PROVE  SlugsHold'
  BY DEF SlugsHold, Holders, HoldersIn, storeVars

\* What a visit that carries a scan carries.
LEMMA Carried ==
    ASSUME Inv, NEW v \in Visits, visits[v].pc = "record"
    PROVE  /\ visits[v].slug \in Slugs
           /\ visits[v].code \in held[visits[v].slug]
           /\ visits[v].code \in CodeIds
           /\ visits[v].client \in Clients
  BY DEF Inv, TypeOK, Visit, RowsHold

\* A goroutine without a scan counts for no slug.
LEMMA FinishedCounts ==
    ASSUME Inv, NEW v \in Visits, visits[v].pc = "record", Finish(v)
    PROVE  /\ visits' \in [Visits -> Visit]
           /\ \A s \in Slugs : Recording(s)' =
                 IF s = visits[v].slug THEN Recording(s) \ {v} ELSE Recording(s)
           /\ \A w \in Visits : visits'[w].pc = "record" => visits'[w] = visits[w]
<1>1. visits \in [Visits -> Visit]
  BY DEF Inv, TypeOK
<1>2. visits' = [visits EXCEPT ![v] = NoVisit] /\ NoVisit.pc # "record"
  BY DEF Finish, NoVisit
<1>3. NoVisit \in Visit
  BY DEF NoVisit, Visit
<1>4. \A w \in Visits : visits'[w] = IF w = v THEN NoVisit ELSE visits[w]
  BY <1>1, <1>2
<1>5. \A w \in Visits : visits'[w].pc = "record" => visits'[w] = visits[w]
  BY <1>2, <1>4
<1>6. ASSUME NEW s \in Slugs
      PROVE  Recording(s)' = IF s = visits[v].slug THEN Recording(s) \ {v} ELSE Recording(s)
  <2> HIDE DEF NoVisit
  <2> QED
    BY <1>2, <1>4 DEF Recording
<1> QED
  BY <1>1, <1>2, <1>3, <1>5, <1>6

\* A scan fewer to record.
LEMMA OneFewer ==
    ASSUME Inv, NEW v \in Visits, visits[v].pc = "record", Finish(v)
    PROVE  \A s \in Slugs :
              /\ Cardinality(Recording(s)) \in Nat
              /\ Cardinality(Recording(s)') =
                    Cardinality(Recording(s)) - (IF s = visits[v].slug THEN 1 ELSE 0)
<1> SUFFICES ASSUME NEW s \in Slugs
             PROVE  /\ Cardinality(Recording(s)) \in Nat
                    /\ Cardinality(Recording(s)') =
                          Cardinality(Recording(s)) - (IF s = visits[v].slug THEN 1 ELSE 0)
  OBVIOUS
<1>1. Recording(s) \in SUBSET Visits
  BY DEF Recording
<1>2. IsFiniteSet(Recording(s)) /\ Cardinality(Recording(s)) \in Nat
  BY <1>1, SomeVisits
<1>3. s = visits[v].slug => v \in Recording(s)
  BY DEF Recording
<1>4. PICK now : now = Recording(s)
  OBVIOUS
<1>5. Cardinality(now \ {v}) = IF v \in now THEN Cardinality(now) - 1 ELSE Cardinality(now)
  BY <1>2, <1>4, FS_RemoveElement
<1>6. Recording(s)' = IF s = visits[v].slug THEN now \ {v} ELSE now
  BY <1>4, FinishedCounts
<1> QED
  BY <1>2, <1>3, <1>4, <1>5, <1>6

\* The 302 has its goroutine.
LEMMA RedirectInv ==
    ASSUME Inv, NEW v \in Visits, NEW s \in Slugs, NEW i \in CodeIds, NEW c \in Clients,
           Redirect(v, s, i, c)
    PROVE  Inv'
<1> DEFINE visit == [pc |-> "record", slug |-> s, code |-> i, client |-> c]
<1>1. visits \in [Visits -> Visit] /\ redirected \in [Slugs -> Nat]
  BY DEF Inv, TypeOK
<1>2. /\ visits' = [visits EXCEPT ![v] = visit]
      /\ redirected' = [redirected EXCEPT ![s] = @ + 1]
      /\ UNCHANGED <<visitsHold, scan_events, lost>>
      /\ visits[v].pc = "idle" /\ i \in held[s]
  BY DEF Redirect, visitsHold
<1>3. visit \in Visit /\ visit.pc = "record" /\ visit.slug = s /\ visit.code = i
  BY DEF Visit
<1> HIDE DEF visit
<1>4. \A w \in Visits : visits'[w] = IF w = v THEN visit ELSE visits[w]
  BY <1>1, <1>2
<1>5. TypeOK'
  BY <1>1, <1>2, <1>3 DEF Inv, TypeOK, StoreTypeOK, visitsHold, storeVars
<1>6. SlugsHold'
  BY <1>2, SlugsStay DEF Inv, visitsHold
<1>7. RowsHold'
  BY <1>2, <1>3, <1>4 DEF Inv, RowsHold, visitsHold
<1>8. ScansAccountedFor'
  <2> SUFFICES ASSUME NEW r \in Slugs
               PROVE  redirected'[r] = Cardinality(ScansOf(r)') + Cardinality(Recording(r)')
                                           + lost'[r]
    BY DEF ScansAccountedFor
  <2>1. PICK now : now = Recording(r)
    OBVIOUS
  <2>2. now \in SUBSET Visits /\ v \notin now
    BY <1>2, <2>1 DEF Recording
  <2>3. IsFiniteSet(now) /\ Cardinality(now) \in Nat
    BY <2>2, SomeVisits
  <2>4. Recording(r)' = IF r = s THEN now \cup {v} ELSE now
    BY <1>2, <1>3, <1>4, <2>1 DEF Recording
  <2>5. Cardinality(now \cup {v}) = Cardinality(now) + 1
    BY <2>2, <2>3, FS_AddElement
  <2>6. redirected[r] = Cardinality(ScansOf(r)) + Cardinality(now) + lost[r]
    BY <2>1 DEF Inv, ScansAccountedFor
  <2>7. ScansOf(r)' = ScansOf(r) /\ lost'[r] = lost[r]
    BY <1>2 DEF ScansOf
  <2>8. redirected'[r] = redirected[r] + (IF r = s THEN 1 ELSE 0) /\ redirected[r] \in Nat
    BY <1>1, <1>2
  <2>9. Cardinality(ScansOf(r)) \in Nat /\ lost[r] \in Nat
    BY SomeRows DEF ScansOf, Inv, RowsHold, TypeOK
  <2> QED
    BY <2>3, <2>4, <2>5, <2>6, <2>7, <2>8, <2>9
<1>9. ReportsHold'
  BY <1>2, <1>7, ReportsStay DEF visitsHold
<1> QED
  BY <1>5, <1>6, <1>7, <1>8, <1>9 DEF Inv

\* A row joins those of its slug, and its goroutine is done.
LEMMA RecordScanInv ==
    ASSUME Inv, NEW v \in Visits, RecordScan(v)
    PROVE  Inv'
<1>1. PICK row : row = [id         |-> Cardinality(scan_events) + 1,
                        slug       |-> visits[v].slug,
                        ip_hash    |-> NullIfZero(visits[v].client.ip),
                        user_agent |-> NullIfZero(visits[v].client.agent),
                        scanned_at |-> today,
                        code       |-> visits[v].code]
  OBVIOUS
<1>2. /\ scan_events' = scan_events \cup {row}
      /\ Finish(v) /\ visits[v].pc = "record"
      /\ UNCHANGED <<visitsHold, redirected, lost>>
  BY <1>1 DEF RecordScan, Insert, visitsHold
<1>3. IsFiniteSet(scan_events) /\ Cardinality(scan_events) \in Nat
  BY SomeRows DEF Inv, RowsHold
<1>4. row \in ScanEvent
  <2>1. NullIfZero(visits[v].client.ip) \in Nat \cup {Absent}
        /\ NullIfZero(visits[v].client.agent) \in Nat \cup {Absent}
    BY <1>2, Carried, AnalyticsAssumption DEF NullIfZero
  <2>2. today \in Days
    BY DEF Inv, TypeOK
  <2> QED
    BY <1>1, <1>2, <1>3, <2>1, <2>2, Carried DEF ScanEvent
<1>5. /\ row.id = Cardinality(scan_events) + 1
      /\ row.slug = visits[v].slug
      /\ row.code = visits[v].code
  BY <1>1
<1>6. row \notin scan_events
  BY <1>3, <1>5 DEF Inv, RowsHold
<1>7. IsFiniteSet(scan_events') /\ Cardinality(scan_events') = Cardinality(scan_events) + 1
  <2>1. PICK rows : rows = scan_events
    OBVIOUS
  <2>2. IsFiniteSet(rows \cup {row}) /\ Cardinality(rows \cup {row}) = Cardinality(rows) + 1
    BY <1>3, <1>6, <2>1, FS_AddElement
  <2> QED
    BY <1>2, <2>1, <2>2
<1>8. TypeOK'
  BY <1>2, <1>4, FinishedCounts DEF Inv, TypeOK, StoreTypeOK, visitsHold, storeVars
<1>9. SlugsHold'
  BY <1>2, SlugsStay DEF Inv, visitsHold
<1>10. RowsHold'
  <2>1. held' = held
    BY <1>2 DEF visitsHold
  <2>2. ASSUME NEW e \in scan_events'
        PROVE  e.id <= Cardinality(scan_events') /\ e.code \in held'[e.slug]
    <3>1. CASE e = row
      BY <1>2, <1>3, <1>5, <1>7, <2>1, <3>1, Carried
    <3>2. CASE e \in scan_events
      <4>1. e.id \in Nat
        BY <3>2 DEF Inv, TypeOK, ScanEvent
      <4> QED
        BY <1>3, <1>7, <2>1, <3>2, <4>1 DEF Inv, RowsHold
    <3> QED
      BY <1>2, <3>1, <3>2
  <2>3. \A w \in Visits : visits'[w].pc = "record" => visits'[w].code \in held'[visits'[w].slug]
    BY <1>2, <2>1, FinishedCounts DEF Inv, RowsHold
  <2> QED
    BY <1>7, <2>2, <2>3 DEF RowsHold
<1>11. ScansAccountedFor'
  <2> SUFFICES ASSUME NEW s \in Slugs
               PROVE  redirected'[s] = Cardinality(ScansOf(s)') + Cardinality(Recording(s)')
                                           + lost'[s]
    BY DEF ScansAccountedFor
  <2>1. PICK rows : rows = ScansOf(s)
    OBVIOUS
  <2>2. IsFiniteSet(rows) /\ Cardinality(rows) \in Nat /\ row \notin rows
    BY <1>3, <1>6, <2>1, SomeRows DEF ScansOf
  <2>3. Cardinality(rows \cup {row}) = Cardinality(rows) + 1
    BY <2>2, FS_AddElement
  <2>4. ScansOf(s)' = IF s = visits[v].slug THEN rows \cup {row} ELSE rows
    BY <1>2, <1>5, <2>1 DEF ScansOf
  <2>5. /\ Cardinality(Recording(s)) \in Nat
        /\ Cardinality(Recording(s)') =
              Cardinality(Recording(s)) - (IF s = visits[v].slug THEN 1 ELSE 0)
    BY <1>2, OneFewer
  <2>6. redirected[s] = Cardinality(rows) + Cardinality(Recording(s)) + lost[s]
    BY <2>1 DEF Inv, ScansAccountedFor
  <2>7. redirected' = redirected /\ lost' = lost /\ lost[s] \in Nat
    BY <1>2 DEF Inv, TypeOK
  <2> QED
    BY <2>2, <2>3, <2>4, <2>5, <2>6, <2>7
<1>12. ReportsHold'
  BY <1>2, <1>3, <1>5, <1>10, ReportsStay DEF visitsHold
<1> QED
  BY <1>8, <1>9, <1>10, <1>11, <1>12 DEF Inv

\* A scan moves from those to record to those that are lost.
LEMMA RecordScanFailsInv ==
    ASSUME Inv, NEW v \in Visits, RecordScanFails(v)
    PROVE  Inv'
<1>1. /\ lost' = [lost EXCEPT ![visits[v].slug] = @ + 1]
      /\ Finish(v) /\ visits[v].pc = "record"
      /\ UNCHANGED <<visitsHold, redirected, scan_events>>
  BY DEF RecordScanFails, visitsHold
<1>2. lost \in [Slugs -> Nat] /\ visits[v].slug \in Slugs
  BY <1>1, Carried DEF Inv, TypeOK
<1>3. TypeOK'
  BY <1>1, <1>2, FinishedCounts DEF Inv, TypeOK, StoreTypeOK, visitsHold, storeVars
<1>4. SlugsHold'
  BY <1>1, SlugsStay DEF Inv, visitsHold
<1>5. RowsHold'
  <2>1. held' = held
    BY <1>1 DEF visitsHold
  <2>2. \A w \in Visits : visits'[w].pc = "record" => visits'[w].code \in held'[visits'[w].slug]
    BY <1>1, <2>1, FinishedCounts DEF Inv, RowsHold
  <2> QED
    BY <1>1, <2>1, <2>2 DEF Inv, RowsHold
<1>6. ScansAccountedFor'
  <2> SUFFICES ASSUME NEW s \in Slugs
               PROVE  redirected'[s] = Cardinality(ScansOf(s)') + Cardinality(Recording(s)')
                                           + lost'[s]
    BY DEF ScansAccountedFor
  <2>1. /\ Cardinality(Recording(s)) \in Nat
        /\ Cardinality(Recording(s)') =
              Cardinality(Recording(s)) - (IF s = visits[v].slug THEN 1 ELSE 0)
    BY <1>1, OneFewer
  <2>2. redirected[s] = Cardinality(ScansOf(s)) + Cardinality(Recording(s)) + lost[s]
    BY DEF Inv, ScansAccountedFor
  <2>3. redirected' = redirected /\ ScansOf(s)' = ScansOf(s)
    BY <1>1 DEF ScansOf
  <2>4. lost'[s] = lost[s] + (IF s = visits[v].slug THEN 1 ELSE 0) /\ lost[s] \in Nat
    BY <1>1, <1>2
  <2>5. Cardinality(ScansOf(s)) \in Nat
    BY SomeRows DEF ScansOf, Inv, RowsHold
  <2> QED
    BY <2>1, <2>2, <2>3, <2>4, <2>5
<1>7. ReportsHold'
  BY <1>1, <1>5, ReportsStay DEF visitsHold
<1> QED
  BY <1>3, <1>4, <1>5, <1>6, <1>7 DEF Inv

-----------------------------------------------------------------------------
(* Analytics and the server *)

\* What an analytics request leaves alone: all but its own answer.
reportsHold == <<storeVars, server, today, scanVars, held>>

\* What the steps of a report leave to be shown: that it holds.
LEMMA ReportsSuffice ==
    ASSUME Inv, UNCHANGED reportsHold, reports' \in [Reports -> Report],
           \A a \in Reports : reports'[a] = reports[a] \/ ReportHolds(a)'
    PROVE  Inv'
<1>1. TypeOK'
  BY DEF Inv, TypeOK, StoreTypeOK, reportsHold, storeVars, scanVars
<1>2. SlugsHold'
  BY SlugsStay DEF Inv, reportsHold
<1>3. RowsHold' /\ ScansAccountedFor'
  BY DEF Inv, RowsHold, ScansAccountedFor, ScansOf, Recording, reportsHold, scanVars
<1>4. ReportsHold'
  BY <1>3, ReportStays DEF ReportsHold, reportsHold, scanVars
<1> QED
  BY <1>1, <1>2, <1>3, <1>4 DEF Inv

\* A report that is asked for, or not found, or fails, is a report.
LEMMA AskInv ==
    ASSUME Inv, NEW a \in Reports,
           \/ \E u \in Users, i \in CodeIds : Ask(a, u, i) \/ AskNotFound(a, u, i)
           \/ QueryFails(a)
    PROVE  Inv'
<1>1. reports \in [Reports -> Report] /\ IsFiniteSet(scan_events)
  BY DEF Inv, TypeOK, RowsHold
<1>2. NoReport \in Report
  BY DEF NoReport, Report
<1>3. ASSUME NEW u \in Users, NEW i \in CodeIds, Ask(a, u, i)
      PROVE  /\ reports' \in [Reports -> Report]
             /\ \A b \in Reports : reports'[b] = reports[b] \/ ReportHolds(b)'
  <2> PICK asked : asked = [NoReport EXCEPT
                              !.pc = IF SlugOf(i) = Absent THEN "answered" ELSE "counts",
                              !.id = i,
                              !.slug = SlugOf(i),
                              !.since = Cardinality(scan_events)]
    OBVIOUS
  <2>1. SlugOf(i) \in Slugs \cup {Absent}
    BY DEF SlugOf, Inv, TypeOK, StoreTypeOK, DynamicCode
  <2>2. Cardinality(scan_events) \in Nat
    BY <1>1, SomeRows
  <2>3. asked \in Report
    BY <1>2, <2>1, <2>2 DEF Report
  <2>4. /\ asked.slug = SlugOf(i) /\ asked.since = Cardinality(scan_events)
        /\ asked.slug # Absent => asked.pc = "counts"
    BY DEF NoReport
  <2>5. reports' = [reports EXCEPT ![a] = asked] /\ scan_events' = scan_events
    BY <1>3 DEF Ask, scanVars
  <2>6. reports'[a] = asked
    BY <1>1, <2>5
  <2>7. ReportHolds(a)'
    <3> SUFFICES ASSUME asked.slug # Absent
                 PROVE  /\ asked.since <= Cardinality(scan_events')
                        /\ \E listed \in SUBSET ScansOf(reports[a].slug)' :
                              \E daily \in SUBSET listed : \E counted \in SUBSET daily :
                                 /\ Known(a)' \subseteq counted
                                 /\ Shows(asked, counted, daily, listed)
      BY <2>6 DEF ReportHolds
    <3>1. PICK rows : rows = ScansOf(reports[a].slug)'
      OBVIOUS
    <3>2. Known(a)' \subseteq rows /\ rows \in SUBSET rows
      BY <3>1 DEF Known
    <3>3. Shows(asked, rows, rows, rows)
      BY <2>4 DEF Shows
    <3> QED
      BY <2>2, <2>4, <2>5, <3>1, <3>2, <3>3
  <2> QED
    BY <1>1, <2>3, <2>5, <2>7
<1>4. ASSUME reports' = [reports EXCEPT ![a] = NoReport]
      PROVE  /\ reports' \in [Reports -> Report]
             /\ \A b \in Reports : reports'[b] = reports[b] \/ ReportHolds(b)'
  BY <1>1, <1>2, <1>4 DEF ReportHolds, NoReport
<1>5. UNCHANGED reportsHold
  BY DEF Ask, AskNotFound, QueryFails, reportsHold
<1> QED
  BY <1>3, <1>4, <1>5, ReportsSuffice DEF AskNotFound, QueryFails

\* What one query of a report under way leaves to be shown: the query read all of the
\* slug's rows, and the earlier ones read some of these.
LEMMA QuerySuffices ==
    ASSUME Inv, NEW a \in Reports, UnderWay(a), NEW answer \in Report,
           answer.slug = reports[a].slug, answer.since = reports[a].since,
           reports' = [reports EXCEPT ![a] = answer], UNCHANGED reportsHold,
           LET rows == ScansOf(reports[a].slug)
           IN \A daily, counted :
                 Shows(reports[a], counted, daily, rows) =>
                    \/ Shows(answer, counted, daily, rows)
                    \/ Shows(answer, counted, rows, rows)
                    \/ Shows(answer, rows, rows, rows)
    PROVE  Inv'
<1> PICK rows : rows = ScansOf(reports[a].slug)
  OBVIOUS
<1>1. reports \in [Reports -> Report] /\ scan_events' = scan_events
  BY DEF Inv, TypeOK, reportsHold, scanVars
<1>2. reports' \in [Reports -> Report] /\ reports'[a] = answer
      /\ \A b \in Reports : b # a => reports'[b] = reports[b]
  BY <1>1
<1>3. ReportHolds(a)'
  <2> SUFFICES ASSUME reports[a].slug # Absent
               PROVE  /\ reports[a].since <= Cardinality(scan_events)
                      /\ \E daily \in SUBSET rows : \E counted \in SUBSET daily :
                            Known(a) \subseteq counted /\ Shows(answer, counted, daily, rows)
    <3>1. Known(a)' = Known(a) /\ ScansOf(reports[a].slug)' = rows
      BY <1>1, <1>2 DEF Known, ScansOf
    <3> QED
      BY <1>1, <1>2, <3>1 DEF ReportHolds
  <2>1. PICK listed \in SUBSET rows : \E daily \in SUBSET listed : \E counted \in SUBSET daily :
            Known(a) \subseteq counted /\ Shows(reports[a], counted, daily, listed)
    BY DEF Inv, ReportsHold, ReportHolds
  <2>2. PICK daily \in SUBSET listed : \E counted \in SUBSET daily :
            Known(a) \subseteq counted /\ Shows(reports[a], counted, daily, listed)
    BY <2>1
  <2>3. PICK counted \in SUBSET daily :
            Known(a) \subseteq counted /\ Shows(reports[a], counted, daily, listed)
    BY <2>2
  <2>4. Shows(reports[a], counted, daily, rows)
    BY <2>3 DEF Shows, UnderWay
  <2>5. PICK daily2 \in {daily, rows}, counted2 \in {counted, rows} :
            Shows(answer, counted2, daily2, rows) /\ counted2 \subseteq daily2
    BY <2>4
  <2>6. Known(a) \subseteq rows
    BY DEF Known
  <2>7. daily2 \in SUBSET rows /\ counted2 \in SUBSET daily2 /\ Known(a) \subseteq counted2
    BY <2>3, <2>5, <2>6
  <2> QED
    BY <2>5, <2>7 DEF Inv, ReportsHold, ReportHolds
<1> QED
  BY <1>2, <1>3, ReportsSuffice

\* The counts are numbers, and what is counted is what is there.
LEMMA QueriesInv ==
    ASSUME Inv, NEW a \in Reports, ScanCounts(a) \/ ScanDaily(a) \/ ScanTopUserAgents(a)
    PROVE  Inv'
<1>1. PICK rows : rows = ScansOf(reports[a].slug)
  OBVIOUS
<1>2. rows \in SUBSET scan_events /\ rows \subseteq ScanEvent /\ IsFiniteSet(scan_events)
  BY <1>1 DEF ScansOf, Inv, TypeOK, RowsHold
<1>3. reports[a] \in Report
  BY DEF Inv, TypeOK
<1>4. CASE ScanCounts(a)
  <2> PICK answer : answer = [reports[a] EXCEPT !.pc = "daily", !.total = Cardinality(rows),
                                                !.unique = Visitors(rows)]
    OBVIOUS
  <2>1. Cardinality(rows) \in Nat /\ Visitors(rows) \in Nat
    BY <1>2, SomeRows, SomeVisitors
  <2>2. answer \in Report /\ answer.slug = reports[a].slug /\ answer.since = reports[a].since
    BY <1>3, <2>1 DEF Report
  <2>3. \A daily, counted :
           Shows(reports[a], counted, daily, rows) =>
              \/ Shows(answer, counted, daily, rows)
              \/ Shows(answer, counted, rows, rows)
              \/ Shows(answer, rows, rows, rows)
    <3>1. Shows(answer, rows, rows, rows)
      BY <1>3 DEF Shows, Report
    <3> QED
      BY <3>1
  <2>4. reports' = [reports EXCEPT ![a] = answer] /\ UNCHANGED reportsHold /\ UnderWay(a)
    BY <1>1, <1>4 DEF ScanCounts, UnderWay, reportsHold
  <2> QED
    BY <1>1, <2>2, <2>3, <2>4, QuerySuffices
<1>5. CASE ScanDaily(a)
  <2> PICK answer : answer = [reports[a] EXCEPT !.pc = "agents", !.daily = ByDay(rows)]
    OBVIOUS
  <2>1. \A d \in Days : Cardinality({e \in rows : e.scanned_at = d}) \in Nat
    <3> SUFFICES ASSUME NEW d \in Days
                 PROVE  Cardinality({e \in rows : e.scanned_at = d}) \in Nat
      OBVIOUS
    <3>1. {e \in rows : e.scanned_at = d} \in SUBSET scan_events
      BY <1>2
    <3> QED
      BY <1>2, <3>1, SomeRows
  <2>2. ByDay(rows) \in [Days -> Nat]
    BY <2>1 DEF ByDay
  <2>3. answer \in Report /\ answer.slug = reports[a].slug /\ answer.since = reports[a].since
    BY <1>3, <2>2 DEF Report
  <2>4. reports[a].pc = "daily"
    BY <1>5 DEF ScanDaily
  <2>5. \A daily, counted :
           Shows(reports[a], counted, daily, rows) =>
              \/ Shows(answer, counted, daily, rows)
              \/ Shows(answer, counted, rows, rows)
              \/ Shows(answer, rows, rows, rows)
    <3>1. \A daily, counted : Shows(reports[a], counted, daily, rows)
                                 => Shows(answer, counted, rows, rows)
      BY <1>3, <2>4 DEF Shows, Report
    <3> QED
      BY <3>1
  <2>6. reports' = [reports EXCEPT ![a] = answer] /\ UNCHANGED reportsHold /\ UnderWay(a)
    BY <1>1, <1>5 DEF ScanDaily, UnderWay, reportsHold
  <2> QED
    BY <1>1, <2>3, <2>5, <2>6, QuerySuffices
<1>6. CASE ScanTopUserAgents(a)
  <2> PICK answer : answer = [reports[a] EXCEPT !.pc = "answered", !.agents = TopAgents(rows)]
    OBVIOUS
  <2>1. \A x : Of(rows, x) \in Nat
    <3> SUFFICES ASSUME NEW x
                 PROVE  Of(rows, x) \in Nat
      OBVIOUS
    <3>1. {e \in rows : e.user_agent = x} \in SUBSET scan_events
      BY <1>2
    <3> QED
      BY <1>2, <3>1, SomeRows DEF Of
  <2>2. \A x \in {e.user_agent : e \in rows} \ {Absent} : x \in Nat
    BY <1>2 DEF ScanEvent
  <2>3. TopAgents(rows) \subseteq UserAgentCount
    BY <2>1, <2>2 DEF TopAgents, UserAgentCount
  <2>4. answer \in Report /\ answer.slug = reports[a].slug /\ answer.since = reports[a].since
    BY <1>3, <2>3 DEF Report
  <2>5. reports[a].pc = "agents"
    BY <1>6 DEF ScanTopUserAgents
  <2>6. \A daily, counted :
           Shows(reports[a], counted, daily, rows) =>
              \/ Shows(answer, counted, daily, rows)
              \/ Shows(answer, counted, rows, rows)
              \/ Shows(answer, rows, rows, rows)
    <3>1. \A daily, counted : Shows(reports[a], counted, daily, rows)
                                 => Shows(answer, counted, daily, rows)
      BY <1>3, <2>5 DEF Shows, Report
    <3> QED
      BY <3>1
  <2>7. reports' = [reports EXCEPT ![a] = answer] /\ UNCHANGED reportsHold /\ UnderWay(a)
    BY <1>1, <1>6 DEF ScanTopUserAgents, UnderWay, reportsHold
  <2> QED
    BY <1>1, <2>4, <2>6, <2>7, QuerySuffices
<1> QED
  BY <1>4, <1>5, <1>6

\* The end of the process loses the scans that are not recorded, and no more.
LEMMA ExitInv ==
    ASSUME Inv, Exit
    PROVE  Inv'
<1>1. /\ server' = "down"
      /\ visits' = [v \in Visits |-> NoVisit]
      /\ lost' = [s \in Slugs |-> lost[s] + Cardinality(Recording(s))]
      /\ reports' = [a \in Reports |-> IF UnderWay(a) THEN NoReport ELSE reports[a]]
      /\ UNCHANGED <<storeVars, today, scan_events, held, redirected>>
  BY DEF Exit
<1>2. \A s \in Slugs : Cardinality(Recording(s)) \in Nat
  BY SomeVisits DEF Recording
<1>3. \A s \in Slugs : Recording(s)' = {}
  BY <1>1 DEF Recording, NoVisit
<1>4. TypeOK'
  <2>1. NoVisit \in Visit /\ NoReport \in Report
    BY DEF NoVisit, Visit, NoReport, Report
  <2>2. lost' \in [Slugs -> Nat]
    BY <1>1, <1>2 DEF Inv, TypeOK
  <2> QED
    BY <1>1, <2>1, <2>2 DEF Inv, TypeOK, StoreTypeOK, storeVars
<1>5. SlugsHold'
  BY <1>1, SlugsStay DEF Inv
<1>6. RowsHold'
  BY <1>1 DEF Inv, RowsHold, NoVisit
<1>7. ScansAccountedFor'
  <2> SUFFICES ASSUME NEW s \in Slugs
               PROVE  redirected'[s] = Cardinality(ScansOf(s)') + Cardinality(Recording(s)')
                                           + lost'[s]
    BY DEF ScansAccountedFor
  <2>1. redirected[s] = Cardinality(ScansOf(s)) + Cardinality(Recording(s)) + lost[s]
    BY DEF Inv, ScansAccountedFor
  <2>2. Cardinality(ScansOf(s)) \in Nat /\ lost[s] \in Nat
    BY SomeRows DEF ScansOf, Inv, RowsHold, TypeOK
  <2>3. ScansOf(s)' = ScansOf(s) /\ redirected' = redirected
        /\ lost'[s] = lost[s] + Cardinality(Recording(s))
    BY <1>1 DEF ScansOf
  <2>4. Cardinality(Recording(s)') = 0
    BY <1>3, FS_EmptySet
  <2> QED
    BY <1>2, <2>1, <2>2, <2>3, <2>4
<1>8. ReportsHold'
  <2>1. \A a \in Reports : reports'[a] = reports[a] \/ reports'[a].slug = Absent
    BY <1>1 DEF NoReport
  <2> QED
    BY <1>1, <1>6, <2>1, ReportsStay
<1> QED
  BY <1>4, <1>5, <1>6, <1>7, <1>8 DEF Inv

\* The signal, the next start and midnight touch no scan.
LEMMA ServerInv ==
    ASSUME Inv, Stop \/ Start \/ NextDay
    PROVE  Inv'
<1>1. UNCHANGED <<storeVars, scanVars, reports, held>>
  BY DEF Stop, Start, NextDay
<1>2. server' \in {"up", "draining", "down"} /\ today' \in Days
  BY DEF Stop, Start, NextDay, Inv, TypeOK
<1>3. TypeOK'
  BY <1>1, <1>2 DEF Inv, TypeOK, StoreTypeOK, storeVars, scanVars
<1>4. SlugsHold'
  BY <1>1, SlugsStay DEF Inv
<1>5. RowsHold' /\ ScansAccountedFor'
  BY <1>1 DEF Inv, RowsHold, ScansAccountedFor, ScansOf, Recording, scanVars
<1>6. ReportsHold'
  BY <1>1, <1>5, ReportsStay DEF scanVars
<1> QED
  BY <1>3, <1>4, <1>5, <1>6 DEF Inv

-----------------------------------------------------------------------------
(* The theorems *)

\* Every step keeps the invariant.
LEMMA StepInv ==
    ASSUME Inv, [Next]_vars
    PROVE  Inv'
<1>1. CASE UNCHANGED vars
  <2>1. UNCHANGED reportsHold /\ reports' = reports
    BY <1>1 DEF vars, reportsHold, scanVars, storeVars
  <2> QED
    BY <2>1, ReportsSuffice DEF Inv, TypeOK
<1>2. ASSUME NEW u \in Users, NEW i \in CodeIds,
             \/ \E s \in Slugs : CreateDynamic(u, i, s)
             \/ CreateStatic(u, i)
             \/ Delete(u, i)
             \/ \E a \in Reports : Ask(a, u, i) \/ AskNotFound(a, u, i)
      PROVE  Inv'
  BY <1>2, CreateDynamicInv, CreateStaticInv, DeleteInv, AskInv
<1>3. ASSUME NEW v \in Visits,
             \/ \E s \in Slugs, i \in CodeIds, c \in Clients : Redirect(v, s, i, c)
             \/ RecordScan(v)
             \/ RecordScanFails(v)
      PROVE  Inv'
  BY <1>3, RedirectInv, RecordScanInv, RecordScanFailsInv
<1>4. ASSUME NEW a \in Reports,
             ScanCounts(a) \/ ScanDaily(a) \/ ScanTopUserAgents(a) \/ QueryFails(a)
      PROVE  Inv'
  BY <1>4, QueriesInv, AskInv
<1>5. CASE Drained \/ Killed
  BY <1>5, ExitInv DEF Drained, Killed
<1>6. CASE Stop \/ Start \/ NextDay
  BY <1>6, ServerInv
<1> QED
  BY <1>1, <1>2, <1>3, <1>4, <1>5, <1>6 DEF Next

\* The inductive invariant of the scans and their analytics (codes/redirect.go,
\* codes/repository.go, handlers/redirect.go, cmd/api/main.go).
THEOREM AnalyticsInvariance == Spec => []Inv
<1>1. Init => Inv
  <2> SUFFICES ASSUME Init
               PROVE  Inv
    OBVIOUS
  <2>1. TypeOK
    <3>1. NoVisit \in Visit /\ NoReport \in Report
      BY DEF NoVisit, Visit, NoReport, Report
    <3> QED
      BY <3>1 DEF Init, TypeOK, StoreInit, StoreTypeOK
  <2>2. SlugsHold
    BY DEF Init, StoreInit, SlugsHold, Holders, HoldersIn
  <2>3. RowsHold
    BY FS_EmptySet DEF Init, RowsHold, NoVisit
  <2>4. ScansAccountedFor
    <3>1. \A s \in Slugs : ScansOf(s) = {} /\ Recording(s) = {}
      BY DEF Init, ScansOf, Recording, NoVisit
    <3> QED
      BY <3>1, FS_EmptySet DEF Init, ScansAccountedFor
  <2>5. ReportsHold
    BY DEF Init, ReportsHold, ReportHolds, NoReport
  <2> QED
    BY <2>1, <2>2, <2>3, <2>4, <2>5 DEF Inv
<1> QED
  BY <1>1, StepInv, PTL DEF Spec

\* Whoever stops the server when, each redirect is a scan that is recorded once,
\* still to record, or lost.
THEOREM EveryScanCounted == Spec => []ScansAccountedFor
<1>1. Inv => ScansAccountedFor
  BY DEF Inv
<1> QED
  BY <1>1, AnalyticsInvariance, PTL

\* Whatever is recorded while its queries run, a report agrees with itself and with the
\* table.
THEOREM ReportsAgree == Spec => []ReportAgrees
<1>1. Inv => ReportAgrees
  <2> SUFFICES ASSUME Inv, NEW a \in Reports, reports[a].pc = "answered",
                      reports[a].slug # Absent
               PROVE  /\ Cardinality(Known(a)) <= reports[a].total
                      /\ reports[a].unique <= reports[a].total
                      /\ reports[a].total <= DaysTotal(a)
                      /\ DaysTotal(a) <= Cardinality(ScansOf(reports[a].slug))
                      /\ \A x \in {e.user_agent : e \in Known(a)}
                                   \ ({Absent} \cup {p.agent : p \in reports[a].agents}) :
                            /\ Cardinality(reports[a].agents) = TopLimit
                            /\ \A p \in reports[a].agents : Of(Known(a), x) <= p.count
    BY DEF ReportAgrees
  <2>1. PICK rows : rows = ScansOf(reports[a].slug)
    OBVIOUS
  <2>2. PICK listed \in SUBSET rows : \E daily \in SUBSET listed : \E counted \in SUBSET daily :
            Known(a) \subseteq counted /\ Shows(reports[a], counted, daily, listed)
    BY <2>1 DEF Inv, ReportsHold, ReportHolds
  <2> PICK daily \in SUBSET listed : \E counted \in SUBSET daily :
          Known(a) \subseteq counted /\ Shows(reports[a], counted, daily, listed)
    BY <2>2
  <2>3. PICK counted \in SUBSET daily :
            Known(a) \subseteq counted /\ Shows(reports[a], counted, daily, listed)
    OBVIOUS
  <2>4. PICK known : known = Known(a)
    OBVIOUS
  <2>5. /\ rows \in SUBSET scan_events /\ listed \in SUBSET scan_events
        /\ daily \in SUBSET scan_events /\ counted \in SUBSET scan_events
        /\ known \in SUBSET scan_events /\ IsFiniteSet(scan_events)
        /\ \A e \in scan_events : e \in ScanEvent
    BY <2>1, <2>4 DEF ScansOf, Known, Inv, RowsHold, TypeOK
  <2>6. /\ reports[a].total = Cardinality(counted) /\ reports[a].unique = Visitors(counted)
        /\ reports[a].daily = ByDay(daily) /\ reports[a].agents = TopAgents(listed)
    BY <2>3 DEF Shows
  <2>7. /\ Cardinality(known) <= Cardinality(counted)
        /\ Cardinality(counted) <= Cardinality(daily)
        /\ Cardinality(daily) <= Cardinality(rows)
    <3>1. IsFiniteSet(counted) /\ IsFiniteSet(daily) /\ IsFiniteSet(rows)
      BY <2>5, SomeRows
    <3>2. known \in SUBSET counted /\ counted \in SUBSET daily /\ daily \in SUBSET rows
      BY <2>2, <2>3, <2>4
    <3> QED
      BY <3>1, <3>2, FS_Subset
  <2>8. reports[a].unique <= reports[a].total
    BY <2>5, <2>6, SomeVisitors
  <2>9. DaysTotal(a) = Cardinality(daily)
    <3>1. \A e \in daily : e.scanned_at \in Days
      BY <2>5 DEF ScanEvent
    <3> QED
      BY <2>5, <2>6, <3>1, DaysAddUp DEF DaysTotal
  <2>10. ASSUME NEW x \in {e.user_agent : e \in known}
                              \ ({Absent} \cup {p.agent : p \in reports[a].agents})
         PROVE  /\ Cardinality(reports[a].agents) = TopLimit
                /\ \A p \in reports[a].agents : Of(known, x) <= p.count
    <3>1. known \in SUBSET listed
      BY <2>3, <2>4
    <3> QED
      BY <2>5, <2>6, <2>10, <3>1, LeftOut
  <2> QED
    BY <2>1, <2>4, <2>6, <2>7, <2>8, <2>9, <2>10
<1> QED
  BY <1>1, AnalyticsInvariance, PTL

\* Codes that are there see no scans of each other, whatever slugs are drawn again.
THEOREM ScansOfOneCode == Spec => []OwnScans
<1>1. Inv => OwnScans
  <2> SUFFICES ASSUME Inv, NEW i \in CodeIds, NEW j \in CodeIds,
                      codes[i] # Absent, codes[j] # Absent, i # j,
                      NEW e \in ScansOf(SlugOf(i)), e.code = j
               PROVE  FALSE
    BY DEF OwnScans
  <2>1. e \in scan_events /\ e.slug = SlugOf(i) /\ e.slug \in Slugs
    BY DEF ScansOf, Inv, TypeOK, ScanEvent
  <2>2. j \in Holders(e.slug)
    BY <2>1 DEF Inv, RowsHold, SlugsHold
  <2>3. i \in Holders(e.slug)
    <3>1. Absent \notin Slugs
      BY AbsentIsNil
    <3> QED
      BY <2>1, <3>1 DEF SlugOf, Holders, HoldersIn
  <2> QED
    BY <2>1, <2>2, <2>3 DEF Inv, SlugsHold
<1> QED
  BY <1>1, AnalyticsInvariance, PTL
=============================================================================
