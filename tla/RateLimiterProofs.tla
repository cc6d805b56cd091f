--------------------------- MODULE RateLimiterProofs ---------------------------
(***************************************************************************)
(* Proofs about RateLimiter, for any addresses and finite set of requests, *)
(* any limit, window, delay and number of retries.                         *)
(***************************************************************************)
EXTENDS RateLimiter, FiniteSetTheorems, TLAPS

-----------------------------------------------------------------------------
(* Why it holds: the inductive invariant *)

IsJudged(r) == gate[r].pc \in {"passed", "blocked"}

\* A request came in by now, and is judged by its count.
RequestsHold ==
    \A r \in Requests :
        /\ gate[r].pc = "new" => gate[r].tries = 0
        /\ gate[r].pc # "new" => KeyOf(r) \in Keys /\ gate[r].at <= now /\ gate[r].at <= MaxTime
        /\ gate[r].pc = "passed" => gate[r].count \in 1 .. Limit
        /\ gate[r].pc = "blocked" => gate[r].count > Limit

\* A counter's time is up after its window, at the earliest.
CountersOutlive ==
    \A k \in Keys, b \in Buckets :
        counters[k][b] # Absent /\ counters[k][b].expires # Absent
            => Bucket(counters[k][b].expires) > b

\* While its window lasts a counter has not forgotten anyone.
CountersRemember ==
    \A r \in Requests :
        IsJudged(r) /\ ~gate[r].late /\ BucketOf(r) = Bucket(now)
            => gate[r].count <= Count(KeyOf(r), BucketOf(r))

\* So no two requests of a window are judged by one count.
CountsDiffer ==
    \A r, q \in Requests :
        ( /\ r # q /\ IsJudged(r) /\ IsJudged(q) /\ ~gate[r].late /\ ~gate[q].late
          /\ KeyOf(r) = KeyOf(q) /\ BucketOf(r) = BucketOf(q) )
            => gate[r].count # gate[q].count

\* A count is made of INCRs for its own address and window.
CountsAreHits ==
    /\ \A k \in Keys, b \in Buckets : Count(k, b) <= Cardinality(Hits(k, b))
    /\ \A r \in Requests :
          IsJudged(r) => gate[r].count <= Cardinality(Hits(KeyOf(r), BucketOf(r)))

Inv ==
    /\ TypeOK
    /\ RequestsHold
    /\ CountersOutlive
    /\ CountersRemember
    /\ CountsDiffer
    /\ CountsAreHits

-----------------------------------------------------------------------------
(* Buckets *)

\* A bucket is a natural number: second t lies in it.
LEMMA BucketOfSecond ==
    ASSUME NEW t \in Nat
    PROVE  /\ Bucket(t) \in Nat
           /\ Bucket(t) * Window <= t
           /\ t < (Bucket(t) + 1) * Window
  BY LimiterAssumption, Z3 DEF Bucket

\* Buckets follow each other as the seconds do.
LEMMA BucketsAscend ==
    ASSUME NEW s \in Nat, NEW t \in Nat, s <= t
    PROVE  Bucket(s) <= Bucket(t)
<1> DEFINE b == Bucket(s)
           c == Bucket(t)
<1>1. b \in Nat /\ c \in Nat /\ b * Window <= s /\ t < (c + 1) * Window
  BY BucketOfSecond
<1> HIDE DEF b, c
<1>2. Window \in Nat \ {0}
  BY LimiterAssumption
<1>3. b * Window < (c + 1) * Window
  BY <1>1, <1>2
<1>4. ASSUME c < b PROVE FALSE
  <2>1. (c + 1) * Window <= b * Window
    BY <1>1, <1>2, <1>4, Z3
  <2> QED
    BY <1>1, <1>2, <1>3, <2>1
<1> QED
  BY <1>1, <1>4 DEF b, c

\* A window after second t its bucket is over.
LEMMA BucketEnds ==
    ASSUME NEW t \in Nat
    PROVE  Bucket(t + Window) > Bucket(t)
<1> DEFINE b == Bucket(t)
           c == Bucket(t + Window)
<1>1. Window \in Nat \ {0}
  BY LimiterAssumption
<1>2. b \in Nat /\ c \in Nat /\ b * Window <= t /\ t + Window < (c + 1) * Window
  <2>1. t + Window \in Nat
    BY <1>1
  <2> QED
    BY <2>1, BucketOfSecond
<1> HIDE DEF b, c
<1>3. b * Window + Window < (c + 1) * Window
  BY <1>1, <1>2
<1>4. ASSUME c <= b PROVE FALSE
  <2>1. (c + 1) * Window <= (b + 1) * Window
    BY <1>1, <1>2, <1>4, Z3
  <2>2. (b + 1) * Window = b * Window + Window
    BY <1>1, <1>2, Z3
  <2> QED
    BY <1>1, <1>2, <1>3, <2>1, <2>2
<1> QED
  BY <1>2, <1>4 DEF b, c

\* The buckets of the seconds up to MaxTime have counters.
LEMMA BucketHasCounter ==
    ASSUME NEW t \in Nat, t <= MaxTime
    PROVE  Bucket(t) \in Buckets
  BY LimiterAssumption DEF Buckets, Times

-----------------------------------------------------------------------------
(* Counters *)

\* The pipeline sets the counter of address k and bucket b to c.
Sets(k, b, c) == counters' = [counters EXCEPT ![k][b] = c]

\* What one INCR does to the counters, with or without EXPIRE.
LEMMA CounterBumped ==
    ASSUME Inv, NEW k \in Keys, NEW b \in Buckets, b <= Bucket(now),
           NEW c, c = Counted(k, b) \/ c = Incremented(k, b),
           Sets(k, b, c)
    PROVE  /\ counters' \in [Keys -> [Buckets -> Counter \cup {Absent}]]
           /\ Count(k, b)' = Count(k, b) + 1
           /\ \A j \in Keys, d \in Buckets :
                 j # k \/ d # b => counters'[j][d] = counters[j][d]
           /\ counters'[k][b].expires # Absent => Bucket(counters'[k][b].expires) > b
<1> DEFINE old == counters[k][b]
<1>1. old \in Counter \cup {Absent} /\ now \in Nat /\ b \in Nat
  <2>1. Buckets \subseteq Nat
    <3> SUFFICES ASSUME NEW t \in Times PROVE Bucket(t) \in Nat
      BY DEF Buckets
    <3> QED
      BY LimiterAssumption, BucketOfSecond DEF Times
  <2> QED
    BY <2>1 DEF Inv, TypeOK
<1>2. Absent \notin Nat /\ Absent \notin Counter /\ Window \in Nat
  BY LimiterAssumption DEF Counter
<1>3. Count(k, b) \in Nat /\ (old # Absent => old.expires \in Nat \cup {Absent})
  BY <1>1 DEF Count, Counter
<1>4. Incremented(k, b) \in Counter /\ Incremented(k, b).count = Count(k, b) + 1
  BY <1>3 DEF Incremented, Counter
<1>5. Counted(k, b) = [count |-> Count(k, b) + 1, expires |-> now + Window]
  BY DEF Counted, Incremented
<1>6. c \in Counter /\ c.count = Count(k, b) + 1
  BY <1>1, <1>2, <1>3, <1>4, <1>5 DEF Counter
<1>7. counters \in [Keys -> [Buckets -> Counter \cup {Absent}]]
  BY DEF Inv, TypeOK
<1>8. counters'[k][b] = c
  BY <1>7 DEF Sets
<1>9. counters' \in [Keys -> [Buckets -> Counter \cup {Absent}]]
  BY <1>6, <1>7 DEF Sets
<1>10. Count(k, b)' = Count(k, b) + 1
  BY <1>2, <1>6, <1>8 DEF Count
<1>11. ASSUME c.expires # Absent PROVE Bucket(c.expires) > b
  <2>1. CASE c = Counted(k, b)
    <3>1. Bucket(now + Window) > Bucket(now) /\ Bucket(now) \in Nat
      BY <1>1, BucketEnds, BucketOfSecond
    <3>2. Bucket(now + Window) \in Nat
      BY <1>1, <1>2, BucketOfSecond
    <3>3. c.expires = now + Window
      BY <1>5, <2>1
    <3> QED
      BY <1>1, <3>1, <3>2, <3>3
  <2>2. CASE c = Incremented(k, b)
    BY <1>11, <2>2 DEF Incremented, Inv, CountersOutlive
  <2> QED
    BY <2>1, <2>2
<1> QED
  BY <1>7, <1>8, <1>9, <1>10, <1>11 DEF Sets

\* INCRs are finitely many.
LEMMA HitsFinite ==
    ASSUME NEW k, NEW b
    PROVE  IsFiniteSet(Hits(k, b)) /\ Cardinality(Hits(k, b)) \in Nat
<1>1. IsFiniteSet(Requests \X (1 .. MaxTries))
  <2>1. IsFiniteSet(Requests) /\ IsFiniteSet(1 .. MaxTries)
    BY LimiterAssumption, FS_Interval
  <2> QED
    BY <2>1, FS_Product
<1>2. Hits(k, b) \in SUBSET (Requests \X (1 .. MaxTries))
  BY DEF Hits
<1> QED
  BY <1>1, <1>2, FS_Subset, FS_CardinalityType

\* One more INCR for request r is one more hit of its counter, and of no other.
LEMMA OneMoreHit ==
    ASSUME Inv, NEW r \in Requests, Pending(r), gate[r].tries < MaxTries,
           NEW k, NEW b, k = KeyOf(r), b = BucketOf(r),
           gate'[r].pc # "new", gate'[r].key = gate[r].key, gate'[r].at = gate[r].at,
           gate'[r].tries = gate[r].tries + 1,
           \A q \in Requests \ {r} : gate'[q] = gate[q]
    PROVE  /\ Cardinality(Hits(k, b)') = Cardinality(Hits(k, b)) + 1
           /\ \A j, d : j # k \/ d # b => Hits(j, d)' = Hits(j, d)
<1> DEFINE h == <<r, gate[r].tries + 1>>
<1>1. gate[r].tries \in Nat /\ MaxTries \in Nat
  BY LimiterAssumption DEF Inv, TypeOK, Request
<1>2. \A j, d : Of(j, d)' = Of(j, d)
  BY DEF Of, KeyOf, BucketOf, Pending
<1>3. r \in Of(k, b)
  BY DEF Of, Pending
<1>4. h \notin Hits(k, b) /\ h \in Requests \X (1 .. MaxTries)
  BY <1>1 DEF Hits
<1>5. Hits(k, b)' = Hits(k, b) \cup {h}
  <2>1. ASSUME NEW g \in Requests \X (1 .. MaxTries)
        PROVE  (g[1] \in Of(k, b) /\ g[2] <= gate'[g[1]].tries)
                 <=> (g[1] \in Of(k, b) /\ g[2] <= gate[g[1]].tries) \/ g = h
    <3>1. CASE g[1] = r
      <4>1. g = <<r, g[2]>> /\ g[2] \in Nat
        BY <2>1, <3>1
      <4>2. g[2] <= gate[r].tries + 1 <=> g[2] <= gate[r].tries \/ g[2] = gate[r].tries + 1
        BY <1>1, <4>1
      <4> QED
        BY <1>3, <3>1, <4>1, <4>2
    <3>2. CASE g[1] # r
      BY <2>1, <3>2
    <3> QED
      BY <3>1, <3>2
  <2>2. Hits(k, b)' = {g \in Requests \X (1 .. MaxTries) :
                          g[1] \in Of(k, b) /\ g[2] <= gate'[g[1]].tries}
    BY <1>2 DEF Hits, KeyOf, BucketOf
  <2>3. Hits(k, b) = {g \in Requests \X (1 .. MaxTries) :
                          g[1] \in Of(k, b) /\ g[2] <= gate[g[1]].tries}
    BY DEF Hits
  <2> HIDE DEF h
  <2> QED
    BY <1>4, <2>1, <2>2, <2>3
<1>6. Cardinality(Hits(k, b) \cup {h}) = Cardinality(Hits(k, b)) + 1
  BY <1>4, HitsFinite, FS_AddElement
<1>7. ASSUME NEW j, NEW d, j # k \/ d # b
      PROVE  Hits(j, d)' = Hits(j, d)
  <2>1. r \notin Of(j, d)
    BY <1>7 DEF Of
  <2>2. \A g \in Requests \X (1 .. MaxTries) :
          g[1] \in Of(j, d) => gate'[g[1]].tries = gate[g[1]].tries
    BY <2>1
  <2> QED
    BY <1>2, <2>2 DEF Hits
<1> QED
  BY <1>5, <1>6, <1>7

-----------------------------------------------------------------------------
(* Steps *)

\* The bucket of a pending request has a counter, and is not ahead of the clock.
LEMMA PendingCounter ==
    ASSUME Inv, NEW r \in Requests, gate[r].pc # "new"
    PROVE  /\ KeyOf(r) \in Keys /\ BucketOf(r) \in Buckets
           /\ BucketOf(r) \in Nat /\ BucketOf(r) <= Bucket(now)
<1>1. gate[r].at \in Nat /\ now \in Nat /\ gate[r].at <= now /\ gate[r].at <= MaxTime
  BY DEF Inv, TypeOK, Request, RequestsHold
<1>2. KeyOf(r) \in Keys
  BY DEF Inv, RequestsHold
<1> QED
  BY <1>1, <1>2, BucketOfSecond, BucketsAscend, BucketHasCounter DEF BucketOf

\* Steps that leave the counters and the verdicts alone.
LEMMA ArriveInv ==
    ASSUME Inv, NEW r \in Requests, NEW k \in Keys, Arrive(r, k)
    PROVE  Inv'
<1>1. /\ gate[r].pc = "new" /\ gate[r].tries = 0
      /\ gate' = [gate EXCEPT ![r].pc = "incr", ![r].key = k, ![r].at = now]
      /\ now' = now /\ counters' = counters
      /\ now <= MaxTime
  BY LimiterAssumption DEF Arrive, Inv, TypeOK, RequestsHold
<1>2. TypeOK'
  BY <1>1 DEF Inv, TypeOK, Request
<1>3. gate' \in [Requests -> Request] /\ gate \in [Requests -> Request]
  BY <1>2 DEF Inv, TypeOK
<1>4. /\ \A q \in Requests \ {r} : gate'[q] = gate[q]
      /\ gate'[r].pc = "incr" /\ gate'[r].key = k /\ gate'[r].at = now /\ gate'[r].tries = 0
  BY <1>1, <1>3 DEF Request
<1>5. RequestsHold'
  <2> SUFFICES ASSUME NEW q \in Requests
               PROVE  /\ gate'[q].pc = "new" => gate'[q].tries = 0
                      /\ gate'[q].pc # "new" => /\ gate'[q].key \in Keys
                                                /\ gate'[q].at <= now /\ gate'[q].at <= MaxTime
                      /\ gate'[q].pc = "passed" => gate'[q].count \in 1 .. Limit
                      /\ gate'[q].pc = "blocked" => gate'[q].count > Limit
    BY <1>1 DEF RequestsHold, KeyOf
  <2>1. CASE q = r
    <3>1. now \in Nat
      BY DEF Inv, TypeOK
    <3> QED
      BY <1>1, <1>4, <2>1, <3>1
  <2>2. CASE q # r
    BY <1>4, <2>2 DEF Inv, RequestsHold, KeyOf
  <2> QED
    BY <2>1, <2>2
<1>6. CountersOutlive'
  BY <1>1 DEF Inv, CountersOutlive
<1>7. \A q \in Requests : IsJudged(q)' <=> q # r /\ IsJudged(q)
  BY <1>1, <1>4 DEF IsJudged
<1>8. CountersRemember' /\ CountsDiffer'
  <2>1. CountersRemember'
    BY <1>1, <1>4, <1>7 DEF Inv, CountersRemember, Count, KeyOf, BucketOf
  <2>2. CountsDiffer'
    BY <1>4, <1>7 DEF Inv, CountsDiffer, KeyOf, BucketOf
  <2> QED
    BY <2>1, <2>2
<1>9. ASSUME NEW j, NEW d PROVE Hits(j, d)' = Hits(j, d)
  <2>1. \A h \in Requests \X (1 .. MaxTries) :
          /\ h[1] # r => (h[1] \in Of(j, d)' <=> h[1] \in Of(j, d))
          /\ h[1] = r => ~(h[2] <= gate'[r].tries) /\ h[1] \notin Of(j, d)
    <3> TAKE h \in Requests \X (1 .. MaxTries)
    <3>1. h[1] \in Requests /\ h[2] \in 1 .. MaxTries
      OBVIOUS
    <3>2. CASE h[1] = r
      <4>1. ~(h[2] <= gate'[r].tries)
        BY <1>4, <3>1, LimiterAssumption
      <4> QED
        BY <1>1, <3>2, <4>1 DEF Of
    <3>3. CASE h[1] # r
      BY <1>4, <3>1, <3>3 DEF Of, KeyOf, BucketOf
    <3> QED
      BY <3>2, <3>3
  <2>2. Hits(j, d)' = {h \in Requests \X (1 .. MaxTries) :
                          h[1] \in Of(j, d)' /\ h[2] <= gate'[h[1]].tries}
    BY DEF Hits
  <2> QED
    BY <1>4, <2>1, <2>2 DEF Hits
<1>10. CountsAreHits'
  BY <1>1, <1>4, <1>7, <1>9 DEF Inv, CountsAreHits, Count, KeyOf, BucketOf
<1> QED
  BY <1>2, <1>5, <1>6, <1>8, <1>10 DEF Inv

LEMMA FailOpenInv ==
    ASSUME Inv, NEW r \in Requests, FailOpen(r)
    PROVE  Inv'
<1>1. /\ gate[r].pc = "incr" /\ gate' = [gate EXCEPT ![r].pc = "open"]
      /\ now' = now /\ counters' = counters
  BY DEF FailOpen, Pending
<1>2. TypeOK'
  BY <1>1 DEF Inv, TypeOK, Request
<1>3. gate' \in [Requests -> Request] /\ gate \in [Requests -> Request]
  BY <1>2 DEF Inv, TypeOK
<1>4. /\ \A q \in Requests \ {r} : gate'[q] = gate[q]
      /\ gate'[r].pc = "open"
      /\ \A q \in Requests : gate'[q].key = gate[q].key /\ gate'[q].at = gate[q].at
                               /\ gate'[q].tries = gate[q].tries
  BY <1>1, <1>3 DEF Request
<1>5. RequestsHold'
  BY <1>1, <1>4 DEF Inv, RequestsHold, KeyOf
<1>6. CountersOutlive'
  BY <1>1 DEF Inv, CountersOutlive
<1>7. \A q \in Requests : IsJudged(q)' <=> q # r /\ IsJudged(q)
  BY <1>1, <1>4 DEF IsJudged
<1>8. CountersRemember' /\ CountsDiffer'
  BY <1>1, <1>4, <1>7 DEF Inv, CountersRemember, CountsDiffer, Count, KeyOf, BucketOf
<1>9. ASSUME NEW j, NEW d PROVE Hits(j, d)' = Hits(j, d)
  <2>1. Of(j, d)' = Of(j, d)
    BY <1>1, <1>4 DEF Of, KeyOf, BucketOf
  <2> QED
    BY <1>4, <2>1 DEF Hits
<1>10. CountsAreHits'
  BY <1>1, <1>4, <1>7, <1>9 DEF Inv, CountsAreHits, Count, KeyOf, BucketOf
<1> QED
  BY <1>2, <1>5, <1>6, <1>8, <1>10 DEF Inv

\* Time that passes takes no counter of the current window with it.
LEMMA TickInv ==
    ASSUME Inv, Tick
    PROVE  Inv'
<1>1. now' = now + 1 /\ counters' = counters /\ gate' = gate /\ now \in Nat
  BY DEF Tick, Inv, TypeOK
<1>2. TypeOK' /\ CountersOutlive' /\ CountsDiffer'
  BY <1>1 DEF Inv, TypeOK, CountersOutlive, CountsDiffer, IsJudged, KeyOf, BucketOf
<1>3. RequestsHold'
  <2>1. \A r \in Requests : gate[r].at \in Nat
    BY DEF Inv, TypeOK, Request
  <2> QED
    BY <1>1, <2>1 DEF Inv, RequestsHold, KeyOf
<1>4. CountersRemember'
  <2> SUFFICES ASSUME NEW r \in Requests, IsJudged(r), ~gate[r].late,
                      BucketOf(r) = Bucket(now + 1)
               PROVE  BucketOf(r) = Bucket(now)
    BY <1>1 DEF Inv, CountersRemember, IsJudged, KeyOf, BucketOf, Count
  <2>1. BucketOf(r) \in Nat /\ BucketOf(r) <= Bucket(now)
    BY PendingCounter DEF IsJudged
  <2>2. Bucket(now) <= Bucket(now + 1) /\ Bucket(now) \in Nat /\ Bucket(now + 1) \in Nat
    BY <1>1, BucketsAscend, BucketOfSecond
  <2> QED
    BY <2>1, <2>2
<1>5. CountsAreHits'
  <2>1. \A j, d : Hits(j, d)' = Hits(j, d)
    BY <1>1 DEF Hits, Of, KeyOf, BucketOf
  <2> QED
    BY <1>1, <2>1 DEF Inv, CountsAreHits, Count, IsJudged, KeyOf, BucketOf
<1> QED
  BY <1>2, <1>3, <1>4, <1>5 DEF Inv

\* A counter that expires is one of an earlier window.
LEMMA ExpireInv ==
    ASSUME Inv, NEW k \in Keys, NEW b \in Buckets, ExpireCounter(k, b)
    PROVE  Inv'
<1>1. /\ counters' = [counters EXCEPT ![k][b] = Absent]
      /\ now' = now /\ gate' = gate /\ Due(k, b)
  BY DEF ExpireCounter
<1>2. counters \in [Keys -> [Buckets -> Counter \cup {Absent}]] /\ now \in Nat
  BY DEF Inv, TypeOK
<1>3. /\ counters'[k][b] = Absent
      /\ \A j \in Keys, d \in Buckets : j # k \/ d # b => counters'[j][d] = counters[j][d]
  BY <1>1, <1>2
<1>4. TypeOK'
  BY <1>1 DEF Inv, TypeOK
<1>5. RequestsHold' /\ CountsDiffer'
  BY <1>1 DEF Inv, RequestsHold, CountsDiffer, IsJudged, KeyOf, BucketOf
<1>6. CountersOutlive'
  BY <1>3 DEF Inv, CountersOutlive
<1>7. b # Bucket(now)
  <2>1. counters[k][b].expires \in Nat
    BY <1>1, <1>2 DEF Due, Counter
  <2>2. Bucket(counters[k][b].expires) > b
    BY <1>1 DEF Due, Inv, CountersOutlive
  <2>3. /\ Bucket(counters[k][b].expires) <= Bucket(now)
        /\ Bucket(counters[k][b].expires) \in Nat /\ Bucket(now) \in Nat
    BY <1>1, <1>2, <2>1, BucketsAscend, BucketOfSecond DEF Due
  <2> QED
    BY <2>2, <2>3
<1>8. CountersRemember'
  <2> SUFFICES ASSUME NEW r \in Requests, IsJudged(r), ~gate[r].late, BucketOf(r) = Bucket(now)
               PROVE  Count(KeyOf(r), BucketOf(r))' = Count(KeyOf(r), BucketOf(r))
    BY <1>1 DEF Inv, CountersRemember, IsJudged, KeyOf, BucketOf, Count
  <2>1. KeyOf(r) \in Keys /\ BucketOf(r) \in Buckets
    BY PendingCounter DEF IsJudged
  <2> QED
    BY <1>1, <1>3, <1>7, <2>1 DEF Count, KeyOf, BucketOf
<1>9. CountsAreHits'
  <2>1. \A j, d : Hits(j, d)' = Hits(j, d)
    BY <1>1 DEF Hits, Of, KeyOf, BucketOf
  <2>2. ASSUME NEW j \in Keys, NEW d \in Buckets
        PROVE  Count(j, d)' <= Cardinality(Hits(j, d))
    <3>1. CASE j = k /\ d = b
      <4>1. Count(j, d)' = 0
        BY <1>3, <3>1 DEF Count
      <4> QED
        BY <4>1, HitsFinite
    <3>2. CASE j # k \/ d # b
      BY <1>3, <3>2 DEF Inv, CountsAreHits, Count
    <3> QED
      BY <3>1, <3>2
  <2> QED
    BY <1>1, <2>1, <2>2 DEF Inv, CountsAreHits, IsJudged, KeyOf, BucketOf
<1> QED
  BY <1>4, <1>5, <1>6, <1>8, <1>9 DEF Inv

\* An INCR whose answer is lost keeps the invariant: counts only grow.
LEMMA AnswerLostInv ==
    ASSUME Inv, NEW r \in Requests, AnswerLost(r)
    PROVE  Inv'
<1>2. /\ gate[r].pc = "incr" /\ gate[r].tries < MaxTries
      /\ gate' = [gate EXCEPT ![r].tries = @ + 1] /\ now' = now
  BY DEF AnswerLost, Pending
<1>3. PICK k \in Keys, b \in Buckets : k = KeyOf(r) /\ b = BucketOf(r) /\ b <= Bucket(now)
  BY <1>2, PendingCounter
<1>1. PICK c : /\ c = Counted(k, b) \/ c = Incremented(k, b)
               /\ Sets(k, b, c)
  BY <1>3 DEF AnswerLost, Sets
<1>4. gate \in [Requests -> Request] /\ gate' \in [Requests -> Request]
  BY <1>2 DEF Inv, TypeOK, Request
<1>5. /\ \A q \in Requests \ {r} : gate'[q] = gate[q]
      /\ gate'[r].tries = gate[r].tries + 1
      /\ \A q \in Requests : /\ gate'[q].pc = gate[q].pc /\ gate'[q].key = gate[q].key
                             /\ gate'[q].at = gate[q].at /\ gate'[q].count = gate[q].count
                             /\ gate'[q].late = gate[q].late
  BY <1>2, <1>4 DEF Request
<1>6. /\ counters' \in [Keys -> [Buckets -> Counter \cup {Absent}]]
      /\ Count(k, b)' = Count(k, b) + 1
      /\ \A j \in Keys, d \in Buckets : j # k \/ d # b => counters'[j][d] = counters[j][d]
      /\ counters'[k][b].expires # Absent => Bucket(counters'[k][b].expires) > b
  BY <1>1, <1>3, CounterBumped
<1>7. /\ Cardinality(Hits(k, b)') = Cardinality(Hits(k, b)) + 1
      /\ \A j, d : j # k \/ d # b => Hits(j, d)' = Hits(j, d)
  BY <1>2, <1>3, <1>5, OneMoreHit DEF Pending
<1>8. TypeOK'
  BY <1>2, <1>4, <1>6 DEF Inv, TypeOK
<1>9. RequestsHold'
  BY <1>2, <1>5 DEF Inv, RequestsHold, KeyOf
<1>10. CountersOutlive'
  BY <1>3, <1>6 DEF Inv, CountersOutlive
<1>11. CountsDiffer'
  BY <1>5 DEF Inv, CountsDiffer, IsJudged, KeyOf, BucketOf
<1>12. ASSUME NEW j \in Keys, NEW d \in Buckets
       PROVE  Count(j, d) \in Nat /\ Count(j, d)' \in Nat /\ Count(j, d) <= Count(j, d)'
  <2>1. Count(j, d) \in Nat
    BY DEF Count, Counter, Inv, TypeOK
  <2>2. j # k \/ d # b => Count(j, d)' = Count(j, d)
    BY <1>6 DEF Count
  <2>3. j = k /\ d = b => Count(j, d)' = Count(j, d) + 1
    BY <1>6
  <2> QED
    BY <2>1, <2>2, <2>3
<1>13. ASSUME NEW q \in Requests, IsJudged(q)
       PROVE  /\ KeyOf(q) \in Keys /\ BucketOf(q) \in Buckets /\ gate[q].count \in Nat
              /\ KeyOf(q)' = KeyOf(q) /\ BucketOf(q)' = BucketOf(q)
  BY <1>4, <1>5, <1>13, PendingCounter DEF IsJudged, KeyOf, BucketOf, Request
<1>14. CountersRemember'
  <2> SUFFICES ASSUME NEW q \in Requests, IsJudged(q), ~gate[q].late,
                      BucketOf(q) = Bucket(now)
               PROVE  gate[q].count <= Count(KeyOf(q), BucketOf(q))'
    BY <1>2, <1>5 DEF CountersRemember, IsJudged, KeyOf, BucketOf
  <2>1. gate[q].count <= Count(KeyOf(q), BucketOf(q))
    BY DEF Inv, CountersRemember
  <2>2. PICK j \in Keys, d \in Buckets : j = KeyOf(q) /\ d = BucketOf(q)
    BY <1>13
  <2>3. Count(KeyOf(q), BucketOf(q))' = Count(j, d)'
    BY <1>13, <2>2 DEF Count
  <2> QED
    BY <1>12, <1>13, <2>1, <2>2, <2>3
<1>15. CountsAreHits'
  <2>1. ASSUME NEW j \in Keys, NEW d \in Buckets
        PROVE  Count(j, d)' <= Cardinality(Hits(j, d)')
    <3>1. Count(j, d) <= Cardinality(Hits(j, d)) /\ Cardinality(Hits(j, d)) \in Nat
      BY HitsFinite DEF Inv, CountsAreHits
    <3>2. CASE j = k /\ d = b
      <4>1. Count(j, d)' = Count(j, d) + 1 /\ Cardinality(Hits(j, d)') = Cardinality(Hits(j, d)) + 1
        BY <1>6, <1>7, <3>2
      <4> QED
        BY <1>12, <3>1, <4>1
    <3>3. CASE j # k \/ d # b
      BY <1>6, <1>7, <3>1, <3>3 DEF Count
    <3> QED
      BY <3>2, <3>3
  <2>2. ASSUME NEW q \in Requests, IsJudged(q)
        PROVE  gate[q].count <= Cardinality(Hits(KeyOf(q), BucketOf(q)))'
    <3>1. PICK j, d : j = KeyOf(q) /\ d = BucketOf(q)
      OBVIOUS
    <3>2. /\ gate[q].count <= Cardinality(Hits(j, d)) /\ Cardinality(Hits(j, d)) \in Nat
      BY <2>2, <3>1, HitsFinite DEF Inv, CountsAreHits
    <3>3. Cardinality(Hits(j, d)') \in Nat /\ Cardinality(Hits(j, d)) <= Cardinality(Hits(j, d)')
      BY <1>7, <3>2
    <3>4. Hits(KeyOf(q), BucketOf(q))' = Hits(j, d)'
      BY <1>13, <2>2, <3>1 DEF Hits
    <3> QED
      BY <1>13, <2>2, <3>2, <3>3, <3>4
  <2> QED
    BY <1>5, <2>1, <2>2 DEF CountsAreHits, IsJudged
<1> QED
  BY <1>8, <1>9, <1>10, <1>11, <1>14, <1>15 DEF Inv

\* The verdict on request r: the counter remembers whoever was judged in this
\* window, so r's count is a new one.
LEMMA JudgeInv ==
    ASSUME Inv, NEW r \in Requests, Judge(r)
    PROVE  Inv'
<1>1. Pending(r) /\ gate[r].pc = "incr" /\ gate[r].tries < MaxTries /\ now' = now
  BY DEF Judge, Pending
<1>2. PICK k \in Keys, b \in Buckets : k = KeyOf(r) /\ b = BucketOf(r) /\ b <= Bucket(now)
  BY <1>1, PendingCounter
<1>3. PICK n : n = Count(k, b) + 1
  OBVIOUS
<1>4. /\ Sets(k, b, Counted(k, b))
      /\ gate' = [gate EXCEPT ![r].pc = IF Allowed(n) THEN "passed" ELSE "blocked",
                               ![r].tries = @ + 1, ![r].count = n,
                               ![r].late = Bucket(now) # b]
  BY <1>2, <1>3 DEF Judge, Sets
<1>5. ASSUME NEW j \in Keys, NEW d \in Buckets PROVE Count(j, d) \in Nat
  BY DEF Count, Counter, Inv, TypeOK
<1>6. n \in Nat \ {0}
  BY <1>3, <1>5
<1>7. gate \in [Requests -> Request]
  BY DEF Inv, TypeOK
<1>8. /\ \A q \in Requests \ {r} : gate'[q] = gate[q]
      /\ gate'[r].pc = (IF Allowed(n) THEN "passed" ELSE "blocked")
      /\ gate'[r].tries = gate[r].tries + 1 /\ gate'[r].count = n
      /\ gate'[r].late = (Bucket(now) # b)
      /\ \A q \in Requests : gate'[q].key = gate[q].key /\ gate'[q].at = gate[q].at
      /\ gate' \in [Requests -> Request]
  BY <1>4, <1>6, <1>7 DEF Request
<1>9. /\ counters' \in [Keys -> [Buckets -> Counter \cup {Absent}]]
      /\ Count(k, b)' = n
      /\ \A j \in Keys, d \in Buckets : j # k \/ d # b => counters'[j][d] = counters[j][d]
      /\ counters'[k][b].expires # Absent => Bucket(counters'[k][b].expires) > b
  BY <1>2, <1>3, <1>4, CounterBumped
<1>10. /\ Cardinality(Hits(k, b)') = Cardinality(Hits(k, b)) + 1
       /\ \A j, d : j # k \/ d # b => Hits(j, d)' = Hits(j, d)
  BY <1>1, <1>2, <1>8, OneMoreHit
<1>11. ASSUME NEW q \in Requests
       PROVE  /\ KeyOf(q)' = KeyOf(q) /\ BucketOf(q)' = BucketOf(q)
              /\ IsJudged(q)' <=> q = r \/ IsJudged(q)
              /\ q # r => gate'[q].count = gate[q].count /\ gate'[q].late = gate[q].late
              /\ q # r /\ IsJudged(q) => /\ KeyOf(q) \in Keys /\ BucketOf(q) \in Buckets
                                       /\ gate[q].count \in Nat
  <2>1. KeyOf(q)' = KeyOf(q) /\ BucketOf(q)' = BucketOf(q)
    BY <1>8 DEF KeyOf, BucketOf
  <2>2. IsJudged(q)' <=> q = r \/ IsJudged(q)
    BY <1>8 DEF IsJudged
  <2>3. q # r => gate'[q].count = gate[q].count /\ gate'[q].late = gate[q].late
    BY <1>8
  <2>4. IsJudged(q) => KeyOf(q) \in Keys /\ BucketOf(q) \in Buckets
    BY PendingCounter DEF IsJudged
  <2>5. gate[q].count \in Nat
    BY <1>7 DEF Request
  <2> QED
    BY <2>1, <2>2, <2>3, <2>4, <2>5
<1>12. TypeOK'
  BY <1>1, <1>8, <1>9 DEF Inv, TypeOK
<1>13. RequestsHold'
  <2> SUFFICES ASSUME NEW q \in Requests
               PROVE  /\ gate'[q].pc = "new" => gate'[q].tries = 0
                      /\ gate'[q].pc # "new" => /\ gate'[q].key \in Keys
                                                /\ gate'[q].at <= now /\ gate'[q].at <= MaxTime
                      /\ gate'[q].pc = "passed" => gate'[q].count \in 1 .. Limit
                      /\ gate'[q].pc = "blocked" => gate'[q].count > Limit
    BY <1>1 DEF RequestsHold, KeyOf
  <2>1. CASE q = r
    <3>1. /\ gate'[r].pc = "passed" => n \in 1 .. Limit
          /\ gate'[r].pc = "blocked" => n > Limit
      BY <1>6, <1>8, LimiterAssumption DEF Allowed
    <3>2. gate[r].key \in Keys /\ gate[r].at <= now /\ gate[r].at <= MaxTime
      BY <1>1 DEF Inv, RequestsHold, KeyOf
    <3> QED
      BY <1>8, <2>1, <3>1, <3>2
  <2>2. CASE q # r
    BY <1>8, <2>2 DEF Inv, RequestsHold, KeyOf
  <2> QED
    BY <2>1, <2>2
<1>14. CountersOutlive'
  BY <1>2, <1>9 DEF Inv, CountersOutlive
<1>15. ASSUME NEW q \in Requests, q # r, IsJudged(q), ~gate[q].late,
              KeyOf(q) = k, BucketOf(q) = b, Bucket(now) = b
       PROVE  gate[q].count < n
  <2>1. gate[q].count <= Count(k, b)
    BY <1>15 DEF Inv, CountersRemember
  <2> QED
    BY <1>3, <1>5, <1>11, <1>15, <2>1
<1>16. CountersRemember'
  <2> SUFFICES ASSUME NEW q \in Requests, IsJudged(q)', ~gate'[q].late,
                      BucketOf(q) = Bucket(now)
               PROVE  gate'[q].count <= Count(KeyOf(q), BucketOf(q))'
    BY <1>1, <1>11 DEF CountersRemember
  <2>1. PICK j, d : j = KeyOf(q) /\ d = BucketOf(q)
    OBVIOUS
  <2>2. Count(KeyOf(q), BucketOf(q))' = Count(j, d)'
    BY <1>11, <2>1 DEF Count
  <2>3. CASE q = r
    BY <1>2, <1>6, <1>8, <1>9, <2>1, <2>2, <2>3
  <2>4. CASE q # r /\ (j # k \/ d # b)
    <3>1. Count(j, d)' = Count(j, d)
      BY <1>9, <1>11, <2>1, <2>4 DEF Count
    <3> QED
      BY <1>11, <2>1, <2>2, <2>4, <3>1 DEF Inv, CountersRemember
  <2>5. CASE q # r /\ j = k /\ d = b
    <3>1. gate[q].count < n /\ gate[q].count \in Nat
      BY <1>11, <1>15, <2>1, <2>5
    <3> QED
      BY <1>6, <1>9, <1>11, <2>2, <2>5, <3>1
  <2> QED
    BY <2>3, <2>4, <2>5
<1>17. CountsDiffer'
  <2> SUFFICES ASSUME NEW p \in Requests, NEW q \in Requests, p # q,
                      IsJudged(p)', IsJudged(q)', ~gate'[p].late, ~gate'[q].late,
                      KeyOf(p) = KeyOf(q), BucketOf(p) = BucketOf(q)
               PROVE  gate'[p].count # gate'[q].count
    BY <1>11 DEF CountsDiffer
  <2>1. ASSUME NEW x \in Requests, x # r, IsJudged(x)', ~gate'[x].late,
               KeyOf(x) = KeyOf(r), BucketOf(x) = BucketOf(r), ~gate'[r].late
        PROVE  gate'[x].count # gate'[r].count
    <3>1. gate[x].count < n /\ gate[x].count \in Nat
      BY <1>2, <1>8, <1>11, <1>15, <2>1
    <3> QED
      BY <1>6, <1>8, <1>11, <2>1, <3>1
  <2>2. CASE p = r \/ q = r
    BY <2>1, <2>2
  <2>3. CASE p # r /\ q # r
    BY <1>11, <2>3 DEF Inv, CountsDiffer
  <2> QED
    BY <2>2, <2>3
<1>18. CountsAreHits'
  <2>1. ASSUME NEW j \in Keys, NEW d \in Buckets
        PROVE  Count(j, d)' <= Cardinality(Hits(j, d)')
    <3>1. Count(j, d) <= Cardinality(Hits(j, d)) /\ Cardinality(Hits(j, d)) \in Nat
      BY HitsFinite DEF Inv, CountsAreHits
    <3>2. CASE j = k /\ d = b
      <4>1. Count(j, d)' = Count(j, d) + 1 /\ Cardinality(Hits(j, d)') = Cardinality(Hits(j, d)) + 1
        BY <1>3, <1>9, <1>10, <3>2
      <4> QED
        BY <1>5, <3>1, <4>1
    <3>3. CASE j # k \/ d # b
      BY <1>9, <1>10, <3>1, <3>3 DEF Count
    <3> QED
      BY <3>2, <3>3
  <2>2. ASSUME NEW q \in Requests, IsJudged(q)'
        PROVE  gate'[q].count <= Cardinality(Hits(KeyOf(q), BucketOf(q))')
    <3>1. PICK j, d : j = KeyOf(q) /\ d = BucketOf(q)
      OBVIOUS
    <3>2. Hits(KeyOf(q), BucketOf(q))' = Hits(j, d)'
      BY <1>11, <3>1 DEF Hits
    <3>3. CASE q = r
      <4>1. Count(k, b)' <= Cardinality(Hits(k, b)')
        BY <2>1
      <4> QED
        BY <1>2, <1>8, <1>9, <3>1, <3>2, <3>3, <4>1
    <3>4. CASE q # r
      <4>1. /\ gate[q].count <= Cardinality(Hits(j, d)) /\ Cardinality(Hits(j, d)) \in Nat
            /\ gate[q].count \in Nat /\ gate'[q].count = gate[q].count
        BY <1>11, <2>2, <3>1, <3>4, HitsFinite DEF Inv, CountsAreHits
      <4>2. Cardinality(Hits(j, d)') \in Nat /\ Cardinality(Hits(j, d)) <= Cardinality(Hits(j, d)')
        BY <1>10, <4>1
      <4> QED
        BY <3>2, <4>1, <4>2
    <3> QED
      BY <3>3, <3>4
  <2> QED
    BY <2>1, <2>2 DEF CountsAreHits
<1> QED
  BY <1>12, <1>13, <1>14, <1>16, <1>17, <1>18 DEF Inv

-----------------------------------------------------------------------------
(* Theorems *)

LEMMA InitInv == Init => Inv
<1> SUFFICES ASSUME Init PROVE Inv
  OBVIOUS
<1>1. TypeOK
  BY DEF Init, TypeOK, Request
<1>2. RequestsHold /\ CountersOutlive /\ CountersRemember /\ CountsDiffer
  BY DEF Init, RequestsHold, CountersOutlive, CountersRemember, CountsDiffer, IsJudged
<1>3. CountsAreHits
  <2>1. \A k \in Keys, b \in Buckets : Count(k, b) = 0
    BY DEF Init, Count
  <2> QED
    BY <2>1, HitsFinite DEF Init, CountsAreHits, IsJudged
<1> QED
  BY <1>1, <1>2, <1>3 DEF Inv

LEMMA NextInv == Inv /\ [Next]_vars => Inv'
<1> SUFFICES ASSUME Inv, [Next]_vars PROVE Inv'
  OBVIOUS
<1>1. ASSUME NEW r \in Requests, NEW k \in Keys, Arrive(r, k) PROVE Inv'
  BY <1>1, ArriveInv
<1>2. ASSUME NEW r \in Requests, Judge(r) PROVE Inv'
  BY <1>2, JudgeInv
<1>3. ASSUME NEW r \in Requests, AnswerLost(r) PROVE Inv'
  BY <1>3, AnswerLostInv
<1>4. ASSUME NEW r \in Requests, FailOpen(r) PROVE Inv'
  BY <1>4, FailOpenInv
<1>5. ASSUME NEW k \in Keys, NEW b \in Buckets, ExpireCounter(k, b) PROVE Inv'
  BY <1>5, ExpireInv
<1>6. CASE Tick
  BY <1>6, TickInv
<1>7. CASE UNCHANGED vars
  BY <1>7 DEF vars, Inv, TypeOK, RequestsHold, CountersOutlive, CountersRemember, CountsDiffer,
              CountsAreHits, IsJudged, Count, KeyOf, BucketOf, Hits, Of
<1> QED
  BY <1>1, <1>2, <1>3, <1>4, <1>5, <1>6, <1>7 DEF Next

\* The inductive invariant of the limiter, type correctness included: whatever is
\* retried, late, lost or expired.
THEOREM LimiterInvariance == Spec => []Inv
  BY InitInv, NextInv, PTL DEF Spec

\* Every variable stays within its type.
THEOREM LimiterTypes == Spec => []TypeOK
<1>1. Inv => TypeOK
  BY DEF Inv
<1> QED
  BY <1>1, LimiterInvariance, PTL

\* The requests that pass in their own window have different counts, none above
\* the limit (middleware.RateLimit over RedisLimiter.Allow).
THEOREM AtMostLimitPass == Spec => []WindowBound
<1>1. Inv => WindowBound
  <2> SUFFICES ASSUME Inv, NEW k \in Keys, NEW b \in Buckets
               PROVE  Cardinality({r \in Judged(k, b) : gate[r].pc = "passed"}) <= Limit
    BY DEF WindowBound
  <2> DEFINE S == {r \in Judged(k, b) : gate[r].pc = "passed"}
             f == [r \in S |-> gate[r].count]
  <2>1. S \subseteq Requests
    BY DEF Judged, Of
  <2>2. \A r \in S : gate[r].count \in 1 .. Limit
    BY <2>1 DEF Inv, RequestsHold
  <2>3. \A r, q \in S : gate[r].count = gate[q].count => r = q
    BY <2>1 DEF Judged, Of, Inv, CountsDiffer, IsJudged
  <2>4. f \in Injection(S, 1 .. Limit)
    BY <2>2, <2>3 DEF Injection, IsInjective
  <2>5. IsFiniteSet(1 .. Limit) /\ Cardinality(1 .. Limit) = Limit
    BY LimiterAssumption, FS_Interval
  <2> HIDE DEF S, f
  <2>6. Cardinality(S) <= Cardinality(1 .. Limit)
    BY <2>4, <2>5, FS_Injection
  <2> QED
    BY <2>5, <2>6 DEF S
<1> QED
  BY <1>1, LimiterInvariance, PTL

\* A request that is refused is one of more than Limit that its own address made
\* in its own window, retries of the pipeline included.
THEOREM RefusedForCause == Spec => []NoUnjustBlock
<1>1. Inv => NoUnjustBlock
  <2> SUFFICES ASSUME Inv, NEW r \in Requests, gate[r].pc = "blocked"
               PROVE  Cardinality(Hits(KeyOf(r), BucketOf(r))) > Limit
    BY DEF NoUnjustBlock
  <2>1. gate[r].count > Limit /\ gate[r].count \in Nat
    BY DEF Inv, TypeOK, Request, RequestsHold
  <2>2. gate[r].count <= Cardinality(Hits(KeyOf(r), BucketOf(r)))
    BY DEF Inv, CountsAreHits, IsJudged
  <2>3. Cardinality(Hits(KeyOf(r), BucketOf(r))) \in Nat
    BY HitsFinite
  <2> QED
    BY <2>1, <2>2, <2>3, LimiterAssumption
<1> QED
  BY <1>1, LimiterInvariance, PTL
=============================================================================
