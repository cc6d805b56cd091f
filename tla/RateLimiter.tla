------------------------------ MODULE RateLimiter ------------------------------
(***************************************************************************)
(* The rate limiter of /api/v1: middleware.RateLimit over                  *)
(* ratelimit.RedisLimiter.  A request reads the clock, which chooses its   *)
(* counter, and increments that counter in Redis later: the clock may have *)
(* moved on, the counter may have expired, and go-redis may have sent the  *)
(* pipeline more than once.                                                *)
(*                                                                         *)
(* One clock stands for the API's and for the passing of time in Redis.    *)
(* The counters in Redis are lost only by their TTL.                       *)
(***************************************************************************)
EXTENDS Naturals, FiniteSets

CONSTANTS
    Keys,       \* the addresses clientIP returns
    Requests,   \* the requests to /api/v1
    Limit,      \* requests an address may make per window
    Window,     \* the window, in seconds
    MaxDelay,   \* Bound: seconds from reading the clock to the verdict
    MaxTries,   \* Bound: how often go-redis sends one pipeline
    MaxTime,    \* Bound: the last second modelled
    Absent      \* no counter, no TTL, not known yet

\* main.go makes no limiter for a limit of zero or less; Allow's window is at
\* least a second.
ASSUME LimiterAssumption ==
    /\ Limit \in Nat \ {0} /\ Window \in Nat \ {0}
    /\ MaxDelay \in Nat /\ MaxTries \in Nat /\ MaxTime \in Nat
    /\ IsFiniteSet(Requests)
    /\ Absent \notin Nat \cup Keys \cup [count : Nat, expires : Nat \cup {Absent}]

VARIABLES
    now,        \* Unix seconds
    counters,   \* counters[k][b]: the value at ratelimit:k:b, or Absent
    gate        \* gate[r]: how far request r has come

vars == <<now, counters, gate>>

\* The epoch bucket of second t.
Bucket(t) == t \div Window

Times == 0 .. MaxTime + Window

Buckets == {Bucket(t) : t \in Times}

Counter == [count : Nat, expires : Nat \cup {Absent}]

\* "open": the limiter failed and the request went through.
Request == [
    pc    : {"new", "incr", "passed", "blocked", "open"},
    key   : Keys \cup {Absent},
    at    : Nat,            \* when Allow read the clock
    tries : Nat,            \* how often the counter was incremented for it
    count : Nat,            \* the count it was judged by
    late  : BOOLEAN]        \* judged once its window was over

TypeOK ==
    /\ now \in Nat
    /\ counters \in [Keys -> [Buckets -> Counter \cup {Absent}]]
    /\ gate \in [Requests -> Request]

Init ==
    /\ now = 0
    /\ counters = [k \in Keys |-> [b \in Buckets |-> Absent]]
    /\ gate = [r \in Requests |->
                 [pc |-> "new", key |-> Absent, at |-> 0, tries |-> 0, count |-> 0,
                  late |-> FALSE]]

-----------------------------------------------------------------------------

\* Mutation: the key does not name the bucket, so earlier windows count on.
CountOfAll(k, b) ==
    LET earlier == {counters[k][c].count : c \in {d \in 0 .. b : counters[k][d] # Absent}}
    IN IF earlier = {} THEN 0 ELSE CHOOSE n \in earlier : \A m \in earlier : m <= n

\* The value of ratelimit:k:b; INCR starts from zero.
Count(k, b) == IF counters[k][b] = Absent THEN 0 ELSE counters[k][b].count

\* INCR alone: a counter it creates has no TTL.
Incremented(k, b) ==
    [count   |-> Count(k, b) + 1,
     expires |-> IF counters[k][b] = Absent THEN Absent ELSE counters[k][b].expires]

\* Mutation: the TTL is a second too short.
ShortLived(k, b) == [Incremented(k, b) EXCEPT !.expires = now + Window - 1]

\* Mutation: EXPIRE is sent for a counter's first request only.
TimedOnce(k, b) ==
    IF Count(k, b) = 0 THEN [count |-> 1, expires |-> now + Window] ELSE Incremented(k, b)

\* INCR and EXPIRE, which refreshes the TTL every time.
Counted(k, b) == [Incremented(k, b) EXCEPT !.expires = now + Window]

Pending(r) == gate[r].pc = "incr"

KeyOf(r) == gate[r].key

BucketOf(r) == Bucket(gate[r].at)

\* The request of address k comes to the limiter, which reads the clock.
Arrive(r, k) ==
    /\ gate[r].pc = "new"
    /\ now + MaxDelay + Window <= MaxTime
    /\ gate' = [gate EXCEPT ![r].pc = "incr", ![r].key = k, ![r].at = now]
    /\ UNCHANGED <<now, counters>>

\* Allow's verdict on the n-th request of a window.
Allowed(n) == n <= Limit

\* The pipeline of INCR and EXPIRE is answered; RateLimit serves or refuses.
Judge(r) ==
    LET k == KeyOf(r)  b == BucketOf(r)  n == Count(k, b) + 1 IN
    /\ Pending(r)
    /\ gate[r].tries < MaxTries
    /\ counters' = [counters EXCEPT ![k][b] = Counted(k, b)]
    /\ gate' = [gate EXCEPT ![r].pc = IF Allowed(n) THEN "passed" ELSE "blocked",
                            ![r].tries = @ + 1, ![r].count = n,
                            ![r].late = Bucket(now) # b]
    /\ UNCHANGED now

\* Redis runs INCR, perhaps EXPIRE too, and the answer is lost: go-redis may
\* send the pipeline again.
AnswerLost(r) ==
    LET k == KeyOf(r)  b == BucketOf(r) IN
    /\ Pending(r)
    /\ gate[r].tries < MaxTries
    /\ \E c \in {Counted(k, b), Incremented(k, b)} :
          counters' = [counters EXCEPT ![k][b] = c]
    /\ gate' = [gate EXCEPT ![r].tries = @ + 1]
    /\ UNCHANGED now

\* Exec returns an error: the request is allowed.
FailOpen(r) ==
    /\ Pending(r)
    /\ gate' = [gate EXCEPT ![r].pc = "open"]
    /\ UNCHANGED <<now, counters>>

\* A counter whose time is up.
Due(k, b) ==
    /\ counters[k][b] # Absent
    /\ counters[k][b].expires # Absent
    /\ counters[k][b].expires <= now

ExpireCounter(k, b) ==
    /\ Due(k, b)
    /\ counters' = [counters EXCEPT ![k][b] = Absent]
    /\ UNCHANGED <<now, gate>>

\* A second passes: no request waits longer than its timeouts allow, and no
\* counter outlives the second in which its time is up.
Tick ==
    /\ now < MaxTime
    /\ \A r \in Requests : Pending(r) => now < gate[r].at + MaxDelay
    /\ \A k \in Keys, b \in Buckets : ~Due(k, b)
    /\ now' = now + 1
    /\ UNCHANGED <<counters, gate>>

Next ==
    \/ \E r \in Requests :
          \/ \E k \in Keys : Arrive(r, k)
          \/ Judge(r)
          \/ AnswerLost(r)
          \/ FailOpen(r)
    \/ \E k \in Keys, b \in Buckets : ExpireCounter(k, b)
    \/ Tick

Spec == Init /\ [][Next]_vars

(***************************************************************************)
(* Time passes, every pipeline is answered or fails (go-redis has          *)
(* timeouts), and Redis expires its keys.  No request has to arrive.       *)
(***************************************************************************)
Fairness ==
    /\ WF_vars(Tick)
    /\ \A r \in Requests : WF_vars(Judge(r) \/ FailOpen(r))
    /\ \A k \in Keys, b \in Buckets : WF_vars(ExpireCounter(k, b))

FairSpec == Spec /\ Fairness

-----------------------------------------------------------------------------
(* Properties *)

\* The requests of address k counted in bucket b.
Of(k, b) == {r \in Requests : gate[r].pc # "new" /\ KeyOf(r) = k /\ BucketOf(r) = b}

\* Those of them that were judged before their window was over.
Judged(k, b) == {r \in Of(k, b) : gate[r].pc \in {"passed", "blocked"} /\ ~gate[r].late}

\* "RedisLimiter enforces a fixed number of requests per window per key"
\* (ratelimit.go): of the requests of an address that are judged within the
\* window they came in at most Limit pass, whichever of them were retried or
\* overtook each other.  One that is judged after its window may find the
\* counter expired, and one whose pipeline fails passes uncounted.
WindowBound ==
    \A k \in Keys, b \in Buckets :
        Cardinality({r \in Judged(k, b) : gate[r].pc = "passed"}) <= Limit

\* The INCRs that Redis ran for address k in bucket b: <<request, try>>.
Hits(k, b) ==
    {h \in Requests \X (1 .. MaxTries) : h[1] \in Of(k, b) /\ h[2] <= gate[h[1]].tries}

\* A request is blocked only if more than Limit INCRs were run for its own
\* address in its own window: neither other addresses nor earlier windows, and
\* nothing a refreshed TTL kept alive, count against it.
NoUnjustBlock ==
    \A r \in Requests :
        gate[r].pc = "blocked" => Cardinality(Hits(KeyOf(r), BucketOf(r))) > Limit

\* "old counters expire on their own" (ratelimit.go): a counter stays for ever
\* only if a request that it counted was let through on an error, so that no
\* EXPIRE may have come after its INCR.
CountersGo ==
    \A k \in Keys, b \in Buckets :
        <>[](counters[k][b] # Absent => \E r \in Of(k, b) : gate[r].pc = "open")
=============================================================================
