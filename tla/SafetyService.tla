---------------------------- MODULE SafetyService ----------------------------
(***************************************************************************)
(* POST /api/v1/scan/check: the heuristic checker behind the verdict cache *)
(* in Redis (internal/safety, internal/http/handlers/safety.go), from the  *)
(* request the client sends to the answer it receives.                     *)
(*                                                                         *)
(* A URL is known by what the checker looks at.                            *)
(***************************************************************************)
CONSTANTS
    Urls,       \* the URLs that are checked
    Domains,    \* the domains of hosts
    Blocklists, \* the built-in blocklists of the releases: sets of domains
    Checks,     \* the slots for requests under way
    Absent,     \* no verdict, no URL
    Faults      \* what may fail: "network", "redis", "start", "stop"

VARIABLES
    blocklist,  \* of the release that runs
    verdicts,   \* verdicts[u]: the Redis value under safety:<hash of u>, or Absent
    checks      \* checks[k]: a request and where it stands

safetyVars == <<blocklist, verdicts, checks>>

Signals == {"embedded_credentials", "ip_literal_host", "punycode_host", "long_host",
            "url_shortener"}

\* domains: the host and the domains it is a subdomain of, {} without a host.
Url == [parses : BOOLEAN, scheme : {"web", "none", "dangerous", "other"},
        domains : SUBSET Domains, signals : SUBSET Signals]

Verdicts == {"safe", "suspicious", "malicious"}

Result == [url : Urls, verdict : Verdicts]

\* "sent": the server has not looked yet; "set": it has, and is about to cache;
\* "answered": the answer is on its way; "lost": none will come.
Check == [pc : {"idle", "sent", "set", "answered", "lost"},
          url : Urls \cup {Absent}, result : Result \cup {Absent}]

NoCheck == [pc |-> "idle", url |-> Absent, result |-> Absent]

ASSUME SafetyAssumption ==
    /\ Blocklists \subseteq SUBSET Domains
    /\ Urls \subseteq Url
    /\ Absent \notin Urls /\ Absent \notin Verdicts /\ Absent \notin Result

SafetyTypeOK ==
    /\ blocklist \in Blocklists
    /\ verdicts \in [Urls -> Verdicts \cup {Absent}]
    /\ checks \in [Checks -> Check]

SafetyInit ==
    /\ blocklist \in Blocklists
    /\ verdicts = [u \in Urls |-> Absent]
    /\ checks = [k \in Checks |-> NoCheck]

-----------------------------------------------------------------------------
(* The checker *)

\* The reasons HeuristicChecker.Check adds.
Reasons(u, blocked) ==
    IF ~u.parses THEN {"unparseable_url"}
    ELSE CASE u.scheme \in {"none", "dangerous"}      -> {"disallowed_scheme"}
           [] u.scheme = "other"                      -> {"uncommon_scheme"}
           [] u.scheme = "web" /\ u.domains = {}      -> {"missing_host"}
           [] u.scheme = "web" /\ u.domains # {}      ->
                u.signals \cup {r \in {"blocklisted_host"} : u.domains \cap blocked # {}}

Malign == {"unparseable_url", "disallowed_scheme", "missing_host", "blocklisted_host"}

\* The worst signal wins.
VerdictFor(u, blocked) ==
    IF Reasons(u, blocked) \cap Malign # {} THEN "malicious"
    ELSE IF Reasons(u, blocked) # {} THEN "suspicious"
    ELSE "safe"

-----------------------------------------------------------------------------
(* A request *)

At(k, pc) == checks[k].pc = pc

\* The client sends the URL, Absent when the code held blanks only.
Send(k, u) == At(k, "idle") /\ checks' = [checks EXCEPT ![k].pc = "sent", ![k].url = u]

\* The server answers, with or without a call to Redis still to make.
Reach(k, pc, verdict) ==
    checks' = [checks EXCEPT ![k].pc = pc,
                             ![k].result = [url |-> checks[k].url, verdict |-> verdict]]

\* Check: a verdict in the cache is the answer.
CacheHit(k) ==
    /\ At(k, "sent") /\ checks[k].url # Absent
    /\ verdicts[checks[k].url] # Absent
    /\ Reach(k, "answered", verdicts[checks[k].url])
    /\ UNCHANGED <<blocklist, verdicts>>

\* A miss, or an error of Redis: the checker is asked.
CacheMiss(k) ==
    /\ At(k, "sent") /\ checks[k].url # Absent
    /\ verdicts[checks[k].url] = Absent \/ "redis" \in Faults
    /\ Reach(k, "set", VerdictFor(checks[k].url, blocklist))
    /\ UNCHANGED <<blocklist, verdicts>>

\* Mutation: the key is not the URL's.
SetAnyKey(k) ==
    /\ At(k, "set")
    /\ \E u \in Urls : verdicts' = [verdicts EXCEPT ![u] = checks[k].result.verdict]
    /\ checks' = [checks EXCEPT ![k].pc = "answered"]
    /\ UNCHANGED blocklist

SetVerdict(k) ==
    /\ At(k, "set")
    /\ verdicts' = [verdicts EXCEPT ![checks[k].url] = checks[k].result.verdict]
    /\ checks' = [checks EXCEPT ![k].pc = "answered"]
    /\ UNCHANGED blocklist

SetFails(k) ==
    /\ "redis" \in Faults
    /\ At(k, "set")
    /\ checks' = [checks EXCEPT ![k].pc = "answered"]
    /\ UNCHANGED <<blocklist, verdicts>>

\* The handler refuses a request without a URL; or the request, or its answer,
\* is lost.
Refused(k) ==
    /\ (At(k, "sent") /\ checks[k].url = Absent) \/ "network" \in Faults
    /\ ~At(k, "idle") /\ ~At(k, "lost")
    /\ checks' = [checks EXCEPT ![k].pc = "lost"]
    /\ UNCHANGED <<blocklist, verdicts>>

\* The request is over for the client.
Done(k) == checks' = [checks EXCEPT ![k] = NoCheck]

\* Mutation: no TTL.
NeverExpires(u) == FALSE /\ UNCHANGED safetyVars

\* safetyTTL is up.
ExpireVerdict(u) ==
    /\ verdicts[u] # Absent
    /\ verdicts' = [verdicts EXCEPT ![u] = Absent]
    /\ UNCHANGED <<blocklist, checks>>

\* Another release: requests that the old one has not answered are lost.
Deploy(b) ==
    /\ blocklist' = b
    /\ checks' = [k \in Checks |->
          IF checks[k].pc \in {"sent", "set"} THEN [checks[k] EXCEPT !.pc = "lost"]
                                              ELSE checks[k]]
    /\ UNCHANGED verdicts

ServerStep(k) == CacheHit(k) \/ CacheMiss(k) \/ SetVerdict(k) \/ SetFails(k) \/ Refused(k)
=============================================================================
