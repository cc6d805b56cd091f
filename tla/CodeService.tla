----------------------------- MODULE CodeService -----------------------------
(***************************************************************************)
(* The owner's side of dynamic codes: POST, PATCH and DELETE /api/v1/codes *)
(* (internal/http/handlers/codes.go over internal/codes/service.go).       *)
(*                                                                         *)
(* Each member of Requests is a server goroutine that handles one request  *)
(* after another.  Between two calls to Postgres or Redis the goroutine    *)
(* holds only its own state, api[r]; every such call is one step, so any   *)
(* other goroutine may run between two of them.  The first call of a       *)
(* request is merged with its arrival.  The GET handlers change nothing    *)
(* and are left out here.                                                  *)
(***************************************************************************)
EXTENDS RedirectCache, FiniteSets

CONSTANTS
    Requests,           \* the goroutines serving owners
    Malicious,          \* the destinations the safety check calls malicious
    MaxSlugAttempts,    \* maxSlugAttempts
    Faults              \* what may fail: "postgres", "redis", "crash"

ASSUME ServiceAssumption ==
    /\ Malicious \subseteq Dests
    /\ MaxSlugAttempts \in Nat \ {0}
    /\ Faults \subseteq {"postgres", "redis", "crash"}

VARIABLE
    api         \* api[r]: where request r stands and what it holds

\* The call the goroutine makes next.
Steps == {"idle", "create", "destination", "invalidate", "label", "reload", "delete"}

\* The answer last written, by status: 2xx, 400, 404 or 500.
Replies == {"none", "ok", "refused", "not_found", "failed"}

Request == [
    pc          : Steps,
    user        : Users \cup {Absent},      \* UserIDFromContext
    id          : CodeIds \cup {Absent},    \* the {id} of the path
    destination : Dests \cup {Absent},      \* in.Destination, or payload.url
    label       : Labels \cup {Absent},     \* in.Label
    slug        : Slugs \cup {Absent},      \* c.Dynamic.Slug as first loaded
    attempt     : 0 .. MaxSlugAttempts,     \* of Create's loop
    reply       : Replies]

ServiceTypeOK == api \in [Requests -> Request]

NoRequest == [pc |-> "idle", user |-> Absent, id |-> Absent, destination |-> Absent,
              label |-> Absent, slug |-> Absent, attempt |-> 0, reply |-> "none"]

ServiceInit == api = [r \in Requests |-> NoRequest]

At(r, step) == api[r].pc = step

\* Request r has arrived and made its first call.
Begin(r, step, u, i, d, l, s) ==
    api' = [api EXCEPT ![r] = [pc |-> step, user |-> u, id |-> i, destination |-> d,
                               label |-> l, slug |-> s, attempt |-> 1, reply |-> "none"]]

Goto(r, step) == api' = [api EXCEPT ![r].pc = step]

Answer(r, reply) == api' = [api EXCEPT ![r] = [NoRequest EXCEPT !.reply = reply]]

\* writeServiceError in every case that leaves tables and cache alone.
AnswerOnly(r, reply) == Answer(r, reply) /\ UNCHANGED <<storeVars, cache>>

-----------------------------------------------------------------------------
(* Create *)

\* Mutation: the gate looks at nothing.
AcceptAny(d) == d \notin Dests

\* guardDestination refuses a malicious verdict and nothing else.  Its two
\* other branches are unreachable as main.go wires it: the checker is never
\* nil, and safety.Service.Check returns no error.
UnsafeDestination(d) == d \in Malicious

\* Bound: every creation in flight has an unused id left to draw.
IdLeft == Cardinality({r \in Requests : At(r, "create")}) < Cardinality(CodeIds \ minted)

\* POST of a static code.  "failed": it is inserted, but the acknowledgement
\* is lost.
CreateStatic(r, u, l) ==
    /\ At(r, "idle")
    /\ IdLeft
    /\ \E i \in CodeIds \ minted : InsertCode(i, u, l)
    /\ \/ Answer(r, "ok")
       \/ "postgres" \in Faults /\ Answer(r, "failed")
    /\ UNCHANGED cache

\* POST of a dynamic code up to the first attempt.  d is payload.url, Absent
\* when extractURL finds none; isURL is in.Type == TypeURL.
BeginCreateDynamic(r, u, l, isURL, d) ==
    /\ At(r, "idle")
    /\ IdLeft
    /\ IF ~isURL \/ d = Absent \/ UnsafeDestination(d)
         THEN Answer(r, "refused")
         ELSE Begin(r, "create", u, Absent, d, l, Absent)
    /\ UNCHANGED <<storeVars, cache>>

\* The attempt whose slug is free ends the request.
CreateDynamic(r, s) ==
    /\ At(r, "create")
    /\ Holders(s) = {}
    /\ \E i \in CodeIds \ minted :
          InsertDynamicCode(i, api[r].user, api[r].label, s, api[r].destination)
    /\ Answer(r, "ok")
    /\ UNCHANGED cache

\* Mutation: the loop never counts.
RetryForever(r) == Goto(r, "create")

\* Mutation: one attempt too many.
OneAttemptMore(r) ==
    IF api[r].attempt <= MaxSlugAttempts
      THEN api' = [api EXCEPT ![r].attempt = @ + 1]
      ELSE Answer(r, "failed")

\* The loop of Create after ErrSlugTaken: another attempt, or give up.
NextAttempt(r) ==
    IF api[r].attempt < MaxSlugAttempts
      THEN api' = [api EXCEPT ![r].attempt = @ + 1]
      ELSE Answer(r, "failed")

SlugCollision(r, s) ==
    /\ At(r, "create")
    /\ Holders(s) # {}
    /\ \E i \in CodeIds \ minted : RollbackCollision(i)
    /\ NextAttempt(r)
    /\ UNCHANGED cache

-----------------------------------------------------------------------------
(* Update *)

\* After the destination: the label if the PATCH has one, then the re-read.
AfterDestination(l) == IF l # Absent THEN "label" ELSE "reload"

\* PATCH up to its first write: GetByID, then the checks on the destination.
BeginUpdate(r, u, i, d, l) ==
    /\ At(r, "idle")
    /\ IF ~Owns(u, i)
         THEN Answer(r, "not_found")
         ELSE IF /\ d # Absent
                 /\ SlugOf(i) = Absent \/ ~codes[i].is_dynamic \/ UnsafeDestination(d)
         THEN Answer(r, "refused")
         ELSE Begin(r, IF d # Absent THEN "destination" ELSE AfterDestination(l),
                    u, i, d, l, SlugOf(i))
    /\ UNCHANGED <<storeVars, cache>>

\* Mutation: the update forgets the cache.
UpdateThenSkip(r) ==
    /\ At(r, "destination")
    /\ SetDestination(api[r].id, api[r].destination)
    /\ Goto(r, AfterDestination(api[r].label))
    /\ UNCHANGED cache

UpdateDestination(r) ==
    /\ At(r, "destination")
    /\ SetDestination(api[r].id, api[r].destination)
    /\ Goto(r, "invalidate")
    /\ UNCHANGED cache

UpdateLabel(r) ==
    /\ At(r, "label")
    /\ SetLabel(api[r].user, api[r].id, api[r].label)
    /\ Goto(r, "reload")
    /\ UNCHANGED cache

\* The second GetByID, whose row is the answer.
Reload(r) ==
    /\ At(r, "reload")
    /\ Owns(api[r].user, api[r].id)
    /\ AnswerOnly(r, "ok")

-----------------------------------------------------------------------------
(* Delete *)

\* DELETE up to its write: GetByID.
BeginDelete(r, u, i) ==
    /\ At(r, "idle")
    /\ IF Owns(u, i)
         THEN Begin(r, "delete", u, i, Absent, Absent, SlugOf(i))
         ELSE Answer(r, "not_found")
    /\ UNCHANGED <<storeVars, cache>>

DeleteRow(r) ==
    /\ At(r, "delete")
    /\ DeleteCode(api[r].user, api[r].id)
    /\ IF api[r].slug # Absent THEN Goto(r, "invalidate") ELSE Answer(r, "ok")
    /\ UNCHANGED cache

-----------------------------------------------------------------------------
(* Shared steps *)

\* What follows s.cache.Invalidate, whether it worked or not.  Only an Update
\* that set a destination invalidates, so a request without one is a Delete.
AfterInvalidate(r) ==
    IF api[r].destination = Absent
      THEN Answer(r, "ok")
      ELSE Goto(r, AfterDestination(api[r].label))

\* Mutation: an update writes its destination through to the cache.
WriteThrough(r) ==
    /\ At(r, "invalidate")
    /\ IF api[r].destination = Absent
         THEN Invalidate(api[r].slug)
         ELSE Store(api[r].slug, [destination |-> api[r].destination, code_id |-> api[r].id])
    /\ AfterInvalidate(r)
    /\ UNCHANGED storeVars

InvalidateSlug(r) ==
    /\ At(r, "invalidate")
    /\ Invalidate(api[r].slug)
    /\ AfterInvalidate(r)
    /\ UNCHANGED storeVars

\* Mutation: every write goes through the join, so a static code is not found.
NotDynamicIsGone(r) ==
    /\ api[r].pc \in {"destination", "label", "reload", "delete"}
    /\ dynamic_codes[api[r].id] = Absent
    /\ AnswerOnly(r, "not_found")

\* The row the request loaded at first is gone: ErrNotFound.
RowGone(r) ==
    /\ \/ At(r, "destination") /\ dynamic_codes[api[r].id] = Absent
       \/ api[r].pc \in {"label", "reload", "delete"} /\ ~Owns(api[r].user, api[r].id)
    /\ AnswerOnly(r, "not_found")

-----------------------------------------------------------------------------
(* Failures: a broken connection, or r.Context() cancelled because the       *)
(* client went away.                                                         *)

\* The first call of a request fails.
FirstCallFails(r) ==
    /\ "postgres" \in Faults
    /\ At(r, "idle")
    /\ AnswerOnly(r, "failed")

\* A statement fails and has no effect.
StatementFails(r) ==
    /\ "postgres" \in Faults
    /\ api[r].pc \in {"create", "destination", "label", "reload", "delete"}
    /\ AnswerOnly(r, "failed")

\* A creation commits but its acknowledgement is lost.
CreateUnacked(r, s) ==
    /\ "postgres" \in Faults
    /\ At(r, "create")
    /\ Holders(s) = {}
    /\ \E i \in CodeIds \ minted :
          InsertDynamicCode(i, api[r].user, api[r].label, s, api[r].destination)
    /\ Answer(r, "failed")
    /\ UNCHANGED cache

\* A label is written but its acknowledgement is lost.
LabelUnacked(r) ==
    /\ "postgres" \in Faults
    /\ At(r, "label")
    /\ SetLabel(api[r].user, api[r].id, api[r].label)
    /\ Answer(r, "failed")
    /\ UNCHANGED cache

\* The destination changes or the row goes, the acknowledgement is lost, and
\* the service returns the error without invalidating.
WriteUnacked(r) ==
    /\ "postgres" \in Faults
    /\ \/ At(r, "destination") /\ SetDestination(api[r].id, api[r].destination)
       \/ At(r, "delete") /\ DeleteCode(api[r].user, api[r].id)
    /\ Answer(r, "failed")
    /\ UNCHANGED cache

\* Invalidate fails: logged, and the request goes on.
InvalidateFails(r) ==
    /\ "redis" \in Faults
    /\ At(r, "invalidate")
    /\ AfterInvalidate(r)
    /\ UNCHANGED <<storeVars, cache>>
=============================================================================
