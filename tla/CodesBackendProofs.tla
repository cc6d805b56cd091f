-------------------------- MODULE CodesBackendProofs --------------------------
(***************************************************************************)
(* Proofs about CodesBackend, for any number of users, requests, visits,   *)
(* slugs and destinations, and that it implements SlugDirectory: every     *)
(* step maps to a relinking of one slug, a redirect, the fading of former  *)
(* targets, or nothing.                                                    *)
(***************************************************************************)
EXTENDS CodesDirectory, TLAPS

-----------------------------------------------------------------------------
(* Why it holds: the inductive invariant *)

\* A row's id was drawn, so no later creation reuses it.
RowsMinted == \A i \in CodeIds : codes[i] # Absent => i \in minted

\* What a request carries from one call to the next.  The slug it loaded stays
\* its code's slug for as long as the code exists, and the destination it
\* carries passed the safety check.  (ids and rows: minted and dynamic_codes.)
Carries(q, ids, rows) ==
    /\ q.pc = "create"
         => q.user \in Users /\ q.label \in Labels /\ q.destination \in Dests \ Malicious
    /\ q.pc \in {"destination", "label", "reload", "delete"}
         => q.user \in Users /\ q.id \in ids
    /\ q.pc = "destination"
         => q.slug \in Slugs /\ q.destination \in Dests \ Malicious
    /\ q.pc \in {"destination", "delete"} /\ rows[q.id] # Absent
         => q.slug = rows[q.id].slug
    /\ q.pc = "label" => q.label \in Labels
    /\ q.pc = "invalidate" => q.slug \in Slugs
    /\ q.pc = "invalidate" /\ q.destination # Absent
         => q.user \in Users /\ q.id \in ids

RequestsCarry == \A r \in Requests : Carries(api[r], minted, dynamic_codes)

\* A visit about to store holds the slug's current target, or was overtaken.
VisitsCarry ==
    \A v \in Visits :
        /\ visits[v].pc # "idle" => visits[v].slug \in Slugs
        /\ visits[v].pc \in {"store", "record"} => visits[v].target \in CachedTarget
        /\ visits[v].pc = "store" /\ v \notin overtaken
             => visits[v].target = ResolveSlug(visits[v].slug)

Inv ==
    /\ TypeOK
    /\ RowsAgree
    /\ RowsMinted
    /\ RequestsCarry
    /\ VisitsCarry
    /\ NoUnsafeTarget
    /\ StaleIsExplained

\* The code a request is at work on is still its user's, and still dynamic if
\* its destination is to be set, or it is gone.  (rows: codes.)
StillOwns(q, rows) ==
    ( \/ q.pc \in {"destination", "label", "reload", "delete"}
      \/ q.pc = "invalidate" /\ q.destination # Absent )
    => (rows[q.id] # Absent
         => rows[q.id].user = q.user /\ (q.pc = "destination" => rows[q.id].is_dynamic))

OwnersHold == \A r \in Requests : StillOwns(api[r], codes)

-----------------------------------------------------------------------------
(* What a slug resolves to *)

\* In a table with unique slugs, a row is what its slug resolves to
\* (repository.ResolveSlug).
LEMMA TargetOfRow ==
    ASSUME NEW rows, UniqueIn(rows), NEW i \in CodeIds, rows[i] # Absent
    PROVE  TargetIn(rows, rows[i].slug)
             = [destination |-> rows[i].destination, code_id |-> i]
<1> DEFINE H == HoldersIn(rows, rows[i].slug)
<1>1. i \in H
  BY DEF HoldersIn
<1>2. \A h \in H : h = i
  BY DEF HoldersIn, UniqueIn
<1>3. (CHOOSE h \in H : TRUE) = i
  BY <1>1, <1>2
<1>4. H # {}
  BY <1>1
<1> QED
  BY <1>3, <1>4 DEF TargetIn

\* A slug no row holds resolves to nothing.
LEMMA TargetOfNone ==
    ASSUME NEW rows, NEW s, \A i \in CodeIds : rows[i] # Absent => rows[i].slug # s
    PROVE  TargetIn(rows, s) = Absent
<1>1. HoldersIn(rows, s) = {}
  BY DEF HoldersIn
<1> QED
  BY <1>1 DEF TargetIn

\* A slug resolves to a cacheable target or to nothing.
LEMMA TargetType ==
    ASSUME NEW rows \in [CodeIds -> DynamicCode \cup {Absent}], UniqueIn(rows), NEW s
    PROVE  TargetIn(rows, s) \in CachedTarget \cup {Absent}
<1>1. CASE \E i \in CodeIds : rows[i] # Absent /\ rows[i].slug = s
  <2>1. PICK i \in CodeIds : rows[i] # Absent /\ rows[i].slug = s
    BY <1>1
  <2>2. TargetIn(rows, s) = [destination |-> rows[i].destination, code_id |-> i]
    BY <2>1, TargetOfRow
  <2>3. rows[i] \in DynamicCode
    BY <2>1
  <2> QED
    BY <2>2, <2>3 DEF DynamicCode, CachedTarget
<1>2. CASE \A i \in CodeIds : rows[i] # Absent => rows[i].slug # s
  BY <1>2, TargetOfNone
<1> QED
  BY <1>1, <1>2

\* Two tables that agree on the rows of one slug resolve it alike.
LEMMA TargetSame ==
    ASSUME NEW rows, NEW rows2, UniqueIn(rows), UniqueIn(rows2), NEW s,
           \A i \in CodeIds :
              (rows[i] # Absent /\ rows[i].slug = s) \/ (rows2[i] # Absent /\ rows2[i].slug = s)
              => rows[i] = rows2[i]
    PROVE  TargetIn(rows, s) = TargetIn(rows2, s)
<1>1. CASE \E i \in CodeIds : rows[i] # Absent /\ rows[i].slug = s
  <2>1. PICK i \in CodeIds : rows[i] # Absent /\ rows[i].slug = s
    BY <1>1
  <2>2. rows2[i] = rows[i]
    BY <2>1
  <2>3. TargetIn(rows, s) = [destination |-> rows[i].destination, code_id |-> i]
    BY <2>1, TargetOfRow
  <2>4. TargetIn(rows2, s) = [destination |-> rows2[i].destination, code_id |-> i]
    BY <2>1, <2>2, TargetOfRow
  <2> QED
    BY <2>2, <2>3, <2>4
<1>2. CASE \A i \in CodeIds : rows[i] # Absent => rows[i].slug # s
  <2>1. \A i \in CodeIds : rows2[i] # Absent => rows2[i].slug # s
    BY <1>2
  <2> QED
    BY <1>2, <2>1, TargetOfNone
<1> QED
  BY <1>1, <1>2

-----------------------------------------------------------------------------
(* What a step of a request preserves *)

\* Ids stay drawn, and a code keeps its slug for as long as it exists.
Grows ==
    /\ minted \subseteq minted'
    /\ \A i \in minted : dynamic_codes'[i] # Absent
          => dynamic_codes[i] # Absent /\ dynamic_codes'[i].slug = dynamic_codes[i].slug

\* The tables of the invariant.
TablesOK ==
    /\ StoreTypeOK
    /\ RowsAgree
    /\ RowsMinted
    /\ \A i \in CodeIds :
          dynamic_codes[i] # Absent => dynamic_codes[i].destination \notin Malicious

\* Request r, not owing an invalidation, takes a step that may write the
\* tables: each slug it redirects elsewhere was free or is accounted for.
RequestStep(r) ==
    /\ r \in Requests
    /\ ~At(r, "invalidate")
    /\ \E q \in Request : /\ api' = [api EXCEPT ![r] = q]
                          /\ Carries(q, minted', dynamic_codes')
    /\ TablesOK'
    /\ Grows
    /\ \A s \in Slugs : \/ ResolveSlug(s)' = ResolveSlug(s)
                        \/ ResolveSlug(s) = Absent
                        \/ s \in Pending' \cup excused'
    /\ overtaken \cup Overtaken \subseteq overtaken'
    /\ overtaken' \subseteq Visits
    /\ excused \subseteq excused'
    /\ excused' \subseteq Slugs
    /\ UNCHANGED <<visitVars, cache>>

\* What a request carries survives the steps of others.
LEMMA CarriesGrows ==
    ASSUME NEW q, NEW ids, NEW ids2, NEW rows, NEW rows2,
           Carries(q, ids, rows),
           ids \subseteq ids2,
           \A i \in ids : rows2[i] # Absent
              => rows[i] # Absent /\ rows2[i].slug = rows[i].slug
    PROVE  Carries(q, ids2, rows2)
BY DEF Carries

\* One request moves, the others keep what they carry.
LEMMA ApiStep ==
    ASSUME ServiceTypeOK, RequestsCarry, NEW r \in Requests, Grows,
           \E q \in Request : /\ api' = [api EXCEPT ![r] = q]
                              /\ Carries(q, minted', dynamic_codes')
    PROVE  ServiceTypeOK' /\ RequestsCarry'
<1>1. PICK q \in Request : /\ api' = [api EXCEPT ![r] = q]
                           /\ Carries(q, minted', dynamic_codes')
  OBVIOUS
<1>2. ServiceTypeOK'
  BY <1>1 DEF ServiceTypeOK
<1>3. ASSUME NEW p \in Requests
      PROVE  Carries(api'[p], minted', dynamic_codes')
  <2>1. CASE p = r
    BY <1>1, <2>1 DEF ServiceTypeOK
  <2>2. CASE p # r
    <3>1. api'[p] = api[p]
      BY <1>1, <2>2 DEF ServiceTypeOK
    <3>2. Carries(api[p], minted, dynamic_codes)
      BY DEF RequestsCarry
    <3>3. Carries(api[p], minted', dynamic_codes')
      BY <3>2, CarriesGrows DEF Grows
    <3> QED
      BY <3>1, <3>3
  <2> QED
    BY <2>1, <2>2
<1> QED
  BY <1>2, <1>3 DEF RequestsCarry

\* An invalidation owed by another request stays owed.
LEMMA PendingKept ==
    ASSUME ServiceTypeOK, NEW r \in Requests, ~At(r, "invalidate"),
           \A p \in Requests \ {r} : api'[p] = api[p]
    PROVE  Pending \subseteq Pending'
BY DEF Pending, At

\* A visit about to store stays right about its target, or is overtaken.
LEMMA VisitsOvertaken ==
    ASSUME VisitsCarry, overtaken \cup Overtaken \subseteq overtaken', UNCHANGED visits
    PROVE  VisitsCarry'
<1> SUFFICES ASSUME NEW v \in Visits
             PROVE  /\ visits[v].pc # "idle" => visits[v].slug \in Slugs
                    /\ visits[v].pc \in {"store", "record"} => visits[v].target \in CachedTarget
                    /\ visits[v].pc = "store" /\ v \notin overtaken'
                         => visits[v].target = ResolveSlug(visits[v].slug)'
  BY DEF VisitsCarry
<1>1. /\ visits[v].pc # "idle" => visits[v].slug \in Slugs
      /\ visits[v].pc \in {"store", "record"} => visits[v].target \in CachedTarget
      /\ visits[v].pc = "store" /\ v \notin overtaken
           => visits[v].target = ResolveSlug(visits[v].slug)
  BY DEF VisitsCarry
<1>2. ASSUME visits[v].pc = "store", v \notin overtaken'
      PROVE  visits[v].target = ResolveSlug(visits[v].slug)'
  <2>1. v \notin Overtaken /\ v \notin overtaken
    BY <1>2
  <2>2. \A s \in Slugs : s = visits[v].slug => ResolveSlug(s)' = ResolveSlug(s)
    BY <2>1, <1>2 DEF Overtaken, VisitAt
  <2>3. PICK s \in Slugs : s = visits[v].slug
    BY <1>1, <1>2
  <2>4. visits[v].slug' = s
    BY <2>3
  <2>5. ResolveSlug(visits[v].slug)' = ResolveSlug(s)'
    BY <2>4 DEF ResolveSlug
  <2> QED
    BY <1>1, <1>2, <2>1, <2>2, <2>3, <2>5
<1> QED
  BY <1>1, <1>2

\* Every step of a request that owes no invalidation keeps the invariant.
LEMMA RequestStepInv ==
    ASSUME Inv, NEW r, RequestStep(r)
    PROVE  Inv'
<1> USE DEF RequestStep
<1>1. ServiceTypeOK' /\ RequestsCarry'
  BY ApiStep DEF Inv, TypeOK
<1>2. VisitsCarry'
  BY VisitsOvertaken DEF Inv, visitVars
<1>3. StaleIsExplained'
  <2>1. \A p \in Requests \ {r} : api'[p] = api[p]
    BY DEF Inv, TypeOK, ServiceTypeOK
  <2>2. Pending \subseteq Pending'
    BY <2>1, PendingKept DEF Inv, TypeOK
  <2>3. ASSUME NEW s \in Slugs, cache[s] # Absent, cache[s] # ResolveSlug(s)'
        PROVE  s \in Pending' \cup excused'
    <3>1. CASE ResolveSlug(s)' = ResolveSlug(s) \/ ResolveSlug(s) = Absent
      BY <2>2, <2>3, <3>1 DEF Inv, StaleIsExplained, Stale
    <3> QED
      BY <3>1
  <2> QED
    BY <2>3 DEF StaleIsExplained, Stale
<1>4. TypeOK'
  BY <1>1 DEF Inv, TypeOK, TablesOK, CacheTypeOK, RedirectTypeOK, visitVars
<1>5. NoUnsafeTarget'
  BY DEF Inv, NoUnsafeTarget, TablesOK, visitVars
<1> QED
  BY <1>1, <1>2, <1>3, <1>4, <1>5 DEF Inv, TablesOK

-----------------------------------------------------------------------------
(* The steps of CodeService *)

\* A step that leaves the tables alone needs only a proper next state.
LEMMA LocalRequestStep ==
    ASSUME Inv, NEW r \in Requests, ~At(r, "invalidate"),
           UNCHANGED <<storeVars, cache, visitVars, overtaken, excused>>,
           \E q \in Request : api' = [api EXCEPT ![r] = q] /\ Carries(q, minted, dynamic_codes)
    PROVE  RequestStep(r)
<1> USE DEF Inv, TypeOK, storeVars
<1>1. TablesOK'
  BY DEF TablesOK, StoreTypeOK, RowsAgree, UniqueIn, RowsMinted, NoUnsafeTarget
<1>2. Grows
  BY DEF Grows
<1>3. \A s \in Slugs : ResolveSlug(s)' = ResolveSlug(s)
  BY DEF ResolveSlug
<1>4. Overtaken = {}
  BY <1>3 DEF Overtaken
<1> QED
  BY <1>1, <1>2, <1>3, <1>4 DEF RequestStep

\* An answered request carries nothing.
LEMMA AnsweredCarries ==
    ASSUME NEW reply \in Replies, NEW ids, NEW rows
    PROVE  /\ [NoRequest EXCEPT !.reply = reply] \in Request
           /\ Carries([NoRequest EXCEPT !.reply = reply], ids, rows)
BY ServiceAssumption DEF NoRequest, Request, Carries, Steps, Replies

\* A request that has just begun is a request.
LEMMA BegunIsRequest ==
    ASSUME NEW step \in Steps, NEW u \in Users, NEW i \in CodeIds \cup {Absent},
           NEW d \in Dests \cup {Absent}, NEW l \in Labels \cup {Absent},
           NEW s \in Slugs \cup {Absent}
    PROVE  [pc |-> step, user |-> u, id |-> i, destination |-> d, label |-> l,
            slug |-> s, attempt |-> 1, reply |-> "none"] \in Request
<1>1. 1 \in 0 .. MaxSlugAttempts
  BY ServiceAssumption
<1>2. "none" \in Replies
  BY DEF Replies
<1> QED
  BY <1>1, <1>2 DEF Request

\* A goroutine that moves on within its request keeps what it holds.
LEMMA MovedIsRequest ==
    ASSUME ServiceTypeOK, NEW r \in Requests, NEW step \in Steps
    PROVE  [api[r] EXCEPT !.pc = step] \in Request
BY DEF ServiceTypeOK, Request

\* The steps that only read, or only decide, leave tables and cache alone.
LEMMA ServiceLocalStep ==
    ASSUME Inv, NEW r \in Requests, ServiceLocal(r)
    PROVE  RequestStep(r)
<1>1. UNCHANGED <<storeVars, cache, visitVars, overtaken, excused>>
  BY DEF ServiceLocal, BeginCreateDynamic, SlugCollision, RollbackCollision, BeginUpdate,
         BeginDelete, Reload, RowGone, FirstCallFails, StatementFails, AnswerOnly
<1>2. ~At(r, "invalidate")
  BY DEF ServiceLocal, BeginCreateDynamic, SlugCollision, BeginUpdate, BeginDelete, Reload,
         RowGone, FirstCallFails, StatementFails, At
<1> DEFINE Fits == \E q \in Request : /\ api' = [api EXCEPT ![r] = q]
                                      /\ Carries(q, minted, dynamic_codes)
<1>3. ASSUME NEW reply \in Replies, Answer(r, reply)
      PROVE  Fits
  BY <1>3, AnsweredCarries DEF Answer
<1>4. ASSUME NEW u \in Users, NEW l \in Labels, NEW d \in Dests \cup {Absent},
             NEW isURL \in BOOLEAN, BeginCreateDynamic(r, u, l, isURL, d)
      PROVE  Fits
  <2>1. CASE Answer(r, "refused")
    BY <1>3, <2>1 DEF Replies
  <2>2. CASE ~Answer(r, "refused")
    <3> DEFINE q == [pc |-> "create", user |-> u, id |-> Absent, destination |-> d,
                     label |-> l, slug |-> Absent, attempt |-> 1, reply |-> "none"]
    <3>1. api' = [api EXCEPT ![r] = q] /\ d \in Dests \ Malicious
      BY <1>4, <2>2 DEF BeginCreateDynamic, UnsafeDestination, Begin
    <3>2. q \in Request
      BY BegunIsRequest DEF Steps
    <3>3. Carries(q, minted, dynamic_codes)
      BY <3>1 DEF Carries
    <3> QED
      BY <3>1, <3>2, <3>3
  <2> QED
    BY <2>1, <2>2
<1>5. ASSUME NEW s \in Slugs, SlugCollision(r, s)
      PROVE  Fits
  <2>1. CASE Answer(r, "failed")
    BY <1>3, <2>1 DEF Replies
  <2>2. CASE ~Answer(r, "failed")
    <3> DEFINE q == [api[r] EXCEPT !.attempt = @ + 1]
    <3>1. api' = [api EXCEPT ![r] = q] /\ api[r].attempt < MaxSlugAttempts
      BY <1>5, <2>2 DEF SlugCollision, NextAttempt
    <3>2. api[r] \in Request /\ Carries(api[r], minted, dynamic_codes)
      BY DEF Inv, TypeOK, ServiceTypeOK, RequestsCarry
    <3>3. q \in Request
      BY <3>1, <3>2, ServiceAssumption DEF Request
    <3>4. Carries(q, minted, dynamic_codes)
      BY <3>2 DEF Carries, Request
    <3> QED
      BY <3>1, <3>3, <3>4
  <2> QED
    BY <2>1, <2>2
<1>6. ASSUME NEW u \in Users, NEW i \in CodeIds, Owns(u, i)
      PROVE  /\ i \in minted
             /\ SlugOf(i) \in Slugs \cup {Absent}
             /\ dynamic_codes[i] # Absent => SlugOf(i) = dynamic_codes[i].slug
  <2>1. i \in minted
    BY <1>6 DEF Inv, Owns, RowsMinted
  <2> QED
    BY <2>1 DEF Inv, TypeOK, StoreTypeOK, SlugOf, DynamicCode
<1>7. ASSUME NEW u \in Users, NEW i \in CodeIds, NEW d \in Dests \cup {Absent},
             NEW l \in Labels \cup {Absent}, BeginUpdate(r, u, i, d, l)
      PROVE  Fits
  <2>1. CASE Answer(r, "not_found") \/ Answer(r, "refused")
    BY <1>3, <2>1 DEF Replies
  <2>2. CASE ~Answer(r, "not_found") /\ ~Answer(r, "refused")
    <3> DEFINE step == IF d # Absent THEN "destination" ELSE AfterDestination(l)
               q == [pc |-> step, user |-> u, id |-> i, destination |-> d,
                     label |-> l, slug |-> SlugOf(i), attempt |-> 1, reply |-> "none"]
    <3>1. /\ api' = [api EXCEPT ![r] = q]
          /\ Owns(u, i)
          /\ d # Absent => SlugOf(i) # Absent /\ d \notin Malicious
      BY <1>7, <2>2 DEF BeginUpdate, UnsafeDestination, Begin
    <3>2. step \in {"destination", "label", "reload"}
      BY DEF AfterDestination
    <3>3. /\ step = "destination" => d # Absent
          /\ step = "label" => l # Absent
      BY DEF AfterDestination
    <3> HIDE DEF step
    <3>4. q \in Request
      BY <1>6, <3>1, <3>2, BegunIsRequest DEF Steps
    <3>5. Carries(q, minted, dynamic_codes)
      BY <1>6, <3>1, <3>2, <3>3 DEF Carries
    <3> QED
      BY <3>1, <3>4, <3>5
  <2> QED
    BY <2>1, <2>2
<1>8. ASSUME NEW u \in Users, NEW i \in CodeIds, BeginDelete(r, u, i)
      PROVE  Fits
  <2>1. CASE Answer(r, "not_found")
    BY <1>3, <2>1 DEF Replies
  <2>2. CASE ~Answer(r, "not_found")
    <3> DEFINE q == [pc |-> "delete", user |-> u, id |-> i, destination |-> Absent,
                     label |-> Absent, slug |-> SlugOf(i), attempt |-> 1, reply |-> "none"]
    <3>1. api' = [api EXCEPT ![r] = q] /\ Owns(u, i)
      BY <1>8, <2>2 DEF BeginDelete, Begin
    <3>2. q \in Request
      BY <1>6, <3>1, BegunIsRequest DEF Steps
    <3>3. Carries(q, minted, dynamic_codes)
      BY <1>6, <3>1 DEF Carries
    <3> QED
      BY <3>1, <3>2, <3>3
  <2> QED
    BY <2>1, <2>2
<1> HIDE DEF Fits
<1>9. ASSUME Reload(r) \/ RowGone(r) \/ FirstCallFails(r) \/ StatementFails(r)
      PROVE  Fits
  BY <1>3, <1>9 DEF Reload, RowGone, FirstCallFails, StatementFails, AnswerOnly, Replies
<1>10. Fits
  BY <1>4, <1>5, <1>7, <1>8, <1>9 DEF ServiceLocal
<1> QED
  BY <1>1, <1>2, <1>10, LocalRequestStep DEF Fits

-----------------------------------------------------------------------------
(* What each statement does to the tables *)

\* Slug s leads where it led before.
Same(s) == ResolveSlug(s)' = ResolveSlug(s)

\* Rows of the invariant's tables.
LEMMA RowTypes ==
    ASSUME TablesOK
    PROVE  /\ \A i \in CodeIds : codes[i] # Absent => codes[i] \in Code /\ i \in minted
           /\ \A i \in CodeIds : dynamic_codes[i] # Absent
                => /\ dynamic_codes[i] \in DynamicCode
                   /\ i \in minted
                   /\ codes[i] # Absent
           /\ Absent \notin Code /\ Absent \notin DynamicCode
<1>1. \A i \in CodeIds : codes[i] # Absent => codes[i] \in Code /\ i \in minted
  BY DEF TablesOK, StoreTypeOK, RowsMinted
<1>2. \A i \in CodeIds : dynamic_codes[i] # Absent
        => dynamic_codes[i] \in DynamicCode /\ codes[i] # Absent
  BY DEF TablesOK, StoreTypeOK, RowsAgree
<1>3. Absent \notin Code /\ Absent \notin DynamicCode
  BY AbsentIsNil
<1> QED
  BY <1>1, <1>2, <1>3

\* repository.Create
LEMMA InsertCodeEffect ==
    ASSUME TablesOK, NEW i \in CodeIds \ minted, NEW u \in Users, NEW l \in Labels,
           InsertCode(i, u, l)
    PROVE  TablesOK' /\ Grows /\ \A s \in Slugs : Same(s)
<1> DEFINE row == [user |-> u, is_dynamic |-> FALSE, label |-> l]
<1>1. row \in Code /\ ~row.is_dynamic
  BY DEF Code
<1>2. /\ codes' = [codes EXCEPT ![i] = row]
      /\ minted' = minted \cup {i}
      /\ dynamic_codes' = dynamic_codes
  BY DEF InsertCode
<1> HIDE DEF row
<1>3. StoreTypeOK'
  BY <1>1, <1>2 DEF TablesOK, StoreTypeOK
<1>4. RowsAgree'
  <2>1. dynamic_codes[i] = Absent
    BY RowTypes
  <2>2. \A j \in CodeIds : codes'[j] = IF j = i THEN row ELSE codes[j]
    BY <1>2 DEF TablesOK, StoreTypeOK
  <2> QED
    BY <1>1, <1>2, <2>1, <2>2 DEF TablesOK, RowsAgree, UniqueIn
<1>5. RowsMinted'
  BY <1>2 DEF TablesOK, RowsMinted, StoreTypeOK
<1>6. Grows
  BY <1>2 DEF Grows
<1>7. \A s \in Slugs : Same(s)
  BY <1>2 DEF Same, ResolveSlug
<1> QED
  BY <1>2, <1>3, <1>4, <1>5, <1>6, <1>7 DEF TablesOK

\* repository.CreateDynamic with a free slug: no other slug is touched.
LEMMA InsertDynamicEffect ==
    ASSUME TablesOK, NEW i \in CodeIds \ minted, NEW u \in Users, NEW l \in Labels,
           NEW s \in Slugs, NEW d \in Dests \ Malicious,
           Holders(s) = {}, InsertDynamicCode(i, u, l, s, d)
    PROVE  TablesOK' /\ Grows /\ \A t \in Slugs : Same(t) \/ ResolveSlug(t) = Absent
<1> DEFINE row == [user |-> u, is_dynamic |-> TRUE, label |-> l]
           dyn == [slug |-> s, destination |-> d]
<1>1. /\ row \in Code /\ row.is_dynamic /\ row # Absent
      /\ dyn \in DynamicCode /\ dyn.slug = s /\ dyn.destination = d /\ dyn # Absent
  <2>1. row \in Code /\ row.is_dynamic
    BY DEF Code
  <2>2. dyn \in DynamicCode /\ dyn.slug = s /\ dyn.destination = d
    BY DEF DynamicCode
  <2> HIDE DEF row, dyn
  <2> QED
    BY <2>1, <2>2, RowTypes
<1>2. /\ codes' = [codes EXCEPT ![i] = row]
      /\ dynamic_codes' = [dynamic_codes EXCEPT ![i] = dyn]
      /\ minted' = minted \cup {i}
  BY DEF InsertDynamicCode
<1> HIDE DEF row, dyn
<1>3. StoreTypeOK'
  BY <1>1, <1>2 DEF TablesOK, StoreTypeOK
<1>4. /\ dynamic_codes[i] = Absent
      /\ \A j \in CodeIds : dynamic_codes[j] # Absent => dynamic_codes[j].slug # s
  BY RowTypes DEF Holders, HoldersIn
<1>5. \A j \in CodeIds : /\ codes'[j] = IF j = i THEN row ELSE codes[j]
                         /\ dynamic_codes'[j] = IF j = i THEN dyn ELSE dynamic_codes[j]
  BY <1>2 DEF TablesOK, StoreTypeOK
<1>6. UniqueIn(dynamic_codes')
  BY <1>1, <1>4, <1>5 DEF TablesOK, RowsAgree, UniqueIn
<1>7. RowsAgree'
  BY <1>1, <1>5, <1>6 DEF TablesOK, RowsAgree
<1>8. RowsMinted'
  BY <1>2, <1>5 DEF TablesOK, RowsMinted
<1>9. Grows
  BY <1>2, <1>5 DEF Grows, TablesOK, StoreTypeOK
<1>10. ASSUME NEW t \in Slugs
       PROVE  Same(t) \/ ResolveSlug(t) = Absent
  <2>1. CASE t = s
    BY <1>4, <2>1, TargetOfNone DEF ResolveSlug
  <2>2. CASE t # s
    <3>1. \A j \in CodeIds :
            \/ dynamic_codes[j] # Absent /\ dynamic_codes[j].slug = t
            \/ dynamic_codes'[j] # Absent /\ dynamic_codes'[j].slug = t
            => dynamic_codes[j] = dynamic_codes'[j]
      BY <1>1, <1>4, <1>5, <2>2
    <3> QED
      BY <1>6, <3>1, TargetSame DEF Same, ResolveSlug, TablesOK, RowsAgree
  <2> QED
    BY <2>1, <2>2
<1>11. \A j \in CodeIds : dynamic_codes'[j] # Absent
                            => dynamic_codes'[j].destination \notin Malicious
  BY <1>1, <1>5 DEF TablesOK
<1> QED
  BY <1>3, <1>7, <1>8, <1>9, <1>10, <1>11 DEF TablesOK

\* repository.UpdateLabel
LEMMA SetLabelEffect ==
    ASSUME TablesOK, NEW i \in CodeIds, NEW u \in Users, NEW l \in Labels, SetLabel(u, i, l)
    PROVE  TablesOK' /\ Grows /\ \A s \in Slugs : Same(s)
<1> DEFINE row == [codes[i] EXCEPT !.label = l]
<1>1. codes[i] # Absent /\ codes[i] \in Code
  BY RowTypes DEF SetLabel, Owns
<1>2. row \in Code /\ row.is_dynamic = codes[i].is_dynamic /\ row # Absent
  BY <1>1, AbsentIsNil DEF Code
<1>3. /\ codes' = [codes EXCEPT ![i] = row]
      /\ minted' = minted
      /\ dynamic_codes' = dynamic_codes
  BY DEF SetLabel
<1> HIDE DEF row
<1>4. StoreTypeOK'
  BY <1>2, <1>3 DEF TablesOK, StoreTypeOK
<1>5. \A j \in CodeIds : codes'[j] = IF j = i THEN row ELSE codes[j]
  BY <1>3 DEF TablesOK, StoreTypeOK
<1>6. RowsAgree'
  BY <1>1, <1>2, <1>3, <1>5 DEF TablesOK, RowsAgree, UniqueIn
<1>7. RowsMinted'
  BY <1>1, <1>3, <1>5 DEF TablesOK, RowsMinted
<1>8. Grows
  BY <1>3 DEF Grows
<1>9. \A s \in Slugs : Same(s)
  BY <1>3 DEF Same, ResolveSlug
<1> QED
  BY <1>3, <1>4, <1>6, <1>7, <1>8, <1>9 DEF TablesOK

\* repository.UpdateDestination: only the code's own slug leads elsewhere.
LEMMA SetDestinationEffect ==
    ASSUME TablesOK, NEW i \in CodeIds, NEW d \in Dests \ Malicious, SetDestination(i, d)
    PROVE  /\ TablesOK'
           /\ Grows
           /\ \A s \in Slugs : s # dynamic_codes[i].slug => Same(s)
<1> DEFINE dyn == [dynamic_codes[i] EXCEPT !.destination = d]
<1>1. dynamic_codes[i] # Absent /\ dynamic_codes[i] \in DynamicCode
  BY RowTypes DEF SetDestination
<1>2. /\ dyn \in DynamicCode /\ dyn # Absent
      /\ dyn.slug = dynamic_codes[i].slug
      /\ dyn.destination = d
  BY <1>1, AbsentIsNil DEF DynamicCode
<1>3. /\ dynamic_codes' = [dynamic_codes EXCEPT ![i] = dyn]
      /\ codes' = codes
      /\ minted' = minted
  BY DEF SetDestination
<1> HIDE DEF dyn
<1>4. StoreTypeOK'
  BY <1>2, <1>3 DEF TablesOK, StoreTypeOK
<1>5. \A j \in CodeIds : dynamic_codes'[j] = IF j = i THEN dyn ELSE dynamic_codes[j]
  BY <1>3 DEF TablesOK, StoreTypeOK
<1>6. UniqueIn(dynamic_codes')
  BY <1>1, <1>2, <1>5 DEF TablesOK, RowsAgree, UniqueIn
<1>7. RowsAgree'
  BY <1>1, <1>2, <1>3, <1>5, <1>6 DEF TablesOK, RowsAgree
<1>8. RowsMinted'
  BY <1>3 DEF TablesOK, RowsMinted
<1>9. Grows
  BY <1>1, <1>2, <1>3, <1>5 DEF Grows, TablesOK, StoreTypeOK
<1>10. ASSUME NEW s \in Slugs, s # dynamic_codes[i].slug
       PROVE  Same(s)
  <2>1. \A j \in CodeIds :
          \/ dynamic_codes[j] # Absent /\ dynamic_codes[j].slug = s
          \/ dynamic_codes'[j] # Absent /\ dynamic_codes'[j].slug = s
          => dynamic_codes[j] = dynamic_codes'[j]
    BY <1>2, <1>5, <1>10
  <2> QED
    BY <1>6, <2>1, TargetSame DEF Same, ResolveSlug, TablesOK, RowsAgree
<1>11. \A j \in CodeIds : dynamic_codes'[j] # Absent
                            => dynamic_codes'[j].destination \notin Malicious
  BY <1>2, <1>5 DEF TablesOK
<1> QED
  BY <1>4, <1>7, <1>8, <1>9, <1>10, <1>11 DEF TablesOK

\* repository.Delete: only the code's own slug, if it has one, leads elsewhere.
LEMMA DeleteCodeEffect ==
    ASSUME TablesOK, NEW u \in Users, NEW i \in CodeIds, DeleteCode(u, i)
    PROVE  /\ TablesOK'
           /\ Grows
           /\ \A s \in Slugs :
                dynamic_codes[i] = Absent \/ s # dynamic_codes[i].slug => Same(s)
<1>1. /\ codes' = [codes EXCEPT ![i] = Absent]
      /\ dynamic_codes' = [dynamic_codes EXCEPT ![i] = Absent]
      /\ minted' = minted
  BY DEF DeleteCode
<1>2. StoreTypeOK'
  BY <1>1 DEF TablesOK, StoreTypeOK
<1>3. \A j \in CodeIds :
        /\ codes'[j] = IF j = i THEN Absent ELSE codes[j]
        /\ dynamic_codes'[j] = IF j = i THEN Absent ELSE dynamic_codes[j]
  BY <1>1 DEF TablesOK, StoreTypeOK
<1>4. UniqueIn(dynamic_codes')
  BY <1>3 DEF TablesOK, RowsAgree, UniqueIn
<1>5. RowsAgree'
  BY <1>3, <1>4 DEF TablesOK, RowsAgree
<1>6. RowsMinted'
  BY <1>1, <1>3 DEF TablesOK, RowsMinted
<1>7. Grows
  BY <1>1, <1>3 DEF Grows, TablesOK, StoreTypeOK
<1>8. ASSUME NEW s \in Slugs, dynamic_codes[i] = Absent \/ s # dynamic_codes[i].slug
      PROVE  Same(s)
  <2>1. \A j \in CodeIds :
          \/ dynamic_codes[j] # Absent /\ dynamic_codes[j].slug = s
          \/ dynamic_codes'[j] # Absent /\ dynamic_codes'[j].slug = s
          => dynamic_codes[j] = dynamic_codes'[j]
    BY <1>3, <1>8
  <2> QED
    BY <1>4, <2>1, TargetSame DEF Same, ResolveSlug, TablesOK, RowsAgree
<1>9. \A j \in CodeIds : dynamic_codes'[j] # Absent
                            => dynamic_codes'[j].destination \notin Malicious
  BY <1>3 DEF TablesOK
<1> QED
  BY <1>2, <1>5, <1>6, <1>7, <1>8, <1>9 DEF TablesOK

-----------------------------------------------------------------------------
(* The steps of CodeService that write the tables *)

\* The invariant's part about the tables.
LEMMA InvTables == Inv => TablesOK
BY DEF Inv, TypeOK, TablesOK, NoUnsafeTarget

\* A request that goes on to invalidate owes its slug.
LEMMA GotoInvalidate ==
    ASSUME ServiceTypeOK, NEW r \in Requests, Goto(r, "invalidate")
    PROVE  api[r].slug \in Pending'
<1>1. api'[r].pc = "invalidate" /\ api'[r].slug = api[r].slug
  BY DEF Goto, ServiceTypeOK, Request
<1> QED
  BY <1>1 DEF Pending, At

\* Answering and moving on are both proper next states.
LEMMA AnswerFits ==
    ASSUME NEW r, NEW reply \in Replies, Answer(r, reply)
    PROVE  \E q \in Request : /\ api' = [api EXCEPT ![r] = q]
                              /\ Carries(q, minted', dynamic_codes')
BY AnsweredCarries DEF Answer

\* The request after Goto is the one MovedIsRequest types.
LEMMA GotoFits ==
    ASSUME ServiceTypeOK, NEW r \in Requests, NEW step \in Steps, Goto(r, step),
           Carries([api[r] EXCEPT !.pc = step], minted', dynamic_codes')
    PROVE  \E q \in Request : /\ api' = [api EXCEPT ![r] = q]
                              /\ Carries(q, minted', dynamic_codes')
BY MovedIsRequest DEF Goto

\* Inserts and label updates redirect no slug that led anywhere.
LEMMA InsertOrLabelStep ==
    ASSUME Inv, NEW r \in Requests, Overtakes, UNCHANGED <<visitVars, excused>>,
           \/ \E u \in Users, l \in Labels : CreateStatic(r, u, l)
           \/ \E s \in Slugs : CreateDynamic(r, s) \/ CreateUnacked(r, s)
           \/ UpdateLabel(r) \/ LabelUnacked(r)
    PROVE  RequestStep(r)
<1> DEFINE Fits == \E q \in Request : /\ api' = [api EXCEPT ![r] = q]
                                      /\ Carries(q, minted', dynamic_codes')
           Tables == /\ TablesOK'
                     /\ Grows
                     /\ \A s \in Slugs : Same(s) \/ ResolveSlug(s) = Absent
<1>1. api[r] \in Request /\ Carries(api[r], minted, dynamic_codes)
  BY DEF Inv, TypeOK, ServiceTypeOK, RequestsCarry
<1>2. TablesOK /\ ServiceTypeOK
  BY InvTables DEF Inv, TypeOK
<1>3. ASSUME NEW u \in Users, NEW l \in Labels, CreateStatic(r, u, l)
      PROVE  Fits /\ Tables /\ ~At(r, "invalidate") /\ UNCHANGED cache
  <2>1. PICK i \in CodeIds \ minted : InsertCode(i, u, l)
    BY <1>3 DEF CreateStatic
  <2>2. Tables
    BY <1>2, <2>1, InsertCodeEffect
  <2>3. Fits
    BY <1>3, AnswerFits DEF CreateStatic, Replies
  <2> QED
    BY <1>3, <2>2, <2>3 DEF CreateStatic, At
<1>4. ASSUME NEW s \in Slugs, CreateDynamic(r, s) \/ CreateUnacked(r, s)
      PROVE  Fits /\ Tables /\ ~At(r, "invalidate") /\ UNCHANGED cache
  <2>1. /\ At(r, "create") /\ Holders(s) = {} /\ UNCHANGED cache
        /\ Answer(r, "ok") \/ Answer(r, "failed")
    BY <1>4 DEF CreateDynamic, CreateUnacked
  <2>2. PICK i \in CodeIds \ minted :
          InsertDynamicCode(i, api[r].user, api[r].label, s, api[r].destination)
    BY <1>4 DEF CreateDynamic, CreateUnacked
  <2>3. /\ api[r].user \in Users /\ api[r].label \in Labels
        /\ api[r].destination \in Dests \ Malicious
    BY <1>1, <2>1 DEF Carries, At
  <2>4. Tables
    BY <1>2, <2>1, <2>2, <2>3, InsertDynamicEffect
  <2>5. Fits
    BY <2>1, AnswerFits DEF Replies
  <2> QED
    BY <2>1, <2>4, <2>5 DEF At
<1>5. ASSUME UpdateLabel(r) \/ LabelUnacked(r)
      PROVE  Fits /\ Tables /\ ~At(r, "invalidate") /\ UNCHANGED cache
  <2>1. /\ At(r, "label") /\ UNCHANGED cache
        /\ SetLabel(api[r].user, api[r].id, api[r].label)
        /\ Goto(r, "reload") \/ Answer(r, "failed")
    BY <1>5 DEF UpdateLabel, LabelUnacked
  <2>2. /\ api[r].user \in Users /\ api[r].id \in minted /\ api[r].label \in Labels
    BY <1>1, <2>1 DEF Carries, At
  <2>3. Tables
    BY <1>2, <2>1, <2>2, SetLabelEffect DEF TablesOK, StoreTypeOK
  <2>4. CASE Goto(r, "reload")
    <3>1. Carries([api[r] EXCEPT !.pc = "reload"], minted', dynamic_codes')
      BY <1>1, <2>2, <2>3 DEF Carries, Request, Grows
    <3>2. Fits
      BY <1>2, <2>4, <3>1, GotoFits DEF Steps
    <3> QED
      BY <2>1, <2>3, <3>2 DEF At
  <2>5. CASE Answer(r, "failed")
    <3>1. Fits
      BY <2>5, AnswerFits DEF Replies
    <3> QED
      BY <2>1, <2>3, <3>1 DEF At
  <2> QED
    BY <2>1, <2>4, <2>5
<1>6. Fits /\ Tables /\ ~At(r, "invalidate") /\ UNCHANGED cache
  BY <1>3, <1>4, <1>5
<1>7. Overtaken \subseteq Visits
  BY DEF Overtaken
<1> QED
  BY <1>6, <1>7 DEF RequestStep, Same, Overtakes, Inv, TypeOK

\* An update or a delete redirects its own slug, which it owes or has lost.
LEMMA RedirectingStep ==
    ASSUME Inv, NEW r \in Requests, Overtakes, UNCHANGED <<visitVars, cache>>,
           excused \subseteq excused', excused' \subseteq Slugs,
           \/ At(r, "destination") /\ SetDestination(api[r].id, api[r].destination)
           \/ At(r, "delete") /\ DeleteCode(api[r].user, api[r].id),
           \/ Goto(r, "invalidate") /\ api[r].slug # Absent
           \/ \E reply \in Replies : /\ Answer(r, reply)
                                     /\ api[r].slug # Absent => api[r].slug \in excused'
    PROVE  RequestStep(r)
<1> DEFINE own == api[r].slug
<1>1. api[r] \in Request /\ Carries(api[r], minted, dynamic_codes)
  BY DEF Inv, TypeOK, ServiceTypeOK, RequestsCarry
<1>2. TablesOK /\ ServiceTypeOK
  BY InvTables DEF Inv, TypeOK
<1>3. /\ api[r].user \in Users /\ api[r].id \in minted /\ api[r].id \in CodeIds
      /\ dynamic_codes[api[r].id] # Absent => dynamic_codes[api[r].id].slug = own
      /\ At(r, "destination") => api[r].destination \in Dests \ Malicious
  BY <1>1, <1>2 DEF Carries, At, TablesOK, StoreTypeOK
<1>4. TablesOK' /\ Grows /\ \A s \in Slugs : s # own => Same(s)
  <2>1. CASE At(r, "destination") /\ SetDestination(api[r].id, api[r].destination)
    BY <1>2, <1>3, <2>1, SetDestinationEffect DEF SetDestination
  <2>2. CASE At(r, "delete") /\ DeleteCode(api[r].user, api[r].id)
    BY <1>2, <1>3, <2>2, DeleteCodeEffect
  <2> QED
    BY <2>1, <2>2
<1>5. own \in Slugs \cup {Absent} /\ Absent \notin Slugs
  BY <1>1, AbsentIsNil DEF Request
<1>6. \E q \in Request : api' = [api EXCEPT ![r] = q] /\ Carries(q, minted', dynamic_codes')
  <2>1. CASE Goto(r, "invalidate") /\ own # Absent
    <3>1. Carries([api[r] EXCEPT !.pc = "invalidate"], minted', dynamic_codes')
      BY <1>1, <1>3, <1>4, <1>5, <2>1 DEF Carries, Request, Grows
    <3> QED
      BY <1>2, <2>1, <3>1, GotoFits DEF Steps
  <2>2. CASE \E reply \in Replies : Answer(r, reply)
    BY <2>2, AnswerFits
  <2> QED
    BY <2>1, <2>2
<1>7. \A s \in Slugs : s = own => s \in Pending' \cup excused'
  BY <1>2, <1>5, GotoInvalidate
<1>8. Overtaken \subseteq Visits
  BY DEF Overtaken
<1>9. ~At(r, "invalidate")
  BY DEF At
<1> QED
  BY <1>4, <1>6, <1>7, <1>8, <1>9 DEF RequestStep, Same, Overtakes, Inv, TypeOK

\* Every write of a request, acknowledged or not, keeps the invariant.
LEMMA ServiceWriteStep ==
    ASSUME Inv, NEW r \in Requests, ServiceWrite(r) \/ ServiceWriteUnacked(r)
    PROVE  RequestStep(r)
<1>1. /\ api[r] \in Request /\ Carries(api[r], minted, dynamic_codes)
      /\ excused \subseteq Slugs
  BY DEF Inv, TypeOK, ServiceTypeOK, RequestsCarry
<1>2. CASE ServiceWriteUnacked(r)
  <2>1. excused \subseteq excused' /\ excused' \subseteq Slugs
    BY <1>1, <1>2 DEF ServiceWriteUnacked
  <2>2. api[r].slug # Absent => api[r].slug \in excused'
    BY <1>1, <1>2 DEF ServiceWriteUnacked, Request
  <2>3. \E reply \in Replies : Answer(r, reply)
    BY <1>2 DEF ServiceWriteUnacked, WriteUnacked, Replies
  <2> QED
    BY <1>2, <2>1, <2>2, <2>3, RedirectingStep DEF ServiceWriteUnacked, WriteUnacked
<1>3. CASE ServiceWrite(r) /\ UpdateDestination(r)
  <2>1. api[r].slug # Absent
    BY <1>1, <1>3, AbsentIsNil DEF UpdateDestination, Carries, At
  <2> QED
    BY <1>1, <1>3, <2>1, RedirectingStep DEF ServiceWrite, UpdateDestination
<1>4. CASE ServiceWrite(r) /\ DeleteRow(r)
  <2>1. \/ Goto(r, "invalidate") /\ api[r].slug # Absent
        \/ Answer(r, "ok") /\ api[r].slug = Absent
    BY <1>4 DEF DeleteRow
  <2>2. "ok" \in Replies
    BY DEF Replies
  <2> QED
    BY <1>1, <1>4, <2>1, <2>2, RedirectingStep DEF ServiceWrite, DeleteRow
<1>5. CASE ServiceWrite(r) /\ ~UpdateDestination(r) /\ ~DeleteRow(r)
  BY <1>5, InsertOrLabelStep DEF ServiceWrite
<1> QED
  BY <1>2, <1>3, <1>4, <1>5

-----------------------------------------------------------------------------
(* The other steps *)

\* Where a request goes after its invalidation, whether it worked or not.
LEMMA AfterInvalidateFits ==
    ASSUME Inv, NEW r \in Requests, At(r, "invalidate"), AfterInvalidate(r),
           UNCHANGED storeVars
    PROVE  /\ \E q \in Request : /\ api' = [api EXCEPT ![r] = q]
                                 /\ Carries(q, minted', dynamic_codes')
           /\ api'[r].pc # "invalidate"
           /\ \A p \in Requests \ {r} : api'[p] = api[p]
<1>1. /\ api[r] \in Request /\ Carries(api[r], minted, dynamic_codes) /\ ServiceTypeOK
      /\ minted' = minted /\ dynamic_codes' = dynamic_codes
  BY DEF Inv, TypeOK, ServiceTypeOK, RequestsCarry, storeVars
<1>2. CASE api[r].destination = Absent
  <2>1. Answer(r, "ok")
    BY <1>2 DEF AfterInvalidate
  <2>2. "ok" \in Replies
    BY DEF Replies
  <2>3. api'[r].pc = "idle" /\ \A p \in Requests \ {r} : api'[p] = api[p]
    BY <1>1, <2>1 DEF Answer, NoRequest, ServiceTypeOK
  <2> QED
    BY <2>1, <2>2, <2>3, AnswerFits
<1>3. CASE api[r].destination # Absent
  <2> DEFINE step == AfterDestination(api[r].label)
  <2>1. /\ Goto(r, step)
        /\ step \in {"label", "reload"}
        /\ step = "label" => api[r].label # Absent
    BY <1>3 DEF AfterInvalidate, AfterDestination
  <2> HIDE DEF step
  <2>2. Carries([api[r] EXCEPT !.pc = step], minted', dynamic_codes')
    BY <1>1, <1>3, <2>1 DEF Carries, Request, At
  <2>3. api'[r].pc = step /\ \A p \in Requests \ {r} : api'[p] = api[p]
    BY <1>1, <2>1 DEF Goto, ServiceTypeOK, Request
  <2> QED
    BY <1>1, <2>1, <2>2, <2>3, GotoFits DEF Steps
<1> QED
  BY <1>2, <1>3

\* Paying an invalidation empties its entry; losing it is an excuse.
LEMMA InvalidateStep ==
    ASSUME Inv, NEW r \in Requests, ServiceInvalidate(r) \/ ServiceInvalidateFails(r)
    PROVE  Inv'
<1> DEFINE own == api[r].slug
<1>1. /\ At(r, "invalidate") /\ AfterInvalidate(r)
      /\ UNCHANGED <<storeVars, visitVars, overtaken>>
      /\ \/ cache' = [cache EXCEPT ![own] = Absent] /\ excused' = excused \ {own}
         \/ cache' = cache /\ excused' = excused \cup {own}
  BY DEF ServiceInvalidate, ServiceInvalidateFails, InvalidateSlug, InvalidateFails, Invalidate
<1>2. own \in Slugs
  BY <1>1 DEF Inv, RequestsCarry, Carries, At
<1>3. /\ \E q \in Request : /\ api' = [api EXCEPT ![r] = q]
                            /\ Carries(q, minted', dynamic_codes')
      /\ \A p \in Requests \ {r} : api'[p] = api[p]
  BY <1>1, AfterInvalidateFits
<1>4. Grows
  BY <1>1 DEF Grows, storeVars
<1>5. ServiceTypeOK' /\ RequestsCarry'
  BY <1>3, <1>4, ApiStep DEF Inv, TypeOK
<1>6. CacheTypeOK' /\ excused' \subseteq Slugs
  BY <1>1, <1>2 DEF Inv, TypeOK, CacheTypeOK
<1>7. TypeOK'
  BY <1>1, <1>5, <1>6 DEF Inv, TypeOK, StoreTypeOK, RedirectTypeOK, storeVars, visitVars
<1>8. RowsAgree' /\ RowsMinted'
  BY <1>1 DEF Inv, RowsAgree, RowsMinted, UniqueIn, storeVars
<1>9. VisitsCarry'
  BY <1>1 DEF Inv, VisitsCarry, ResolveSlug, storeVars, visitVars
<1>10. \A s \in Slugs : cache'[s] = cache[s] \/ cache'[s] = Absent
  BY <1>1 DEF Inv, TypeOK, CacheTypeOK
<1>11. NoUnsafeTarget'
  BY <1>1, <1>10 DEF Inv, NoUnsafeTarget, storeVars, visitVars
<1>12. StaleIsExplained'
  <2> SUFFICES ASSUME NEW s \in Slugs, Stale(s)'
               PROVE  s \in Pending' \cup excused'
    BY DEF StaleIsExplained
  <2>1. Stale(s) /\ cache'[s] = cache[s]
    BY <1>1, <1>10 DEF Stale, ResolveSlug, storeVars
  <2>2. s \in Pending \cup excused
    BY <2>1 DEF Inv, StaleIsExplained
  <2>3. CASE s = own
    BY <1>1, <1>2, <2>3 DEF Stale, Inv, TypeOK, CacheTypeOK
  <2>4. CASE s # own /\ s \in Pending
    <3>1. PICK p \in Requests : api[p].pc = "invalidate" /\ api[p].slug = s
      BY <2>4 DEF Pending, At
    <3>2. api'[p] = api[p]
      BY <1>3, <2>4, <3>1
    <3> QED
      BY <3>1, <3>2 DEF Pending, At
  <2>5. CASE s # own /\ s \in excused
    BY <1>1, <2>5
  <2> QED
    BY <2>2, <2>3, <2>4, <2>5
<1> QED
  BY <1>5, <1>7, <1>8, <1>9, <1>11, <1>12 DEF Inv

\* Visit v moves to a proper state w, right about its target; nothing but the
\* entry of its slug changes.
LEMMA VisitStep ==
    ASSUME Inv, NEW v \in Visits, NEW w \in Visit,
           visits' = [visits EXCEPT ![v] = w],
           UNCHANGED <<storeVars, api>>,
           w.pc # "idle" => w.slug \in Slugs,
           w.pc \in {"store", "record"} => w.target \in CachedTarget,
           w.pc = "store" => w.target = ResolveSlug(w.slug),
           overtaken' = overtaken \ {v}
    PROVE  VisitsCarry' /\ visits' \in [Visits -> Visit]
<1>1. visits \in [Visits -> Visit]
  BY DEF Inv, TypeOK, RedirectTypeOK
<1>2. \A s : ResolveSlug(s)' = ResolveSlug(s)
  BY DEF ResolveSlug, storeVars
<1>3. ASSUME NEW x \in Visits
      PROVE  /\ visits'[x].pc # "idle" => visits'[x].slug \in Slugs
             /\ visits'[x].pc \in {"store", "record"} => visits'[x].target \in CachedTarget
             /\ visits'[x].pc = "store" /\ x \notin overtaken'
                  => visits'[x].target = ResolveSlug(visits'[x].slug)
  <2>1. CASE x = v
    BY <1>1, <2>1
  <2>2. CASE x # v
    BY <1>1, <2>2 DEF Inv, VisitsCarry
  <2> QED
    BY <2>1, <2>2
<1>4. ASSUME NEW x \in Visits, visits'[x].pc = "store", x \notin overtaken'
      PROVE  visits'[x].target = ResolveSlug(visits[x].slug)'
  BY <1>3, <1>4 DEF ResolveSlug, storeVars
<1> QED
  BY <1>1, <1>3, <1>4 DEF VisitsCarry

\* A record the visit may hold carries no unsafe target.
LEMMA TargetsSafe ==
    ASSUME Inv
    PROVE  \A s \in Slugs : ResolveSlug(s) # Absent
             => /\ ResolveSlug(s) \in CachedTarget
                /\ ResolveSlug(s).destination \notin Malicious
<1> SUFFICES ASSUME NEW s \in Slugs, ResolveSlug(s) # Absent
             PROVE  /\ ResolveSlug(s) \in CachedTarget
                    /\ ResolveSlug(s).destination \notin Malicious
  OBVIOUS
<1>1. UniqueIn(dynamic_codes) /\ dynamic_codes \in [CodeIds -> DynamicCode \cup {Absent}]
  BY DEF Inv, TypeOK, StoreTypeOK, RowsAgree
<1>2. PICK i \in CodeIds : dynamic_codes[i] # Absent /\ dynamic_codes[i].slug = s
  BY TargetOfNone DEF ResolveSlug
<1>3. ResolveSlug(s) = [destination |-> dynamic_codes[i].destination, code_id |-> i]
  BY <1>1, <1>2, TargetOfRow DEF ResolveSlug
<1>4. ResolveSlug(s) \in CachedTarget
  BY <1>1, TargetType DEF ResolveSlug
<1> QED
  BY <1>2, <1>3, <1>4 DEF Inv, NoUnsafeTarget

\* A visit that only reads or answers changes nothing but itself.
LEMMA VisitorReadsStep ==
    ASSUME Inv, NEW v \in Visits, VisitorReads(v)
    PROVE  Inv'
<1>1. visits[v] \in Visit /\ (visits[v].pc # "idle" => visits[v].slug \in Slugs)
  BY DEF Inv, TypeOK, RedirectTypeOK, VisitsCarry
<1>2. UNCHANGED <<storeVars, cache, api, excused>> /\ overtaken' = overtaken \ {v}
  BY DEF VisitorReads, LookupHit, LookupMiss, LookupFails, Miss, ResolveFound, ResolveNotFound,
         ResolveFails, StoreFails, RecordScan, RecordScanFails
<1>3. scan_events' \in [Slugs -> 0 .. MaxScans]
  <2>1. scan_events \in [Slugs -> 0 .. MaxScans]
    BY DEF Inv, TypeOK, RedirectTypeOK
  <2>2. CASE RecordScan(v)
    <3>1. visits[v].slug \in Slugs
      BY <1>1, <2>2 DEF RecordScan, VisitAt
    <3>2. scan_events[visits[v].slug] + 1 \in 0 .. MaxScans
      BY <2>1, <2>2, <3>1, RedirectAssumption DEF RecordScan
    <3> QED
      BY <2>1, <2>2, <3>2 DEF RecordScan
  <2>3. CASE scan_events' = scan_events
    BY <2>1, <2>3
  <2> QED
    BY <2>2, <2>3 DEF VisitorReads, LookupHit, LookupMiss, LookupFails, Miss, ResolveFound,
       ResolveNotFound, ResolveFails, StoreFails, RecordScanFails
<1> DEFINE Fits == \E w \in Visit :
             /\ visits' = [visits EXCEPT ![v] = w]
             /\ w.pc # "idle" => w.slug \in Slugs
             /\ w.pc \in {"store", "record"} => w.target \in CachedTarget
             /\ w.pc = "store" => w.target = ResolveSlug(w.slug)
             /\ w.target # Absent => w.target.destination \notin Malicious
<1>4. ASSUME NEW s \in Slugs, NEW t \in CachedTarget, t.destination \notin Malicious,
             Respond(v, s, t)
      PROVE  Fits
  <2> DEFINE w == [pc |-> "record", slug |-> s, target |-> t]
  <2>1. w \in Visit
    BY DEF Visit
  <2>2. visits' = [visits EXCEPT ![v] = w]
    BY <1>4 DEF Respond
  <2> QED
    BY <1>4, <2>1, <2>2
<1>5. ASSUME Finish(v)
      PROVE  Fits
  <2>1. NoVisit \in Visit /\ NoVisit.pc = "idle" /\ NoVisit.target = Absent
    BY DEF NoVisit, Visit
  <2> QED
    BY <1>5, <2>1 DEF Finish
<1>6. ASSUME NEW s \in Slugs, Miss(v, s)
      PROVE  Fits
  <2> DEFINE w == [pc |-> "resolve", slug |-> s, target |-> Absent]
  <2>1. w \in Visit
    BY DEF Visit
  <2>2. visits' = [visits EXCEPT ![v] = w]
    BY <1>6 DEF Miss
  <2> QED
    BY <2>1, <2>2
<1>7. ASSUME NEW s \in Slugs, LookupHit(v, s)
      PROVE  Fits
  <2>1. cache[s] \in CachedTarget /\ cache[s].destination \notin Malicious
    BY <1>7 DEF LookupHit, Lookup, Inv, TypeOK, CacheTypeOK, NoUnsafeTarget
  <2> QED
    BY <1>4, <1>7, <2>1 DEF LookupHit, Lookup
<1>8. ASSUME ResolveFound(v)
      PROVE  Fits
  <2> DEFINE w == [visits[v] EXCEPT !.pc = "store", !.target = ResolveSlug(visits[v].slug)]
  <2>1. /\ visits' = [visits EXCEPT ![v].pc = "store",
                                    ![v].target = ResolveSlug(visits[v].slug)]
        /\ ResolveSlug(visits[v].slug) # Absent
        /\ visits[v].slug \in Slugs
    BY <1>1, <1>8 DEF ResolveFound, VisitAt
  <2>2. /\ ResolveSlug(visits[v].slug) \in CachedTarget
        /\ ResolveSlug(visits[v].slug).destination \notin Malicious
    BY <2>1, TargetsSafe
  <2>3. w \in Visit /\ w.slug = visits[v].slug
        /\ w.pc = "store" /\ w.target = ResolveSlug(visits[v].slug)
    BY <1>1, <2>2 DEF Visit
  <2>4. visits' = [visits EXCEPT ![v] = w]
    BY <1>1, <2>1 DEF Inv, TypeOK, RedirectTypeOK, Visit
  <2> QED
    BY <2>1, <2>2, <2>3, <2>4
<1>9. ASSUME StoreFails(v)
      PROVE  Fits
  <2>1. /\ visits[v].slug \in Slugs
        /\ visits[v].target \in CachedTarget
        /\ visits[v].target.destination \notin Malicious
    <3>1. visits[v].slug \in Slugs /\ visits[v].target \in CachedTarget
      BY <1>1, <1>9 DEF StoreFails, VisitAt, Inv, VisitsCarry
    <3>2. visits[v].target # Absent
      BY <3>1, AbsentIsNil
    <3> QED
      BY <3>1, <3>2 DEF Inv, NoUnsafeTarget
  <2> QED
    BY <1>4, <1>9, <2>1 DEF StoreFails
<1> HIDE DEF Fits
<1>10. Fits
  BY <1>5, <1>6, <1>7, <1>8, <1>9
  DEF VisitorReads, LookupMiss, LookupFails, ResolveNotFound, ResolveFails, RecordScan,
      RecordScanFails
<1>11. PICK w \in Visit :
             /\ visits' = [visits EXCEPT ![v] = w]
             /\ w.pc # "idle" => w.slug \in Slugs
             /\ w.pc \in {"store", "record"} => w.target \in CachedTarget
             /\ w.pc = "store" => w.target = ResolveSlug(w.slug)
             /\ w.target # Absent => w.target.destination \notin Malicious
  BY <1>10 DEF Fits
<1>12. VisitsCarry' /\ visits' \in [Visits -> Visit]
  BY <1>2, <1>11, VisitStep
<1>13. TypeOK'
  BY <1>2, <1>3, <1>12 DEF Inv, TypeOK, StoreTypeOK, CacheTypeOK, ServiceTypeOK,
                           RedirectTypeOK, storeVars
<1>14. RowsAgree' /\ RowsMinted' /\ RequestsCarry'
  BY <1>2 DEF Inv, RowsAgree, RowsMinted, UniqueIn, RequestsCarry, storeVars
<1>15. NoUnsafeTarget'
  <2>1. \A x \in Visits : visits'[x].target # Absent
                            => visits'[x].target.destination \notin Malicious
    BY <1>11 DEF Inv, NoUnsafeTarget, TypeOK, RedirectTypeOK
  <2> QED
    BY <1>2, <2>1 DEF Inv, NoUnsafeTarget, storeVars
<1>16. StaleIsExplained'
  BY <1>2 DEF Inv, StaleIsExplained, Stale, Pending, At, ResolveSlug, storeVars
<1> QED
  BY <1>12, <1>13, <1>14, <1>15, <1>16 DEF Inv

\* A stored target is current, or its visit was overtaken and the slug excused.
LEMMA VisitorStoresStep ==
    ASSUME Inv, NEW v \in Visits, VisitorStores(v)
    PROVE  Inv'
<1> DEFINE own == visits[v].slug
           t == visits[v].target
           w == [pc |-> "record", slug |-> own, target |-> t]
<1>1. /\ visits[v].pc = "store"
      /\ cache' = [cache EXCEPT ![own] = t]
      /\ visits' = [visits EXCEPT ![v] = w]
      /\ UNCHANGED <<storeVars, api, scan_events>>
      /\ overtaken' = overtaken \ {v}
      /\ excused' = IF v \in overtaken THEN excused \cup {own} ELSE excused \ {own}
  BY DEF VisitorStores, StoreTarget, Stores, Store, Respond, VisitAt
<1>2. /\ own \in Slugs /\ t \in CachedTarget /\ t # Absent
      /\ v \notin overtaken => t = ResolveSlug(own)
  BY <1>1, AbsentIsNil DEF Inv, VisitsCarry
<1>3. t.destination \notin Malicious
  BY <1>2 DEF Inv, NoUnsafeTarget
<1>4. w \in Visit /\ w.pc = "record" /\ w.slug = own /\ w.target = t
  BY <1>2 DEF Visit
<1> HIDE DEF w, t, own
<1>5. VisitsCarry' /\ visits' \in [Visits -> Visit]
  BY <1>1, <1>2, <1>4, VisitStep
<1>6. \A s \in Slugs : cache'[s] = IF s = own THEN t ELSE cache[s]
  BY <1>1 DEF Inv, TypeOK, CacheTypeOK
<1>7. TypeOK'
  BY <1>1, <1>2, <1>5 DEF Inv, TypeOK, StoreTypeOK, CacheTypeOK, ServiceTypeOK,
                          RedirectTypeOK, storeVars
<1>8. RowsAgree' /\ RowsMinted' /\ RequestsCarry'
  BY <1>1 DEF Inv, RowsAgree, RowsMinted, UniqueIn, RequestsCarry, storeVars
<1>9. NoUnsafeTarget'
  <2>1. \A s \in Slugs : cache'[s] # Absent => cache'[s].destination \notin Malicious
    BY <1>3, <1>6 DEF Inv, NoUnsafeTarget
  <2>2. \A x \in Visits : visits'[x].target # Absent
                            => visits'[x].target.destination \notin Malicious
    BY <1>1, <1>3, <1>4 DEF Inv, NoUnsafeTarget, TypeOK, RedirectTypeOK
  <2> QED
    BY <1>1, <2>1, <2>2 DEF Inv, NoUnsafeTarget, storeVars
<1>10. StaleIsExplained'
  <2> SUFFICES ASSUME NEW s \in Slugs, Stale(s)'
               PROVE  s \in Pending' \cup excused'
    BY DEF StaleIsExplained
  <2>1. Pending' = Pending /\ ResolveSlug(s)' = ResolveSlug(s)
    BY <1>1 DEF Pending, At, ResolveSlug, storeVars
  <2>2. CASE s = own
    BY <1>1, <1>2, <1>6, <2>1, <2>2 DEF Stale
  <2>3. CASE s # own
    <3>1. Stale(s)
      BY <1>6, <2>1, <2>3 DEF Stale
    <3> QED
      BY <1>1, <2>1, <2>3, <3>1 DEF Inv, StaleIsExplained
  <2> QED
    BY <2>2, <2>3
<1> QED
  BY <1>5, <1>7, <1>8, <1>9, <1>10 DEF Inv

\* An expired entry is a miss.
LEMMA ExpireStep ==
    ASSUME Inv, NEW s \in Slugs, ExpireEntry(s)
    PROVE  Inv'
<1>1. /\ cache' = [cache EXCEPT ![s] = Absent]
      /\ excused' = excused \ {s}
      /\ UNCHANGED <<storeVars, api, visitVars, overtaken>>
  BY DEF ExpireEntry, Expire
<1>2. \A x \in Slugs : cache'[x] = IF x = s THEN Absent ELSE cache[x]
  BY <1>1 DEF Inv, TypeOK, CacheTypeOK
<1>3. TypeOK'
  BY <1>1 DEF Inv, TypeOK, StoreTypeOK, CacheTypeOK, ServiceTypeOK, RedirectTypeOK,
              storeVars, visitVars
<1>4. RowsAgree' /\ RowsMinted' /\ RequestsCarry'
  BY <1>1 DEF Inv, RowsAgree, RowsMinted, UniqueIn, RequestsCarry, storeVars
<1>5. VisitsCarry'
  BY <1>1 DEF Inv, VisitsCarry, ResolveSlug, storeVars, visitVars
<1>6. NoUnsafeTarget'
  BY <1>1, <1>2 DEF Inv, NoUnsafeTarget, storeVars, visitVars
<1>7. StaleIsExplained'
  BY <1>1, <1>2 DEF Inv, StaleIsExplained, Stale, Pending, At, ResolveSlug, storeVars
<1> QED
  BY <1>3, <1>4, <1>5, <1>6, <1>7 DEF Inv

\* A crash loses what was owed: every invalidation due becomes an excuse.
LEMMA CrashStep ==
    ASSUME Inv, Crash
    PROVE  Inv'
<1>1. /\ api' = [r \in Requests |-> NoRequest]
      /\ visits' = [v \in Visits |-> NoVisit]
      /\ overtaken' = {}
      /\ excused' = excused \cup Pending
      /\ UNCHANGED <<storeVars, cache, scan_events>>
  BY DEF Crash
<1>2. NoRequest \in Request /\ NoRequest.pc = "idle"
  BY ServiceAssumption DEF NoRequest, Request, Steps, Replies
<1>3. NoVisit \in Visit /\ NoVisit.pc = "idle" /\ NoVisit.target = Absent
  BY DEF NoVisit, Visit
<1>4. Pending \subseteq Slugs
  BY DEF Pending, At, Inv, RequestsCarry, Carries
<1>5. TypeOK'
  BY <1>1, <1>2, <1>3, <1>4 DEF Inv, TypeOK, StoreTypeOK, CacheTypeOK, ServiceTypeOK,
                                RedirectTypeOK, storeVars
<1>6. RowsAgree' /\ RowsMinted'
  BY <1>1 DEF Inv, RowsAgree, RowsMinted, UniqueIn, storeVars
<1>7. RequestsCarry'
  BY <1>1, <1>2 DEF RequestsCarry, Carries
<1>8. VisitsCarry'
  BY <1>1, <1>3 DEF VisitsCarry
<1>9. NoUnsafeTarget'
  BY <1>1, <1>3 DEF Inv, NoUnsafeTarget, storeVars
<1>10. StaleIsExplained'
  <2> SUFFICES ASSUME NEW s \in Slugs, Stale(s)'
               PROVE  s \in excused'
    BY DEF StaleIsExplained
  <2>1. Stale(s)
    BY <1>1 DEF Stale, ResolveSlug, storeVars
  <2> QED
    BY <1>1, <2>1 DEF Inv, StaleIsExplained
<1> QED
  BY <1>5, <1>6, <1>7, <1>8, <1>9, <1>10 DEF Inv

\* A step that changes nothing.
LEMMA StutterStep ==
    ASSUME Inv, UNCHANGED vars
    PROVE  Inv'
<1> USE DEF vars, storeVars, visitVars
<1>1. TypeOK'
  BY DEF Inv, TypeOK, StoreTypeOK, CacheTypeOK, ServiceTypeOK, RedirectTypeOK
<1>2. RowsAgree' /\ RowsMinted' /\ RequestsCarry' /\ VisitsCarry'
  BY DEF Inv, RowsAgree, UniqueIn, RowsMinted, RequestsCarry, VisitsCarry, ResolveSlug
<1>3. NoUnsafeTarget'
  BY DEF Inv, NoUnsafeTarget
<1>4. StaleIsExplained'
  BY DEF Inv, StaleIsExplained, Stale, Pending, At, ResolveSlug
<1> QED
  BY <1>1, <1>2, <1>3, <1>4 DEF Inv

\* Empty tables, an empty cache and idle goroutines satisfy the invariant.
LEMMA InitInv == Init => Inv
<1> SUFFICES ASSUME Init PROVE Inv
  OBVIOUS
<1> USE DEF Init, StoreInit, CacheInit, ServiceInit, RedirectInit
<1>1. NoRequest \in Request /\ NoRequest.pc = "idle"
  BY ServiceAssumption DEF NoRequest, Request, Steps, Replies
<1>2. NoVisit \in Visit /\ NoVisit.pc = "idle" /\ NoVisit.target = Absent
  BY DEF NoVisit, Visit
<1>3. TypeOK
  BY <1>1, <1>2, RedirectAssumption
  DEF TypeOK, StoreTypeOK, CacheTypeOK, ServiceTypeOK, RedirectTypeOK
<1>4. RowsAgree /\ RowsMinted
  BY DEF RowsAgree, UniqueIn, RowsMinted
<1>5. RequestsCarry
  BY <1>1 DEF RequestsCarry, Carries
<1>6. VisitsCarry
  BY <1>2 DEF VisitsCarry
<1>7. NoUnsafeTarget
  BY <1>2 DEF NoUnsafeTarget
<1>8. StaleIsExplained
  BY DEF StaleIsExplained, Stale
<1> QED
  BY <1>3, <1>4, <1>5, <1>6, <1>7, <1>8 DEF Inv

-----------------------------------------------------------------------------
(* Theorems *)

\* The invariant holds in every reachable state.
THEOREM Invariance == Spec => []Inv
<1>1. Inv /\ [Next]_vars => Inv'
  <2> SUFFICES ASSUME Inv, [Next]_vars PROVE Inv'
    OBVIOUS
  <2>1. ASSUME NEW r \in Requests, Owner(r)
        PROVE  Inv'
    <3>1. CASE ServiceLocal(r)
      BY <3>1, ServiceLocalStep, RequestStepInv
    <3>2. CASE ServiceWrite(r) \/ ServiceWriteUnacked(r)
      BY <3>2, ServiceWriteStep, RequestStepInv
    <3>3. CASE ServiceInvalidate(r) \/ ServiceInvalidateFails(r)
      BY <3>3, InvalidateStep
    <3> QED
      BY <2>1, <3>1, <3>2, <3>3 DEF Owner
  <2>2. ASSUME NEW v \in Visits, Visitor(v)
        PROVE  Inv'
    BY <2>2, VisitorReadsStep, VisitorStoresStep DEF Visitor
  <2>3. CASE \E s \in Slugs : ExpireEntry(s)
    BY <2>3, ExpireStep
  <2>4. CASE Crash
    BY <2>4, CrashStep
  <2>5. CASE UNCHANGED vars
    BY <2>5, StutterStep
  <2> QED
    BY <2>1, <2>2, <2>3, <2>4, <2>5 DEF Next
<1> QED
  BY InitInv, <1>1, PTL DEF Spec

\* Every variable keeps its type, for any constants.
THEOREM TypeCorrectness == Spec => []TypeOK
<1>1. Inv => TypeOK
  BY DEF Inv
<1> QED
  BY Invariance, <1>1, PTL

\* The tables agree and a slug leads to one code, under any number of
\* concurrent, failing and crashing requests.
THEOREM TablesAgree == Spec => []RowsAgree
<1>1. Inv => RowsAgree
  BY DEF Inv
<1> QED
  BY Invariance, <1>1, PTL

\* The redirect cache is never stale without a reason.
THEOREM CacheCoherence == Spec => []StaleIsExplained
<1>1. Inv => StaleIsExplained
  BY DEF Inv
<1> QED
  BY Invariance, <1>1, PTL

\* The safety gate of Create and Update is enough: nothing it refuses is ever
\* stored, cached or served.
THEOREM SafetyGate == Spec => []NoUnsafeTarget
<1>1. Inv => NoUnsafeTarget
  BY DEF Inv
<1> QED
  BY Invariance, <1>1, PTL

-----------------------------------------------------------------------------
(* Ownership *)

\* A code never changes hands or kind.
KeepsOwners ==
    \A i \in minted : codes'[i] # Absent
        => /\ codes[i] # Absent
           /\ codes'[i].user = codes[i].user
           /\ codes'[i].is_dynamic = codes[i].is_dynamic

\* The rows a statement may touch: those of request r's code, and new ones.
TouchesOnly(r) ==
    \A i \in minted : codes'[i] # codes[i] \/ dynamic_codes'[i] # dynamic_codes[i]
        => /\ i = api[r].id
           /\ api'[r] # api[r]
           /\ api[r].pc \in {"destination", "label", "delete"}

\* What each table-writing step does to the rows that exist.
LEMMA WritesOwnRow ==
    ASSUME Inv, NEW r \in Requests, ServiceWrite(r) \/ ServiceWriteUnacked(r)
    PROVE  KeepsOwners /\ TouchesOnly(r)
<1>1. /\ api[r] \in Request /\ Carries(api[r], minted, dynamic_codes)
      /\ api \in [Requests -> Request]
      /\ codes \in [CodeIds -> Code \cup {Absent}]
      /\ dynamic_codes \in [CodeIds -> DynamicCode \cup {Absent}]
      /\ minted \subseteq CodeIds
  BY DEF Inv, TypeOK, ServiceTypeOK, StoreTypeOK, RequestsCarry
<1>2. ASSUME NEW i \in CodeIds \ minted, NEW row, NEW dyn,
             codes' = [codes EXCEPT ![i] = row],
             \/ dynamic_codes' = [dynamic_codes EXCEPT ![i] = dyn]
             \/ dynamic_codes' = dynamic_codes
      PROVE  KeepsOwners /\ TouchesOnly(r)
  BY <1>1, <1>2 DEF KeepsOwners, TouchesOnly
<1>3. ASSUME \E u \in Users, l \in Labels : CreateStatic(r, u, l)
      PROVE  KeepsOwners /\ TouchesOnly(r)
  BY <1>2, <1>3 DEF CreateStatic, InsertCode
<1>4. ASSUME NEW s \in Slugs, CreateDynamic(r, s) \/ CreateUnacked(r, s)
      PROVE  KeepsOwners /\ TouchesOnly(r)
  BY <1>2, <1>4 DEF CreateDynamic, CreateUnacked, InsertDynamicCode
<1>5. ASSUME NEW step \in {"destination", "label", "delete"}, At(r, step),
             \/ Goto(r, "invalidate") \/ Goto(r, "reload")
             \/ \E reply \in Replies : Answer(r, reply)
      PROVE  api'[r] # api[r]
  <2>1. api'[r].pc \in {"invalidate", "reload", "idle"}
    BY <1>1, <1>5 DEF Goto, Answer, NoRequest, Request
  <2> QED
    BY <2>1, <1>5 DEF At
<1>6. ASSUME UpdateLabel(r) \/ LabelUnacked(r)
      PROVE  KeepsOwners /\ TouchesOnly(r)
  <2>1. /\ At(r, "label") /\ SetLabel(api[r].user, api[r].id, api[r].label)
        /\ Goto(r, "reload") \/ Answer(r, "failed")
    BY <1>6 DEF UpdateLabel, LabelUnacked
  <2>2. api'[r] # api[r]
    BY <1>5, <2>1 DEF Replies
  <2>3. \A i \in CodeIds : i # api[r].id => codes'[i] = codes[i]
    BY <1>1, <2>1 DEF SetLabel
  <2>4. codes[api[r].id] \in Code /\ api[r].id \in CodeIds
    BY <1>1, <2>1 DEF SetLabel, Owns, Carries, At
  <2>5. codes'[api[r].id].user = codes[api[r].id].user
        /\ codes'[api[r].id].is_dynamic = codes[api[r].id].is_dynamic
    BY <1>1, <2>1, <2>4 DEF SetLabel, Code
  <2>6. KeepsOwners
    BY <1>1, <2>1, <2>3, <2>5 DEF KeepsOwners, SetLabel, Owns
  <2>7. TouchesOnly(r)
    BY <1>1, <2>1, <2>2, <2>3 DEF TouchesOnly, SetLabel, At
  <2> QED
    BY <2>6, <2>7
<1>7. ASSUME At(r, "destination"), SetDestination(api[r].id, api[r].destination),
             Goto(r, "invalidate") \/ Answer(r, "failed")
      PROVE  KeepsOwners /\ TouchesOnly(r)
  <2>1. api'[r] # api[r]
    BY <1>5, <1>7 DEF Replies
  <2> QED
    BY <1>1, <1>7, <2>1 DEF KeepsOwners, TouchesOnly, SetDestination, At
<1>8. ASSUME At(r, "delete"), DeleteCode(api[r].user, api[r].id),
             Goto(r, "invalidate") \/ Answer(r, "ok") \/ Answer(r, "failed")
      PROVE  KeepsOwners /\ TouchesOnly(r)
  <2>1. api'[r] # api[r]
    BY <1>5, <1>8 DEF Replies
  <2> QED
    BY <1>1, <1>8, <2>1 DEF KeepsOwners, TouchesOnly, DeleteCode, At
<1> QED
  BY <1>3, <1>4, <1>6, <1>7, <1>8
  DEF ServiceWrite, ServiceWriteUnacked, UpdateDestination, DeleteRow, WriteUnacked
\* A request that is not at work on a code owns nothing to be checked.
LEMMA AtRestOwns ==
    ASSUME NEW q, NEW rows, q.pc \in {"idle", "create"}
    PROVE  StillOwns(q, rows)
BY DEF StillOwns

\* The request that moves still owns what it is at work on.
LEMMA MoverOwns ==
    ASSUME Inv, OwnersHold, NEW r \in Requests, Owner(r)
    PROVE  StillOwns(api'[r], codes') /\ \A p \in Requests \ {r} : api'[p] = api[p]
<1>1. /\ api[r] \in Request /\ Carries(api[r], minted, dynamic_codes)
      /\ StillOwns(api[r], codes)
      /\ api \in [Requests -> Request]
      /\ codes \in [CodeIds -> Code \cup {Absent}]
  BY DEF Inv, TypeOK, ServiceTypeOK, StoreTypeOK, RequestsCarry, OwnersHold
<1> DEFINE Fits == StillOwns(api'[r], codes') /\ \A p \in Requests \ {r} : api'[p] = api[p]
<1>2. ASSUME NEW reply, Answer(r, reply)
      PROVE  Fits
  <2>1. api'[r].pc = "idle" /\ \A p \in Requests \ {r} : api'[p] = api[p]
    BY <1>1, <1>2 DEF Answer, NoRequest
  <2> QED
    BY <2>1, AtRestOwns
<1>3. ASSUME KeepsOwners, NEW step \in {"invalidate", "label", "reload"}, Goto(r, step),
             api[r].pc \in {"destination", "invalidate", "label"},
             api[r].pc = "invalidate" => api[r].destination # Absent
      PROVE  Fits
  <2>1. /\ api' = [api EXCEPT ![r] = [api[r] EXCEPT !.pc = step]]
        /\ api'[r] = [api[r] EXCEPT !.pc = step]
    BY <1>1, <1>3 DEF Goto
  <2>2. api[r].id \in minted
    BY <1>1, <1>3 DEF Carries
  <2> QED
    BY <1>1, <1>3, <2>1, <2>2 DEF StillOwns, KeepsOwners, Request
<1>4. ASSUME NEW step \in Steps, NEW u \in Users, NEW i \in CodeIds, NEW d, NEW l, NEW s,
             Begin(r, step, u, i, d, l, s), Owns(u, i), UNCHANGED codes,
             step = "destination" => codes[i].is_dynamic
      PROVE  Fits
  <2>1. /\ api'[r].pc = step /\ api'[r].user = u /\ api'[r].id = i
        /\ \A p \in Requests \ {r} : api'[p] = api[p]
    BY <1>1, <1>4 DEF Begin
  <2> QED
    BY <1>4, <2>1 DEF StillOwns, Owns
<1> HIDE DEF Fits
<1>5. CASE ServiceLocal(r)
  <2>1. UNCHANGED codes
    BY <1>5, ServiceLocalStep DEF ServiceLocal, BeginCreateDynamic, SlugCollision,
       RollbackCollision, BeginUpdate, BeginDelete, Reload, RowGone, FirstCallFails,
       StatementFails, AnswerOnly, storeVars
  <2>2. ASSUME NEW u \in Users, NEW l \in Labels, NEW d \in Dests \cup {Absent},
               NEW isURL \in BOOLEAN, BeginCreateDynamic(r, u, l, isURL, d)
        PROVE  Fits
    <3>1. CASE Answer(r, "refused")
      BY <1>2, <3>1
    <3>2. CASE Begin(r, "create", u, Absent, d, l, Absent)
      <4>1. api'[r].pc = "create" /\ \A p \in Requests \ {r} : api'[p] = api[p]
        BY <1>1, <3>2 DEF Begin
      <4> QED
        BY <4>1, AtRestOwns DEF Fits
    <3> QED
      BY <2>2, <3>1, <3>2 DEF BeginCreateDynamic
  <2>3. ASSUME NEW s \in Slugs, SlugCollision(r, s)
        PROVE  Fits
    <3>1. CASE Answer(r, "failed")
      BY <1>2, <3>1
    <3>2. CASE api' = [api EXCEPT ![r].attempt = @ + 1]
      <4>1. api'[r].pc = "create" /\ \A p \in Requests \ {r} : api'[p] = api[p]
        BY <1>1, <2>3, <3>2 DEF SlugCollision, At, Request
      <4> QED
        BY <4>1, AtRestOwns DEF Fits
    <3> QED
      BY <2>3, <3>1, <3>2 DEF SlugCollision, NextAttempt
  <2>4. ASSUME NEW u \in Users, NEW i \in CodeIds, NEW d \in Dests \cup {Absent},
               NEW l \in Labels \cup {Absent}, BeginUpdate(r, u, i, d, l)
        PROVE  Fits
    <3> DEFINE step == IF d # Absent THEN "destination" ELSE AfterDestination(l)
    <3>1. CASE Answer(r, "not_found") \/ Answer(r, "refused")
      BY <1>2, <3>1
    <3>2. CASE ~Answer(r, "not_found") /\ ~Answer(r, "refused")
      <4>1. /\ Begin(r, step, u, i, d, l, SlugOf(i)) /\ Owns(u, i)
            /\ d # Absent => codes[i].is_dynamic
        BY <2>4, <3>2 DEF BeginUpdate
      <4>2. step \in Steps /\ (step = "destination" => d # Absent)
        BY DEF Steps, AfterDestination
      <4> HIDE DEF step
      <4> QED
        BY <1>4, <2>1, <4>1, <4>2
    <3> QED
      BY <3>1, <3>2
  <2>5. ASSUME NEW u \in Users, NEW i \in CodeIds, BeginDelete(r, u, i)
        PROVE  Fits
    <3>1. CASE Answer(r, "not_found")
      BY <1>2, <3>1
    <3>2. CASE Owns(u, i) /\ Begin(r, "delete", u, i, Absent, Absent, SlugOf(i))
      BY <1>4, <2>1, <3>2 DEF Steps
    <3> QED
      BY <2>5, <3>1, <3>2 DEF BeginDelete
  <2>6. ASSUME Reload(r) \/ RowGone(r) \/ FirstCallFails(r) \/ StatementFails(r)
        PROVE  Fits
    BY <1>2, <2>6 DEF Reload, RowGone, FirstCallFails, StatementFails, AnswerOnly
  <2> QED
    BY <1>5, <2>2, <2>3, <2>4, <2>5, <2>6 DEF ServiceLocal, Fits
<1>6. CASE ServiceWrite(r) \/ ServiceWriteUnacked(r)
  <2>1. KeepsOwners
    BY <1>6, WritesOwnRow
  <2>2. \/ Goto(r, "invalidate") /\ At(r, "destination")
        \/ Goto(r, "invalidate") /\ At(r, "delete")
        \/ Goto(r, "reload") /\ At(r, "label")
        \/ \E reply \in Replies : Answer(r, reply)
    BY <1>6 DEF ServiceWrite, ServiceWriteUnacked, CreateStatic, CreateDynamic, CreateUnacked,
       UpdateDestination, UpdateLabel, LabelUnacked, DeleteRow, WriteUnacked, Replies
  <2>3. CASE Goto(r, "invalidate") /\ At(r, "delete")
    <3>1. /\ api'[r].pc = "invalidate" /\ api'[r].id = api[r].id
          /\ \A p \in Requests \ {r} : api'[p] = api[p]
      BY <1>1, <2>3 DEF Goto, Request
    <3>2. DeleteCode(api[r].user, api[r].id)
      BY <1>6, <2>3 DEF ServiceWrite, ServiceWriteUnacked, CreateStatic, CreateDynamic,
         CreateUnacked, UpdateDestination, UpdateLabel, LabelUnacked, DeleteRow, WriteUnacked, At
    <3>3. api[r].id \in CodeIds
      BY <1>1, <2>3 DEF Carries, At, Inv, TypeOK, StoreTypeOK
    <3>4. codes'[api[r].id] = Absent
      BY <1>1, <3>2, <3>3 DEF DeleteCode
    <3> QED
      BY <3>1, <3>4 DEF Fits, StillOwns
  <2> QED
    BY <1>2, <1>3, <2>1, <2>2, <2>3 DEF At, Fits
<1>7. CASE ServiceInvalidate(r) \/ ServiceInvalidateFails(r)
  <2>1. At(r, "invalidate") /\ AfterInvalidate(r) /\ UNCHANGED codes
    BY <1>7 DEF ServiceInvalidate, ServiceInvalidateFails, InvalidateSlug, InvalidateFails,
       storeVars
  <2>2. KeepsOwners
    BY <2>1 DEF KeepsOwners
  <2>3. AfterDestination(api[r].label) \in {"label", "reload"}
    BY DEF AfterDestination
  <2> QED
    BY <1>2, <1>3, <2>1, <2>2, <2>3 DEF AfterInvalidate, At, Fits
<1> QED
  BY <1>5, <1>6, <1>7 DEF Owner, Fits
\* The requests that do not move keep what they own.
LEMMA OwnersStep ==
    ASSUME Inv, OwnersHold, [Next]_vars
    PROVE  OwnersHold'
<1>1. \A r \in Requests : Carries(api[r], minted, dynamic_codes) /\ StillOwns(api[r], codes)
  BY DEF Inv, RequestsCarry, OwnersHold
<1>2. ASSUME NEW r \in Requests, Owner(r)
      PROVE  OwnersHold'
  <2>1. KeepsOwners
    <3>1. CASE ServiceWrite(r) \/ ServiceWriteUnacked(r)
      BY <3>1, WritesOwnRow
    <3>2. CASE UNCHANGED codes
      BY <3>2 DEF KeepsOwners
    <3>3. ServiceLocal(r) => UNCHANGED codes
      BY DEF ServiceLocal, BeginCreateDynamic, SlugCollision, RollbackCollision, BeginUpdate,
         BeginDelete, Reload, RowGone, FirstCallFails, StatementFails, AnswerOnly, storeVars
    <3>4. ServiceInvalidate(r) \/ ServiceInvalidateFails(r) => UNCHANGED codes
      BY DEF ServiceInvalidate, ServiceInvalidateFails, InvalidateSlug, InvalidateFails, storeVars
    <3> QED
      BY <1>2, <3>1, <3>2, <3>3, <3>4 DEF Owner
  <2>2. ASSUME NEW p \in Requests, p # r
        PROVE  StillOwns(api'[p], codes')
    <3>1. api'[p] = api[p]
      BY <1>2, <2>2, MoverOwns
    <3>2. StillOwns(api[p], codes')
      BY <1>1, <2>1, <2>2 DEF StillOwns, Carries, KeepsOwners
    <3> QED
      BY <3>1, <3>2
  <2>3. StillOwns(api'[r], codes')
    BY <1>2, MoverOwns
  <2> QED
    BY <2>2, <2>3 DEF OwnersHold
<1>3. CASE UNCHANGED <<api, codes>>
  BY <1>3 DEF OwnersHold
<1>4. CASE Crash
  <2>1. \A r \in Requests : api'[r].pc = "idle"
    BY <1>4 DEF Crash, NoRequest
  <2> QED
    BY <2>1, AtRestOwns DEF OwnersHold
<1>5. ASSUME NEW v \in Visits, Visitor(v)
      PROVE  UNCHANGED <<api, codes>>
  BY <1>5 DEF Visitor, VisitorReads, VisitorStores, LookupHit, LookupMiss, LookupFails, Miss,
     ResolveFound, ResolveNotFound, ResolveFails, StoreTarget, StoreFails, RecordScan,
     RecordScanFails, storeVars
<1>6. ASSUME NEW s \in Slugs, ExpireEntry(s)
      PROVE  UNCHANGED <<api, codes>>
  BY <1>6 DEF ExpireEntry, storeVars
<1>7. CASE UNCHANGED vars
  BY <1>3, <1>7 DEF vars, storeVars
<1> QED
  BY <1>2, <1>3, <1>4, <1>5, <1>6, <1>7 DEF Next

\* Every request's code is its user's for as long as it exists.
THEOREM OwnersInvariance == Spec => [](Inv /\ OwnersHold)
<1>1. Init => OwnersHold
  <2> SUFFICES ASSUME Init, NEW r \in Requests PROVE StillOwns(api[r], codes)
    BY DEF OwnersHold
  <2>1. api[r].pc = "idle"
    BY DEF Init, ServiceInit, NoRequest
  <2> QED
    BY <2>1, AtRestOwns
<1>2. Inv /\ OwnersHold /\ [Next]_vars => OwnersHold'
  BY OwnersStep
<1> QED
  BY <1>1, <1>2, Invariance, PTL DEF Spec

\* Nobody but a code's owner changes or removes it, however the requests of
\* others interleave.
THEOREM OwnerOnly == Spec => OnlyOwnerWrites
<1> DEFINE Writes ==
      \A i \in CodeIds :
        codes[i] # Absent /\ (codes'[i] # codes[i] \/ dynamic_codes'[i] # dynamic_codes[i])
        => \E r \in Requests : /\ api'[r] # api[r]
                              /\ api[r].user = codes[i].user
                              /\ api[r].id = i
<1>1. Inv /\ OwnersHold /\ [Next]_vars => [Writes]_vars
  <2> SUFFICES ASSUME Inv, OwnersHold, [Next]_vars, NEW i \in CodeIds, codes[i] # Absent,
                      codes'[i] # codes[i] \/ dynamic_codes'[i] # dynamic_codes[i]
               PROVE  \E r \in Requests : /\ api'[r] # api[r]
                                         /\ api[r].user = codes[i].user
                                         /\ api[r].id = i
    OBVIOUS
  <2>1. i \in minted
    BY DEF Inv, RowsMinted
  <2>2. \E r \in Requests : ServiceWrite(r) \/ ServiceWriteUnacked(r)
    <3>1. ASSUME NEW r \in Requests, ServiceLocal(r)
          PROVE  FALSE
      BY <3>1 DEF ServiceLocal, BeginCreateDynamic, SlugCollision, RollbackCollision, BeginUpdate,
         BeginDelete, Reload, RowGone, FirstCallFails, StatementFails, AnswerOnly, storeVars
    <3>2. ASSUME NEW r \in Requests, ServiceInvalidate(r) \/ ServiceInvalidateFails(r)
          PROVE  FALSE
      BY <3>2 DEF ServiceInvalidate, ServiceInvalidateFails, InvalidateSlug, InvalidateFails,
         storeVars
    <3>3. ASSUME NEW v \in Visits, Visitor(v)
          PROVE  FALSE
      BY <3>3 DEF Visitor, VisitorReads, VisitorStores, LookupHit, LookupMiss, LookupFails, Miss,
         ResolveFound, ResolveNotFound, ResolveFails, StoreTarget, StoreFails, RecordScan,
         RecordScanFails, storeVars
    <3>4. ~(\E s \in Slugs : ExpireEntry(s)) /\ ~Crash /\ ~UNCHANGED vars
      BY DEF ExpireEntry, Crash, vars, storeVars
    <3> QED
      BY <3>1, <3>2, <3>3, <3>4 DEF Next, Owner
  <2>3. PICK r \in Requests : ServiceWrite(r) \/ ServiceWriteUnacked(r)
    BY <2>2
  <2>4. /\ i = api[r].id /\ api'[r] # api[r]
        /\ api[r].pc \in {"destination", "label", "delete"}
    BY <2>1, <2>3, WritesOwnRow DEF TouchesOnly
  <2>5. codes[i].user = api[r].user
    BY <2>4 DEF OwnersHold, StillOwns
  <2> QED
    BY <2>4, <2>5
<1> QED
  BY <1>1, OwnersInvariance, PTL DEF Spec, OnlyOwnerWrites
\* A request at work that is answered "not found" was told so by RowGone.
LEMMA OnlyRowGone ==
    ASSUME Inv, NEW r \in Requests, Owner(r), ~At(r, "idle"),
           At(r, "idle")', api'[r].reply = "not_found"
    PROVE  RowGone(r)
<1>1. api[r] \in Request /\ api \in [Requests -> Request]
  BY DEF Inv, TypeOK, ServiceTypeOK
<1>2. ASSUME NEW reply, Answer(r, reply)
      PROVE  reply = "not_found"
  BY <1>1, <1>2 DEF Answer, NoRequest
<1>3. ASSUME NEW step \in {"invalidate", "label", "reload"}, Goto(r, step)
      PROVE  FALSE
  BY <1>1, <1>3 DEF Goto, At, Request
<1>4. CASE ServiceLocal(r)
  <2>1. ASSUME NEW s \in Slugs, SlugCollision(r, s)
        PROVE  FALSE
    <3>1. api' = [api EXCEPT ![r].attempt = @ + 1]
      BY <1>2, <2>1 DEF SlugCollision, NextAttempt
    <3> QED
      BY <1>1, <2>1, <3>1 DEF SlugCollision, At, Request
  <2> QED
    BY <1>2, <1>4, <2>1 DEF ServiceLocal, BeginCreateDynamic, BeginUpdate, BeginDelete, Reload,
       FirstCallFails, StatementFails, AnswerOnly
<1>5. CASE ServiceWrite(r) \/ ServiceWriteUnacked(r)
  BY <1>2, <1>3, <1>5 DEF ServiceWrite, ServiceWriteUnacked, CreateStatic, CreateDynamic,
     CreateUnacked, UpdateDestination, UpdateLabel, LabelUnacked, DeleteRow, WriteUnacked
<1>6. CASE ServiceInvalidate(r) \/ ServiceInvalidateFails(r)
  <2>1. AfterInvalidate(r)
    BY <1>6 DEF ServiceInvalidate, ServiceInvalidateFails, InvalidateSlug, InvalidateFails
  <2>2. AfterDestination(api[r].label) \in {"label", "reload"}
    BY DEF AfterDestination
  <2> QED
    BY <1>2, <1>3, <2>1, <2>2 DEF AfterInvalidate
<1> QED
  BY <1>4, <1>5, <1>6 DEF Owner

\* "Not found" in the middle of a request means the code is gone for good.
THEOREM NotFoundTruth == Spec => NotFoundIsFinal
<1> DEFINE Final ==
      \A r \in Requests :
        ~At(r, "idle") /\ At(r, "idle")' /\ api'[r].reply = "not_found"
        => codes[api[r].id] = Absent /\ dynamic_codes[api[r].id] = Absent
<1>1. Inv /\ OwnersHold /\ [Next]_vars => [Final]_vars
  <2> SUFFICES ASSUME Inv, OwnersHold, [Next]_vars, NEW r \in Requests,
                      ~At(r, "idle"), At(r, "idle")', api'[r].reply = "not_found"
               PROVE  codes[api[r].id] = Absent /\ dynamic_codes[api[r].id] = Absent
    OBVIOUS
  <2>1. Owner(r)
    <3>1. ASSUME NEW p \in Requests, p # r, Owner(p)
          PROVE  FALSE
      BY <3>1, MoverOwns DEF At
    <3>2. ASSUME NEW v \in Visits, Visitor(v)
          PROVE  FALSE
      BY <3>2 DEF Visitor, VisitorReads, VisitorStores, At
    <3>3. ~(\E s \in Slugs : ExpireEntry(s)) /\ ~UNCHANGED vars
      BY DEF ExpireEntry, vars, At
    <3>4. ~Crash
      BY DEF Crash, NoRequest
    <3> QED
      BY <3>1, <3>2, <3>3, <3>4 DEF Next
  <2>2. RowGone(r)
    BY <2>1, OnlyRowGone
  <2>3. /\ StillOwns(api[r], codes) /\ Carries(api[r], minted, dynamic_codes)
        /\ minted \subseteq CodeIds
    BY DEF OwnersHold, Inv, RequestsCarry, TypeOK, StoreTypeOK
  <2>4. api[r].id \in CodeIds
    BY <2>2, <2>3 DEF RowGone, At, Carries
  <2>5. codes[api[r].id] = Absent
    BY <2>2, <2>3, <2>4 DEF RowGone, At, StillOwns, Owns, Inv, RowsAgree
  <2> QED
    BY <2>4, <2>5 DEF Inv, RowsAgree
<1> QED
  BY <1>1, OwnersInvariance, PTL DEF Spec, NotFoundIsFinal

-----------------------------------------------------------------------------
(* The directory: the mapped variables *)

\* Under the invariant the mapped variables have SlugDirectory's types.
LEMMA BarsTyped == Inv => Directory!TypeOK
<1> SUFFICES ASSUME Inv PROVE Directory!TypeOK
  OBVIOUS
<1>1. \A s \in Slugs : ResolveSlug(s) \in CachedTarget \cup {Absent}
  BY TargetType DEF Inv, TypeOK, StoreTypeOK, RowsAgree, ResolveSlug
<1>2. linkBar \in [Slugs -> CachedTarget \cup {Absent}]
  BY <1>1 DEF linkBar
<1>3. \A s \in Slugs : Held(s) \subseteq CachedTarget \cup {Absent}
  BY DEF Held, Storing, VisitAt, Inv, TypeOK, CacheTypeOK, VisitsCarry
<1>4. fadingBar \in [Slugs -> SUBSET CachedTarget]
  BY <1>3 DEF fadingBar
<1>5. \A v \in Visits : VisitAt(v, "record")
        => visits[v].slug \in Slugs /\ visits[v].target \in CachedTarget
  BY DEF VisitAt, Inv, VisitsCarry
<1>6. sentBar \in [Visits -> [slug : Slugs, target : CachedTarget] \cup {Absent}]
  BY <1>5 DEF sentBar
<1> QED
  BY <1>2, <1>4, <1>6 DEF Directory!TypeOK

\* Nothing is linked anew, and what is held was held or is the current target:
\* former targets fade.
LEMMA FadeStep ==
    ASSUME Inv',
           \A s \in Slugs : /\ ResolveSlug(s)' = ResolveSlug(s)
                            /\ Held(s)' \subseteq Held(s) \cup {ResolveSlug(s), Absent}
    PROVE  Directory!Fade /\ UNCHANGED linkBar /\ Directory!TypeOK'
<1>1. Directory!TypeOK'
  BY BarsTyped, PTL
<1>2. linkBar' = linkBar
  BY DEF linkBar
<1>3. Directory!Fade
  BY DEF Directory!Fade, fadingBar
<1> QED
  BY <1>1, <1>2, <1>3

\* Such a step, in which visits at most end, is a Leave.
LEMMA LeaveStep ==
    ASSUME Inv',
           \A s \in Slugs : /\ ResolveSlug(s)' = ResolveSlug(s)
                            /\ Held(s)' \subseteq Held(s) \cup {ResolveSlug(s), Absent},
           \A v \in Visits : VisitAt(v, "record")' => visits'[v] = visits[v]
    PROVE  Directory!Next
<1>1. Directory!Fade /\ UNCHANGED linkBar /\ Directory!TypeOK'
  BY FadeStep
<1>2. \A v \in Visits : sentBar'[v] \in {sentBar[v], Absent}
  BY DEF sentBar, VisitAt
<1> QED
  BY <1>1, <1>2 DEF Directory!Next, Directory!Leave

\* Such a step, in which visit v is redirected to a held target, is a Send.
LEMMA SendStep ==
    ASSUME Inv, Inv', NEW v \in Visits, NEW s \in Slugs, NEW t \in CachedTarget,
           \A x \in Slugs : /\ ResolveSlug(x)' = ResolveSlug(x)
                            /\ Held(x)' \subseteq Held(x) \cup {ResolveSlug(x), Absent},
           t \in Held(s),
           ~VisitAt(v, "record"),
           Respond(v, s, t)
    PROVE  Directory!Next
<1>1. Directory!Fade /\ UNCHANGED linkBar /\ Directory!TypeOK'
  BY FadeStep
<1>2. sentBar[v] = Absent
  BY DEF sentBar
<1>3. t # Absent
  BY AbsentIsNil
<1>4. t \in fadingBar[s] \cup {linkBar[s]}
  BY <1>3 DEF fadingBar, linkBar
<1>5. sentBar' = [sentBar EXCEPT ![v] = [slug |-> s, target |-> t]]
  <2>1. \A x \in Visits : visits'[x] = IF x = v THEN [pc |-> "record", slug |-> s, target |-> t]
                                                ELSE visits[x]
    BY DEF Respond, Inv, TypeOK, RedirectTypeOK
  <2>2. VisitAt(v, "record")' /\ visits'[v].slug = s /\ visits'[v].target = t
    BY <2>1 DEF VisitAt
  <2>3. sentBar'[v] = [slug |-> s, target |-> t]
    BY <2>2 DEF sentBar
  <2>4. \A x \in Visits \ {v} : sentBar'[x] = sentBar[x]
    BY <2>1 DEF sentBar, VisitAt
  <2>5. sentBar' = [x \in Visits |-> sentBar'[x]] /\ sentBar = [x \in Visits |-> sentBar[x]]
    BY DEF sentBar
  <2> QED
    BY <2>3, <2>4, <2>5
<1> QED
  BY <1>1, <1>2, <1>4, <1>5 DEF Directory!Next, Directory!Send

\* A step that links slug s anew, without visitors or fills, is a Relink.
LEMMA RelinkStep ==
    ASSUME Inv, Inv', NEW s \in Slugs,
           \A x \in Slugs \ {s} : ResolveSlug(x)' = ResolveSlug(x),
           UNCHANGED <<visits, cache>>
    PROVE  Directory!Next
<1>1. Directory!TypeOK /\ Directory!TypeOK'
  BY BarsTyped, PTL
<1>2. ResolveSlug(s)' \in CachedTarget \cup {Absent}
  BY <1>1 DEF Directory!TypeOK, linkBar
<1>3. linkBar' = [linkBar EXCEPT ![s] = ResolveSlug(s)']
  BY DEF linkBar
<1>4. \A x \in Slugs : Held(x)' = Held(x)
  BY DEF Held, Storing, VisitAt
<1>5. fadingBar'[s] \subseteq fadingBar[s] \cup ({linkBar[s]} \ {Absent})
  BY <1>4 DEF fadingBar, linkBar
<1>6. \A x \in Slugs \ {s} : fadingBar'[x] \subseteq fadingBar[x]
  BY <1>4 DEF fadingBar
<1>7. UNCHANGED sentBar
  BY DEF sentBar, VisitAt
<1>8. Directory!Relink(s, ResolveSlug(s)')
  BY <1>3, <1>5, <1>6, <1>7 DEF Directory!Relink
<1> QED
  BY <1>1, <1>2, <1>8 DEF Directory!Next

-----------------------------------------------------------------------------
(* The steps of CodesBackend *)

\* A statement writes one row, whose slug is what it was or was free.
LEMMA OneRow ==
    ASSUME Inv, NEW r \in Requests, ServiceWrite(r) \/ ServiceWriteUnacked(r)
    PROVE  \/ UNCHANGED dynamic_codes
           \/ \E i \in CodeIds, s \in Slugs :
                 /\ \A j \in CodeIds \ {i} : dynamic_codes'[j] = dynamic_codes[j]
                 /\ dynamic_codes[i] # Absent => dynamic_codes[i].slug = s
                 /\ dynamic_codes'[i] # Absent => dynamic_codes'[i].slug = s
<1>1. /\ api[r] \in Request /\ Carries(api[r], minted, dynamic_codes)
      /\ dynamic_codes \in [CodeIds -> DynamicCode \cup {Absent}]
      /\ minted \subseteq CodeIds
  BY DEF Inv, TypeOK, StoreTypeOK, ServiceTypeOK, RequestsCarry
<1>2. ASSUME NEW s \in Slugs, NEW i \in CodeIds \ minted,
             InsertDynamicCode(i, api[r].user, api[r].label, s, api[r].destination)
      PROVE  /\ \A j \in CodeIds \ {i} : dynamic_codes'[j] = dynamic_codes[j]
             /\ dynamic_codes[i] = Absent
             /\ dynamic_codes'[i].slug = s
  <2>1. dynamic_codes[i] = Absent
    BY RowTypes, InvTables
  <2> QED
    BY <1>1, <1>2, <2>1 DEF InsertDynamicCode
<1>3. ASSUME NEW i \in CodeIds, NEW d, SetDestination(i, d)
      PROVE  \E s \in Slugs : /\ \A j \in CodeIds \ {i} : dynamic_codes'[j] = dynamic_codes[j]
                             /\ dynamic_codes[i].slug = s
                             /\ dynamic_codes'[i].slug = s
  BY <1>1, <1>3 DEF SetDestination, DynamicCode
<1>4. ASSUME NEW u, NEW i \in CodeIds, DeleteCode(u, i)
      PROVE  /\ \A j \in CodeIds \ {i} : dynamic_codes'[j] = dynamic_codes[j]
             /\ dynamic_codes'[i] = Absent
             /\ dynamic_codes[i] # Absent => dynamic_codes[i].slug \in Slugs
             /\ dynamic_codes[i] = Absent => UNCHANGED dynamic_codes
  BY <1>1, <1>4 DEF DeleteCode, DynamicCode
<1>5. CASE \E s \in Slugs : CreateDynamic(r, s) \/ CreateUnacked(r, s)
  BY <1>2, <1>5 DEF CreateDynamic, CreateUnacked
<1>6. CASE At(r, "destination") /\ SetDestination(api[r].id, api[r].destination)
  <2>1. api[r].id \in CodeIds
    BY <1>1, <1>6 DEF Carries, At
  <2> QED
    BY <1>3, <1>6, <2>1
<1>7. CASE At(r, "delete") /\ DeleteCode(api[r].user, api[r].id)
  <2>1. api[r].id \in CodeIds
    BY <1>1, <1>7 DEF Carries, At
  <2> QED
    BY <1>4, <1>7, <2>1
<1>8. CASE \/ \E u \in Users, l \in Labels : CreateStatic(r, u, l)
           \/ UpdateLabel(r) \/ LabelUnacked(r)
  BY <1>8 DEF CreateStatic, InsertCode, UpdateLabel, LabelUnacked, SetLabel
<1> QED
  BY <1>5, <1>6, <1>7, <1>8 DEF ServiceWrite, ServiceWriteUnacked, UpdateDestination,
     DeleteRow, WriteUnacked

\* Writing a row links no slug but its own.
LEMMA WriteStep ==
    ASSUME Inv, Inv', NEW r \in Requests, ServiceWrite(r) \/ ServiceWriteUnacked(r)
    PROVE  Directory!Next
<1>1. UNCHANGED <<visits, cache>>
  BY DEF ServiceWrite, ServiceWriteUnacked, visitVars, CreateStatic, CreateDynamic,
     CreateUnacked, UpdateDestination, UpdateLabel, LabelUnacked, DeleteRow, WriteUnacked
<1>2. CASE UNCHANGED dynamic_codes
  <2>1. \A s \in Slugs : ResolveSlug(s)' = ResolveSlug(s) /\ Held(s)' = Held(s)
    BY <1>1, <1>2 DEF ResolveSlug, Held, Storing, VisitAt
  <2> QED
    BY <1>1, <2>1, LeaveStep
<1>3. ASSUME NEW i \in CodeIds, NEW s \in Slugs,
             \A j \in CodeIds \ {i} : dynamic_codes'[j] = dynamic_codes[j],
             dynamic_codes[i] # Absent => dynamic_codes[i].slug = s,
             dynamic_codes'[i] # Absent => dynamic_codes'[i].slug = s
      PROVE  Directory!Next
  <2>1. UniqueIn(dynamic_codes) /\ UniqueIn(dynamic_codes)'
    BY DEF Inv, RowsAgree
  <2>2. ASSUME NEW x \in Slugs \ {s}
        PROVE  ResolveSlug(x)' = ResolveSlug(x)
    BY <1>3, <2>1, <2>2, TargetSame DEF ResolveSlug
  <2> QED
    BY <1>1, <2>2, RelinkStep
<1> QED
  BY <1>2, <1>3, OneRow
\* A step that leaves the tables and the visits alone and drops entries.
LEMMA DropStep ==
    ASSUME Inv', UNCHANGED <<dynamic_codes, visits>>,
           \A s \in Slugs : cache'[s] \in {cache[s], Absent}
    PROVE  Directory!Next
<1>1. \A s \in Slugs : /\ ResolveSlug(s)' = ResolveSlug(s)
                      /\ Held(s)' \subseteq Held(s) \cup {ResolveSlug(s), Absent}
  BY DEF ResolveSlug, Held, Storing, VisitAt
<1> QED
  BY <1>1, LeaveStep

\* Reading, deciding and invalidating link nothing and hand nothing out.
LEMMA OwnerStep ==
    ASSUME Inv, Inv', NEW r \in Requests, Owner(r)
    PROVE  Directory!Next
<1>1. CASE ServiceLocal(r)
  <2>1. UNCHANGED <<storeVars, cache, visits>>
    BY <1>1 DEF ServiceLocal, BeginCreateDynamic, SlugCollision, RollbackCollision,
       BeginUpdate, BeginDelete, Reload, RowGone, FirstCallFails, StatementFails, AnswerOnly,
       visitVars
  <2> QED
    BY <2>1, DropStep DEF storeVars
<1>2. CASE ServiceWrite(r) \/ ServiceWriteUnacked(r)
  BY <1>2, WriteStep
<1>3. CASE ServiceInvalidate(r)
  BY <1>3, DropStep DEF ServiceInvalidate, InvalidateSlug, Invalidate, storeVars, visitVars,
     Inv, TypeOK, CacheTypeOK
<1>4. CASE ServiceInvalidateFails(r)
  BY <1>4, DropStep DEF ServiceInvalidateFails, InvalidateFails, storeVars, visitVars
<1> QED
  BY <1>1, <1>2, <1>3, <1>4 DEF Owner

\* A visit hands out what it found in the cache or read itself.
LEMMA VisitorStep ==
    ASSUME Inv, Inv', NEW v \in Visits, Visitor(v)
    PROVE  Directory!Next
<1>1. /\ visits \in [Visits -> Visit]
      /\ cache \in [Slugs -> CachedTarget \cup {Absent}]
      /\ visits[v].pc # "idle" => visits[v].slug \in Slugs
      /\ visits[v].pc = "store" => visits[v].target \in CachedTarget
  BY DEF Inv, TypeOK, RedirectTypeOK, CacheTypeOK, VisitsCarry
<1> DEFINE Links == \A x \in Slugs : ResolveSlug(x)' = ResolveSlug(x)
           Holds == \A x \in Slugs : Held(x)' \subseteq Held(x) \cup {ResolveSlug(x), Absent}
<1>2. Links /\ \A y \in Visits \ {v} : visits'[y] = visits[y]
  BY <1>1 DEF Visitor, VisitorReads, VisitorStores, LookupHit, LookupMiss, LookupFails, Miss,
     ResolveFound, ResolveNotFound, ResolveFails, StoreTarget, StoreFails, RecordScan,
     RecordScanFails, Respond, Finish, storeVars, ResolveSlug
\* The cache takes what is held, and a visit that is to store read it now.
<1>3. ASSUME \A x \in Slugs : cache'[x] \in Held(x),
             VisitAt(v, "store")' => visits'[v].target = ResolveSlug(visits'[v].slug)
      PROVE  Holds
  <2>1. ASSUME NEW x \in Slugs, NEW y \in Storing(x)'
        PROVE  visits'[y].target \in Held(x) \cup {ResolveSlug(x)}
    <3>1. y \in Visits /\ VisitAt(y, "store")' /\ visits'[y].slug = x
      BY <2>1 DEF Storing
    <3>2. CASE y = v
      BY <1>3, <3>1, <3>2
    <3>3. CASE y # v
      BY <1>2, <3>1, <3>3 DEF Held, Storing, VisitAt
    <3> QED
      BY <3>2, <3>3
  <2>2. ASSUME NEW x \in Slugs
        PROVE  Held(x)' = {cache'[x]} \cup {visits'[y].target : y \in Storing(x)'}
    BY DEF Held
  <2> QED
    BY <1>3, <2>1, <2>2
<1>4. \A x \in Slugs : cache[x] \in Held(x)
  BY DEF Held
<1>5. ASSUME NEW s \in Slugs, LookupHit(v, s)
      PROVE  Directory!Next
  <2>1. cache[s] \in CachedTarget /\ ~VisitAt(v, "record")
    BY <1>1, <1>5 DEF LookupHit, Lookup, VisitAt
  <2>2. Respond(v, s, cache[s]) /\ UNCHANGED cache
    BY <1>5 DEF LookupHit, Lookup
  <2>3. ~VisitAt(v, "store")'
    BY <1>1, <2>2 DEF Respond, VisitAt
  <2>4. Holds
    BY <1>3, <1>4, <2>2, <2>3
  <2> QED
    BY <1>2, <1>4, <2>1, <2>2, <2>4, SendStep
<1>6. ASSUME StoreTarget(v) \/ StoreFails(v)
      PROVE  Directory!Next
  <2> DEFINE s == visits[v].slug
             t == visits[v].target
  <2>1. /\ VisitAt(v, "store") /\ ~VisitAt(v, "record") /\ Respond(v, s, t)
        /\ cache' = [cache EXCEPT ![s] = t] \/ UNCHANGED cache
    BY <1>6 DEF StoreTarget, StoreFails, Store, VisitAt
  <2>2. s \in Slugs /\ t \in CachedTarget
    BY <1>1, <2>1 DEF VisitAt
  <2>3. t \in Held(s)
    BY <2>1 DEF Held, Storing
  <2>4. ~VisitAt(v, "store")'
    BY <1>1, <2>1 DEF Respond, VisitAt
  <2> HIDE DEF s, t
  <2>5. \A x \in Slugs : cache'[x] \in Held(x)
    BY <1>1, <1>4, <2>1, <2>3
  <2>6. Holds
    BY <1>3, <2>4, <2>5
  <2> QED
    BY <1>2, <2>1, <2>2, <2>3, <2>6, SendStep
<1>7. ASSUME \A x \in Slugs : cache'[x] \in Held(x),
             VisitAt(v, "store")' => visits'[v].target = ResolveSlug(visits'[v].slug),
             ~VisitAt(v, "record")'
      PROVE  Directory!Next
  <2>1. \A y \in Visits : VisitAt(y, "record")' => visits'[y] = visits[y]
    BY <1>2, <1>7
  <2> QED
    BY <1>2, <1>3, <1>7, <2>1, LeaveStep
<1>8. CASE ResolveFound(v)
  <2>1. /\ UNCHANGED cache
        /\ visits' = [visits EXCEPT ![v].pc = "store",
                                    ![v].target = ResolveSlug(visits[v].slug)]
    BY <1>8 DEF ResolveFound
  <2>2. /\ visits'[v].pc = "store"
        /\ visits'[v].slug = visits[v].slug
        /\ visits'[v].target = ResolveSlug(visits[v].slug)
    BY <1>1, <2>1 DEF Visit
  <2> QED
    BY <1>4, <1>7, <2>1, <2>2 DEF VisitAt
<1>9. CASE \/ \E s \in Slugs : LookupMiss(v, s) \/ LookupFails(v, s)
           \/ ResolveNotFound(v) \/ ResolveFails(v)
           \/ RecordScan(v) \/ RecordScanFails(v)
  <2>1. UNCHANGED cache /\ ~VisitAt(v, "store")' /\ ~VisitAt(v, "record")'
    BY <1>1, <1>9 DEF LookupMiss, LookupFails, Miss, ResolveNotFound, ResolveFails, RecordScan,
       RecordScanFails, Finish, NoVisit, VisitAt
  <2> QED
    BY <1>4, <1>7, <2>1
<1> QED
  BY <1>5, <1>6, <1>8, <1>9 DEF Visitor, VisitorReads, VisitorStores

\* A crash ends every visit and every request.
LEMMA CrashLeaves ==
    ASSUME Inv', Crash
    PROVE  Directory!Next
<1>1. /\ UNCHANGED <<dynamic_codes, cache>>
      /\ visits' = [v \in Visits |-> NoVisit]
  BY DEF Crash, storeVars
<1>2. \A v \in Visits : visits'[v].pc = "idle"
  BY <1>1 DEF NoVisit
<1>3. \A s \in Slugs : /\ ResolveSlug(s)' = ResolveSlug(s)
                      /\ Held(s)' \subseteq Held(s) \cup {ResolveSlug(s), Absent}
  BY <1>1, <1>2 DEF ResolveSlug, Held, Storing, VisitAt
<1> QED
  BY <1>2, <1>3, LeaveStep DEF VisitAt

-----------------------------------------------------------------------------
(* Theorem *)

\* Whatever owners, visitors and failures do, visitors are sent to the slug's
\* current target or to a former one that is still held, and a former target
\* nobody holds never comes back.
THEOREM DirectoryImplemented == Spec => ImplementsDirectory
<1>1. Init => Directory!Init
  <2> SUFFICES ASSUME Init PROVE Directory!Init
    OBVIOUS
  <2>1. \A s \in Slugs : ResolveSlug(s) = Absent
    BY TargetOfNone DEF Init, StoreInit, ResolveSlug
  <2>2. \A v \in Visits : ~VisitAt(v, "store") /\ ~VisitAt(v, "record")
    BY DEF Init, RedirectInit, NoVisit, VisitAt
  <2>3. \A s \in Slugs : Held(s) = {Absent}
    BY <2>2 DEF Held, Storing, Init, CacheInit
  <2> QED
    BY <2>1, <2>2, <2>3 DEF Directory!Init, linkBar, fadingBar, sentBar
<1>2. Inv /\ Inv' /\ [Next]_vars => [Directory!Next]_(Directory!vars)
  <2> SUFFICES ASSUME Inv, Inv', [Next]_vars PROVE [Directory!Next]_(Directory!vars)
    OBVIOUS
  <2>1. ASSUME NEW r \in Requests, Owner(r) PROVE Directory!Next
    BY <2>1, OwnerStep
  <2>2. ASSUME NEW v \in Visits, Visitor(v) PROVE Directory!Next
    BY <2>2, VisitorStep
  <2>3. ASSUME NEW s \in Slugs, ExpireEntry(s) PROVE Directory!Next
    BY <2>3, DropStep DEF ExpireEntry, Expire, storeVars, visitVars, Inv, TypeOK, CacheTypeOK
  <2>4. CASE Crash
    BY <2>4, CrashLeaves
  <2>5. CASE UNCHANGED vars
    BY <2>5, DropStep DEF vars, storeVars, visitVars
  <2> QED
    BY <2>1, <2>2, <2>3, <2>4, <2>5 DEF Next
<1> QED
  BY <1>1, <1>2, Invariance, PTL DEF Spec, ImplementsDirectory, Directory!Spec
===============================================================================
