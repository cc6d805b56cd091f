------------------------- MODULE MobileSessionProofs -------------------------
(***************************************************************************)
(* Proofs about MobileSession, for any number of guests, coroutines and    *)
(* requests.                                                               *)
(***************************************************************************)
EXTENDS MobileSession, TLAPS

-----------------------------------------------------------------------------
(* Why it holds: the inductive invariant *)

\* What the screens see fits the coroutine the provider awaits.  A reset is never
\* left behind: the splash screen offers no Retry until it has failed.
AuthHolds ==
    /\ auth.run # Absent <=> auth.state \in {"loading", "retrying"}
    /\ auth.state = "data" => auth.user \in Guests
    /\ \A r \in Runs :
        /\ auth.run = r => boots[r].pc # "idle"
        /\ boots[r].pc = "clear" => auth.run = r /\ auth.state = "loading"
        /\ boots[r].pc = "write" => boots[r].user \in Guests

\* A request whose token is yet to be read is on a screen of the current user,
\* whose token is in storage, or was overtaken.
AttachHolds ==
    \A c \in Calls :
        calls[c].pc = "attach" /\ ~calls[c].overtaken
        => auth.state = "data" /\ calls[c].user = auth.user /\ ~stray

Inv ==
    /\ TypeOK
    /\ AuthHolds
    /\ AttachHolds
    /\ ReadyHasToken
    /\ CallsCarryTheirUser

-----------------------------------------------------------------------------

\* Only a record without the field uid is a token of the backend, so
\* _userFromToken identifies nobody.
LEMMA NobodyIdentified ==
    ASSUME TypeOK
    PROVE  ~Identifies(store)
BY DEF TypeOK, Token, UserFromToken, Identifies

\* A guest's token is one, and is not mistaken for an empty storage.
LEMMA TokenOfGuest ==
    ASSUME NEW g \in Guests
    PROVE  TokenOf(g) \in Token /\ TokenOf(g) # Absent /\ TokenOf(g).sub = g
<1>1. TokenOf(g) \in [sub : Guests, is_guest : BOOLEAN]
  BY DEF TokenOf
<1>2. TokenOf(g) # Absent
  BY <1>1, SessionAssumption
<1> QED
  BY <1>1, <1>2 DEF Token, TokenOf

\* Marking requests keeps their type and exempts those it marks.
LEMMA Overtaking ==
    ASSUME calls \in [Calls -> Call], CallsCarryTheirUser, Overtake
    PROVE  /\ calls' \in [Calls -> Call]
           /\ CallsCarryTheirUser'
           /\ \A c \in Calls : ~(calls'[c].pc = "attach" /\ ~calls'[c].overtaken)
<1>1. \A c \in Calls :
        calls'[c] = IF calls[c].pc = "attach" THEN [calls[c] EXCEPT !.overtaken = TRUE]
                                              ELSE calls[c]
  BY DEF Overtake
<1>2. calls' \in [Calls -> Call]
  BY DEF Overtake, Call
<1> QED
  BY <1>1, <1>2 DEF CallsCarryTheirUser, Call

\* A coroutine that begins, with the provider not awaiting a reset.
LEMMA BeginStep ==
    ASSUME TypeOK, AuthHolds, NEW r \in Runs,
           NEW state \in {"loading", "retrying"}, NEW step \in {"read", "clear"},
           step = "clear" => state = "loading",
           Begin(r, state, step),
           auth.state # "loading"
    PROVE  /\ auth' \in Auth /\ boots' \in [Runs -> Boot]
           /\ AuthHolds' /\ auth'.state # "data"
<1>1. /\ auth' = [state |-> state, run |-> r, user |-> Absent]
      /\ auth' \in Auth
  BY DEF Begin, Auth
<1>2. /\ boots' \in [Runs -> Boot]
      /\ boots'[r].pc = step
      /\ \A q \in Runs : q # r => boots'[q] = boots[q]
  BY DEF Begin, TypeOK, Boot
<1>3. \A q \in Runs : boots[q].pc # "clear"
  BY DEF AuthHolds
<1> QED
  BY <1>1, <1>2, <1>3, SessionAssumption DEF AuthHolds

\* A coroutine that goes on to its next await.
LEMMA AwaitStep ==
    ASSUME TypeOK, AuthHolds, NEW r \in Runs, NEW user \in Guests \cup {Absent},
           NEW step \in {"guest", "write"},
           step = "write" => user \in Guests,
           Await(r, step, user), UNCHANGED auth
    PROVE  boots' \in [Runs -> Boot] /\ AuthHolds'
<1>1. /\ boots' \in [Runs -> Boot]
      /\ boots'[r].pc = step /\ boots'[r].user = user
      /\ \A q \in Runs : q # r => boots'[q] = boots[q]
  BY DEF Await, TypeOK, Boot
<1> QED
  BY <1>1 DEF AuthHolds

\* A coroutine that ends: the provider takes its result, or a later one is awaited.
LEMMA EndStep ==
    ASSUME TypeOK, AuthHolds, NEW r \in Runs, NEW user \in Guests \cup {Absent},
           NEW state \in {"data", "error"},
           state = "data" => user \in Guests,
           End(r, state, user)
    PROVE  /\ auth' \in Auth /\ boots' \in [Runs -> Boot] /\ AuthHolds'
           /\ auth.run = r => auth' = [state |-> state, run |-> Absent, user |-> user]
           /\ auth.run # r => auth' = auth
<1>1. /\ boots' \in [Runs -> Boot]
      /\ boots'[r].pc = "idle"
      /\ \A q \in Runs : q # r => boots'[q] = boots[q]
  BY DEF End, TypeOK, Boot, NoBoot
<1>2. CASE auth.run = r
  <2>1. auth' = [state |-> state, run |-> Absent, user |-> user] /\ auth' \in Auth
    BY <1>2 DEF End, Auth
  <2>2. \A q \in Runs : q # r => boots[q].pc # "clear"
    BY <1>2 DEF AuthHolds
  <2> QED
    BY <1>1, <1>2, <2>1, <2>2, SessionAssumption DEF AuthHolds
<1>3. CASE auth.run # r
  <2>1. auth' = auth
    BY <1>3 DEF End
  <2> QED
    BY <1>1, <1>3, <2>1 DEF AuthHolds, TypeOK
<1> QED
  BY <1>2, <1>3

\* While the provider awaits a coroutine no request waits for the current user's
\* token.
LEMMA NobodyAttaches ==
    ASSUME Inv, auth.state # "data"
    PROVE  \A c \in Calls : ~(calls[c].pc = "attach" /\ ~calls[c].overtaken)
BY DEF Inv, AttachHolds

\* A coroutine starts: at launch, on Retry, or to clear local data.
LEMMA StartStep ==
    ASSUME Inv, NEW r \in Runs, Launch(r) \/ Retry(r) \/ ResetGuest(r)
    PROVE  Inv'
<1> USE DEF Inv
<1>1. UNCHANGED <<guests, live, store, stray>>
  BY DEF Launch, Retry, ResetGuest
<1>2. auth' \in Auth /\ boots' \in [Runs -> Boot] /\ AuthHolds' /\ auth'.state # "data"
  BY BeginStep DEF Launch, Retry, ResetGuest
<1>3. /\ calls' \in [Calls -> Call]
      /\ CallsCarryTheirUser'
      /\ \A c \in Calls : ~(calls'[c].pc = "attach" /\ ~calls'[c].overtaken)
  <2>1. CASE Launch(r) \/ Retry(r)
    <3>1. auth.state # "data" /\ UNCHANGED calls
      BY <2>1 DEF Launch, Retry
    <3> QED
      BY <3>1, NobodyAttaches DEF TypeOK, CallsCarryTheirUser
  <2>2. CASE ResetGuest(r)
    BY <2>2, Overtaking DEF ResetGuest, TypeOK
  <2> QED
    BY <2>1, <2>2
<1>4. TypeOK'
  BY <1>1, <1>2, <1>3 DEF TypeOK
<1>5. AttachHolds' /\ ReadyHasToken'
  BY <1>2, <1>3 DEF AttachHolds, ReadyHasToken
<1> QED
  BY <1>2, <1>3, <1>4, <1>5

\* A coroutine goes on: it found no user, has a guest, or has cleared the token.
LEMMA GoOnStep ==
    ASSUME Inv, NEW r \in Runs,
           (ReadToken(r) /\ ~Identifies(store)) \/ GuestProvisioned(r) \/ ClearToken(r)
    PROVE  Inv'
<1> USE DEF Inv
<1>1. UNCHANGED <<stray, auth, calls>>
  BY DEF ReadToken, GuestProvisioned, ClearToken
<1>2. /\ live' \subseteq guests' /\ guests' \subseteq Guests
      /\ store' \in Token \cup {Absent}
      /\ boots' \in [Runs -> Boot] /\ AuthHolds'
  <2>1. CASE ReadToken(r) /\ ~Identifies(store)
    BY <2>1, AwaitStep DEF ReadToken, TypeOK
  <2>2. CASE GuestProvisioned(r)
    <3>1. PICK g \in Guests \ guests : /\ guests' = guests \cup {g}
                                       /\ live' = live \cup {g}
                                       /\ Await(r, "write", g)
      BY <2>2 DEF GuestProvisioned
    <3>2. boots' \in [Runs -> Boot] /\ AuthHolds'
      BY <1>1, <3>1, AwaitStep
    <3> QED
      BY <2>2, <3>1, <3>2 DEF GuestProvisioned, TypeOK
  <2>3. CASE ClearToken(r)
    BY <2>3, AwaitStep DEF ClearToken, TypeOK
  <2> QED
    BY <2>1, <2>2, <2>3
<1>3. TypeOK'
  BY <1>1, <1>2 DEF TypeOK
<1>4. ReadyHasToken'
  <2>1. ClearToken(r) => auth.state # "data"
    BY DEF ClearToken, AuthHolds
  <2>2. ~ClearToken(r) => store' = store
    BY DEF ReadToken, GuestProvisioned
  <2> QED
    BY <1>1, <2>1, <2>2 DEF ReadyHasToken
<1>5. AttachHolds' /\ CallsCarryTheirUser'
  BY <1>1 DEF AttachHolds, CallsCarryTheirUser
<1> QED
  BY <1>2, <1>3, <1>4, <1>5

\* A coroutine fails.
LEMMA FailStep ==
    ASSUME Inv, NEW r \in Runs, GuestFails(r) \/ StorageFails(r)
    PROVE  Inv'
<1> USE DEF Inv
<1>1. UNCHANGED <<store, stray, calls>> /\ Fail(r)
  BY DEF GuestFails, StorageFails
<1>2. live' \subseteq guests' /\ guests' \subseteq Guests
  BY DEF GuestFails, StorageFails, TypeOK
<1>3. /\ auth' \in Auth /\ boots' \in [Runs -> Boot] /\ AuthHolds'
      /\ auth.run = r => auth' = [state |-> "error", run |-> Absent, user |-> Absent]
      /\ auth.run # r => auth' = auth
  BY <1>1, EndStep DEF Fail
<1>4. TypeOK'
  BY <1>1, <1>2, <1>3 DEF TypeOK
<1>5. ReadyHasToken'
  BY <1>1, <1>3 DEF ReadyHasToken
<1>6. AttachHolds'
  <2>1. auth.run = r => auth.state # "data"
    BY SessionAssumption DEF AuthHolds
  <2> QED
    BY <1>1, <1>3, <2>1 DEF AttachHolds
<1>7. CallsCarryTheirUser'
  BY <1>1 DEF CallsCarryTheirUser
<1> QED
  BY <1>3, <1>4, <1>5, <1>6, <1>7

\* A coroutine stores its guest's token.
LEMMA WriteStep ==
    ASSUME Inv, NEW r \in Runs, WriteToken(r)
    PROVE  Inv'
<1> USE DEF Inv
<1>1. /\ boots[r].user \in Guests
      /\ End(r, "data", boots[r].user)
      /\ UNCHANGED <<guests, live>>
  BY DEF WriteToken, AuthHolds
<1>2. /\ auth' \in Auth /\ boots' \in [Runs -> Boot] /\ AuthHolds'
      /\ auth.run = r => auth' = [state |-> "data", run |-> Absent, user |-> boots[r].user]
      /\ auth.run # r => auth' = auth
  BY <1>1, EndStep
<1>3. store' \in Token /\ store' # Absent /\ store'.sub = boots[r].user
  BY <1>1, TokenOfGuest DEF WriteToken
<1>4. /\ calls' \in [Calls -> Call]
      /\ CallsCarryTheirUser'
      /\ \A c \in Calls : ~(calls'[c].pc = "attach" /\ ~calls'[c].overtaken)
  <2>1. CASE auth.run = r
    <3>1. auth.state # "data" /\ UNCHANGED calls
      BY <2>1, SessionAssumption DEF WriteToken, AuthHolds
    <3> QED
      BY <3>1, NobodyAttaches DEF TypeOK, CallsCarryTheirUser
  <2>2. CASE auth.run # r
    BY <2>2, Overtaking DEF WriteToken, TypeOK
  <2> QED
    BY <2>1, <2>2
<1>5. stray' = (auth.run # r)
  BY DEF WriteToken
<1>6. TypeOK'
  BY <1>1, <1>2, <1>3, <1>4, <1>5 DEF TypeOK
<1>7. ReadyHasToken'
  <2>1. CASE auth.run = r
    <3>1. auth'.user = boots[r].user
      BY <1>2, <2>1
    <3> QED
      BY <1>3, <3>1 DEF ReadyHasToken
  <2>2. CASE auth.run # r
    <3>1. stray'
      BY <1>5, <2>2
    <3> QED
      BY <1>3, <3>1 DEF ReadyHasToken
  <2> QED
    BY <2>1, <2>2
<1>8. AttachHolds'
  BY <1>4 DEF AttachHolds
<1> QED
  BY <1>2, <1>4, <1>6, <1>7, <1>8

\* A request starts, reads the token, or ends.
LEMMA CallStep ==
    ASSUME Inv, NEW c \in Calls, StartCall(c) \/ AttachToken(c) \/ CallEnds(c)
    PROVE  Inv'
<1> USE DEF Inv, TypeOK
<1>1. UNCHANGED <<guests, live, store, stray, auth, boots>>
  BY DEF StartCall, AttachToken, CallEnds
<1>2. AuthHolds' /\ ReadyHasToken'
  BY <1>1 DEF AuthHolds, ReadyHasToken
<1>3. \A d \in Calls : d # c => calls'[d] = calls[d]
  BY DEF StartCall, AttachToken, CallEnds
<1>4. CASE StartCall(c)
  <2>1. calls'[c] = [NoCall EXCEPT !.pc = "attach", !.user = auth.user, !.overtaken = stray]
    BY <1>4 DEF StartCall
  <2>2. calls' \in [Calls -> Call]
    BY <1>4 DEF StartCall, Call, NoCall, AuthHolds
  <2>3. AttachHolds' /\ CallsCarryTheirUser'
    BY <1>1, <1>3, <1>4, <2>1 DEF StartCall, AttachHolds, CallsCarryTheirUser, NoCall
  <2> QED
    BY <1>1, <1>2, <2>2, <2>3
<1>5. CASE AttachToken(c)
  <2>1. calls'[c] = [calls[c] EXCEPT !.pc = "sent", !.token = store] /\ calls[c].pc = "attach"
    BY <1>5 DEF AttachToken
  <2>2. calls' \in [Calls -> Call]
    BY <1>5 DEF AttachToken, Call
  <2>3. AttachHolds'
    BY <1>1, <1>3, <2>1 DEF AttachHolds, Call
  <2>4. CallsCarryTheirUser'
    <3>1. ~calls[c].overtaken => store # Absent /\ store.sub = calls[c].user
      BY <2>1 DEF AttachHolds, ReadyHasToken
    <3> QED
      BY <1>1, <1>3, <2>1, <3>1 DEF CallsCarryTheirUser, Call
  <2> QED
    BY <1>1, <1>2, <2>2, <2>3, <2>4
<1>6. CASE CallEnds(c)
  <2>1. calls'[c] = NoCall
    BY <1>6 DEF CallEnds
  <2>2. calls' \in [Calls -> Call]
    BY <1>6 DEF CallEnds, Call, NoCall
  <2>3. AttachHolds' /\ CallsCarryTheirUser'
    BY <1>1, <1>3, <2>1 DEF AttachHolds, CallsCarryTheirUser, NoCall
  <2> QED
    BY <1>1, <1>2, <2>2, <2>3
<1> QED
  BY <1>4, <1>5, <1>6

\* The inductive invariant of the session (auth_controller.dart,
\* api_client.dart).
THEOREM SessionInvariance == Spec => []Inv
<1>1. Init => Inv
  <2> SUFFICES ASSUME Init
               PROVE  Inv
    OBVIOUS
  <2>1. TypeOK
    BY DEF Init, TypeOK, Auth, NoAuth, Boot, NoBoot, Call, NoCall
  <2>2. AuthHolds
    BY SessionAssumption DEF Init, AuthHolds, NoAuth, NoBoot
  <2>3. AttachHolds /\ CallsCarryTheirUser
    BY DEF Init, AttachHolds, CallsCarryTheirUser, NoCall
  <2>4. ReadyHasToken
    BY DEF Init, ReadyHasToken, NoAuth
  <2> QED
    BY <2>1, <2>2, <2>3, <2>4 DEF Inv
<1>2. Inv /\ [Next]_vars => Inv'
  <2> SUFFICES ASSUME Inv, [Next]_vars
               PROVE  Inv'
    OBVIOUS
  <2>1. ASSUME NEW g \in live, Expires(g)
        PROVE  Inv'
    BY <2>1 DEF Expires, Inv, TypeOK, AuthHolds, AttachHolds, ReadyHasToken, CallsCarryTheirUser
  <2>2. CASE Kill
    BY <2>2, SessionAssumption DEF Kill, Inv, TypeOK, Auth, NoAuth, Boot, NoBoot, Call, NoCall,
       AuthHolds, AttachHolds, ReadyHasToken, CallsCarryTheirUser
  <2>3. CASE UNCHANGED vars
    BY <2>3 DEF vars, Inv, TypeOK, AuthHolds, AttachHolds, ReadyHasToken, CallsCarryTheirUser
  <2>4. ASSUME NEW r \in Runs, Step(r)
        PROVE  Inv'
    <3>1. ~Identifies(store)
      BY NobodyIdentified DEF Inv
    <3> QED
      BY <2>4, <3>1, GoOnStep, FailStep, WriteStep DEF Step
  <2> QED
    BY <2>1, <2>2, <2>3, <2>4, StartStep, CallStep DEF Next
<1> QED
  BY <1>1, <1>2, PTL DEF Spec

\* A user on the screen has a token in storage, and it is hers unless a
\* coroutine that Retry left behind has overwritten it.
THEOREM ReadyTokens == Spec => []ReadyHasToken
<1>1. Inv => ReadyHasToken
  BY DEF Inv
<1> QED
  BY <1>1, SessionInvariance, PTL

\* A request carries the token of its screen's user, or was overtaken.
THEOREM CallsTokens == Spec => []CallsCarryTheirUser
<1>1. Inv => CallsCarryTheirUser
  BY DEF Inv
<1> QED
  BY <1>1, SessionInvariance, PTL

\* What is stored and attached is a token, and live users are provisioned ones.
THEOREM SessionTypes == Spec => []TypeOK
<1>1. Inv => TypeOK
  BY DEF Inv
<1> QED
  BY <1>1, SessionInvariance, PTL
=============================================================================
