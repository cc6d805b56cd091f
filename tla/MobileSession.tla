---------------------------- MODULE MobileSession ----------------------------
(***************************************************************************)
(* The app's session: the token in the phone's secure storage, the         *)
(* AuthController that resolves or provisions a guest at launch and after  *)
(* "Clear local data", and the requests the screens make meanwhile         *)
(* (lib/features/auth, lib/core/api, lib/routing).                         *)
(*                                                                         *)
(* The app is one isolate, so code runs undisturbed between two awaits; an *)
(* await of the storage or of the network is where a step ends.  The       *)
(* operating system may kill the app between any two steps.                *)
(***************************************************************************)
CONSTANTS
    Guests,     \* the users the server can provision
    Runs,       \* the slots for coroutines of the AuthController under way
    Calls,      \* the slots for requests under way
    Absent,     \* no token, no user, no coroutine
    Faults      \* what may fail: "network", "storage"

ASSUME SessionAssumption ==
    /\ Absent \notin Guests \cup Runs
    /\ Absent \notin [sub : Guests, is_guest : BOOLEAN]
    /\ Faults \subseteq {"network", "storage"}

VARIABLES
    guests,     \* the users the server has provisioned
    live,       \* those whose token has not expired; each has one token
    store,      \* the token in SecureTokenStore, or Absent
    stray,      \* history: a coroutine that Retry left behind wrote it
    auth,       \* the AuthController's state
    boots,      \* boots[r]: a coroutine of _bootstrap or resetGuest
    calls       \* calls[c]: a screen's request under way

vars == <<guests, live, store, stray, auth, boots, calls>>

\* The claims the backend signs (internal/auth/jwt.go): sub and is_guest.
Token == [sub : Guests, is_guest : BOOLEAN]

TokenOf(g) == [sub |-> g, is_guest |-> TRUE]

\* state: the AsyncValue; "none" when the app is not running, "retrying" an
\* error that is being refreshed.  run: the coroutine whose result it awaits.
Auth == [state : {"none", "loading", "retrying", "data", "error"},
         run   : Runs \cup {Absent},
         user  : Guests \cup {Absent}]

NoAuth == [state |-> "none", run |-> Absent, user |-> Absent]

\* pc: what the coroutine awaits, the storage ("read", "clear", "write") or the
\* server ("guest").
Boot == [pc : {"idle", "read", "clear", "guest", "write"}, user : Guests \cup {Absent}]

NoBoot == [pc |-> "idle", user |-> Absent]

\* "attach": the interceptor reads the token; "sent": with that token.  user and
\* overtaken are history: on whose screen the request was started, and whether
\* a reset or a stray token came before its own was attached.
Call == [pc : {"idle", "attach", "sent"}, token : Token \cup {Absent},
         user : Guests \cup {Absent}, overtaken : BOOLEAN]

NoCall == [pc |-> "idle", token |-> Absent, user |-> Absent, overtaken |-> FALSE]

TypeOK ==
    /\ live \subseteq guests
    /\ guests \subseteq Guests
    /\ store \in Token \cup {Absent}
    /\ stray \in BOOLEAN
    /\ auth \in Auth
    /\ boots \in [Runs -> Boot]
    /\ calls \in [Calls -> Call]

Init ==
    /\ guests = {}
    /\ live = {}
    /\ store = Absent
    /\ stray = FALSE
    /\ auth = NoAuth
    /\ boots = [r \in Runs |-> NoBoot]
    /\ calls = [c \in Calls |-> NoCall]

-----------------------------------------------------------------------------
(* Bootstrap and reset *)

\* A coroutine starts; the provider awaits it from now on.
Begin(r, state, step) ==
    /\ boots[r].pc = "idle"
    /\ boots' = [boots EXCEPT ![r].pc = step]
    /\ auth' = [state |-> state, run |-> r, user |-> Absent]

Await(r, step, user) == boots' = [boots EXCEPT ![r] = [pc |-> step, user |-> user]]

\* A coroutine ends.  The provider takes the result only of the one it awaits.
End(r, state, user) ==
    /\ boots' = [boots EXCEPT ![r] = NoBoot]
    /\ auth' = IF auth.run = r THEN [state |-> state, run |-> Absent, user |-> user]
                               ELSE auth

\* Mutation: an exception nothing guards against.
EndSilently(r) ==
    /\ boots' = [boots EXCEPT ![r] = NoBoot]
    /\ UNCHANGED auth

\* AsyncError: AsyncValue.guard, or the future of build, caught an exception.
Fail(r) == End(r, "error", Absent)

\* The requests whose token is yet to be read are about to get another one.
Overtake == calls' = [c \in Calls |->
    IF calls[c].pc = "attach" THEN [calls[c] EXCEPT !.overtaken = TRUE] ELSE calls[c]]

\* The splash screen reads the provider.
Launch(r) ==
    /\ auth.state = "none"
    /\ Begin(r, "loading", "read")
    /\ UNCHANGED <<guests, live, store, stray, calls>>

\* Its Retry button invalidates the provider, which builds again.  The error, and
\* the button, stay on the screen meanwhile; a coroutine under way goes on.
Retry(r) ==
    /\ auth.state \in {"error", "retrying"}
    /\ Begin(r, "retrying", "read")
    /\ UNCHANGED <<guests, live, store, stray, calls>>

\* Jwt.isExpired, for a token that carries exp as the backend's all do.
IsExpired(t) == t.sub \notin live

\* _userFromToken reads the claim uid; Absent is null.
UserFromToken(t) == IF "uid" \in DOMAIN t THEN t.uid ELSE Absent

Identifies(t) == t # Absent /\ ~IsExpired(t) /\ UserFromToken(t) # Absent

\* _bootstrap: a stored token identifies the user, or a guest is provisioned.
ReadToken(r) ==
    /\ boots[r].pc = "read"
    /\ IF Identifies(store)
         THEN End(r, "data", UserFromToken(store)) /\ stray' = (stray /\ auth.run # r)
         ELSE Await(r, "guest", Absent) /\ UNCHANGED <<stray, auth>>
    /\ UNCHANGED <<guests, live, store, calls>>

\* Mutation: a token for a user whose row was not inserted.
TokenWithoutUser(r) ==
    /\ boots[r].pc = "guest"
    /\ \E g \in Guests \ guests :
        /\ live' = live \cup {g}
        /\ Await(r, "write", g)
    /\ UNCHANGED <<guests, store, stray, auth, calls>>

\* POST /auth/guest is answered; the token is about to be written.
GuestProvisioned(r) ==
    /\ boots[r].pc = "guest"
    /\ \E g \in Guests \ guests :
        /\ guests' = guests \cup {g}
        /\ live' = live \cup {g}
        /\ Await(r, "write", g)
    /\ UNCHANGED <<store, stray, auth, calls>>

\* No answer: the request or its answer is lost, or the server refuses it.
\* Bound: it does when Guests is used up.
GuestFails(r) ==
    /\ "network" \in Faults \/ guests = Guests
    /\ boots[r].pc = "guest"
    /\ Fail(r)
    /\ \/ UNCHANGED <<guests, live>>
       \/ \E g \in Guests \ guests : guests' = guests \cup {g} /\ live' = live \cup {g}
    /\ UNCHANGED <<store, stray, calls>>

\* Mutation: the user is reported before the token is stored.
ForgetToken(r) ==
    /\ boots[r].pc = "write"
    /\ End(r, "data", boots[r].user)
    /\ UNCHANGED <<guests, live, store, stray, calls>>

WriteToken(r) ==
    /\ boots[r].pc = "write"
    /\ store' = TokenOf(boots[r].user)
    /\ stray' = (auth.run # r)
    /\ IF auth.run = r THEN UNCHANGED calls ELSE Overtake
    /\ End(r, "data", boots[r].user)
    /\ UNCHANGED <<guests, live>>

\* resetGuest: only when the session is not loading, from the settings screen.
ResetGuest(r) ==
    /\ auth.state = "data"
    /\ Begin(r, "loading", "clear")
    /\ Overtake
    /\ UNCHANGED <<guests, live, store, stray>>

ClearToken(r) ==
    /\ boots[r].pc = "clear"
    /\ store' = Absent
    /\ Await(r, "guest", Absent)
    /\ UNCHANGED <<guests, live, stray, auth, calls>>

\* The keystore refuses a read, a write or a delete.
StorageFails(r) ==
    /\ "storage" \in Faults
    /\ boots[r].pc \in {"read", "write", "clear"}
    /\ Fail(r)
    /\ UNCHANGED <<guests, live, store, stray, calls>>

-----------------------------------------------------------------------------
(* Requests *)

\* A screen starts a request.  The router shows screens only when there is a
\* user.
StartCall(c) ==
    /\ auth.state = "data"
    /\ calls[c].pc = "idle"
    /\ calls' = [calls EXCEPT ![c] = [NoCall EXCEPT !.pc = "attach", !.user = auth.user,
                                                    !.overtaken = stray]]
    /\ UNCHANGED <<guests, live, store, stray, auth, boots>>

\* Mutation: the interceptor does not await the storage.
SendUnattached(c) ==
    /\ calls[c].pc = "attach"
    /\ calls' = [calls EXCEPT ![c].pc = "sent"]
    /\ UNCHANGED <<guests, live, store, stray, auth, boots>>

\* _AuthInterceptor attaches whatever token is stored by now.
AttachToken(c) ==
    /\ calls[c].pc = "attach"
    /\ calls' = [calls EXCEPT ![c].pc = "sent", ![c].token = store]
    /\ UNCHANGED <<guests, live, store, stray, auth, boots>>

\* The answer, whatever it is: a 401 too only reaches the screen, as an error.
CallEnds(c) ==
    /\ calls[c].pc = "sent"
    /\ calls' = [calls EXCEPT ![c] = NoCall]
    /\ UNCHANGED <<guests, live, store, stray, auth, boots>>

-----------------------------------------------------------------------------

\* JWT_TTL_HOURS are over.
Expires(g) ==
    /\ live' = live \ {g}
    /\ UNCHANGED <<guests, store, stray, auth, boots, calls>>

\* The operating system kills the app.  Secure storage stays.
Kill ==
    /\ auth.state # "none"
    /\ auth' = NoAuth
    /\ boots' = [r \in Runs |-> NoBoot]
    /\ calls' = [c \in Calls |-> NoCall]
    /\ stray' = FALSE
    /\ UNCHANGED <<guests, live, store>>

Step(r) ==
    \/ ReadToken(r)
    \/ GuestProvisioned(r)
    \/ GuestFails(r)
    \/ WriteToken(r)
    \/ ClearToken(r)
    \/ StorageFails(r)

Next ==
    \/ \E r \in Runs : Launch(r) \/ Retry(r) \/ Step(r) \/ ResetGuest(r)
    \/ \E c \in Calls : StartCall(c) \/ AttachToken(c) \/ CallEnds(c)
    \/ \E g \in live : Expires(g)
    \/ Kill

Spec == Init /\ [][Next]_vars

(***************************************************************************)
(* An await ends: Dio times out after 10 s and 15 s, and the keystore      *)
(* answers.                                                                *)
(***************************************************************************)
FairSpec == Spec /\ \A r \in Runs : WF_vars(Step(r))

-----------------------------------------------------------------------------
(* Properties *)

\* While screens are shown, the token in storage is the token of the user they
\* are shown for, or a coroutine that Retry left behind has put another one there:
\* no failure in the middle of a reset or a launch, and no kill, parts the two.
ReadyHasToken ==
    auth.state = "data" => store # Absent /\ (stray \/ store.sub = auth.user)

\* A request goes out with the token of the user on whose screen it was started,
\* unless a reset or a stray token overtook it before the interceptor read one.
CallsCarryTheirUser ==
    \A c \in Calls :
        calls[c].pc = "sent" /\ ~calls[c].overtaken
        => calls[c].token # Absent /\ calls[c].token.sub = calls[c].user

\* The splash screen never spins for ever: launch, retry and reset end with a
\* user or with an error, unless the user retries once more.
BootstrapEnds ==
    \A r \in Runs : auth.run = r ~> auth.state \in {"none", "data", "error"} \/ auth.run # r

-----------------------------------------------------------------------------
(* What the repository says and the code does not do *)

\* "If a stored token exists and isn't expired, rebuild the user from its claims"
\* (features/auth/application/auth_controller.dart): a token that is still valid
\* leaves the storage only when the user clears local data.
ValidTokenIsKept == [][
    store # Absent /\ ~IsExpired(store) /\ store' # store => \E r \in Runs : ClearToken(r)
    ]_vars
=============================================================================
