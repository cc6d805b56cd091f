------------------------------- MODULE Accounts -------------------------------
(***************************************************************************)
(* Guests and accounts: POST /api/v1/auth/guest and /api/v1/auth/upgrade   *)
(* (internal/http/handlers/auth.go over internal/auth/service.go), the     *)
(* users table (internal/users/repository.go) and the bearer tokens that   *)
(* middleware/auth.go accepts.                                             *)
(*                                                                         *)
(* Each member of Requests is a server goroutine.  An upgrade reads the    *)
(* row, hashes the password, which takes long, and writes the row: the     *)
(* read and the write are a step each.  A token is its claims; the server  *)
(* keeps no list of them, so the variable tokens stands for the tokens in  *)
(* clients' hands that have not expired.                                   *)
(***************************************************************************)
EXTENDS Naturals

CONSTANTS
    UserIds,    \* the values gen_random_uuid() can return
    Emails,     \* addresses as clients write them
    Fold,       \* Fold[e]: the address as CITEXT compares it
    Passwords,
    Requests,   \* the goroutines serving clients
    Absent,     \* no row, NULL, no request
    Faults      \* what may fail: "postgres", "crash"

ASSUME AccountsAssumption ==
    /\ DOMAIN Fold = Emails
    /\ Faults \subseteq {"postgres", "crash"}

VARIABLES
    users,      \* users[i]: the row with id i, or Absent
    tokens,     \* the unexpired tokens issued so far
    api         \* api[r]: where request r stands and what it holds

vars == <<users, tokens, api>>

\* "Email and PasswordHash are nil for guest users (they only get set on
\* upgrade)" (internal/users/model.go).
Guest == [email |-> Absent, password_hash |-> Absent, is_guest |-> TRUE]

\* A password hash is known by the password it verifies.
Account == [email : Emails, password_hash : Passwords, is_guest : {FALSE}]

User == Account \cup {Guest}

Claims == [sub : UserIds, is_guest : BOOLEAN]

Credentials == [sub : UserIds, email : Emails, password : Passwords]

ASSUME AbsentIsNil == Absent \notin User \cup Emails \cup Passwords \cup Credentials

\* The answers, by status: 200 or 201, 400, 401, 403, 409, 500.
Replies == {"none", "ok", "refused", "unauthorized", "already_upgraded",
            "email_taken", "failed"}

\* An upgrade between its read and its write, or Absent; and the last answer.
Request == [upgrade : Credentials \cup {Absent}, reply : Replies]

TypeOK ==
    /\ users \in [UserIds -> User \cup {Absent}]
    /\ tokens \subseteq Claims
    /\ api \in [Requests -> Request]

Init ==
    /\ users = [i \in UserIds |-> Absent]
    /\ tokens = {}
    /\ api = [r \in Requests |-> [upgrade |-> Absent, reply |-> "none"]]

-----------------------------------------------------------------------------

Idle(r) == api[r].upgrade = Absent

Answer(r, reply) == api' = [api EXCEPT ![r] = [upgrade |-> Absent, reply |-> reply]]

AnswerOnly(r, reply) == Answer(r, reply) /\ UNCHANGED <<users, tokens>>

\* Create: one INSERT, whose acknowledgement may be lost.  The answer carries
\* the guest's token.  Bound: while UserIds has an unused id.
CreateGuest(r) ==
    /\ Idle(r)
    /\ \E i \in UserIds :
        /\ users[i] = Absent
        /\ users' = [users EXCEPT ![i] = Guest]
        /\ \/ /\ Answer(r, "ok")
              /\ tokens' = tokens \cup {[sub |-> i, is_guest |-> TRUE]}
           \/ /\ "postgres" \in Faults
              /\ Answer(r, "failed")
              /\ UNCHANGED tokens

\* middleware.Auth finds no token, or one it cannot verify.
Unauthorized(r) == Idle(r) /\ AnswerOnly(r, "unauthorized")

\* The body does not decode, or fails validation.
InvalidBody(r) == Idle(r) /\ tokens # {} /\ AnswerOnly(r, "refused")

\* Mutation: whoever has a token may upgrade.
UpgradeAnyone(r, c) ==
    /\ Idle(r)
    /\ \E t \in tokens : t.sub = c.sub
    /\ api' = [api EXCEPT ![r] = [upgrade |-> c, reply |-> "none"]]
    /\ UNCHANGED <<users, tokens>>

\* Upgrade up to its write: the token's user is read and must be a guest.  The
\* token's own is_guest is not looked at.  No row is ErrNotFound, a 500.
BeginUpgrade(r, c) ==
    /\ Idle(r)
    /\ \E t \in tokens : t.sub = c.sub
    /\ IF users[c.sub] # Absent /\ users[c.sub].is_guest
         THEN /\ api' = [api EXCEPT ![r] = [upgrade |-> c, reply |-> "none"]]
              /\ UNCHANGED <<users, tokens>>
         ELSE AnswerOnly(r, IF users[c.sub] = Absent THEN "failed" ELSE "already_upgraded")

\* Mutation: the UNIQUE constraint is on TEXT.
TakenAsWritten(i, e) == \E j \in UserIds \ {i} : users[j] # Absent /\ users[j].email = e

\* users.email is UNIQUE, and CITEXT.
Taken(i, e) ==
    \E j \in UserIds \ {i} :
        /\ users[j] # Absent
        /\ users[j].email # Absent
        /\ Fold[users[j].email] = Fold[e]

\* Mutation: COALESCE(password_hash, $3).
KeepPassword(c) ==
    users' = [users EXCEPT ![c.sub] =
        [email |-> c.email, is_guest |-> FALSE,
         password_hash |-> IF @.password_hash = Absent THEN c.password
                                                       ELSE @.password_hash]]

\* Mutation: the UPDATE leaves is_guest out.
KeepGuestFlag(c) ==
    users' = [users EXCEPT ![c.sub].email = c.email,
                           ![c.sub].password_hash = c.password]

\* Update: by id alone, whatever the row has become since it was read.
SetAccount(c) ==
    users' = [users EXCEPT ![c.sub] =
        [email |-> c.email, password_hash |-> c.password, is_guest |-> FALSE]]

Upgrade(r) ==
    /\ ~Idle(r)
    /\ LET c == api[r].upgrade IN
        /\ ~Taken(c.sub, c.email)
        /\ SetAccount(c)
        /\ \/ /\ Answer(r, "ok")
              /\ tokens' = tokens \cup {[sub |-> c.sub, is_guest |-> FALSE]}
           \/ /\ "postgres" \in Faults
              /\ Answer(r, "failed")
              /\ UNCHANGED tokens

\* Mutation: the token is issued before the error is looked at.
IssueAnyway(r) ==
    /\ ~Idle(r)
    /\ Taken(api[r].upgrade.sub, api[r].upgrade.email)
    /\ Answer(r, "email_taken")
    /\ tokens' = tokens \cup {[sub |-> api[r].upgrade.sub, is_guest |-> FALSE]}
    /\ UNCHANGED users

EmailTaken(r) ==
    /\ ~Idle(r)
    /\ Taken(api[r].upgrade.sub, api[r].upgrade.email)
    /\ AnswerOnly(r, "email_taken")

\* A statement fails, or the client's departure cancels it, without effect.
StatementFails(r) == "postgres" \in Faults /\ AnswerOnly(r, "failed")

\* A token's lifetime is up: Verify rejects it from here on.
ExpireToken(t) ==
    /\ tokens' = tokens \ {t}
    /\ UNCHANGED <<users, api>>

\* The process dies; Postgres and the clients' tokens stay.
Crash ==
    /\ "crash" \in Faults
    /\ api' = [r \in Requests |-> [upgrade |-> Absent, reply |-> "none"]]
    /\ UNCHANGED <<users, tokens>>

Next ==
    \/ \E r \in Requests :
        \/ CreateGuest(r)
        \/ Unauthorized(r)
        \/ InvalidBody(r)
        \/ \E c \in Credentials : BeginUpgrade(r, c)
        \/ Upgrade(r)
        \/ EmailTaken(r)
        \/ StatementFails(r)
    \/ \E t \in tokens : ExpireToken(t)
    \/ Crash

Spec == Init /\ [][Next]_vars

-----------------------------------------------------------------------------
(* Properties *)

IsAccount(u) == u # Absent /\ ~u.is_guest

\* An address names one account however it is capitalised, whichever of two
\* guests that upgrade with it at the same time is first.  (rows: users.)
EmailsUniqueIn(rows) ==
    \A i, j \in UserIds :
        /\ rows[i] # Absent /\ rows[i].email # Absent
        /\ rows[j] # Absent /\ rows[j].email # Absent
        /\ Fold[rows[i].email] = Fold[rows[j].email]
        => i = j

EmailNamesOneUser == EmailsUniqueIn(users)

\* A token outlives the state it was issued in.  It always names a user; an
\* account's token names an account, so no upgrade that was refused, failed or
\* overtaken gives one out, and an account never becomes a guest again.
TokensHold ==
    \A t \in tokens :
        /\ users[t.sub] # Absent
        /\ ~t.is_guest => IsAccount(users[t.sub])

\* The upgrades of user i that have passed the check.
Upgrading(i) == {r \in Requests : ~Idle(r) /\ api[r].upgrade.sub = i}

\* An account that no upgrade is at work on.
Settled(i) == IsAccount(users[i]) /\ Upgrading(i) = {}

\* Such an account's address and password are final: a guest token issued before
\* the upgrade still verifies, but no longer upgrades.
SettledForGood == [][
    \A i \in UserIds : Settled(i) => Settled(i)' /\ users'[i] = users[i]
    ]_vars

\* A user's columns change together, to what one upgrade that holds the user's
\* token has sent: overlapping upgrades never mix one's address with another's
\* password.
CredentialsTogether == [][
    \A i \in UserIds : users[i] # Absent /\ users'[i] # users[i]
        => \E r \in Upgrading(i) :
                /\ Idle(r)'
                /\ users'[i].email = api[r].upgrade.email
                /\ users'[i].password_hash = api[r].upgrade.password
    ]_vars
=============================================================================
