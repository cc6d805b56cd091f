---------------------------- MODULE AccountsProofs ----------------------------
(***************************************************************************)
(* Proofs about Accounts, for any number of users, addresses, passwords    *)
(* and requests, and any folding of addresses.                             *)
(***************************************************************************)
EXTENDS Accounts, TLAPS

-----------------------------------------------------------------------------
(* Why it holds: the inductive invariant *)

\* An upgrade past the check names a user that has a row.
UpgradesHold ==
    \A r \in Requests : ~Idle(r) => users[api[r].upgrade.sub] # Absent

Inv ==
    /\ TypeOK
    /\ EmailNamesOneUser
    /\ TokensHold
    /\ UpgradesHold

-----------------------------------------------------------------------------

\* An answer that changes neither the table nor the tokens keeps the invariant.
LEMMA AnswerOnlyInv ==
    ASSUME Inv, NEW r \in Requests, NEW reply \in Replies, AnswerOnly(r, reply)
    PROVE  Inv'
<1>1. Absent \notin Credentials
  BY AbsentIsNil
<1>2. api' \in [Requests -> Request]
  BY DEF AnswerOnly, Answer, Inv, TypeOK, Request
<1>3. UpgradesHold'
  BY <1>1 DEF AnswerOnly, Answer, Inv, TypeOK, Request, UpgradesHold, Idle
<1> QED
  BY <1>2, <1>3 DEF AnswerOnly, Inv, TypeOK, EmailNamesOneUser, TokensHold, IsAccount

\* A new guest shares no address.
LEMMA CreateGuestInv ==
    ASSUME Inv, NEW r \in Requests, CreateGuest(r)
    PROVE  Inv'
<1>1. PICK i \in UserIds :
        /\ users[i] = Absent
        /\ users' = [users EXCEPT ![i] = Guest]
        /\ \/ Answer(r, "ok") /\ tokens' = tokens \cup {[sub |-> i, is_guest |-> TRUE]}
           \/ Answer(r, "failed") /\ UNCHANGED tokens
  BY DEF CreateGuest
<1>2. Absent # Guest
  BY AbsentIsNil DEF User
<1>3. TypeOK'
  <2>1. users' \in [UserIds -> User \cup {Absent}]
    <3>1. Guest \in User /\ users \in [UserIds -> User \cup {Absent}]
      BY DEF Inv, TypeOK, User
    <3> QED
      BY <1>1, <3>1
  <2>2. tokens' \subseteq Claims
    <3>1. [sub |-> i, is_guest |-> TRUE] \in Claims /\ tokens \subseteq Claims
      BY DEF Inv, TypeOK, Claims
    <3> QED
      BY <1>1, <3>1
  <2>3. api' \in [Requests -> Request]
    BY <1>1 DEF Answer, Inv, TypeOK, Request, Replies
  <2> QED
    BY <2>1, <2>2, <2>3 DEF TypeOK
<1>4. \A j \in UserIds : j # i => users'[j] = users[j]
  BY <1>1 DEF Inv, TypeOK
<1>5. users'[i] = Guest
  BY <1>1 DEF Inv, TypeOK
<1>6. EmailNamesOneUser'
  BY <1>4, <1>5 DEF Inv, EmailNamesOneUser, EmailsUniqueIn, Guest
<1>7. TokensHold'
  BY <1>1, <1>2, <1>4, <1>5 DEF Inv, TypeOK, TokensHold, IsAccount, Claims
<1>8. UpgradesHold'
  <2> SUFFICES ASSUME NEW q \in Requests, ~Idle(q)'
               PROVE  users'[api'[q].upgrade.sub] # Absent
    BY DEF UpgradesHold
  <2>1. q # r /\ api'[q] = api[q]
    BY <1>1 DEF Answer, Idle, Inv, TypeOK
  <2>2. ~Idle(q)
    BY <2>1 DEF Idle
  <2>3. api[q].upgrade.sub \in UserIds
    BY <2>2 DEF Inv, TypeOK, Request, Idle, Credentials
  <2> QED
    BY <2>1, <2>2, <2>3, <1>2, <1>4, <1>5 DEF Inv, UpgradesHold
<1> QED
  BY <1>3, <1>6, <1>7, <1>8 DEF Inv

\* An upgrade that begins does so for a user that has a row.
LEMMA BeginUpgradeInv ==
    ASSUME Inv, NEW r \in Requests, NEW c \in Credentials, BeginUpgrade(r, c)
    PROVE  Inv'
<1>1. CASE users[c.sub] # Absent /\ users[c.sub].is_guest
  <2>1. api' = [api EXCEPT ![r] = [upgrade |-> c, reply |-> "none"]] /\ UNCHANGED <<users, tokens>>
    BY <1>1 DEF BeginUpgrade
  <2>2. api' \in [Requests -> Request]
    BY <2>1 DEF Inv, TypeOK, Request, Replies
  <2>3. UpgradesHold'
    BY <1>1, <2>1 DEF Inv, TypeOK, UpgradesHold, Idle
  <2> QED
    BY <2>1, <2>2, <2>3 DEF Inv, TypeOK, EmailNamesOneUser, TokensHold, IsAccount
<1>2. CASE ~(users[c.sub] # Absent /\ users[c.sub].is_guest)
  <2>1. PICK reply \in {"failed", "already_upgraded"} : AnswerOnly(r, reply)
    BY <1>2 DEF BeginUpgrade
  <2> QED
    BY <2>1, AnswerOnlyInv DEF Replies
<1> QED
  BY <1>1, <1>2

\* What an upgrade under way holds.
LEMMA UpgradeHolds ==
    ASSUME Inv, NEW r \in Requests, ~Idle(r)
    PROVE  /\ api[r].upgrade \in Credentials
           /\ api[r].upgrade.sub \in UserIds
           /\ users[api[r].upgrade.sub] # Absent
BY DEF Inv, TypeOK, Request, Idle, Credentials, UpgradesHold

\* The write of an upgrade gives its user an address no other row has.
LEMMA UpgradeInv ==
    ASSUME Inv, NEW r \in Requests, Upgrade(r)
    PROVE  Inv'
<1> DEFINE c == api[r].upgrade
           new == [email |-> c.email, password_hash |-> c.password, is_guest |-> FALSE]
<1>1. /\ ~Idle(r) /\ ~Taken(c.sub, c.email) /\ users' = [users EXCEPT ![c.sub] = new]
      /\ \/ Answer(r, "ok") /\ tokens' = tokens \cup {[sub |-> c.sub, is_guest |-> FALSE]}
         \/ Answer(r, "failed") /\ UNCHANGED tokens
  BY DEF Upgrade, SetAccount
<1>2. c \in Credentials /\ c.sub \in UserIds /\ users[c.sub] # Absent
  BY <1>1, UpgradeHolds
<1>3. new \in User /\ new # Absent
  <2>1. new \in Account
    BY <1>2 DEF Account, Credentials
  <2> QED
    BY <2>1, AbsentIsNil DEF User
<1>4. TypeOK'
  <2>1. users' \in [UserIds -> User \cup {Absent}]
    <3>1. users \in [UserIds -> User \cup {Absent}]
      BY DEF Inv, TypeOK
    <3> HIDE DEF new, c
    <3> QED
      BY <1>1, <1>3, <3>1
  <2>2. tokens' \subseteq Claims
    <3>1. [sub |-> c.sub, is_guest |-> FALSE] \in Claims /\ tokens \subseteq Claims
      BY <1>2 DEF Inv, TypeOK, Claims
    <3> QED
      BY <1>1, <3>1
  <2>3. api' \in [Requests -> Request]
    BY <1>1 DEF Answer, Inv, TypeOK, Request, Replies
  <2> QED
    BY <2>1, <2>2, <2>3 DEF TypeOK
<1>5. \A j \in UserIds : users'[j] = IF j = c.sub THEN new ELSE users[j]
  BY <1>1, <1>2 DEF Inv, TypeOK
<1>6. EmailNamesOneUser'
  <2>1. new.email = c.email
    OBVIOUS
  <2>2. \A j \in UserIds \ {c.sub} :
          users[j] # Absent /\ users[j].email # Absent => Fold[users[j].email] # Fold[c.email]
    BY <1>1 DEF Taken
  <2> SUFFICES EmailsUniqueIn(users')
    BY DEF EmailNamesOneUser, EmailsUniqueIn
  <2> HIDE DEF new, c
  <2> QED
    BY <1>5, <2>1, <2>2 DEF Inv, EmailNamesOneUser, EmailsUniqueIn
<1>7. TokensHold'
  <2> SUFFICES ASSUME NEW t \in tokens'
               PROVE  users'[t.sub] # Absent /\ (~t.is_guest => IsAccount(users'[t.sub]))
    BY DEF TokensHold, IsAccount
  <2>1. CASE t \in tokens
    <3>1. t.sub \in UserIds
      BY <2>1 DEF Inv, TypeOK, Claims
    <3> QED
      BY <2>1, <3>1, <1>3, <1>5 DEF Inv, TokensHold, IsAccount
  <2>2. CASE t = [sub |-> c.sub, is_guest |-> FALSE]
    BY <2>2, <1>2, <1>3, <1>5 DEF IsAccount
  <2> QED
    BY <2>1, <2>2, <1>1
<1>8. UpgradesHold'
  <2> SUFFICES ASSUME NEW q \in Requests, ~Idle(q)'
               PROVE  users'[api'[q].upgrade.sub] # Absent
    BY DEF UpgradesHold
  <2>1. q # r /\ api'[q] = api[q]
    BY <1>1 DEF Answer, Idle, Inv, TypeOK
  <2>2. ~Idle(q)
    BY <2>1 DEF Idle
  <2>3. api[q].upgrade.sub \in UserIds /\ users[api[q].upgrade.sub] # Absent
    BY <2>2, UpgradeHolds
  <2> QED
    BY <2>1, <2>3, <1>3, <1>5
<1> QED
  BY <1>4, <1>6, <1>7, <1>8 DEF Inv

\* Every step of Accounts keeps the invariant.
LEMMA StepInv ==
    ASSUME Inv, [Next]_vars
    PROVE  Inv'
<1>1. ASSUME NEW r \in Requests,
             \/ Unauthorized(r) \/ InvalidBody(r) \/ EmailTaken(r) \/ StatementFails(r)
      PROVE  Inv'
  <2>1. PICK reply \in Replies : AnswerOnly(r, reply)
    BY <1>1 DEF Unauthorized, InvalidBody, EmailTaken, StatementFails, Replies
  <2> QED
    BY <2>1, AnswerOnlyInv
<1>2. ASSUME NEW t \in tokens, ExpireToken(t)
      PROVE  Inv'
  BY <1>2 DEF ExpireToken, Inv, TypeOK, EmailNamesOneUser, TokensHold, IsAccount, UpgradesHold, Idle
<1>3. CASE Crash
  BY <1>3 DEF Crash, Inv, TypeOK, Request, Replies, EmailNamesOneUser, TokensHold, IsAccount,
     UpgradesHold, Idle
<1>4. CASE UNCHANGED vars
  BY <1>4 DEF vars, Inv, TypeOK, EmailNamesOneUser, TokensHold, IsAccount, UpgradesHold, Idle
<1> QED
  BY <1>1, <1>2, <1>3, <1>4, CreateGuestInv, BeginUpgradeInv, UpgradeInv DEF Next

\* The inductive invariant of Accounts (auth/service.go, users/repository.go).
THEOREM AccountsInvariance == Spec => []Inv
<1>1. Init => Inv
  BY DEF Init, Inv, TypeOK, Request, Replies, EmailNamesOneUser, EmailsUniqueIn, TokensHold,
     UpgradesHold, Idle
<1> QED
  BY <1>1, StepInv, PTL DEF Spec

\* An address names one account, whatever upgrades overlap.
THEOREM EmailUniqueness == Spec => []EmailNamesOneUser
<1>1. Inv => EmailNamesOneUser
  BY DEF Inv
<1> QED
  BY <1>1, AccountsInvariance, PTL

\* What a token says of its user holds for as long as the token does.
THEOREM TokenTruth == Spec => []TokensHold
<1>1. Inv => TokensHold
  BY DEF Inv
<1> QED
  BY <1>1, AccountsInvariance, PTL

\* A row that has been read changes only by an upgrade past its check.
LEMMA RowChange ==
    ASSUME Inv, [Next]_vars, NEW i \in UserIds, users[i] # Absent, users'[i] # users[i]
    PROVE  \E r \in Requests :
              /\ Upgrade(r)
              /\ api[r].upgrade.sub = i
              /\ users'[i] = [email |-> api[r].upgrade.email,
                              password_hash |-> api[r].upgrade.password,
                              is_guest |-> FALSE]
<1>1. ASSUME NEW r \in Requests, CreateGuest(r)
      PROVE  FALSE
  BY <1>1 DEF CreateGuest, Inv, TypeOK
<1>2. ASSUME NEW r \in Requests,
             \/ Unauthorized(r) \/ InvalidBody(r) \/ EmailTaken(r) \/ StatementFails(r)
             \/ \E c \in Credentials : BeginUpgrade(r, c)
      PROVE  FALSE
  BY <1>2 DEF Unauthorized, InvalidBody, EmailTaken, StatementFails, BeginUpgrade, AnswerOnly
<1>3. PICK r \in Requests : Upgrade(r)
  BY <1>1, <1>2 DEF Next, ExpireToken, Crash, vars
<1>4. api[r].upgrade.sub \in UserIds
  BY <1>3, UpgradeHolds DEF Upgrade
<1> QED
  BY <1>3, <1>4 DEF Upgrade, SetAccount, Inv, TypeOK

\* A row changes as a whole, to what one upgrade has sent.
THEOREM OneUpgradesCredentials == Spec => CredentialsTogether
<1> DEFINE Together ==
      \A i \in UserIds : users[i] # Absent /\ users'[i] # users[i]
        => \E r \in Upgrading(i) :
                /\ Idle(r)'
                /\ users'[i].email = api[r].upgrade.email
                /\ users'[i].password_hash = api[r].upgrade.password
<1>1. Inv /\ [Next]_vars => [Together]_vars
  <2> SUFFICES ASSUME Inv, [Next]_vars, NEW i \in UserIds,
                      users[i] # Absent, users'[i] # users[i]
               PROVE  \E r \in Upgrading(i) :
                        /\ Idle(r)'
                        /\ users'[i].email = api[r].upgrade.email
                        /\ users'[i].password_hash = api[r].upgrade.password
    OBVIOUS
  <2>1. PICK r \in Requests :
              /\ Upgrade(r)
              /\ api[r].upgrade.sub = i
              /\ users'[i] = [email |-> api[r].upgrade.email,
                              password_hash |-> api[r].upgrade.password,
                              is_guest |-> FALSE]
    BY RowChange
  <2>2. r \in Upgrading(i)
    BY <2>1 DEF Upgrading, Upgrade
  <2>3. Idle(r)'
    BY <2>1 DEF Upgrade, Answer, Idle, Inv, TypeOK
  <2> QED
    BY <2>1, <2>2, <2>3
<1> QED
  BY <1>1, AccountsInvariance, PTL DEF Spec, CredentialsTogether

\* An account no upgrade is at work on never changes again.
THEOREM SettledAccounts == Spec => SettledForGood
<1> DEFINE ForGood == \A i \in UserIds : Settled(i) => Settled(i)' /\ users'[i] = users[i]
<1>1. Inv /\ [Next]_vars => [ForGood]_vars
  <2> SUFFICES ASSUME Inv, [Next]_vars, NEW i \in UserIds, Settled(i)
               PROVE  Settled(i)' /\ users'[i] = users[i]
    OBVIOUS
  <2>1. users'[i] = users[i]
    BY RowChange DEF Settled, IsAccount, Upgrading, Upgrade
  <2>2. \A r \in Requests : ~Idle(r) => api[r].upgrade.sub # i
    BY DEF Settled, Upgrading
  <2>3. ASSUME NEW q \in Requests, ~Idle(q)', api'[q].upgrade.sub = i
        PROVE  FALSE
    <3>1. api'[q] # api[q]
      BY <2>2, <2>3 DEF Idle
    <3>2. ASSUME NEW r \in Requests,
                 CreateGuest(r) \/ Unauthorized(r) \/ InvalidBody(r) \/ Upgrade(r)
                 \/ EmailTaken(r) \/ StatementFails(r)
          PROVE  FALSE
      <4>1. \E reply \in Replies : Answer(r, reply)
        BY <3>2 DEF CreateGuest, Unauthorized, InvalidBody, Upgrade, EmailTaken,
           StatementFails, AnswerOnly, Replies
      <4> QED
        BY <2>3, <3>1, <4>1 DEF Answer, Idle, Inv, TypeOK
    <3>3. ASSUME NEW r \in Requests, NEW c \in Credentials, BeginUpgrade(r, c)
          PROVE  FALSE
      <4>1. r = q
        BY <3>1, <3>3 DEF BeginUpgrade, AnswerOnly, Answer, Inv, TypeOK
      <4>2. api' = [api EXCEPT ![r] = [upgrade |-> c, reply |-> "none"]] /\ users[c.sub].is_guest
        BY <2>3, <3>3, <4>1 DEF BeginUpgrade, AnswerOnly, Answer, Idle, Inv, TypeOK
      <4>3. c.sub = i
        BY <2>3, <4>1, <4>2 DEF Inv, TypeOK
      <4> QED
        BY <4>2, <4>3 DEF Settled, IsAccount
    <3>4. ~Crash
      BY <2>3 DEF Crash, Idle
    <3>5. ~(\E t \in tokens : ExpireToken(t)) /\ ~UNCHANGED vars
      BY <3>1 DEF ExpireToken, vars
    <3> QED
      BY <3>2, <3>3, <3>4, <3>5 DEF Next
  <2>4. Upgrading(i)' = {}
    BY <2>3 DEF Upgrading
  <2> QED
    BY <2>1, <2>4 DEF Settled
<1> QED
  BY <1>1, AccountsInvariance, PTL DEF Spec, SettledForGood

\* Rows, tokens and requests keep their shape, hash and address both or neither.
THEOREM AccountTypes == Spec => []TypeOK
<1>1. Inv => TypeOK
  BY DEF Inv
<1> QED
  BY <1>1, AccountsInvariance, PTL
=============================================================================
