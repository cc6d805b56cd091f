--------------------------- MODULE CodesListProofs ---------------------------
(***************************************************************************)
(* Proofs about CodesList, for any number of codes, requests under way and *)
(* guests.                                                                 *)
(***************************************************************************)
EXTENDS CodesList, FiniteSetTheorems, FunctionTheorems, TLAPS

-----------------------------------------------------------------------------
(* Why it holds: the inductive invariant *)

\* A page of codes that were made.
Made(p) == Listed(p) \cup {p.cursor} \subseteq 1..minted \cup {Absent}

\* What a call is about exists, and a screen that edits or deletes its code shows it.
CallHolds(c) ==
    /\ (c.op = "none") = (c = NoCall) /\ (c.op = "none") = (c.pc = "idle")
    /\ c.pc \in {"sent", "written"} => c.by \in Guests
    /\ c.pc = "written" => c.op = "edit"
    /\ c.op \in {"list", "create"} => c.id = Absent
    /\ c.op = "more" => c.before \in Page /\ Made(c.before) /\ c.id = c.before.cursor
    /\ c.op = "edit" => c.before \in Contents
    /\ c.op \in {"create", "edit"} /\ c.pc = "sent" => c.content \in Contents
    /\ c.op = "get" => details[c.id] = [state |-> "loading", content |-> Absent]
    /\ c.op \in {"edit", "delete"} => details[c.id].content # Absent
    /\ c.op \in {"more", "edit", "get", "delete"} => c.id \in 1..minted
    /\ c.pc = "answered" =>
          CASE c.op \in {"list", "more"} -> c.answer \in Page /\ Made(c.answer)
            [] c.op = "create"           -> c.answer \in Item /\ c.answer.id <= minted
            [] c.op \in {"edit", "get"}  -> c.answer \in Item /\ c.answer.id = c.id
            [] OTHER                     -> server[c.id] = Absent

\* Every code a screen, the list or a call tells of was made; creates stay within the
\* bound; loadMore's flag is its call's.
StateHolds ==
    /\ \A k \in Calls : CallHolds(calls[k])
    /\ minted + Cardinality({j \in Under("create") : calls[j].pc = "sent"}) <= MaxCodes
    /\ list.page # Absent => Made(list.page)
    /\ list.state \in {"unread", "data"} => (list.page # Absent) = (list.state = "data")
    /\ \A i \in Ids : details[i].state # "unread" => i <= minted
    /\ \A i \in Ids : details[i].state = "unread" => details[i].content = Absent
    /\ \A j, k \in Under("more") : j = k
    /\ \A j, k \in Under("get") : calls[j].id = calls[k].id => j = k
    /\ loadingMore = (Under("more") # {})

\* Calls that cross know it.
CrossingsHold ==
    \A j, k \in Calls : j # k /\ Crosses(calls[j], calls[k]) => calls[j].crossed /\ calls[k].crossed

\* What the server has of a code that was made: this, or nothing any more.
Has(i, content) == server[i] \in {content, Absent}

\* What an edit read before, and the row it is answered with, are what the server has,
\* unless another edit of the code crossed it.
EditHolds(c) ==
    /\ c.pc = "written" => owners[c.id] = c.by
    /\ c.pc = "answered" /\ (c.crossed => c.id \notin blurred) => Has(c.id, c.answer.content)
    /\ c.pc \in {"sent", "lost"} /\ c.id \notin blurred => Has(c.id, c.before)

\* So is the row a get is answered with.
EditsHold ==
    /\ \A j, k \in Under("edit") : j # k /\ calls[j].id = calls[k].id => calls[j].id \in blurred
    /\ \A k \in Under("edit") : EditHolds(calls[k])
    /\ \A k \in Calls : At(k, "get", "answered") => Has(calls[k].id, calls[k].answer.content)

\* The codes made, changed and deleted that the list is yet to be told of.
Coming == {calls[k].answer.id : k \in {j \in Calls : At(j, "create", "answered")}}
Changing == {calls[k].id : k \in {j \in Under("edit") : calls[j].pc \in {"written", "answered"}}}
Going == {calls[k].id : k \in {j \in Calls : At(j, "delete", "answered")}}

Within(i, cursor) == cursor # Absent => i >= cursor

\* Faithful, but for what it is yet to be told of.
Current(p) ==
    /\ \A m, n \in DOMAIN p.codes : m < n => p.codes[m].id > p.codes[n].id
    /\ \A i \in Listed(p) : Within(i, p.cursor) /\ i \in (Live(guest) \cup Going) \ Coming
    /\ \A i \in Live(guest) \ Coming : Within(i, p.cursor) => i \in Listed(p)
    /\ \A n \in DOMAIN p.codes :
          p.codes[n].id \in Live(guest) \ Changing => p.codes[n].content = server[p.codes[n].id]

\* The codes after p's cursor, down to q's.
Follows(p, q) ==
    /\ \A m, n \in DOMAIN q.codes : m < n => q.codes[m].id > q.codes[n].id
    /\ Listed(q) = {i \in Live(guest) : i < p.cursor /\ Within(i, q.cursor)}
    /\ Within(p.cursor, q.cursor)
    /\ \A n \in DOMAIN q.codes : q.codes[n].content = server[q.codes[n].id]

\* A reload that crossed nothing, since it was sent by this guest, tells the truth.
ReloadsHold ==
    \A k \in Under("list") : ~calls[k].crossed =>
        /\ calls[k].pc = "sent" => calls[k].by = guest
        /\ calls[k].pc = "answered" => Faithful(calls[k].answer)

\* A write or a loadMore that crossed none, and is this guest's.
Apart(c) == ~c.crossed /\ (c.pc \in {"sent", "written"} => c.by = guest)

\* The newest code, on no screen yet.
Newest(item) ==
    /\ item.id = minted /\ item.id \in Live(guest) /\ item.content = server[item.id]
    /\ details[item.id].state = "unread"

\* As long as the list is not adrift, it is current; the writes and loadMores under way are
\* apart, a code just made is the newest, and a loadMore adds what follows the list it read.
ListHolds ==
    ~adrift =>
        /\ list.page # Absent => Current(list.page)
        /\ \A k \in Calls : calls[k].op \in Writes \cup {"more"} => Apart(calls[k])
        /\ \A k \in Calls : At(k, "create", "answered") => Newest(calls[k].answer)
        /\ \A k \in Under("more") :
              /\ list.page = calls[k].before
              /\ calls[k].pc = "answered" => Follows(list.page, calls[k].answer)

Inv ==
    /\ TypeOK /\ StateHolds /\ NothingHangs
    /\ CrossingsHold /\ EditsHold /\ DetailsAgree
    /\ ReloadsHold /\ ListHolds

-----------------------------------------------------------------------------
(* Sets of numbers in order, and the sequences made from them *)

\* A finite set of numbers has an order: the members' ranks run from 1 without a gap.
LEMMA OrderExists ==
    ASSUME NEW S \in SUBSET Nat, IsFiniteSet(S)
    PROVE  \E t \in [1..Cardinality(S) -> S] : \A m, n \in DOMAIN t : m < n => t[m] < t[n]
<1> DEFINE UpTo(x) == {y \in S : y <= x}
           rank == [x \in S |-> Cardinality(UpTo(x))]
           c == Cardinality(S)
<1>1. c \in Nat
  BY FS_CardinalityType
<1>2. \A x \in S : IsFiniteSet(UpTo(x)) /\ Cardinality(UpTo(x)) \in Nat
                   /\ Cardinality(UpTo(x)) <= c /\ Cardinality(UpTo(x)) >= 1
  <2> SUFFICES ASSUME NEW x \in S
               PROVE  IsFiniteSet(UpTo(x)) /\ Cardinality(UpTo(x)) \in Nat
                      /\ Cardinality(UpTo(x)) <= c /\ Cardinality(UpTo(x)) >= 1
    OBVIOUS
  <2>1. PICK low : low = UpTo(x)
    OBVIOUS
  <2>2. low \in SUBSET S /\ x \in low
    BY <2>1
  <2>3. IsFiniteSet(low) /\ Cardinality(low) <= c /\ Cardinality(low) \in Nat
    BY <2>2, FS_Subset, FS_CardinalityType
  <2>4. Cardinality(low) # 0
    BY <2>2, <2>3, FS_EmptySet
  <2> QED
    BY <2>1, <2>3, <2>4
<1>3. \A x, y \in S : x < y => rank[x] < rank[y]
  <2> SUFFICES ASSUME NEW x \in S, NEW y \in S, x < y
               PROVE  rank[x] < rank[y]
    OBVIOUS
  <2>1. PICK low, high : low = UpTo(x) /\ high = UpTo(y)
    OBVIOUS
  <2>2. low \in SUBSET high /\ y \in high /\ y \notin low
    <3>1. \A z \in S : z \in Nat
      OBVIOUS
    <3>2. low = {z \in S : z <= x} /\ high = {z \in S : z <= y}
      BY <2>1
    <3>3. \A z \in S : z <= x => z <= y
      BY <3>1
    <3>4. y <= y /\ ~(y <= x)
      BY <3>1
    <3> QED
      BY <3>2, <3>3, <3>4
  <2>3. Cardinality(low) <= Cardinality(high) /\ Cardinality(low) # Cardinality(high)
    BY <1>2, <2>1, <2>2, FS_Subset
  <2>4. rank[x] = Cardinality(low) /\ rank[y] = Cardinality(high)
    BY <2>1
  <2> HIDE DEF UpTo, rank
  <2> QED
    BY <1>2, <2>1, <2>3, <2>4
<1>4. \A x \in S : rank[x] \in 1..c
  <2> SUFFICES ASSUME NEW x \in S
               PROVE  rank[x] \in 1..c
    OBVIOUS
  <2>1. rank[x] = Cardinality(UpTo(x))
    OBVIOUS
  <2> HIDE DEF UpTo, rank, c
  <2> QED
    BY <1>1, <1>2, <2>1
<1>5. rank \in Injection(S, 1..c)
  <2>1. rank = [x \in S |-> rank[x]]
    OBVIOUS
  <2>2. \A x, y \in S : rank[x] = rank[y] => x = y
    <3> HIDE DEF rank
    <3> QED
      BY <1>1, <1>3, <1>4
  <2> HIDE DEF rank, c
  <2> QED
    BY <1>4, <2>1, <2>2 DEF Injection, IsInjective
<1>6. \A n \in 1..c : \E x \in S : rank[x] = n
  <2> HIDE DEF rank, c
  <2>1. IsFiniteSet(1..c) /\ Cardinality(1..c) = c
    BY <1>1, FS_Interval
  <2>2. rank \in Surjection(S, 1..c)
    BY <1>5, <2>1, FS_Injection DEF c
  <2> QED
    BY <2>2 DEF Surjection
<1> DEFINE t == [n \in 1..c |-> CHOOSE x \in S : rank[x] = n]
<1>7. \A n \in 1..c : t[n] \in S /\ rank[t[n]] = n
  <2> HIDE DEF rank, c
  <2> QED
    BY <1>6
<1>8. \A m, n \in 1..c : m < n => t[m] < t[n]
  <2> SUFFICES ASSUME NEW m \in 1..c, NEW n \in 1..c, m < n, ~(t[m] < t[n])
               PROVE  FALSE
    OBVIOUS
  <2> HIDE DEF rank, c, t
  <2>1. t[m] \in S /\ t[n] \in S /\ t[m] \in Nat /\ t[n] \in Nat
    BY <1>7
  <2>2. t[m] = t[n] \/ t[n] < t[m]
    BY <2>1
  <2>3. rank[t[m]] = m /\ rank[t[n]] = n
    BY <1>7
  <2> QED
    BY <1>1, <1>3, <2>1, <2>2, <2>3
<1>9. t \in [1..c -> S] /\ DOMAIN t = 1..c
  <2> HIDE DEF rank, c
  <2> QED
    BY <1>6
<1> HIDE DEF t, rank
<1> QED
  BY <1>8, <1>9

\* What InOrder is: its places are those of the set's members, in order.
LEMMA InOrderIs ==
    ASSUME NEW S \in SUBSET Nat, IsFiniteSet(S)
    PROVE  /\ Cardinality(S) \in Nat
           /\ InOrder(S) \in [1..Cardinality(S) -> S]
           /\ \A m, n \in 1..Cardinality(S) : m < n => InOrder(S)[m] < InOrder(S)[n]
           /\ \A x \in S : \E n \in 1..Cardinality(S) : InOrder(S)[n] = x
<1> DEFINE c == Cardinality(S)
<1>1. PICK t : t = InOrder(S)
  OBVIOUS
<1>2. t \in [1..c -> S] /\ \A m, n \in DOMAIN t : m < n => t[m] < t[n]
  BY <1>1, OrderExists DEF InOrder
<1>3. c \in Nat
  BY FS_CardinalityType
<1>4. t \in Injection(1..c, S)
  <2> HIDE DEF c
  <2>1. \A m, n \in 1..c : t[m] = t[n] => m = n
    <3> SUFFICES ASSUME NEW m \in 1..c, NEW n \in 1..c, t[m] = t[n], m # n
                 PROVE  FALSE
      OBVIOUS
    <3>1. m < n \/ n < m
      BY <1>3
    <3>2. t[m] \in Nat /\ t[m] = t[n]
      BY <1>2
    <3>3. t[m] < t[n] \/ t[n] < t[m]
      BY <1>2, <3>1
    <3> QED
      BY <3>2, <3>3
  <2> QED
    BY <1>2, <2>1 DEF Injection, IsInjective
<1>5. t \in Surjection(1..c, S)
  <2>1. IsFiniteSet(1..c) /\ Cardinality(1..c) = Cardinality(S)
    <3> HIDE DEF c
    <3>1. IsFiniteSet(1..c) /\ Cardinality(1..c) = c
      BY <1>3, FS_Interval
    <3> QED
      BY <3>1 DEF c
  <2> HIDE DEF c
  <2> QED
    BY <1>4, <2>1, FS_Injection
<1>6. \A x \in S : \E n \in 1..c : t[n] = x
  BY <1>5 DEF Surjection
<1> QED
  BY <1>1, <1>2, <1>3, <1>6

\* Taking the codes but i out of a list leaves them as they were, in the same order.
LEMMA WithoutIs ==
    ASSUME NEW codes \in Seq(Item), NEW i
    PROVE  /\ Without(codes, i) \in Seq(Item)
           /\ \A n \in DOMAIN Without(codes, i) :
                 \E m \in DOMAIN codes : Without(codes, i)[n] = codes[m] /\ codes[m].id # i
           /\ \A m \in DOMAIN codes : codes[m].id # i =>
                 \E n \in DOMAIN Without(codes, i) : Without(codes, i)[n] = codes[m]
           /\ (\A m, n \in DOMAIN codes : m < n => codes[m].id > codes[n].id) =>
                 \A m, n \in DOMAIN Without(codes, i) :
                     m < n => Without(codes, i)[m].id > Without(codes, i)[n].id
<1>1. PICK S : S = {n \in DOMAIN codes : codes[n].id # i}
  OBVIOUS
<1>2. Len(codes) \in Nat /\ DOMAIN codes = 1..Len(codes) /\ S \in SUBSET DOMAIN codes
  BY <1>1
<1>3. S \in SUBSET Nat /\ IsFiniteSet(S)
  <2>1. IsFiniteSet(1..Len(codes))
    BY <1>2, FS_Interval
  <2> QED
    BY <1>2, <2>1, FS_Subset
<1>4. PICK c, kept : c = Cardinality(S) /\ kept = InOrder(S)
  OBVIOUS
<1>5. /\ c \in Nat /\ kept \in [1..c -> S]
      /\ \A m, n \in 1..c : m < n => kept[m] < kept[n]
      /\ \A x \in S : \E n \in 1..c : kept[n] = x
  BY <1>3, <1>4, InOrderIs
<1>6. PICK u : u = Without(codes, i)
  OBVIOUS
<1>7. u = [n \in 1..c |-> codes[kept[n]]]
  BY <1>1, <1>4, <1>5, <1>6 DEF Without
<1>8. \A n \in 1..c : kept[n] \in S /\ kept[n] \in DOMAIN codes /\ codes[kept[n]] \in Item
                      /\ codes[kept[n]].id # i
  BY <1>1, <1>2, <1>5
<1>9. u \in Seq(Item) /\ DOMAIN u = 1..c
  <2>1. u \in [1..c -> Item]
    BY <1>7, <1>8
  <2> QED
    BY <1>5, <2>1
<1>10. \A n \in 1..c : u[n] = codes[kept[n]]
  BY <1>7
<1>11. \A m \in DOMAIN codes : codes[m].id # i => \E n \in 1..c : u[n] = codes[m]
  BY <1>1, <1>5, <1>10
<1>12. \A n \in DOMAIN u : \E m \in DOMAIN codes : u[n] = codes[m] /\ codes[m].id # i
  BY <1>8, <1>9, <1>10
<1>13. ASSUME \A m, n \in DOMAIN codes : m < n => codes[m].id > codes[n].id,
              NEW m \in 1..c, NEW n \in 1..c, m < n
       PROVE  u[m].id > u[n].id
  <2>1. kept[m] < kept[n] /\ kept[m] \in DOMAIN codes /\ kept[n] \in DOMAIN codes
    BY <1>5, <1>8, <1>13
  <2> QED
    BY <1>10, <1>13, <2>1
<1>14. (\A m, n \in DOMAIN codes : m < n => codes[m].id > codes[n].id) =>
          \A m, n \in DOMAIN u : m < n => u[m].id > u[n].id
  BY <1>9, <1>13
<1> QED
  BY <1>6, <1>9, <1>11, <1>12, <1>14

-----------------------------------------------------------------------------
(* The server's pages *)

\* A page: the newest codes before the cursor, down to its own.
LEMMA PageIs ==
    ASSUME TypeOK, NEW g \in Guests, NEW cursor \in Ids \cup {Absent}
    PROVE  /\ PageAfter(g, cursor) \in Page
           /\ \A m, n \in DOMAIN PageAfter(g, cursor).codes :
                 m < n => PageAfter(g, cursor).codes[m].id > PageAfter(g, cursor).codes[n].id
           /\ Listed(PageAfter(g, cursor)) =
                 {i \in Live(g) : /\ cursor # Absent => i < cursor
                                 /\ Within(i, PageAfter(g, cursor).cursor)}
           /\ PageAfter(g, cursor).cursor # Absent =>
                 /\ PageAfter(g, cursor).cursor \in Live(g)
                 /\ cursor # Absent => PageAfter(g, cursor).cursor < cursor
           /\ \A n \in DOMAIN PageAfter(g, cursor).codes :
                 PageAfter(g, cursor).codes[n].content = server[PageAfter(g, cursor).codes[n].id]
<1> DEFINE q == PageAfter(g, cursor)
<1>1. PICK S : S = {i \in Live(g) : IF cursor = Absent THEN TRUE ELSE i < cursor}
  OBVIOUS
<1>2. MaxCodes \in Nat /\ PageSize \in Nat \ {0} /\ Absent \notin Nat
  BY ListAssumption
<1>3. S \in SUBSET Ids /\ S \in SUBSET Nat /\ IsFiniteSet(S) /\ S \in SUBSET Live(g)
  <2>1. IsFiniteSet(Ids) /\ Ids \in SUBSET Nat
    <3>1. IsFiniteSet(1..MaxCodes)
      BY <1>2, FS_Interval
    <3> QED
      BY <1>2, <3>1 DEF Ids
  <2>2. S \in SUBSET Ids /\ S \in SUBSET Live(g)
    BY <1>1 DEF Live
  <2> QED
    BY <2>1, <2>2, FS_Subset
<1>4. PICK c, t : c = Cardinality(S) /\ t = InOrder(S)
  OBVIOUS
<1>5. /\ c \in Nat /\ t \in [1..c -> S]
      /\ \A m, n \in 1..c : m < n => t[m] < t[n]
      /\ \A x \in S : \E n \in 1..c : t[n] = x
  BY <1>3, <1>4, InOrderIs
<1>6. PICK all : all = Reverse(t)
  OBVIOUS
<1>7. /\ Len(all) = c /\ DOMAIN all = 1..c
      /\ \A n \in 1..c : all[n] = t[(c - n) + 1] /\ (c - n) + 1 \in 1..c
  <2>1. t \in Seq(S) /\ Len(t) = c
    BY <1>5
  <2>2. all = [n \in 1..c |-> t[(c - n) + 1]]
    BY <1>6, <2>1 DEF Reverse
  <2>3. \A n \in 1..c : (c - n) + 1 \in 1..c
    BY <1>5
  <2>4. all \in Seq(S) /\ Len(all) = c
    BY <1>5, <2>2, <2>3
  <2> QED
    BY <2>2, <2>3, <2>4
<1>8. /\ \A n \in 1..c : all[n] \in S
      /\ \A m, n \in 1..c : m < n => all[m] > all[n]
      /\ \A x \in S : \E n \in 1..c : all[n] = x
  <2>1. \A n \in 1..c : all[n] \in S
    BY <1>5, <1>7
  <2>2. ASSUME NEW m \in 1..c, NEW n \in 1..c, m < n
        PROVE  all[m] > all[n]
    <3>1. PICK i, j : i = (c - n) + 1 /\ j = (c - m) + 1
      OBVIOUS
    <3>2. i \in 1..c /\ j \in 1..c /\ i < j /\ all[n] = t[i] /\ all[m] = t[j]
      BY <1>5, <1>7, <2>2, <3>1
    <3>3. t[i] < t[j]
      BY <1>5, <3>2
    <3>4. t[i] \in Nat /\ t[j] \in Nat
      BY <1>3, <1>5, <3>2
    <3> QED
      BY <3>2, <3>3, <3>4
  <2>3. ASSUME NEW x \in S
        PROVE  \E n \in 1..c : all[n] = x
    <3>1. PICK m \in 1..c : t[m] = x
      BY <1>5
    <3>2. PICK n : n = (c - m) + 1
      OBVIOUS
    <3>3. n \in 1..c /\ (c - n) + 1 = m
      BY <1>5, <3>2
    <3> QED
      BY <1>7, <3>1, <3>3
  <2> QED
    BY <2>1, <2>2, <2>3
<1>9. PICK last : last = IF c > PageSize THEN PageSize ELSE c
  OBVIOUS
<1>10. last \in Nat /\ last <= c /\ (c <= PageSize => last = c)
  BY <1>2, <1>5, <1>9
<1>11. q = [codes  |-> [n \in 1..last |-> [id |-> all[n], content |-> server[all[n]]]],
            cursor |-> IF c > PageSize THEN all[PageSize] ELSE Absent]
  BY <1>1, <1>4, <1>6, <1>7, <1>9 DEF PageAfter
<1>12. PICK codes : codes = q.codes
  OBVIOUS
<1>13. /\ DOMAIN codes = 1..last
       /\ \A n \in 1..last : codes[n] = [id |-> all[n], content |-> server[all[n]]]
  BY <1>11, <1>12
<1>14. \A n \in 1..last : n \in 1..c /\ codes[n].id = all[n] /\ all[n] \in S
                           /\ codes[n].content = server[all[n]]
  <2>1. \A n \in 1..last : n \in 1..c
    BY <1>5, <1>10
  <2>2. \A n \in 1..last : codes[n].id = all[n] /\ codes[n].content = server[all[n]]
    BY <1>13
  <2> QED
    BY <1>8, <2>1, <2>2
<1>15. PICK end : end = q.cursor
  OBVIOUS
<1>16. end = IF c > PageSize THEN all[PageSize] ELSE Absent
  BY <1>11, <1>15
<1>17. end # Absent => c > PageSize /\ last = PageSize /\ end = all[last] /\ end \in S /\ last \in 1..c
  BY <1>2, <1>5, <1>8, <1>9, <1>16
<1>18. \A x \in S : server[x] \in Contents /\ x \in Ids
  BY <1>3 DEF TypeOK, Live
<1>19. q \in Page
  <2>1. codes \in Seq(Item)
    <3>1. \A n \in 1..last : codes[n] \in Item
      BY <1>13, <1>14, <1>18 DEF Item
    <3>2. codes = [n \in 1..last |-> codes[n]]
      BY <1>11, <1>12
    <3> QED
      BY <1>10, <3>1, <3>2
  <2>2. end \in Ids \cup {Absent}
    BY <1>17, <1>18
  <2>3. q = [codes |-> codes, cursor |-> end]
    BY <1>11, <1>12, <1>15
  <2> QED
    BY <2>1, <2>2, <2>3 DEF Page
<1>20. \A m, n \in DOMAIN codes : m < n => codes[m].id > codes[n].id
  BY <1>8, <1>13, <1>14
<1>21. {codes[n].id : n \in DOMAIN codes} =
          {i \in Live(g) : (cursor # Absent => i < cursor) /\ (end # Absent => i >= end)}
  <2>1. ASSUME NEW n \in 1..last
        PROVE  all[n] \in S /\ (end # Absent => all[n] >= end)
    <3>1. all[n] \in S
      BY <1>14
    <3>2. end # Absent => all[n] >= end
      <4> SUFFICES ASSUME end # Absent
                   PROVE  all[n] >= end
        OBVIOUS
      <4>1. n \in 1..c /\ last \in 1..c /\ end = all[last] /\ all[n] \in Nat /\ all[last] \in Nat
        BY <1>3, <1>14, <1>17
      <4>2. CASE n = last
        BY <4>1, <4>2
      <4>3. CASE n # last
        <5>1. n < last
          BY <1>10, <4>3
        <5>2. all[n] > all[last]
          BY <1>8, <4>1, <5>1
        <5> QED
          BY <4>1, <5>2
      <4> QED
        BY <4>2, <4>3
    <3> QED
      BY <3>1, <3>2
  <2>2. ASSUME NEW i \in S, end # Absent => i >= end
        PROVE  \E n \in 1..last : all[n] = i
    <3>1. PICK n \in 1..c : all[n] = i
      BY <1>8
    <3>2. n <= last
      <4>1. CASE c <= PageSize
        BY <1>5, <1>10, <4>1
      <4>2. CASE ~(c <= PageSize)
        <5>1. last \in 1..c /\ end = all[last] /\ end # Absent /\ all[last] \in Nat /\ i \in Nat
          <6>1. c > PageSize
            BY <1>2, <1>5, <4>2
          <6>2. end = all[PageSize] /\ last = PageSize /\ PageSize \in 1..c
            BY <1>2, <1>5, <1>9, <1>16, <6>1
          <6>3. all[PageSize] \in Nat
            BY <1>3, <1>8, <6>2
          <6> QED
            BY <1>2, <1>3, <6>2, <6>3
        <5>2. ~(last < n)
          BY <1>8, <2>2, <3>1, <5>1
        <5> QED
          BY <1>5, <1>10, <5>2
      <4> QED
        BY <4>1, <4>2
    <3>3. n \in 1..last
      BY <1>5, <1>10, <3>2
    <3> QED
      BY <3>1, <3>3
  <2>3. S = {i \in Live(g) : cursor # Absent => i < cursor}
    BY <1>1
  <2> QED
    BY <1>13, <1>14, <2>1, <2>2, <2>3
<1>22. end # Absent => end \in Live(g) /\ (cursor # Absent => end < cursor)
  BY <1>1, <1>17
<1>23. \A n \in DOMAIN codes : codes[n].content = server[codes[n].id]
  BY <1>13, <1>14
<1>24. /\ codes = PageAfter(g, cursor).codes /\ end = PageAfter(g, cursor).cursor
       /\ PageAfter(g, cursor) \in Page
  BY <1>12, <1>15, <1>19
<1> HIDE DEF q
<1> QED
  BY <1>20, <1>21, <1>22, <1>23, <1>24 DEF Listed, Within

-----------------------------------------------------------------------------
(* What a step does to the calls *)

\* Slot k comes to hold new, and of the other calls those in met are crossed.
Turns(k, new, met) ==
    /\ new \in Call /\ met \subseteq Calls \ {k}
    /\ calls' \in [Calls -> Call]
    /\ calls'[k] = new
    /\ \A j \in Calls \ {k} :
          calls'[j] = IF j \in met THEN [calls[j] EXCEPT !.crossed = TRUE] ELSE calls[j]
    /\ \A j \in met : calls[j].op # "none"

\* Slot k takes up a new call, which meets those it crosses.
Begins(k, new, met, op, id, content, before, amiss) ==
    /\ Turns(k, new, met)
    /\ new.op = op /\ new.pc = "sent" /\ new.by = guest /\ new.id = id
    /\ new.content = content /\ new.before = before /\ new.answer = Absent
    /\ new.crossed = (met # {})
    /\ \A j \in Calls \ {k} : j \in met <=> Crosses(calls[j], new) \/ Crosses(new, calls[j])
    /\ adrift' = (adrift \/ amiss \/ met # {})
    /\ blurred' = blurred \cup {i \in {id} : op = "edit" /\ \E j \in met : calls[j].op = "edit"}

\* The call goes on: what it is stays, and what changes is what the server did with it.
GoesOn(k, new, pc, answer) ==
    /\ Turns(k, new, {})
    /\ new.op = calls[k].op /\ new.id = calls[k].id /\ new.before = calls[k].before
    /\ new.crossed = calls[k].crossed /\ new.pc = pc /\ new.answer = answer
    /\ new.by \in {calls[k].by, Absent} /\ new.content \in {calls[k].content, Absent}

LEMMA CallTyped ==
    ASSUME TypeOK, NEW k \in Calls
    PROVE  calls[k] \in Call
  BY DEF TypeOK

\* The other calls keep what they are.
LEMMA OthersKeep ==
    ASSUME TypeOK, NEW k \in Calls, NEW new, NEW met, Turns(k, new, met), NEW j \in Calls \ {k}
    PROVE  /\ calls'[j].op = calls[j].op /\ calls'[j].pc = calls[j].pc
           /\ calls'[j].by = calls[j].by /\ calls'[j].id = calls[j].id
           /\ calls'[j].content = calls[j].content /\ calls'[j].before = calls[j].before
           /\ calls'[j].answer = calls[j].answer
           /\ calls[j].crossed => calls'[j].crossed
           /\ j \in met => calls'[j].crossed
           /\ j \notin met => calls'[j] = calls[j]
<1>1. PICK old : old = calls[j]
  OBVIOUS
<1>2. old \in Call
  BY <1>1, CallTyped
<1>3. calls'[j] = IF j \in met THEN [old EXCEPT !.crossed = TRUE] ELSE old
  BY <1>1 DEF Turns
<1> QED
  BY <1>1, <1>2, <1>3 DEF Call

LEMMA OneTurns ==
    ASSUME TypeOK, NEW k \in Calls, NEW new \in Call, calls' = [calls EXCEPT ![k] = new]
    PROVE  Turns(k, new, {})
  BY DEF TypeOK, Turns

LEMMA NoCallTyped == NoCall \in Call
  BY DEF NoCall, Call

LEMMA OverTurns ==
    ASSUME TypeOK, NEW k \in Calls, Over(k)
    PROVE  Turns(k, NoCall, {})
<1>1. PICK new : new = NoCall
  OBVIOUS
<1>2. new \in Call /\ calls' = [calls EXCEPT ![k] = new]
  BY <1>1, NoCallTyped DEF Over
<1>3. Turns(k, new, {})
  BY <1>2, OneTurns
<1> QED
  BY <1>1, <1>3

LEMMA DoneGoesOn ==
    ASSUME TypeOK, NEW k \in Calls, NEW pc \in {"answered", "lost"},
           NEW answer \in Page \cup Item \cup {Absent}, Done(k, pc, answer)
    PROVE  \E new : GoesOn(k, new, pc, answer) /\ new.by = Absent /\ new.content = Absent
<1>1. PICK old : old = calls[k]
  OBVIOUS
<1>2. old \in Call
  BY <1>1, CallTyped
<1>3. PICK new : new = [old EXCEPT !.pc = pc, !.answer = answer, !.by = Absent, !.content = Absent]
  OBVIOUS
<1>4. new \in Call
  BY <1>2, <1>3 DEF Call
<1>5. calls' = [calls EXCEPT ![k] = new]
  BY <1>1, <1>3 DEF Done, TypeOK
<1>6. Turns(k, new, {})
  BY <1>4, <1>5, OneTurns
<1>7. /\ new.op = old.op /\ new.id = old.id /\ new.before = old.before /\ new.crossed = old.crossed
      /\ new.pc = pc /\ new.answer = answer /\ new.by = Absent /\ new.content = Absent
  BY <1>2, <1>3 DEF Call
<1> QED
  BY <1>1, <1>6, <1>7 DEF GoesOn

LEMMA PutBegins ==
    ASSUME TypeOK, NEW k \in Calls, NEW amiss \in BOOLEAN,
           NEW op \in {"list", "more", "get"} \cup Writes, NEW id \in Ids \cup {Absent},
           NEW content \in Contents \cup {Absent}, NEW before \in Page \cup Contents \cup {Absent},
           Put(k, NewCall(op, id, content, before), amiss)
    PROVE  \E new, met : Begins(k, new, met, op, id, content, before, amiss)
<1>1. PICK call : call = NewCall(op, id, content, before)
  OBVIOUS
<1>2. /\ call \in Call /\ call.op = op /\ call.pc = "sent" /\ call.by = guest /\ call.id = id
      /\ call.content = content /\ call.before = before /\ call.answer = Absent
      /\ call.crossed = FALSE
  BY <1>1 DEF NewCall, Call, TypeOK
<1>3. PICK met : met = Crossing(k, call)
  OBVIOUS
<1>4. PICK new : new = [call EXCEPT !.crossed = met # {}]
  OBVIOUS
<1>5. /\ new \in Call /\ new.op = op /\ new.pc = "sent" /\ new.by = guest /\ new.id = id
      /\ new.content = content /\ new.before = before /\ new.answer = Absent
      /\ new.crossed = (met # {})
  BY <1>2, <1>4 DEF Call
<1>6. /\ calls' = [j \in Calls |->
             IF j = k THEN [call EXCEPT !.crossed = met # {}]
             ELSE [calls[j] EXCEPT !.crossed = @ \/ j \in met]]
      /\ adrift' = (adrift \/ amiss \/ met # {})
      /\ blurred' = blurred \cup {i \in {call.id} : call.op = "edit" /\ met \cap Under("edit") # {}}
  BY <1>1, <1>3 DEF Put
<1>7. \A j \in Calls : j # k =>
         calls'[j] = IF j \in met THEN [calls[j] EXCEPT !.crossed = TRUE] ELSE calls[j]
  <2> SUFFICES ASSUME NEW j \in Calls, j # k
               PROVE  calls'[j] = IF j \in met THEN [calls[j] EXCEPT !.crossed = TRUE] ELSE calls[j]
    OBVIOUS
  <2>1. PICK old : old = calls[j]
    OBVIOUS
  <2>2. old \in Call
    BY <2>1, CallTyped
  <2>3. calls'[j] = [old EXCEPT !.crossed = old.crossed \/ j \in met]
    BY <1>6, <2>1
  <2>4. CASE j \in met
    BY <2>1, <2>3, <2>4
  <2>5. CASE j \notin met
    <3>1. (old.crossed \/ j \in met) = old.crossed
      BY <2>2, <2>5 DEF Call
    <3>2. [old EXCEPT !.crossed = old.crossed] = old
      BY <2>2 DEF Call
    <3> QED
      BY <2>1, <2>3, <2>5, <3>1, <3>2
  <2> QED
    BY <2>4, <2>5
<1>8. calls'[k] = new
  BY <1>4, <1>6
<1>9. met \subseteq Calls \ {k} /\ \A j \in met : calls[j].op # "none"
  BY <1>3 DEF Crossing, Crosses, Writes
<1>10. calls' \in [Calls -> Call]
  <2>1. \A j \in Calls : calls'[j] \in Call
    <3> SUFFICES ASSUME NEW j \in Calls
                 PROVE  calls'[j] \in Call
      OBVIOUS
    <3>1. PICK old : old = calls[j]
      OBVIOUS
    <3>2. old \in Call
      BY <3>1, CallTyped
    <3>3. [old EXCEPT !.crossed = TRUE] \in Call
      BY <3>2 DEF Call
    <3> QED
      BY <1>5, <1>7, <1>8, <3>1, <3>2, <3>3
  <2>2. calls' = [j \in Calls |-> calls'[j]]
    BY <1>6
  <2> QED
    BY <2>1, <2>2
<1>11. \A j \in Calls \ {k} : j \in met <=> Crosses(calls[j], new) \/ Crosses(new, calls[j])
  BY <1>2, <1>3, <1>5 DEF Crossing, Crosses
<1>12. blurred' = blurred \cup {i \in {id} : op = "edit" /\ \E j \in met : calls[j].op = "edit"}
  BY <1>2, <1>6, <1>9 DEF Under
<1>13. Turns(k, new, met)
  BY <1>5, <1>7, <1>8, <1>9, <1>10 DEF Turns
<1> QED
  BY <1>5, <1>6, <1>11, <1>12, <1>13 DEF Begins

-----------------------------------------------------------------------------
(* Types, and what a call, the list and a screen tell of *)

Holds1 == TypeOK /\ StateHolds /\ NothingHangs

\* The creates that the server has not seen.
Unserved == {j \in Under("create") : calls[j].pc = "sent"}

\* What a call tells of stays, as long as what is made stays made and shown stays shown.
LEMMA CallsStay ==
    ASSUME TypeOK, StateHolds, NEW k \in Calls, NEW new, NEW met, Turns(k, new, met),
           minted' \in minted..MaxCodes,
           \A i \in Ids : details[i].content # Absent => details'[i].content # Absent,
           \A j \in Calls \ {k} :
               calls[j].op = "get" => details'[calls[j].id] = details[calls[j].id],
           \A i \in 1..minted : server[i] = Absent => server'[i] = Absent,
           CallHolds(new)'
    PROVE  \A j \in Calls : CallHolds(calls[j])'
<1> SUFFICES ASSUME NEW j \in Calls, j # k
             PROVE  CallHolds(calls[j])'
  BY DEF Turns, CallHolds, Made
<1>1. PICK c, d : c = calls[j] /\ d = calls'[j]
  OBVIOUS
<1>2. CallHolds(c)
  BY <1>1 DEF StateHolds, CallHolds, Made
<1>3. /\ d.op = c.op /\ d.pc = c.pc /\ d.by = c.by /\ d.id = c.id /\ d.content = c.content
      /\ d.before = c.before /\ d.answer = c.answer
  BY <1>1, OthersKeep
<1>4. (d.op = "none") = (d = NoCall)
  <2>1. CASE c.op = "none"
    <3>1. j \notin met
      BY <1>1, <2>1 DEF Turns
    <3> QED
      BY <1>1, <1>2, <3>1, OthersKeep DEF CallHolds
  <2>2. CASE c.op # "none"
    BY <1>3, <2>2 DEF NoCall
  <2> QED
    BY <2>1, <2>2
<1>5. c \in Call /\ minted \in Nat /\ minted' \in Nat /\ minted <= minted' /\ MaxCodes \in Nat
  BY <1>1, CallTyped, ListAssumption DEF TypeOK
<1>6. c.op = "get" => details'[c.id] = details[c.id]
  BY <1>1
<1>7. c.op \in {"more", "edit", "get", "delete"} => c.id \in 1..minted /\ c.id \in Ids
  BY <1>2, <1>5 DEF CallHolds, Ids, TypeOK
<1>8. /\ 1..minted \subseteq 1..minted'
      /\ \A p : Made(p) => Made(p)'
  BY <1>5 DEF Made
<1>9. CallHolds(d)'
  <2>1. c.op \in {"edit", "delete"} => details'[c.id].content # Absent
    BY <1>2, <1>7 DEF CallHolds
  <2>2. c.op = "get" => details'[c.id] = [state |-> "loading", content |-> Absent]
    BY <1>2, <1>6 DEF CallHolds
  <2>3. c.op \in {"more", "edit", "get", "delete"} => c.id \in 1..minted'
    BY <1>7, <1>8
  <2>4. c.op = "more" => c.before \in Page /\ Made(c.before)' /\ c.id = c.before.cursor
    BY <1>2, <1>8 DEF CallHolds
  <2>5. c.pc = "answered" /\ c.op \in {"list", "more"} => c.answer \in Page /\ Made(c.answer)'
    BY <1>2, <1>8 DEF CallHolds
  <2>6. c.pc = "answered" /\ c.op = "create" => c.answer \in Item /\ c.answer.id <= minted'
    <3>1. c.pc = "answered" /\ c.op = "create" => c.answer \in Item /\ c.answer.id <= minted
      BY <1>2 DEF CallHolds
    <3> QED
      BY <1>5, <3>1 DEF Item, Ids
  <2>7. c.pc = "answered" /\ c.op \in {"edit", "get"} => c.answer \in Item /\ c.answer.id = c.id
    BY <1>2 DEF CallHolds
  <2>8. c.pc = "answered" /\ c.op \notin {"list", "more", "create", "edit", "get"}
           => server'[c.id] = Absent
    <3> SUFFICES ASSUME c.pc = "answered", c.op \notin {"list", "more", "create", "edit", "get"}
                 PROVE  server'[c.id] = Absent
      OBVIOUS
    <3>1. c.op = "delete" \/ c.op = "none"
      BY <1>5 DEF Call, Writes
    <3>2. c.op # "none"
      BY <1>2 DEF CallHolds
    <3>3. server[c.id] = Absent
      BY <1>2, <3>1, <3>2 DEF CallHolds
    <3> QED
      BY <1>7, <3>1, <3>2, <3>3
  <2>9. /\ (c.op = "none") = (c.pc = "idle")
        /\ c.pc \in {"sent", "written"} => c.by \in Guests
        /\ c.pc = "written" => c.op = "edit"
        /\ c.op \in {"list", "create"} => c.id = Absent
        /\ c.op = "edit" => c.before \in Contents
        /\ c.op \in {"create", "edit"} /\ c.pc = "sent" => c.content \in Contents
    BY <1>2 DEF CallHolds
  <2>10. d.pc = "answered" =>
           CASE d.op \in {"list", "more"} -> d.answer \in Page /\ Made(d.answer)'
             [] d.op = "create"           -> d.answer \in Item /\ d.answer.id <= minted'
             [] d.op \in {"edit", "get"}  -> d.answer \in Item /\ d.answer.id = d.id
             [] OTHER                     -> server'[d.id] = Absent
    BY <1>3, <2>5, <2>6, <2>7, <2>8
  <2> QED
    BY <1>3, <1>4, <2>1, <2>2, <2>3, <2>4, <2>9, <2>10 DEF CallHolds
<1> QED
  BY <1>1, <1>9 DEF CallHolds, Made

LEMMA UnservedFinite ==
    ASSUME TypeOK
    PROVE  IsFiniteSet(Unserved) /\ IsFiniteSet(Unserved')
           /\ Cardinality(Unserved) \in Nat /\ Cardinality(Unserved') \in Nat
<1>1. Unserved \in SUBSET Calls /\ Unserved' \in SUBSET Calls
  BY DEF Unserved, Under
<1> QED
  BY <1>1, ListAssumption, FS_Subset, FS_CardinalityType

\* What a step leaves to be shown: of the slot it is about, and of what it changes.
LEMMA StateStep ==
    ASSUME Holds1, NEW k \in Calls, NEW new, NEW met, Turns(k, new, met),
           minted' \in minted..MaxCodes,
           server' \in [Ids -> Contents \cup {Absent}],
           \A i \in Ids : i > minted' => server'[i] = Absent,
           \A i \in 1..minted : server[i] = Absent => server'[i] = Absent,
           owners' \in [Ids -> Guests], guest' \in Guests,
           list' \in [state : {"unread", "loading", "data", "error"}, page : Page \cup {Absent}],
           (list.page # Absent => Made(list.page))',
           list'.state \in {"unread", "data"} => (list'.page # Absent) = (list'.state = "data"),
           list'.state = "loading" =>
               new.op = "list" \/ \E j \in Calls \ {k} : calls[j].op = "list",
           details' \in [Ids -> [state : {"unread", "loading", "data", "error"},
                                content : Contents \cup {Absent}]],
           \A i \in Ids : details'[i].state # "unread" => i <= minted',
           \A i \in Ids : details'[i].state = "unread" => details'[i].content = Absent,
           \A i \in Ids : details[i].content # Absent => details'[i].content # Absent,
           \A i \in Ids : details'[i].state = "loading" =>
               \/ new.op = "get" /\ new.id = i
               \/ \E j \in Calls \ {k} : calls[j].op = "get" /\ calls[j].id = i,
           \A j \in Calls \ {k} :
               calls[j].op = "get" => details'[calls[j].id] = details[calls[j].id],
           new.op = "get" =>
               \A j \in Calls \ {k} : calls[j].op = "get" => calls[j].id # new.id,
           loadingMore' = (new.op = "more" \/ \E j \in Calls \ {k} : calls[j].op = "more"),
           new.op = "more" => \A j \in Calls \ {k} : calls[j].op # "more",
           minted' + Cardinality(Unserved') <= MaxCodes,
           adrift' \in BOOLEAN, blurred' \subseteq Ids,
           CallHolds(new)'
    PROVE  Holds1'
<1>1. \A j \in Calls : CallHolds(calls[j])'
  BY CallsStay DEF Holds1
<1>2. \A j \in Calls \ {k} : calls'[j].op = calls[j].op /\ calls'[j].id = calls[j].id
  BY OthersKeep DEF Holds1
<1>3. calls'[k] = new /\ calls' \in [Calls -> Call]
  BY DEF Turns
<1>4. \A i, j \in Calls : calls'[i].op = "more" /\ calls'[j].op = "more" => i = j
  BY <1>2, <1>3 DEF Holds1, StateHolds, Under
<1>5. \A i, j \in Calls :
         calls'[i].op = "get" /\ calls'[j].op = "get" /\ calls'[i].id = calls'[j].id => i = j
  BY <1>2, <1>3 DEF Holds1, StateHolds, Under
<1>6. loadingMore' = (Under("more") # {})'
  <2>1. (\E j \in Calls : calls'[j].op = "more")
          <=> (new.op = "more" \/ \E j \in Calls \ {k} : calls[j].op = "more")
    BY <1>2, <1>3
  <2>2. (Under("more") # {})' <=> \E j \in Calls : calls'[j].op = "more"
    BY DEF Under
  <2> QED
    BY <2>1, <2>2
<1>7. Cardinality(Under("more")') <= 1 /\ loadingMore' \in BOOLEAN
  <2>1. PICK S : S = Under("more")'
    OBVIOUS
  <2>2. \A i, j \in S : i = j
    BY <1>4, <2>1 DEF Under
  <2>3. Cardinality(S) <= 1
    <3>1. CASE S = {}
      BY <3>1, FS_EmptySet
    <3>2. CASE S # {}
      <4>1. PICK x \in S : TRUE
        BY <3>2
      <4>2. S = {x}
        BY <2>2, <4>1
      <4>3. Cardinality({x}) = 1
        BY FS_Singleton
      <4> QED
        BY <4>2, <4>3
    <3> QED
      BY <3>1, <3>2
  <2> QED
    BY <1>6, <2>1, <2>3
<1>8. minted' \in 0..MaxCodes
  BY ListAssumption DEF Holds1, TypeOK
<1>9. TypeOK'
  BY <1>3, <1>7, <1>8 DEF TypeOK
<1>10. StateHolds'
  <2>1. (minted + Cardinality({j \in Under("create") : calls[j].pc = "sent"}) <= MaxCodes)'
    BY DEF Unserved
  <2>2. (\A i, j \in Under("more") : i = j)'
    BY <1>4 DEF Under
  <2>3. (\A i, j \in Under("get") : calls[i].id = calls[j].id => i = j)'
    BY <1>5 DEF Under
  <2>4. (\A j \in Calls : CallHolds(calls[j]))'
    BY <1>1
  <2>5. (list.page # Absent => Made(list.page))'
    OBVIOUS
  <2>6. (list.state \in {"unread", "data"} => (list.page # Absent) = (list.state = "data"))'
    OBVIOUS
  <2>7. /\ (\A i \in Ids : details[i].state # "unread" => i <= minted)'
        /\ (\A i \in Ids : details[i].state = "unread" => details[i].content = Absent)'
    OBVIOUS
  <2>8. (loadingMore = (Under("more") # {}))'
    BY <1>6
  <2> HIDE DEF Holds1
  <2> QED
    BY <2>1, <2>2, <2>3, <2>4, <2>5, <2>6, <2>7, <2>8 DEF StateHolds
<1>11. NothingHangs'
  <2>1. list'.state = "loading" => \E j \in Calls : calls'[j].op = "list"
    BY <1>2, <1>3
  <2>2. \A i \in Ids : details'[i].state = "loading" =>
             \E j \in Calls : calls'[j].op = "get" /\ calls'[j].id = i
    BY <1>2, <1>3
  <2>3. (list.state = "loading" => Under("list") # {})'
    BY <2>1 DEF Under
  <2>4. (loadingMore => Under("more") # {})'
    BY <1>6
  <2>5. (\A i \in Ids : details[i].state = "loading" => \E j \in Under("get") : calls[j].id = i)'
    BY <2>2 DEF Under
  <2> QED
    BY <2>3, <2>4, <2>5 DEF NothingHangs
<1> QED
  BY <1>9, <1>10, <1>11 DEF Holds1

\* The creates that the server has not seen are those it had not, but for slot k's.
LEMMA UnservedIs ==
    ASSUME TypeOK, NEW k \in Calls, NEW new, NEW met, Turns(k, new, met)
    PROVE  /\ ~(new.op = "create" /\ new.pc = "sent") => Unserved' = Unserved \ {k}
           /\ (new.op = "create" /\ new.pc = "sent") => Unserved' = Unserved \cup {k}
           /\ Cardinality(Unserved \ {k}) =
                 IF k \in Unserved THEN Cardinality(Unserved) - 1 ELSE Cardinality(Unserved)
           /\ Cardinality(Unserved \cup {k}) =
                 IF k \in Unserved THEN Cardinality(Unserved) ELSE Cardinality(Unserved) + 1
<1>1. \A j \in Calls \ {k} : calls'[j].op = calls[j].op /\ calls'[j].pc = calls[j].pc
  BY OthersKeep
<1>2. calls'[k] = new
  BY DEF Turns
<1>3. /\ ~(new.op = "create" /\ new.pc = "sent") => Unserved' = Unserved \ {k}
      /\ (new.op = "create" /\ new.pc = "sent") => Unserved' = Unserved \cup {k}
  BY <1>1, <1>2 DEF Unserved, Under
<1>4. PICK S : S = Unserved
  OBVIOUS
<1>5. IsFiniteSet(S)
  BY <1>4, UnservedFinite
<1>6. /\ Cardinality(S \ {k}) = IF k \in S THEN Cardinality(S) - 1 ELSE Cardinality(S)
      /\ Cardinality(S \cup {k}) = IF k \in S THEN Cardinality(S) ELSE Cardinality(S) + 1
  BY <1>5, FS_AddElement, FS_RemoveElement
<1> QED
  BY <1>3, <1>4, <1>6

LEMMA UnservedFits ==
    ASSUME Holds1, NEW k \in Calls, NEW new, NEW met, Turns(k, new, met), minted' = minted,
           new.op = "create" /\ new.pc = "sent" =>
               k \in Unserved \/ minted + Cardinality(Unserved) < MaxCodes
    PROVE  minted' + Cardinality(Unserved') <= MaxCodes
<1>1. /\ minted \in Nat /\ MaxCodes \in Nat /\ Cardinality(Unserved) \in Nat
      /\ minted + Cardinality(Unserved) <= MaxCodes
  BY UnservedFinite, ListAssumption DEF Holds1, TypeOK, StateHolds, Unserved
<1>2. PICK c : c = Cardinality(Unserved)
  OBVIOUS
<1>3. \/ Cardinality(Unserved') <= c
      \/ minted + c < MaxCodes /\ Cardinality(Unserved') <= c + 1
  <2>1. CASE ~(new.op = "create" /\ new.pc = "sent")
    <3>1. Cardinality(Unserved') = Cardinality(Unserved \ {k})
      BY <2>1, UnservedIs DEF Holds1
    <3>2. Cardinality(Unserved \ {k}) =
              IF k \in Unserved THEN Cardinality(Unserved) - 1 ELSE Cardinality(Unserved)
      BY UnservedIs DEF Holds1
    <3> QED
      BY <1>1, <1>2, <3>1, <3>2
  <2>2. CASE new.op = "create" /\ new.pc = "sent"
    <3>1. Cardinality(Unserved') = Cardinality(Unserved \cup {k})
      BY <2>2, UnservedIs DEF Holds1
    <3>2. Cardinality(Unserved \cup {k}) =
              IF k \in Unserved THEN Cardinality(Unserved) ELSE Cardinality(Unserved) + 1
      BY UnservedIs DEF Holds1
    <3> QED
      BY <1>1, <1>2, <2>2, <3>1, <3>2
  <2> QED
    BY <2>1, <2>2
<1> QED
  BY <1>1, <1>2, <1>3, UnservedFinite DEF Holds1

\* Of what the server does, what is to be shown of the server and of the call.
LEMMA ServerStep ==
    ASSUME Holds1, NEW k \in Calls, NEW new, NEW pc, NEW answer, GoesOn(k, new, pc, answer),
           UNCHANGED <<guest, list, loadingMore, details>>,
           minted' \in minted..MaxCodes,
           server' \in [Ids -> Contents \cup {Absent}],
           \A i \in Ids : i > minted' => server'[i] = Absent,
           \A i \in 1..minted : server[i] = Absent => server'[i] = Absent,
           owners' \in [Ids -> Guests],
           minted' + Cardinality(Unserved') <= MaxCodes,
           adrift' \in BOOLEAN, blurred' \subseteq Ids,
           CallHolds(new)'
    PROVE  Holds1'
<1>1. Turns(k, new, {}) /\ new.op = calls[k].op /\ new.id = calls[k].id
  BY DEF GoesOn
<1>2. /\ minted \in Nat /\ minted' \in Nat /\ minted <= minted'
      /\ guest' \in Guests /\ list' = list /\ details' = details /\ loadingMore' = loadingMore
  BY ListAssumption DEF Holds1, TypeOK
<1>3. /\ list' \in [state : {"unread", "loading", "data", "error"}, page : Page \cup {Absent}]
      /\ details' \in [Ids -> [state : {"unread", "loading", "data", "error"},
                               content : Contents \cup {Absent}]]
  BY <1>2 DEF Holds1, TypeOK
<1>4. (list.page # Absent => Made(list.page))'
  BY <1>2 DEF Holds1, StateHolds, Made
<1>5. list'.state \in {"unread", "data"} => (list'.page # Absent) = (list'.state = "data")
  BY <1>2 DEF Holds1, StateHolds
<1>6. list'.state = "loading" =>
          new.op = "list" \/ \E j \in Calls \ {k} : calls[j].op = "list"
  BY <1>1, <1>2 DEF Holds1, NothingHangs, Under
<1>7. /\ \A i \in Ids : details'[i].state # "unread" => i <= minted'
      /\ \A i \in Ids : details'[i].state = "unread" => details'[i].content = Absent
  BY <1>2 DEF Holds1, StateHolds, Ids
<1>8. \A i \in Ids : details'[i].state = "loading" =>
          \/ new.op = "get" /\ new.id = i
          \/ \E j \in Calls \ {k} : calls[j].op = "get" /\ calls[j].id = i
  BY <1>1, <1>2 DEF Holds1, NothingHangs, Under
<1>9. new.op = "get" => \A j \in Calls \ {k} : calls[j].op = "get" => calls[j].id # new.id
  BY <1>1 DEF Holds1, StateHolds, Under
<1>10. loadingMore' = (new.op = "more" \/ \E j \in Calls \ {k} : calls[j].op = "more")
  <2>1. loadingMore = (Under("more") # {})
    BY DEF Holds1, StateHolds
  <2>2. (Under("more") # {}) <=> (new.op = "more" \/ \E j \in Calls \ {k} : calls[j].op = "more")
    BY <1>1 DEF Under
  <2> QED
    BY <1>2, <2>1, <2>2
<1>11. new.op = "more" => \A j \in Calls \ {k} : calls[j].op # "more"
  BY <1>1 DEF Holds1, StateHolds, Under
<1> QED
  BY <1>1, <1>2, <1>3, <1>4, <1>5, <1>6, <1>7, <1>8, <1>9, <1>10, <1>11, StateStep

-----------------------------------------------------------------------------
(* The server's steps *)

\* The server changes nothing: what is left is the call.
LEMMA ReadStep ==
    ASSUME Holds1, NEW k \in Calls, NEW new, NEW pc, NEW answer, GoesOn(k, new, pc, answer),
           pc # "sent", UNCHANGED <<guest, list, loadingMore, details>>, UNCHANGED serverVars,
           adrift' \in BOOLEAN, blurred' \subseteq Ids,
           CallHolds(new)'
    PROVE  Holds1'
<1>1. minted' = minted /\ server' = server /\ owners' = owners
  BY DEF serverVars
<1>2. minted' + Cardinality(Unserved') <= MaxCodes
  <2>1. Turns(k, new, {}) /\ new.pc # "sent"
    BY DEF GoesOn
  <2> QED
    BY <1>1, <2>1, UnservedFits
<1>3. /\ minted' \in minted..MaxCodes
      /\ server' \in [Ids -> Contents \cup {Absent}]
      /\ \A i \in Ids : i > minted' => server'[i] = Absent
      /\ \A i \in 1..minted : server[i] = Absent => server'[i] = Absent
      /\ owners' \in [Ids -> Guests]
  BY <1>1, ListAssumption DEF Holds1, TypeOK
<1> QED
  BY <1>2, <1>3, ServerStep

\* A call that the server is done with, and that fails, tells of what it told of before.
LEMMA LostHolds ==
    ASSUME Holds1, NEW k \in Calls, NEW new, GoesOn(k, new, "lost", Absent),
           calls[k].op # "none", minted' = minted, server' = server, details' = details
    PROVE  CallHolds(new)'
<1>1. PICK c : c = calls[k]
  OBVIOUS
<1>2. CallHolds(c) /\ c.op # "none"
  BY <1>1 DEF Holds1, StateHolds, CallHolds, Made
<1>3. new.op = c.op /\ new.pc = "lost" /\ new.id = c.id /\ new.before = c.before
  BY <1>1 DEF GoesOn
<1>4. new # NoCall
  BY <1>2, <1>3 DEF NoCall
<1> QED
  BY <1>2, <1>3, <1>4 DEF CallHolds, Made

LEMMA ServePageTypes ==
    ASSUME Holds1, NEW k \in Calls, ServePage(k)
    PROVE  Holds1' /\ \E new : GoesOn(k, new, "answered", PageAfter(calls[k].by, calls[k].id))
<1>1. /\ calls[k].op \in {"list", "more"} /\ calls[k].pc = "sent"
      /\ Done(k, "answered", PageAfter(calls[k].by, calls[k].id))
      /\ UNCHANGED serverVars /\ UNCHANGED client
  BY DEF ServePage, At, Reply
<1>2. PICK c, q : c = calls[k] /\ q = PageAfter(calls[k].by, calls[k].id)
  OBVIOUS
<1>3. CallHolds(c)
  BY <1>2 DEF Holds1, StateHolds, CallHolds, Made
<1>4. c.by \in Guests /\ c.id \in Ids \cup {Absent}
  BY <1>1, <1>2, <1>3, CallTyped DEF CallHolds, Call, Holds1
<1>5. q \in Page /\ Listed(q) \subseteq Live(c.by) /\ (q.cursor # Absent => q.cursor \in Live(c.by))
  BY <1>2, <1>4, PageIs DEF Holds1
<1>6. Made(q)
  <2>1. Live(c.by) \subseteq 1..minted
    BY ListAssumption DEF Live, Holds1, TypeOK, Ids
  <2> QED
    BY <1>5, <2>1 DEF Made
<1>7. PICK new : GoesOn(k, new, "answered", q)
  BY <1>1, <1>2, <1>5, DoneGoesOn DEF Holds1
<1>8. /\ new.op = c.op /\ new.id = c.id /\ new.before = c.before /\ new.pc = "answered"
      /\ new.answer = q
  BY <1>2, <1>7 DEF GoesOn
<1>9. minted' = minted /\ details' = details /\ adrift' = adrift /\ blurred' = blurred
      /\ UNCHANGED <<guest, list, loadingMore, details>>
  BY <1>1 DEF serverVars, client
<1>10. CallHolds(new)'
  BY <1>1, <1>2, <1>3, <1>5, <1>6, <1>8, <1>9 DEF CallHolds, Made, NoCall
<1>11. adrift' \in BOOLEAN /\ blurred' \subseteq Ids
  BY <1>9 DEF Holds1, TypeOK
<1> QED
  BY <1>1, <1>2, <1>7, <1>9, <1>10, <1>11, ReadStep

LEMMA NotFoundTypes ==
    ASSUME Holds1, NEW k \in Calls, NotFound(k)
    PROVE  Holds1' /\ \E new : GoesOn(k, new, "lost", Absent)
<1>1. /\ calls[k].op # "none" /\ Done(k, "lost", Absent)
      /\ UNCHANGED serverVars /\ UNCHANGED client
  BY DEF NotFound, At
<1>2. PICK new : GoesOn(k, new, "lost", Absent)
  BY <1>1, DoneGoesOn DEF Holds1
<1>3. minted' = minted /\ server' = server /\ details' = details /\ adrift' = adrift /\ blurred' = blurred
      /\ UNCHANGED <<guest, list, loadingMore, details>>
  BY <1>1 DEF serverVars, client
<1>4. adrift' \in BOOLEAN /\ blurred' \subseteq Ids
  BY <1>3 DEF Holds1, TypeOK
<1> QED
  BY <1>1, <1>2, <1>3, <1>4, LostHolds, ReadStep

LEMMA LoseTypes ==
    ASSUME Holds1, NEW k \in Calls, Lose(k)
    PROVE  Holds1' /\ \E new : GoesOn(k, new, "lost", Absent)
<1>1. /\ calls[k].pc # "idle" /\ Done(k, "lost", Absent)
      /\ UNCHANGED serverVars /\ UNCHANGED <<guest, list, loadingMore, details>>
      /\ blurred' \subseteq blurred \cup {calls[k].id}
      /\ calls[k].op # "edit" => blurred' = blurred
  BY DEF Lose
<1>2. CallHolds(calls[k])
  BY DEF Holds1, StateHolds
<1>3. calls[k].op # "none" /\ (calls[k].op = "edit" => calls[k].id \in Ids)
  BY <1>1, <1>2, ListAssumption DEF CallHolds, Ids, Holds1, TypeOK
<1>4. PICK new : GoesOn(k, new, "lost", Absent)
  BY <1>1, DoneGoesOn DEF Holds1
<1>5. minted' = minted /\ server' = server /\ details' = details
  BY <1>1 DEF serverVars
<1>6. adrift' \in BOOLEAN
  BY DEF Lose, Holds1, TypeOK
<1>7. blurred' \subseteq Ids
  BY <1>1, <1>3 DEF Holds1, TypeOK
<1> QED
  BY <1>1, <1>3, <1>4, <1>5, <1>6, <1>7, LostHolds, ReadStep

\* A code is made within the bound: its create was counted.
LEMMA ServeCreateTypes ==
    ASSUME Holds1, NEW k \in Calls, ServeCreate(k)
    PROVE  Holds1' /\ minted + 1 \in Ids /\ calls[k].by \in Guests /\ calls[k].content \in Contents
           /\ \E new : GoesOn(k, new, "answered", [id |-> minted + 1, content |-> calls[k].content])
<1>1. /\ calls[k].op = "create" /\ calls[k].pc = "sent"
      /\ minted' = minted + 1
      /\ server' = [server EXCEPT ![minted + 1] = calls[k].content]
      /\ owners' = [owners EXCEPT ![minted + 1] = calls[k].by]
      /\ Done(k, "answered", [id |-> minted + 1, content |-> calls[k].content])
      /\ UNCHANGED client
  BY DEF ServeCreate, At, Reply
<1>2. PICK c, item : c = calls[k] /\ item = [id |-> minted + 1, content |-> calls[k].content]
  OBVIOUS
<1>3. CallHolds(c)
  BY <1>2 DEF Holds1, StateHolds, CallHolds, Made
<1>4. c.by \in Guests /\ c.content \in Contents /\ c.id = Absent
  BY <1>1, <1>2, <1>3 DEF CallHolds
<1>5. minted \in Nat /\ MaxCodes \in Nat /\ minted <= MaxCodes
      /\ Cardinality(Unserved) \in Nat /\ minted + Cardinality(Unserved) <= MaxCodes
  BY UnservedFinite, ListAssumption DEF Holds1, TypeOK, StateHolds, Unserved
<1>6. k \in Unserved
  BY <1>1 DEF Unserved, Under
<1>7. Cardinality(Unserved) >= 1
  <2>1. PICK S : S = Unserved
    OBVIOUS
  <2>2. Cardinality(S) # 0
    BY <1>6, <2>1, UnservedFinite, FS_EmptySet DEF Holds1
  <2> QED
    BY <1>5, <2>1, <2>2
<1>8. minted + 1 \in Ids /\ minted + 1 <= MaxCodes
  BY <1>5, <1>7 DEF Ids
<1>9. item \in Item
  BY <1>2, <1>4, <1>8 DEF Item
<1>10. PICK new : GoesOn(k, new, "answered", item)
  BY <1>1, <1>2, <1>9, DoneGoesOn DEF Holds1
<1>11. /\ Turns(k, new, {}) /\ new.op = "create" /\ new.id = Absent /\ new.pc = "answered"
       /\ new.answer = item /\ item.id = minted + 1
  BY <1>1, <1>2, <1>4, <1>10 DEF GoesOn
<1>12. minted' + Cardinality(Unserved') <= MaxCodes
  <2>1. Unserved' = Unserved \ {k} /\ Cardinality(Unserved \ {k}) = Cardinality(Unserved) - 1
    BY <1>6, <1>11, UnservedIs DEF Holds1
  <2>2. Cardinality(Unserved') = Cardinality(Unserved) - 1
    BY <2>1
  <2> QED
    BY <1>1, <1>5, <2>2
<1>13. /\ server' \in [Ids -> Contents \cup {Absent}] /\ owners' \in [Ids -> Guests]
       /\ \A i \in Ids : i > minted' => server'[i] = Absent
       /\ \A i \in 1..minted : server[i] = Absent => server'[i] = Absent
  BY <1>1, <1>2, <1>4, <1>5, <1>8 DEF Holds1, TypeOK, Ids
<1>14. minted' \in minted..MaxCodes
  BY <1>1, <1>5, <1>8
<1>15. UNCHANGED <<guest, list, loadingMore, details>> /\ adrift' = adrift /\ blurred' = blurred
  BY <1>1 DEF client
<1>16. adrift' \in BOOLEAN /\ blurred' \subseteq Ids
  BY <1>15 DEF Holds1, TypeOK
<1>17. CallHolds(new)'
  BY <1>1, <1>5, <1>9, <1>11 DEF CallHolds, Made, NoCall
<1> QED
  BY <1>2, <1>4, <1>8, <1>10, <1>12, <1>13, <1>14, <1>15, <1>16, <1>17, ServerStep

LEMMA ServeEditTypes ==
    ASSUME Holds1, NEW k \in Calls, ServeEdit(k)
    PROVE  Holds1' /\ calls[k].by \in Guests /\ calls[k].content \in Contents /\ calls[k].id \in Ids
           /\ \E new : GoesOn(k, new, "written", calls[k].answer) /\ new.by = calls[k].by
<1>1. /\ calls[k].op = "edit" /\ calls[k].pc = "sent" /\ Found(k)
      /\ server' = [server EXCEPT ![calls[k].id] = calls[k].content]
      /\ calls' = [calls EXCEPT ![k].pc = "written"]
      /\ UNCHANGED <<owners, minted>> /\ UNCHANGED client
  BY DEF ServeEdit, At
<1>2. PICK c : c = calls[k]
  OBVIOUS
<1>3. CallHolds(c) /\ c \in Call
  BY <1>2, CallTyped DEF Holds1, StateHolds, CallHolds, Made
<1>4. c.by \in Guests /\ c.content \in Contents /\ c.id \in 1..minted
  BY <1>1, <1>2, <1>3 DEF CallHolds
<1>5. PICK new : new = [c EXCEPT !.pc = "written"]
  OBVIOUS
<1>6. /\ new \in Call /\ new.op = c.op /\ new.id = c.id /\ new.before = c.before
      /\ new.crossed = c.crossed /\ new.pc = "written" /\ new.answer = c.answer
      /\ new.by = c.by /\ new.content = c.content
  BY <1>3, <1>5 DEF Call
<1>7. Turns(k, new, {})
  <2>1. calls' = [calls EXCEPT ![k] = new]
    BY <1>1, <1>2, <1>5
  <2> QED
    BY <1>6, <2>1, OneTurns DEF Holds1
<1>8. GoesOn(k, new, "written", c.answer)
  BY <1>2, <1>6, <1>7 DEF GoesOn
<1>9. /\ minted' = minted /\ owners' = owners /\ UNCHANGED <<guest, list, loadingMore, details>>
      /\ adrift' = adrift /\ blurred' = blurred
  BY <1>1 DEF client
<1>10. c.id \in Ids /\ server[c.id] # Absent /\ minted \in 0..MaxCodes /\ MaxCodes \in Nat
  BY <1>1, <1>2, <1>4, ListAssumption DEF Found, Live, Holds1, TypeOK, Ids
<1>11. /\ server' \in [Ids -> Contents \cup {Absent}] /\ owners' \in [Ids -> Guests]
       /\ \A i \in Ids : i > minted' => server'[i] = Absent
       /\ \A i \in 1..minted : server[i] = Absent => server'[i] = Absent
  <2>1. \A i \in Ids : server'[i] = IF i = c.id THEN c.content ELSE server[i]
    BY <1>1, <1>2 DEF Holds1, TypeOK
  <2>2. server' \in [Ids -> Contents \cup {Absent}]
    BY <1>1, <1>2, <1>4 DEF Holds1, TypeOK
  <2>3. \A i \in Ids : i > minted => server[i] = Absent
    BY DEF Holds1, TypeOK
  <2>4. \A i \in 1..minted : i \in Ids
    BY <1>10 DEF Ids
  <2>5. \A i \in Ids : i > minted' => server'[i] = Absent
    BY <1>4, <1>9, <1>10, <2>1, <2>3
  <2> QED
    BY <1>9, <1>10, <2>1, <2>2, <2>4, <2>5 DEF Holds1, TypeOK
<1>12. minted' + Cardinality(Unserved') <= MaxCodes /\ minted' \in minted..MaxCodes
  <2>1. new.op # "create"
    BY <1>1, <1>2, <1>6
  <2> QED
    BY <1>7, <1>9, <1>10, <2>1, UnservedFits
<1>13. adrift' \in BOOLEAN /\ blurred' \subseteq Ids
  BY <1>9 DEF Holds1, TypeOK
<1>14. CallHolds(new)'
  <2>1. CallHolds(c)'
    BY <1>1, <1>2, <1>3, <1>9 DEF CallHolds, Made
  <2> QED
    BY <1>1, <1>2, <1>4, <1>6, <2>1 DEF CallHolds, NoCall
<1> QED
  BY <1>2, <1>4, <1>6, <1>8, <1>9, <1>10, <1>11, <1>12, <1>13, <1>14, ServerStep

LEMMA ServeRowTypes ==
    ASSUME Holds1, NEW k \in Calls, ServeRow(k)
    PROVE  Holds1' /\ calls[k].id \in Ids
           /\ \E new : GoesOn(k, new, "answered", [id |-> calls[k].id, content |-> server[calls[k].id]])
<1>1. /\ calls[k].op \in {"edit", "get"} /\ Found(k)
      /\ Done(k, "answered", [id |-> calls[k].id, content |-> server[calls[k].id]])
      /\ UNCHANGED serverVars /\ UNCHANGED client
  BY DEF ServeRow, At, Reply
<1>2. PICK c, item : c = calls[k] /\ item = [id |-> calls[k].id, content |-> server[calls[k].id]]
  OBVIOUS
<1>3. CallHolds(c)
  BY <1>2 DEF Holds1, StateHolds, CallHolds, Made
<1>4. item \in Item /\ c.id \in Ids /\ item.id = c.id
  BY <1>1, <1>2 DEF Found, Live, Holds1, TypeOK, Item
<1>5. PICK new : GoesOn(k, new, "answered", item)
  BY <1>1, <1>2, <1>4, DoneGoesOn DEF Holds1
<1>6. /\ new.op = c.op /\ new.id = c.id /\ new.before = c.before /\ new.pc = "answered"
      /\ new.answer = item
  BY <1>2, <1>5 DEF GoesOn
<1>7. minted' = minted /\ server' = server /\ details' = details /\ adrift' = adrift /\ blurred' = blurred
      /\ UNCHANGED <<guest, list, loadingMore, details>>
  BY <1>1 DEF serverVars, client
<1>8. CallHolds(new)'
  BY <1>1, <1>2, <1>3, <1>4, <1>6, <1>7 DEF CallHolds, Made, NoCall
<1>9. adrift' \in BOOLEAN /\ blurred' \subseteq Ids
  BY <1>7 DEF Holds1, TypeOK
<1> QED
  BY <1>1, <1>2, <1>4, <1>5, <1>7, <1>8, <1>9, ReadStep

LEMMA ServeDeleteTypes ==
    ASSUME Holds1, NEW k \in Calls, ServeDelete(k)
    PROVE  Holds1' /\ calls[k].id \in Ids /\ \E new : GoesOn(k, new, "answered", Absent)
<1>1. /\ calls[k].op = "delete" /\ calls[k].pc = "sent" /\ Found(k)
      /\ server' = [server EXCEPT ![calls[k].id] = Absent]
      /\ Done(k, "answered", Absent)
      /\ UNCHANGED <<owners, minted>> /\ UNCHANGED client
  BY DEF ServeDelete, At, Reply
<1>2. PICK c : c = calls[k]
  OBVIOUS
<1>3. CallHolds(c)
  BY <1>2 DEF Holds1, StateHolds, CallHolds, Made
<1>4. PICK new : GoesOn(k, new, "answered", Absent)
  BY <1>1, DoneGoesOn DEF Holds1
<1>5. /\ Turns(k, new, {}) /\ new.op = "delete" /\ new.id = c.id /\ new.pc = "answered"
      /\ new.answer = Absent
  BY <1>1, <1>2, <1>4 DEF GoesOn
<1>6. /\ minted' = minted /\ owners' = owners /\ UNCHANGED <<guest, list, loadingMore, details>>
      /\ adrift' = adrift /\ blurred' = blurred
  BY <1>1 DEF client
<1>7. c.id \in Ids /\ c.id \in 1..minted /\ minted \in 0..MaxCodes /\ MaxCodes \in Nat
  BY <1>1, <1>2, <1>3, ListAssumption DEF CallHolds, Found, Live, Holds1, TypeOK
<1>8. \A i \in Ids : server'[i] = IF i = c.id THEN Absent ELSE server[i]
  BY <1>1, <1>2 DEF Holds1, TypeOK
<1>9. /\ server' \in [Ids -> Contents \cup {Absent}] /\ owners' \in [Ids -> Guests]
      /\ \A i \in Ids : i > minted' => server'[i] = Absent
  BY <1>1, <1>6, <1>8 DEF Holds1, TypeOK
<1>10. \A i \in 1..minted : server[i] = Absent => server'[i] = Absent
  <2>1. \A i \in 1..minted : i \in Ids
    BY <1>7 DEF Ids
  <2> QED
    BY <1>8, <2>1
<1>11. minted' + Cardinality(Unserved') <= MaxCodes /\ minted' \in minted..MaxCodes
  BY <1>5, <1>6, <1>7, UnservedFits
<1>12. adrift' \in BOOLEAN /\ blurred' \subseteq Ids
  BY <1>6 DEF Holds1, TypeOK
<1>13. CallHolds(new)'
  BY <1>1, <1>2, <1>3, <1>5, <1>6, <1>7, <1>8 DEF CallHolds, Made, NoCall
<1> QED
  BY <1>2, <1>4, <1>6, <1>7, <1>9, <1>10, <1>11, <1>12, <1>13, ServerStep

-----------------------------------------------------------------------------
(* The controllers' steps *)

\* The list stays, fails, or shows a page of codes that were made.
ListGoesOn ==
    \/ list' = list
    \/ list' = [list EXCEPT !.state = "error"]
    \/ \E p \in Page : Made(p) /\ list' = [state |-> "data", page |-> p]

\* The screens stay, but for one whose get ended or that shows its code already.
DetailsGoOn(k) ==
    \/ details' = details
    \/ \E i \in 1..minted, state \in {"data", "error"}, content \in Contents \cup {Absent} :
          /\ details' = [details EXCEPT ![i] = [state |-> state, content |-> content]]
          /\ \A j \in Calls \ {k} : calls[j].op = "get" => calls[j].id # i
          /\ details[i].content # Absent => content # Absent

LEMMA ListTyped ==
    ASSUME Holds1, ListGoesOn, minted' = minted
    PROVE  /\ list' \in [state : {"unread", "loading", "data", "error"}, page : Page \cup {Absent}]
           /\ (list.page # Absent => Made(list.page))'
           /\ list'.state \in {"unread", "data"} => (list'.page # Absent) = (list'.state = "data")
           /\ list'.state \in {"loading", "unread"} => list' = list
<1>1. /\ list \in [state : {"unread", "loading", "data", "error"}, page : Page \cup {Absent}]
      /\ list.page # Absent => Made(list.page)
      /\ list.state \in {"unread", "data"} => (list.page # Absent) = (list.state = "data")
  BY DEF Holds1, TypeOK, StateHolds
<1>2. CASE list' = list
  BY <1>1, <1>2 DEF Made
<1>3. CASE list' = [list EXCEPT !.state = "error"]
  <2>1. list'.state = "error" /\ list'.page = list.page
        /\ list' \in [state : {"unread", "loading", "data", "error"}, page : Page \cup {Absent}]
    BY <1>1, <1>3
  <2> QED
    BY <1>1, <2>1 DEF Made
<1>4. CASE \E p \in Page : Made(p) /\ list' = [state |-> "data", page |-> p]
  <2>1. PICK p \in Page : Made(p) /\ list' = [state |-> "data", page |-> p]
    BY <1>4
  <2>2. list'.state = "data" /\ list'.page = p /\ p # Absent
        /\ list' \in [state : {"unread", "loading", "data", "error"}, page : Page \cup {Absent}]
    BY <2>1, AbsentIsNoPage
  <2>3. (list.page # Absent => Made(list.page))'
    BY <2>1, <2>2 DEF Made
  <2> QED
    BY <2>2, <2>3
<1> QED
  BY <1>2, <1>3, <1>4 DEF ListGoesOn

LEMMA DetailsTyped ==
    ASSUME Holds1, NEW k \in Calls, DetailsGoOn(k)
    PROVE  /\ details' \in [Ids -> [state : {"unread", "loading", "data", "error"},
                                    content : Contents \cup {Absent}]]
           /\ \A i \in Ids : details'[i].state # "unread" => i <= minted
           /\ \A i \in Ids : details'[i].state = "unread" => details'[i].content = Absent
           /\ \A i \in Ids : details[i].content # Absent => details'[i].content # Absent
           /\ \A i \in Ids : details'[i].state = "loading" => details'[i] = details[i]
           /\ \A j \in Calls \ {k} :
                 calls[j].op = "get" => details'[calls[j].id] = details[calls[j].id]
<1>1. /\ details \in [Ids -> [state : {"unread", "loading", "data", "error"},
                              content : Contents \cup {Absent}]]
      /\ \A i \in Ids : details[i].state # "unread" => i <= minted
      /\ \A i \in Ids : details[i].state = "unread" => details[i].content = Absent
      /\ minted \in 0..MaxCodes /\ MaxCodes \in Nat
  BY ListAssumption DEF Holds1, TypeOK, StateHolds
<1>2. CASE details' = details
  BY <1>1, <1>2
<1>3. CASE details' # details
  <2>1. PICK i \in 1..minted, state \in {"data", "error"}, content \in Contents \cup {Absent} :
          /\ details' = [details EXCEPT ![i] = [state |-> state, content |-> content]]
          /\ \A j \in Calls \ {k} : calls[j].op = "get" => calls[j].id # i
          /\ details[i].content # Absent => content # Absent
    BY <1>3 DEF DetailsGoOn
  <2>2. i \in Ids /\ i <= minted
    BY <1>1 DEF Ids
  <2>3. PICK d : d = [state |-> state, content |-> content]
    OBVIOUS
  <2>4. /\ d \in [state : {"unread", "loading", "data", "error"}, content : Contents \cup {Absent}]
        /\ d.state \in {"data", "error"} /\ d.content = content
        /\ details' = [details EXCEPT ![i] = d]
    BY <2>1, <2>3
  <2>5. \A j : j # i => details'[j] = details[j]
    BY <1>1, <2>4
  <2>6. details'[i] = d
    BY <1>1, <2>2, <2>4
  <2>7. details' \in [Ids -> [state : {"unread", "loading", "data", "error"},
                             content : Contents \cup {Absent}]]
    BY <1>1, <2>4
  <2> QED
    BY <1>1, <2>1, <2>2, <2>4, <2>5, <2>6, <2>7
<1> QED
  BY <1>2, <1>3

\* A call ends: its list no longer loads, nor its screen, nor more of the list.
LEMMA EndStep ==
    ASSUME Holds1, NEW k \in Calls, Over(k), UNCHANGED serverVars, UNCHANGED guest,
           ListGoesOn, calls[k].op = "list" => list'.state # "loading",
           DetailsGoOn(k), calls[k].op = "get" => details'[calls[k].id].state # "loading",
           loadingMore' = (loadingMore /\ calls[k].op # "more"),
           adrift' \in BOOLEAN, blurred' \subseteq Ids
    PROVE  Holds1'
<1>1. PICK new : new = NoCall
  OBVIOUS
<1>2. Turns(k, new, {}) /\ new.op = "none"
  BY <1>1, OverTurns DEF NoCall, Holds1
<1>3. minted' = minted /\ server' = server /\ owners' = owners
  BY DEF serverVars
<1>4. /\ minted' \in minted..MaxCodes
      /\ server' \in [Ids -> Contents \cup {Absent}]
      /\ \A i \in Ids : i > minted' => server'[i] = Absent
      /\ \A i \in 1..minted : server[i] = Absent => server'[i] = Absent
      /\ owners' \in [Ids -> Guests] /\ guest' \in Guests
  BY <1>3, ListAssumption DEF Holds1, TypeOK
<1>5. minted' + Cardinality(Unserved') <= MaxCodes
  BY <1>2, <1>3, UnservedFits
<1>6. list'.state = "loading" =>
          new.op = "list" \/ \E j \in Calls \ {k} : calls[j].op = "list"
  BY <1>3, ListTyped DEF Holds1, NothingHangs, Under
<1>7. \A i \in Ids : details'[i].state = "loading" =>
          \/ new.op = "get" /\ new.id = i
          \/ \E j \in Calls \ {k} : calls[j].op = "get" /\ calls[j].id = i
  BY DetailsTyped DEF Holds1, NothingHangs, Under
<1>8. loadingMore' = (new.op = "more" \/ \E j \in Calls \ {k} : calls[j].op = "more")
  <2>1. loadingMore = (Under("more") # {}) /\ \A i, j \in Under("more") : i = j
    BY DEF Holds1, StateHolds
  <2>2. (Under("more") # {} /\ calls[k].op # "more")
           <=> (new.op = "more" \/ \E j \in Calls \ {k} : calls[j].op = "more")
    BY <1>2, <2>1 DEF Under
  <2> QED
    BY <2>1, <2>2
<1>9. CallHolds(new)'
  BY <1>1 DEF CallHolds, NoCall
<1>10. /\ \A i \in Ids : details'[i].state # "unread" => i <= minted'
       /\ new.op = "get" => \A j \in Calls \ {k} : calls[j].op = "get" => calls[j].id # new.id
       /\ new.op = "more" => \A j \in Calls \ {k} : calls[j].op # "more"
  BY <1>2, <1>3, DetailsTyped
<1> QED
  BY <1>2, <1>3, <1>4, <1>5, <1>6, <1>7, <1>8, <1>9, <1>10, ListTyped, DetailsTyped, StateStep

\* One list of codes after the other: each place is a place of one of them.
LEMMA BothCodes ==
    ASSUME NEW s \in Seq(Item), NEW t \in Seq(Item)
    PROVE  /\ s \o t \in Seq(Item)
           /\ \A n \in DOMAIN (s \o t) :
                 \/ n \in DOMAIN s /\ (s \o t)[n] = s[n]
                 \/ \E m \in DOMAIN t : n = Len(s) + m /\ (s \o t)[n] = t[m]
           /\ \A n \in DOMAIN s : n \in DOMAIN (s \o t) /\ n <= Len(s) /\ (s \o t)[n] = s[n]
           /\ \A m \in DOMAIN t :
                 Len(s) + m \in DOMAIN (s \o t) /\ (s \o t)[Len(s) + m] = t[m]
<1>1. Len(s) \in Nat /\ Len(t) \in Nat /\ DOMAIN s = 1..Len(s) /\ DOMAIN t = 1..Len(t)
  OBVIOUS
<1>2. PICK u : u = s \o t
  OBVIOUS
<1>3. u \in Seq(Item) /\ Len(u) = Len(s) + Len(t) /\ DOMAIN u = 1..(Len(s) + Len(t))
  BY <1>2
<1>4. \A n \in 1..(Len(s) + Len(t)) : u[n] = IF n <= Len(s) THEN s[n] ELSE t[n - Len(s)]
  BY <1>2
<1>5. ASSUME NEW n \in DOMAIN u
      PROVE  \/ n \in DOMAIN s /\ u[n] = s[n]
             \/ \E m \in DOMAIN t : n = Len(s) + m /\ u[n] = t[m]
  <2>1. CASE n <= Len(s)
    BY <1>1, <1>3, <1>4, <2>1
  <2>2. CASE ~(n <= Len(s))
    <3>1. PICK m : m = n - Len(s)
      OBVIOUS
    <3>2. m \in 1..Len(t) /\ n = Len(s) + m
      BY <1>1, <1>3, <2>2, <3>1
    <3> QED
      BY <1>1, <1>3, <1>4, <2>2, <3>1, <3>2
  <2> QED
    BY <2>1, <2>2
<1>6. \A n \in DOMAIN s : n \in DOMAIN u /\ n <= Len(s) /\ u[n] = s[n]
  BY <1>1, <1>3, <1>4
<1>7. ASSUME NEW m \in DOMAIN t
      PROVE  Len(s) + m \in DOMAIN u /\ u[Len(s) + m] = t[m]
  <2>1. PICK n : n = Len(s) + m
    OBVIOUS
  <2>2. n \in 1..(Len(s) + Len(t)) /\ ~(n <= Len(s)) /\ n - Len(s) = m
    BY <1>1, <1>7, <2>1
  <2>3. u[n] = t[n - Len(s)]
    BY <1>4, <2>2
  <2> QED
    BY <1>3, <2>1, <2>2, <2>3
<1> QED
  BY <1>2, <1>3, <1>5, <1>6, <1>7

\* The list shows a page.
LEMMA DataShows ==
    ASSUME Holds1, NEW codes \in Seq(Item), NEW cursor \in Ids \cup {Absent}, Data(codes, cursor),
           \A n \in DOMAIN codes : codes[n].id \in 1..minted,
           cursor # Absent => cursor \in 1..minted
    PROVE  ListGoesOn /\ list'.state = "data"
           /\ [codes |-> codes, cursor |-> cursor] \in Page /\ list'.page # Absent
           /\ list'.page = [codes |-> codes, cursor |-> cursor]
<1>1. PICK p : p = [codes |-> codes, cursor |-> cursor]
  OBVIOUS
<1>2. p \in Page /\ p.codes = codes /\ p.cursor = cursor /\ list' = [state |-> "data", page |-> p]
  BY <1>1 DEF Data, Page
<1>3. Made(p)
  BY <1>2 DEF Made, Listed
<1> QED
  BY <1>1, <1>2, <1>3, AbsentIsNoPage DEF ListGoesOn

\* A page and the codes on it.
LEMMA PageTyped ==
    ASSUME NEW p \in Page
    PROVE  /\ p.codes \in Seq(Item) /\ p.cursor \in Ids \cup {Absent}
           /\ p = [codes |-> p.codes, cursor |-> p.cursor]
           /\ Made(p) => /\ \A n \in DOMAIN p.codes : p.codes[n].id \in 1..minted
                         /\ p.cursor # Absent => p.cursor \in 1..minted
<1>1. /\ p.codes \in Seq(Item) /\ p.cursor \in Ids \cup {Absent}
      /\ p = [codes |-> p.codes, cursor |-> p.cursor]
  BY DEF Page
<1>2. ASSUME Made(p), NEW n \in DOMAIN p.codes
      PROVE  p.codes[n].id \in 1..minted
  <2>1. PICK codes : codes = p.codes
    OBVIOUS
  <2>2. codes \in Seq(Item) /\ n \in DOMAIN codes /\ codes[n] \in Item
    BY <1>1, <1>2, <2>1
  <2>3. codes[n].id \in Ids /\ codes[n].id \in 1..minted \cup {Absent}
    BY <1>2, <2>1, <2>2 DEF Made, Listed, Item
  <2> QED
    BY <2>1, <2>3, ListAssumption DEF Ids
<1>3. Made(p) /\ p.cursor # Absent => p.cursor \in 1..minted
  BY DEF Made
<1> QED
  BY <1>1, <1>2, <1>3

LEMMA ListAnsweredTypes ==
    ASSUME Holds1, NEW k \in Calls, ListAnswered(k)
    PROVE  Holds1' /\ calls[k].answer \in Page /\ list' = [state |-> "data", page |-> calls[k].answer]
<1>1. PICK q : q = calls[k].answer
  OBVIOUS
<1>2. /\ calls[k].op = "list" /\ calls[k].pc = "answered" /\ Data(q.codes, q.cursor)
      /\ adrift' = calls[k].crossed /\ Over(k)
      /\ UNCHANGED <<serverVars, guest, loadingMore, details, blurred>>
  BY <1>1 DEF ListAnswered, At
<1>3. CallHolds(calls[k]) /\ calls[k] \in Call
  BY CallTyped DEF Holds1, StateHolds
<1>4. q \in Page /\ Made(q)
  BY <1>1, <1>2, <1>3 DEF CallHolds
<1>5. ListGoesOn /\ list'.state = "data"
  BY <1>2, <1>4, PageTyped, DataShows
<1>6. DetailsGoOn(k) /\ loadingMore' = (loadingMore /\ calls[k].op # "more")
  BY <1>2 DEF DetailsGoOn, Holds1, TypeOK
<1>7. adrift' \in BOOLEAN /\ blurred' \subseteq Ids
  BY <1>2, <1>3 DEF Call, Holds1, TypeOK
<1>8. list' = [state |-> "data", page |-> q]
  BY <1>2, <1>4, PageTyped DEF Data
<1> QED
  BY <1>1, <1>2, <1>4, <1>5, <1>6, <1>7, <1>8, EndStep

LEMMA ListFailedTypes ==
    ASSUME Holds1, NEW k \in Calls, ListFailed(k)
    PROVE  Holds1'
<1>1. /\ calls[k].op = "list" /\ list' = [list EXCEPT !.state = "error"] /\ Over(k)
      /\ UNCHANGED <<serverVars, guest, loadingMore, details, adrift, blurred>>
  BY DEF ListFailed, At
<1>2. ListGoesOn /\ list'.state = "error"
  BY <1>1 DEF ListGoesOn, Holds1, TypeOK
<1>3. DetailsGoOn(k) /\ loadingMore' = (loadingMore /\ calls[k].op # "more")
  BY <1>1 DEF DetailsGoOn, Holds1, TypeOK
<1>4. adrift' \in BOOLEAN /\ blurred' \subseteq Ids
  BY <1>1 DEF Holds1, TypeOK
<1> QED
  BY <1>1, <1>2, <1>3, <1>4, EndStep

\* What loadMore shows: the codes it read, and those it was sent.
LEMMA MoreAnsweredTypes ==
    ASSUME Holds1, NEW k \in Calls, MoreAnswered(k)
    PROVE  /\ Holds1' /\ calls[k].before \in Page /\ calls[k].answer \in Page
           /\ list'.state = "data" /\ list'.page \in Page /\ list'.page # Absent
           /\ list'.page.codes = calls[k].before.codes \o calls[k].answer.codes
           /\ list'.page.cursor = calls[k].answer.cursor
<1>1. PICK p, q : p = calls[k].before /\ q = calls[k].answer
  OBVIOUS
<1>2. PICK codes : codes = p.codes \o q.codes
  OBVIOUS
<1>3. /\ calls[k].op = "more" /\ calls[k].pc = "answered" /\ Data(codes, q.cursor)
      /\ loadingMore' = FALSE /\ Over(k)
      /\ UNCHANGED <<serverVars, guest, details, adrift, blurred>>
  BY <1>1, <1>2 DEF MoreAnswered, At
<1>4. CallHolds(calls[k])
  BY DEF Holds1, StateHolds
<1>5. p \in Page /\ q \in Page /\ Made(p) /\ Made(q)
  BY <1>1, <1>3, <1>4 DEF CallHolds
<1>6. /\ codes \in Seq(Item)
      /\ \A n \in DOMAIN codes : codes[n].id \in 1..minted
  <2>1. p.codes \in Seq(Item) /\ q.codes \in Seq(Item)
    BY <1>5, PageTyped
  <2>2. \A n \in DOMAIN p.codes : p.codes[n].id \in 1..minted
    BY <1>5, PageTyped
  <2>3. \A n \in DOMAIN q.codes : q.codes[n].id \in 1..minted
    BY <1>5, PageTyped
  <2>4. codes \in Seq(Item) /\ \A n \in DOMAIN codes :
           \/ n \in DOMAIN p.codes /\ codes[n] = p.codes[n]
           \/ \E m \in DOMAIN q.codes : codes[n] = q.codes[m]
    BY <1>2, <2>1, BothCodes
  <2> QED
    BY <2>2, <2>3, <2>4
<1>7. /\ ListGoesOn /\ list'.state = "data" /\ [codes |-> codes, cursor |-> q.cursor] \in Page
      /\ list'.page # Absent /\ list'.page = [codes |-> codes, cursor |-> q.cursor]
  BY <1>3, <1>5, <1>6, PageTyped, DataShows
<1>8. DetailsGoOn(k) /\ loadingMore' = (loadingMore /\ calls[k].op # "more")
  BY <1>3 DEF DetailsGoOn, Holds1, TypeOK
<1>9. adrift' \in BOOLEAN /\ blurred' \subseteq Ids
  BY <1>3 DEF Holds1, TypeOK
<1>10. Holds1'
  BY <1>3, <1>7, <1>8, <1>9, EndStep
<1>11. PICK r : r = list'.page
  OBVIOUS
<1>12. r \in Page /\ r # Absent /\ r.codes = codes /\ r.cursor = q.cursor
  BY <1>7, <1>11
<1> QED
  BY <1>1, <1>2, <1>5, <1>7, <1>10, <1>11, <1>12

LEMMA MoreFailedTypes ==
    ASSUME Holds1, NEW k \in Calls, MoreFailed(k)
    PROVE  Holds1'
<1>1. /\ calls[k].op = "more" /\ loadingMore' = FALSE /\ Over(k)
      /\ UNCHANGED <<serverVars, guest, list, details, adrift, blurred>>
  BY DEF MoreFailed, At
<1>2. ListGoesOn /\ DetailsGoOn(k) /\ loadingMore' = (loadingMore /\ calls[k].op # "more")
  BY <1>1 DEF ListGoesOn, DetailsGoOn, Holds1, TypeOK
<1>3. adrift' \in BOOLEAN /\ blurred' \subseteq Ids
  BY <1>1 DEF Holds1, TypeOK
<1> QED
  BY <1>1, <1>2, <1>3, EndStep

LEMMA WriteFailedTypes ==
    ASSUME Holds1, NEW k \in Calls, WriteFailed(k)
    PROVE  Holds1'
<1>1. /\ calls[k].op \in {"create", "delete"} /\ Over(k)
      /\ UNCHANGED <<serverVars, guest, list, loadingMore, details, adrift, blurred>>
  BY DEF WriteFailed, At
<1>2. ListGoesOn /\ DetailsGoOn(k) /\ loadingMore' = (loadingMore /\ calls[k].op # "more")
  BY <1>1 DEF ListGoesOn, DetailsGoOn, Holds1, TypeOK
<1>3. adrift' \in BOOLEAN /\ blurred' \subseteq Ids
  BY <1>1 DEF Holds1, TypeOK
<1> QED
  BY <1>1, <1>2, <1>3, EndStep

\* A screen shows its code, or fails.
LEMMA ScreenGoesOn ==
    ASSUME Holds1, NEW k \in Calls, calls[k].op \in {"get", "edit"},
           NEW state \in {"data", "error"}, NEW content \in Contents \cup {Absent},
           details' = [details EXCEPT ![calls[k].id] = [state |-> state, content |-> content]],
           calls[k].op = "edit" => content # Absent
    PROVE  DetailsGoOn(k) /\ details'[calls[k].id].state # "loading"
           /\ calls[k].id \in Ids /\ calls[k].id \in 1..minted
<1>1. PICK c : c = calls[k]
  OBVIOUS
<1>2. CallHolds(c)
  BY <1>1 DEF Holds1, StateHolds, CallHolds, Made
<1>3. c.id \in 1..minted /\ c.id \in Ids
  <2>1. c.id \in 1..minted
    BY <1>1, <1>2 DEF CallHolds
  <2> QED
    BY <2>1, ListAssumption DEF Ids, Holds1, TypeOK
<1>4. ASSUME NEW j \in Calls \ {k}, calls[j].op = "get"
      PROVE  calls[j].id # c.id
  <2>1. CASE c.op = "get"
    BY <1>1, <1>4, <2>1 DEF Holds1, StateHolds, Under
  <2>2. CASE c.op = "edit"
    <3>1. CallHolds(calls[j])
      BY DEF Holds1, StateHolds
    <3>2. details[calls[j].id].content = Absent /\ details[c.id].content # Absent
      BY <1>2, <1>4, <2>2, <3>1 DEF CallHolds
    <3> QED
      BY <3>2
  <2> QED
    BY <1>1, <2>1, <2>2
<1>5. details[c.id].content # Absent => content # Absent
  <2>1. CASE c.op = "get"
    BY <1>2, <2>1 DEF CallHolds
  <2> QED
    BY <1>1, <2>1
<1>6. DetailsGoOn(k)
  BY <1>1, <1>3, <1>4, <1>5 DEF DetailsGoOn
<1>7. details'[c.id].state = state
  BY <1>1, <1>3 DEF Holds1, TypeOK
<1> QED
  BY <1>1, <1>3, <1>6, <1>7

LEMMA GetAnsweredTypes ==
    ASSUME Holds1, NEW k \in Calls, GetAnswered(k)
    PROVE  Holds1' /\ calls[k].id \in Ids /\ calls[k].answer \in Item
           /\ calls[k].answer.id = calls[k].id
<1>1. /\ calls[k].op = "get" /\ calls[k].pc = "answered" /\ Show(calls[k].id, calls[k].answer.content)
      /\ Over(k) /\ UNCHANGED <<serverVars, guest, list, loadingMore, adrift, blurred>>
  BY DEF GetAnswered, At
<1>2. CallHolds(calls[k])
  BY DEF Holds1, StateHolds
<1>3. calls[k].answer \in Item /\ calls[k].answer.id = calls[k].id
  BY <1>1, <1>2 DEF CallHolds
<1>4. PICK content : content = calls[k].answer.content
  OBVIOUS
<1>5. content \in Contents
  BY <1>3, <1>4 DEF Item
<1>6. details' = [details EXCEPT ![calls[k].id] = [state |-> "data", content |-> content]]
  BY <1>1, <1>4 DEF Show
<1>7. DetailsGoOn(k) /\ details'[calls[k].id].state # "loading" /\ calls[k].id \in Ids
  BY <1>1, <1>5, <1>6, ScreenGoesOn
<1>8. ListGoesOn /\ loadingMore' = (loadingMore /\ calls[k].op # "more")
  BY <1>1 DEF ListGoesOn, Holds1, TypeOK
<1>9. adrift' \in BOOLEAN /\ blurred' \subseteq Ids
  BY <1>1 DEF Holds1, TypeOK
<1> QED
  BY <1>1, <1>3, <1>7, <1>8, <1>9, EndStep

LEMMA GetFailedTypes ==
    ASSUME Holds1, NEW k \in Calls, GetFailed(k)
    PROVE  Holds1' /\ calls[k].id \in Ids
           /\ details' = [details EXCEPT ![calls[k].id] = [state |-> "error", content |-> Absent]]
<1>1. /\ calls[k].op = "get" /\ details' = [details EXCEPT ![calls[k].id].state = "error"]
      /\ Over(k) /\ UNCHANGED <<serverVars, guest, list, loadingMore, adrift, blurred>>
  BY DEF GetFailed, At
<1>2. CallHolds(calls[k])
  BY DEF Holds1, StateHolds
<1>3. details[calls[k].id] = [state |-> "loading", content |-> Absent]
  BY <1>1, <1>2 DEF CallHolds
<1>4. details' = [details EXCEPT ![calls[k].id] = [state |-> "error", content |-> Absent]]
  <2>1. PICK i, d : i = calls[k].id /\ d = details[i]
    OBVIOUS
  <2>2. d = [state |-> "loading", content |-> Absent]
    BY <1>3, <2>1
  <2>3. [d EXCEPT !.state = "error"] = [state |-> "error", content |-> Absent]
    BY <2>2
  <2>4. details' = [details EXCEPT ![i] = [d EXCEPT !.state = "error"]]
    BY <1>1, <2>1
  <2> QED
    BY <2>1, <2>3, <2>4
<1>5. DetailsGoOn(k) /\ details'[calls[k].id].state # "loading" /\ calls[k].id \in Ids
  BY <1>1, <1>4, ScreenGoesOn
<1>6. ListGoesOn /\ loadingMore' = (loadingMore /\ calls[k].op # "more")
  BY <1>1 DEF ListGoesOn, Holds1, TypeOK
<1>7. adrift' \in BOOLEAN /\ blurred' \subseteq Ids
  BY <1>1 DEF Holds1, TypeOK
<1> QED
  BY <1>1, <1>4, <1>5, <1>6, <1>7, EndStep

LEMMA EditFailedTypes ==
    ASSUME Holds1, NEW k \in Calls, EditFailed(k)
    PROVE  Holds1' /\ calls[k].id \in Ids /\ calls[k].before \in Contents
<1>1. /\ calls[k].op = "edit" /\ Show(calls[k].id, calls[k].before)
      /\ Over(k) /\ UNCHANGED <<serverVars, guest, list, loadingMore, adrift, blurred>>
  BY DEF EditFailed, At
<1>2. CallHolds(calls[k])
  BY DEF Holds1, StateHolds
<1>3. PICK content : content = calls[k].before
  OBVIOUS
<1>4. content \in Contents /\ content # Absent
  BY <1>1, <1>2, <1>3, ListAssumption DEF CallHolds
<1>5. details' = [details EXCEPT ![calls[k].id] = [state |-> "data", content |-> content]]
  BY <1>1, <1>3 DEF Show
<1>6. DetailsGoOn(k) /\ details'[calls[k].id].state # "loading" /\ calls[k].id \in Ids
  BY <1>1, <1>4, <1>5, ScreenGoesOn
<1>7. ListGoesOn /\ loadingMore' = (loadingMore /\ calls[k].op # "more")
  BY <1>1 DEF ListGoesOn, Holds1, TypeOK
<1>8. adrift' \in BOOLEAN /\ blurred' \subseteq Ids
  BY <1>1 DEF Holds1, TypeOK
<1> QED
  BY <1>1, <1>3, <1>4, <1>6, <1>7, <1>8, EndStep

\* A code replaced on a list: the same codes, one of them as the answer has it.
LEMMA ReplacedIs ==
    ASSUME NEW codes \in Seq(Item), NEW item \in Item
    PROVE  /\ Replaced(codes, item) \in Seq(Item) /\ DOMAIN Replaced(codes, item) = DOMAIN codes
           /\ \A n \in DOMAIN codes :
                 /\ Replaced(codes, item)[n].id = codes[n].id
                 /\ codes[n].id # item.id => Replaced(codes, item)[n] = codes[n]
                 /\ codes[n].id = item.id => Replaced(codes, item)[n] = item
<1>1. PICK u : u = Replaced(codes, item)
  OBVIOUS
<1>2. u = [n \in 1..Len(codes) |-> IF codes[n].id = item.id THEN item ELSE codes[n]]
      /\ DOMAIN codes = 1..Len(codes) /\ Len(codes) \in Nat
  BY <1>1 DEF Replaced
<1>3. \A n \in 1..Len(codes) : codes[n] \in Item
  OBVIOUS
<1>4. u \in Seq(Item) /\ DOMAIN u = 1..Len(codes)
  BY <1>2, <1>3
<1> QED
  BY <1>1, <1>2, <1>4

LEMMA EditAnsweredTypes ==
    ASSUME Holds1, NEW k \in Calls, EditAnswered(k)
    PROVE  /\ Holds1' /\ calls[k].id \in Ids /\ calls[k].answer \in Item
           /\ calls[k].answer.id = calls[k].id
           /\ list.page = Absent => list' = list
           /\ list.page # Absent =>
                 /\ list'.page \in Page /\ list'.page # Absent /\ list'.page.cursor = list.page.cursor
                 /\ list'.page.codes = Replaced(list.page.codes, calls[k].answer)
<1>1. PICK item, p : item = calls[k].answer /\ p = list.page
  OBVIOUS
<1>2. /\ calls[k].op = "edit" /\ calls[k].pc = "answered" /\ Show(calls[k].id, item.content)
      /\ IF p = Absent THEN UNCHANGED list ELSE Data(Replaced(p.codes, item), p.cursor)
      /\ blurred' = IF calls[k].crossed THEN blurred ELSE blurred \ {calls[k].id}
      /\ Over(k) /\ UNCHANGED <<serverVars, guest, loadingMore, adrift>>
  BY <1>1 DEF EditAnswered, At
<1>3. CallHolds(calls[k])
  BY DEF Holds1, StateHolds
<1>4. item \in Item /\ item.id = calls[k].id
  BY <1>1, <1>2, <1>3 DEF CallHolds
<1>5. PICK content : content = item.content
  OBVIOUS
<1>6. content \in Contents /\ content # Absent
  BY <1>4, <1>5, ListAssumption DEF Item
<1>7. details' = [details EXCEPT ![calls[k].id] = [state |-> "data", content |-> content]]
  BY <1>2, <1>5 DEF Show
<1>8. DetailsGoOn(k) /\ calls[k].id \in Ids
  BY <1>2, <1>6, <1>7, ScreenGoesOn
<1>9. CASE p = Absent
  <2>1. ListGoesOn /\ list' = list
    BY <1>2, <1>9 DEF ListGoesOn
  <2>2. loadingMore' = (loadingMore /\ calls[k].op # "more")
    BY <1>2 DEF Holds1, TypeOK
  <2>3. adrift' \in BOOLEAN /\ blurred' \subseteq Ids
    BY <1>2 DEF Holds1, TypeOK
  <2>4. Holds1'
    BY <1>2, <1>8, <2>1, <2>2, <2>3, EndStep
  <2> QED
    BY <1>1, <1>4, <1>8, <1>9, <2>1, <2>4
<1>10. CASE p # Absent
  <2>1. p \in Page /\ Made(p)
    BY <1>1, <1>10 DEF Holds1, TypeOK, StateHolds
  <2>2. PICK codes, cursor : codes = p.codes /\ cursor = p.cursor
    OBVIOUS
  <2>3. /\ codes \in Seq(Item) /\ cursor \in Ids \cup {Absent}
        /\ \A n \in DOMAIN codes : codes[n].id \in 1..minted
        /\ cursor # Absent => cursor \in 1..minted
    BY <2>1, <2>2, PageTyped
  <2>4. PICK u : u = Replaced(codes, item)
    OBVIOUS
  <2>5. u \in Seq(Item) /\ \A n \in DOMAIN u : u[n].id \in 1..minted
    <3>1. u \in Seq(Item) /\ DOMAIN u = DOMAIN codes
      BY <1>4, <2>3, <2>4, ReplacedIs
    <3>2. \A n \in DOMAIN codes : u[n].id = codes[n].id
      BY <1>4, <2>3, <2>4, ReplacedIs
    <3> QED
      BY <2>3, <3>1, <3>2
  <2>6. Data(u, cursor)
    BY <1>2, <1>10, <2>2, <2>4
  <2>7. ListGoesOn /\ [codes |-> u, cursor |-> cursor] \in Page /\ list'.page # Absent
        /\ list'.page = [codes |-> u, cursor |-> cursor]
    BY <2>3, <2>5, <2>6, DataShows
  <2>8. PICK r : r = list'.page
    OBVIOUS
  <2>9. r \in Page /\ r # Absent /\ r.codes = u /\ r.cursor = cursor
    BY <2>7, <2>8
  <2>10. loadingMore' = (loadingMore /\ calls[k].op # "more")
    BY <1>2 DEF Holds1, TypeOK
  <2>11. adrift' \in BOOLEAN /\ blurred' \subseteq Ids
    BY <1>2 DEF Holds1, TypeOK
  <2>12. Holds1'
    BY <1>2, <1>8, <2>7, <2>10, <2>11, EndStep
  <2> QED
    BY <1>1, <1>4, <1>8, <1>10, <2>2, <2>4, <2>8, <2>9, <2>12
<1> QED
  BY <1>9, <1>10

LEMMA DeleteAnsweredTypes ==
    ASSUME Holds1, NEW k \in Calls, DeleteAnswered(k)
    PROVE  /\ Holds1'
           /\ list.page = Absent => list' = list
           /\ list.page # Absent =>
                 /\ list'.page \in Page /\ list'.page # Absent /\ list'.page.cursor = list.page.cursor
                 /\ list'.page.codes = Without(list.page.codes, calls[k].id)
<1>1. PICK i, p : i = calls[k].id /\ p = list.page
  OBVIOUS
<1>2. /\ calls[k].op = "delete"
      /\ IF p = Absent THEN UNCHANGED list ELSE Data(Without(p.codes, i), p.cursor)
      /\ Over(k) /\ UNCHANGED <<serverVars, guest, loadingMore, details, adrift, blurred>>
  BY <1>1 DEF DeleteAnswered, At
<1>3. DetailsGoOn(k) /\ loadingMore' = (loadingMore /\ calls[k].op # "more")
  BY <1>2 DEF DetailsGoOn, Holds1, TypeOK
<1>4. adrift' \in BOOLEAN /\ blurred' \subseteq Ids
  BY <1>2 DEF Holds1, TypeOK
<1>5. CASE p = Absent
  <2>1. ListGoesOn /\ list' = list
    BY <1>2, <1>5 DEF ListGoesOn
  <2>2. Holds1'
    BY <1>2, <1>3, <1>4, <2>1, EndStep
  <2> QED
    BY <1>1, <1>5, <2>1, <2>2
<1>6. CASE p # Absent
  <2>1. p \in Page /\ Made(p)
    BY <1>1, <1>6 DEF Holds1, TypeOK, StateHolds
  <2>2. PICK codes, cursor : codes = p.codes /\ cursor = p.cursor
    OBVIOUS
  <2>3. /\ codes \in Seq(Item) /\ cursor \in Ids \cup {Absent}
        /\ \A n \in DOMAIN codes : codes[n].id \in 1..minted
        /\ cursor # Absent => cursor \in 1..minted
    BY <2>1, <2>2, PageTyped
  <2>4. PICK u : u = Without(codes, i)
    OBVIOUS
  <2>5. u \in Seq(Item) /\ \A n \in DOMAIN u : \E m \in DOMAIN codes : u[n] = codes[m]
    <3>1. Without(codes, i) \in Seq(Item)
      BY <2>3, WithoutIs
    <3>2. \A n \in DOMAIN Without(codes, i) :
             \E m \in DOMAIN codes : Without(codes, i)[n] = codes[m] /\ codes[m].id # i
      BY <2>3, WithoutIs
    <3> QED
      BY <2>4, <3>1, <3>2
  <2>6. \A n \in DOMAIN u : u[n].id \in 1..minted
    BY <2>3, <2>5
  <2>7. Data(u, cursor)
    BY <1>2, <1>6, <2>2, <2>4
  <2>8. ListGoesOn /\ [codes |-> u, cursor |-> cursor] \in Page /\ list'.page # Absent
        /\ list'.page = [codes |-> u, cursor |-> cursor]
    BY <2>3, <2>5, <2>6, <2>7, DataShows
  <2>9. PICK r : r = list'.page
    OBVIOUS
  <2>10. r \in Page /\ r # Absent /\ r.codes = u /\ r.cursor = cursor
    BY <2>8, <2>9
  <2>11. Holds1'
    BY <1>2, <1>3, <1>4, <2>8, EndStep
  <2> QED
    BY <1>1, <1>6, <2>2, <2>4, <2>9, <2>10, <2>11
<1> QED
  BY <1>5, <1>6

-----------------------------------------------------------------------------
(* The user's steps *)

\* A call begins: what is to be shown of it, the list and the screens.
LEMMA BeginStep ==
    ASSUME Holds1, NEW k \in Calls, NEW new, NEW met, NEW op, NEW id, NEW content, NEW before,
           NEW amiss \in BOOLEAN,
           Begins(k, new, met, op, id, content, before, amiss),
           calls[k].op \in {"none", "create"}, UNCHANGED serverVars, UNCHANGED guest,
           list' \in [state : {"unread", "loading", "data", "error"}, page : Page \cup {Absent}],
           (list.page # Absent => Made(list.page))',
           list'.state \in {"unread", "data"} => (list'.page # Absent) = (list'.state = "data"),
           list'.state = "loading" => new.op = "list" \/ list.state = "loading",
           details' \in [Ids -> [state : {"unread", "loading", "data", "error"},
                                content : Contents \cup {Absent}]],
           \A i \in Ids : details'[i].state # "unread" => i <= minted,
           \A i \in Ids : details'[i].state = "unread" => details'[i].content = Absent,
           \A i \in Ids : details[i].content # Absent => details'[i].content # Absent,
           \A i \in Ids : details'[i].state = "loading" =>
               (new.op = "get" /\ new.id = i) \/ details[i].state = "loading",
           \A j \in Calls \ {k} :
               calls[j].op = "get" => details'[calls[j].id] = details[calls[j].id],
           new.op = "get" => \A j \in Calls \ {k} : calls[j].op = "get" => calls[j].id # new.id,
           blurred' \subseteq Ids,
           new.op = "create" => minted + Cardinality(Unserved) < MaxCodes,
           new.op # "more" => loadingMore' = loadingMore,
           new.op = "more" => ~loadingMore /\ loadingMore' = TRUE,
           CallHolds(new)'
    PROVE  Holds1'
<1>1. Turns(k, new, met) /\ new.op = op /\ new.id = id
  BY DEF Begins
<1>2. minted' = minted /\ server' = server /\ owners' = owners /\ guest' = guest
  BY DEF serverVars
<1>3. /\ minted' \in minted..MaxCodes
      /\ server' \in [Ids -> Contents \cup {Absent}]
      /\ \A i \in Ids : i > minted' => server'[i] = Absent
      /\ \A i \in 1..minted : server[i] = Absent => server'[i] = Absent
      /\ owners' \in [Ids -> Guests] /\ guest' \in Guests
  BY <1>2, ListAssumption DEF Holds1, TypeOK
<1>4. minted' + Cardinality(Unserved') <= MaxCodes
  BY <1>1, <1>2, UnservedFits
<1>5. list'.state = "loading" =>
          new.op = "list" \/ \E j \in Calls \ {k} : calls[j].op = "list"
  BY <1>1 DEF Holds1, NothingHangs, Under
<1>6. \A i \in Ids : details'[i].state = "loading" =>
          \/ new.op = "get" /\ new.id = i
          \/ \E j \in Calls \ {k} : calls[j].op = "get" /\ calls[j].id = i
  BY <1>1 DEF Holds1, NothingHangs, Under
<1>7. /\ loadingMore' = (new.op = "more" \/ \E j \in Calls \ {k} : calls[j].op = "more")
      /\ new.op = "more" => \A j \in Calls \ {k} : calls[j].op # "more"
  <2>1. loadingMore = (Under("more") # {}) /\ loadingMore \in BOOLEAN
    BY DEF Holds1, StateHolds, TypeOK
  <2>2. (Under("more") # {}) <=> \E j \in Calls \ {k} : calls[j].op = "more"
    BY DEF Under
  <2> QED
    BY <1>1, <2>1, <2>2
<1>8. adrift' \in BOOLEAN
  BY DEF Begins, Holds1, TypeOK
<1>9. /\ \A i \in Ids : details'[i].state # "unread" => i <= minted'
      /\ new.op = "get" => \A j \in Calls \ {k} : calls[j].op = "get" => calls[j].id # new.id
  BY <1>1, <1>2
<1> QED
  BY <1>1, <1>3, <1>4, <1>5, <1>6, <1>7, <1>8, <1>9, StateStep

\* The calls the user starts on the list and its screens as they are.
LEMMA StartStep ==
    ASSUME Holds1, NEW k \in Calls, NEW new, NEW met, NEW op, NEW id, NEW content, NEW before,
           Begins(k, new, met, op, id, content, before, FALSE),
           calls[k] = NoCall, UNCHANGED serverVars, UNCHANGED <<guest, list>>, DetailsGoOn(k),
           new.op # "get", blurred' \subseteq Ids,
           new.op = "create" => minted + Cardinality(Unserved) < MaxCodes,
           new.op # "more" => loadingMore' = loadingMore,
           new.op = "more" => ~loadingMore /\ loadingMore' = TRUE,
           CallHolds(new)'
    PROVE  Holds1'
<1>1. minted' = minted /\ calls[k].op = "none" /\ ListGoesOn /\ guest' = guest
  BY DEF serverVars, NoCall, ListGoesOn
<1>2. /\ list' \in [state : {"unread", "loading", "data", "error"}, page : Page \cup {Absent}]
      /\ (list.page # Absent => Made(list.page))'
      /\ list'.state \in {"unread", "data"} => (list'.page # Absent) = (list'.state = "data")
      /\ list' = list
  BY <1>1, ListTyped
<1>3. /\ details' \in [Ids -> [state : {"unread", "loading", "data", "error"},
                              content : Contents \cup {Absent}]]
      /\ \A i \in Ids : details'[i].state # "unread" => i <= minted
      /\ \A i \in Ids : details'[i].state = "unread" => details'[i].content = Absent
      /\ \A i \in Ids : details[i].content # Absent => details'[i].content # Absent
      /\ \A i \in Ids : details'[i].state = "loading" => details[i].state = "loading"
      /\ \A j \in Calls \ {k} :
            calls[j].op = "get" => details'[calls[j].id] = details[calls[j].id]
  BY DetailsTyped
<1> QED
  BY <1>1, <1>2, <1>3, BeginStep

LEMMA ListCallBegins ==
    ASSUME TypeOK, NEW k \in Calls, NEW amiss \in BOOLEAN, Put(k, ListCall, amiss)
    PROVE  \E new, met : Begins(k, new, met, "list", Absent, Absent, Absent, amiss)
<1>1. Put(k, NewCall("list", Absent, Absent, Absent), amiss)
  BY DEF ListCall
<1> QED
  BY <1>1, PutBegins

\* A list call tells of nothing yet.
LEMMA ListCallHolds ==
    ASSUME Holds1, NEW k \in Calls, NEW new, NEW met, NEW amiss,
           Begins(k, new, met, "list", Absent, Absent, Absent, amiss)
    PROVE  CallHolds(new)'
  BY DEF Begins, CallHolds, NoCall, Holds1, TypeOK

LEMMA WatchTypes ==
    ASSUME Holds1, NEW k \in Calls, Watch(k)
    PROVE  /\ Holds1' /\ calls[k].op = "none" /\ list.page = Absent /\ list'.page = Absent
           /\ \E new, met : Begins(k, new, met, "list", Absent, Absent, Absent, FALSE)
<1>1. /\ list.state = "unread" /\ calls[k] = NoCall /\ Put(k, ListCall, FALSE)
      /\ list' = [list EXCEPT !.state = "loading"]
      /\ UNCHANGED <<serverVars, guest, loadingMore, details>>
  BY DEF Watch, Start
<1>2. PICK new, met : Begins(k, new, met, "list", Absent, Absent, Absent, FALSE)
  BY <1>1, ListCallBegins DEF Holds1
<1>3. calls[k].op = "none" /\ minted' = minted
  BY <1>1 DEF NoCall, serverVars
<1>4. /\ list' \in [state : {"unread", "loading", "data", "error"}, page : Page \cup {Absent}]
      /\ list'.state = "loading" /\ list'.page = Absent /\ list.page = Absent
  BY <1>1 DEF Holds1, TypeOK, StateHolds
<1>5. DetailsGoOn(k)
  BY <1>1 DEF DetailsGoOn
<1>6. /\ details' \in [Ids -> [state : {"unread", "loading", "data", "error"},
                              content : Contents \cup {Absent}]]
      /\ \A i \in Ids : details'[i].state # "unread" => i <= minted
      /\ \A i \in Ids : details'[i].state = "unread" => details'[i].content = Absent
      /\ \A i \in Ids : details[i].content # Absent => details'[i].content # Absent
      /\ \A i \in Ids : details'[i].state = "loading" => details[i].state = "loading"
      /\ \A j \in Calls \ {k} :
            calls[j].op = "get" => details'[calls[j].id] = details[calls[j].id]
  BY <1>5, DetailsTyped
<1>7. (list.page # Absent => Made(list.page))'
  BY <1>4
<1>8. blurred' \subseteq Ids /\ new.op = "list" /\ new.id = Absent
  BY <1>2 DEF Begins, Holds1, TypeOK
<1>9. Holds1'
  BY <1>1, <1>2, <1>3, <1>4, <1>6, <1>7, <1>8, BeginStep, ListCallHolds
<1> QED
  BY <1>2, <1>3, <1>4, <1>9

LEMMA RefreshTypes ==
    ASSUME Holds1, NEW k \in Calls, Refresh(k)
    PROVE  Holds1' /\ \E new, met : Begins(k, new, met, "list", Absent, Absent, Absent, FALSE)
<1>1. /\ calls[k] = NoCall /\ Put(k, ListCall, FALSE)
      /\ UNCHANGED <<serverVars, guest, list, loadingMore, details>>
  BY DEF Refresh, Start
<1>2. PICK new, met : Begins(k, new, met, "list", Absent, Absent, Absent, FALSE)
  BY <1>1, ListCallBegins DEF Holds1
<1>3. DetailsGoOn(k)
  BY <1>1 DEF DetailsGoOn
<1>4. blurred' \subseteq Ids /\ new.op = "list" /\ new.id = Absent
  BY <1>2 DEF Begins, Holds1, TypeOK
<1> QED
  BY <1>1, <1>2, <1>3, <1>4, StartStep, ListCallHolds

LEMMA LoadMoreTypes ==
    ASSUME Holds1, NEW k \in Calls, LoadMore(k)
    PROVE  /\ Holds1' /\ list.page \in Page /\ list.page # Absent /\ list.page.cursor # Absent
           /\ \E new, met : Begins(k, new, met, "more", list.page.cursor, Absent, list.page, FALSE)
<1>1. /\ list.state = "data" /\ list.page.cursor # Absent /\ ~loadingMore /\ calls[k] = NoCall
      /\ Put(k, NewCall("more", list.page.cursor, Absent, list.page), FALSE)
      /\ loadingMore' = TRUE /\ UNCHANGED <<serverVars, guest, list, details>>
  BY DEF LoadMore, Start
<1>2. PICK p, cursor : p = list.page /\ cursor = p.cursor
  OBVIOUS
<1>3. p \in Page /\ p # Absent /\ Made(p)
  BY <1>1, <1>2 DEF Holds1, TypeOK, StateHolds
<1>4. cursor \in Ids /\ cursor \in 1..minted /\ cursor # Absent
  BY <1>1, <1>2, <1>3 DEF Page, Made
<1>5. PICK new, met : Begins(k, new, met, "more", cursor, Absent, p, FALSE)
  <2>1. Put(k, NewCall("more", cursor, Absent, p), FALSE)
    BY <1>1, <1>2
  <2> QED
    BY <1>3, <1>4, <2>1, PutBegins DEF Holds1
<1>6. DetailsGoOn(k)
  BY <1>1 DEF DetailsGoOn
<1>7. minted' = minted /\ guest' = guest
  BY <1>1 DEF serverVars
<1>8. CallHolds(new)'
  BY <1>2, <1>3, <1>4, <1>5, <1>7 DEF Begins, CallHolds, NoCall, Holds1, TypeOK, Made
<1>9. blurred' \subseteq Ids /\ new.op = "more" /\ new.id = cursor
  BY <1>5 DEF Begins, Holds1, TypeOK
<1>10. Holds1'
  BY <1>1, <1>5, <1>6, <1>8, <1>9, StartStep
<1> QED
  BY <1>2, <1>3, <1>4, <1>5, <1>10

LEMMA SaveTypes ==
    ASSUME Holds1, NEW k \in Calls, Save(k)
    PROVE  Holds1' /\ \E new, met : Begins(k, new, met, "create", Absent, Original, Absent, FALSE)
<1>1. /\ minted + Cardinality(Unserved) < MaxCodes /\ calls[k] = NoCall
      /\ Put(k, NewCall("create", Absent, Original, Absent), FALSE)
      /\ UNCHANGED <<serverVars, guest, list, loadingMore, details>>
  BY DEF Save, Start, Unserved
<1>2. PICK new, met : Begins(k, new, met, "create", Absent, Original, Absent, FALSE)
  BY <1>1, PutBegins, ListAssumption DEF Holds1, Writes
<1>3. DetailsGoOn(k)
  BY <1>1 DEF DetailsGoOn
<1>4. CallHolds(new)'
  BY <1>2, ListAssumption DEF Begins, CallHolds, NoCall, Holds1, TypeOK
<1>5. blurred' \subseteq Ids /\ new.op = "create" /\ new.id = Absent
  BY <1>2 DEF Begins, Holds1, TypeOK
<1> QED
  BY <1>1, <1>2, <1>3, <1>4, <1>5, StartStep

LEMMA DeleteTypes ==
    ASSUME Holds1, NEW k \in Calls, NEW i \in Ids, Delete(k, i)
    PROVE  Holds1' /\ \E new, met : Begins(k, new, met, "delete", i, Absent, Absent, FALSE)
<1>1. /\ details[i].content # Absent /\ calls[k] = NoCall
      /\ Put(k, NewCall("delete", i, Absent, Absent), FALSE)
      /\ UNCHANGED <<serverVars, guest, list, loadingMore, details>>
  BY DEF Delete, Start
<1>2. PICK new, met : Begins(k, new, met, "delete", i, Absent, Absent, FALSE)
  BY <1>1, PutBegins DEF Holds1, Writes
<1>3. DetailsGoOn(k)
  BY <1>1 DEF DetailsGoOn
<1>4. i \in 1..minted
  BY <1>1, ListAssumption DEF Holds1, TypeOK, StateHolds, Ids
<1>5. minted' = minted /\ details' = details /\ guest' = guest
  BY <1>1 DEF serverVars
<1>6. CallHolds(new)'
  BY <1>1, <1>2, <1>4, <1>5 DEF Begins, CallHolds, NoCall, Holds1, TypeOK
<1>7. blurred' \subseteq Ids /\ new.op = "delete" /\ new.id = i
  BY <1>2 DEF Begins, Holds1, TypeOK
<1> QED
  BY <1>1, <1>2, <1>3, <1>6, <1>7, StartStep

LEMMA EditTypes ==
    ASSUME Holds1, NEW k \in Calls, NEW i \in Ids, NEW c \in Contents, Edit(k, i, c)
    PROVE  /\ Holds1' /\ details[i].content \in Contents
           /\ \E new, met : Begins(k, new, met, "edit", i, c, details[i].content, FALSE)
<1>1. /\ details[i].content # Absent /\ calls[k] = NoCall
      /\ Put(k, NewCall("edit", i, c, details[i].content), FALSE)
      /\ details' = [details EXCEPT ![i] = [state |-> "data", content |-> c]]
      /\ UNCHANGED <<serverVars, guest, list, loadingMore>>
  BY DEF Edit, Start, Show
<1>2. PICK before : before = details[i].content
  OBVIOUS
<1>3. before \in Contents
  BY <1>1, <1>2 DEF Holds1, TypeOK
<1>4. PICK new, met : Begins(k, new, met, "edit", i, c, before, FALSE)
  BY <1>1, <1>2, <1>3, PutBegins DEF Holds1, Writes
<1>5. i \in 1..minted
  <2>1. i \in 1..MaxCodes /\ minted \in 0..MaxCodes
    BY DEF Holds1, TypeOK, Ids
  <2>2. details[i].state # "unread"
    BY <1>1 DEF Holds1, StateHolds
  <2>3. i <= minted
    BY <2>2 DEF Holds1, StateHolds
  <2> QED
    BY <2>1, <2>3, ListAssumption
<1>6. ASSUME NEW j \in Calls, calls[j].op = "get"
      PROVE  calls[j].id # i
  <2>1. CallHolds(calls[j])
    BY DEF Holds1, StateHolds
  <2>2. details[calls[j].id].content = Absent
    BY <1>6, <2>1 DEF CallHolds
  <2> QED
    BY <1>1, <2>2
<1>7. DetailsGoOn(k)
  BY <1>1, <1>5, <1>6, ListAssumption DEF DetailsGoOn
<1>8. minted' = minted /\ guest' = guest
  BY <1>1 DEF serverVars
<1>9. details'[i].content = c /\ c # Absent
  BY <1>1, ListAssumption DEF Holds1, TypeOK
<1>10. CallHolds(new)'
  BY <1>3, <1>4, <1>5, <1>8, <1>9 DEF Begins, CallHolds, NoCall, Holds1, TypeOK
<1>11. blurred' \subseteq Ids /\ new.op = "edit" /\ new.id = i
  BY <1>4 DEF Begins, Holds1, TypeOK
<1> QED
  BY <1>1, <1>2, <1>3, <1>4, <1>7, <1>10, <1>11, StartStep

LEMMA OpenTypes ==
    ASSUME Holds1, NEW k \in Calls, NEW i \in Ids, Open(k, i)
    PROVE  /\ Holds1'
           /\ details' = [details EXCEPT ![i] = [state |-> "loading", content |-> Absent]]
           /\ \E new, met : Begins(k, new, met, "get", i, Absent, Absent, FALSE)
<1>1. /\ list.page # Absent /\ i \in Listed(list.page) /\ details[i].state = "unread"
      /\ calls[k] = NoCall /\ Put(k, NewCall("get", i, Absent, Absent), FALSE)
      /\ details' = [details EXCEPT ![i].state = "loading"]
      /\ UNCHANGED <<serverVars, guest, list, loadingMore>>
  BY DEF Open, Start
<1>2. PICK new, met : Begins(k, new, met, "get", i, Absent, Absent, FALSE)
  BY <1>1, PutBegins DEF Holds1
<1>3. i \in 1..minted
  <2>1. Made(list.page)
    BY <1>1 DEF Holds1, StateHolds
  <2> QED
    BY <1>1, <2>1, ListAssumption DEF Made, Ids
<1>4. PICK d : d = [state |-> "loading", content |-> Absent]
  OBVIOUS
<1>5. details' = [details EXCEPT ![i] = d]
  <2>1. PICK old : old = details[i]
    OBVIOUS
  <2>2. old = [state |-> "unread", content |-> Absent]
    BY <1>1, <2>1 DEF Holds1, TypeOK, StateHolds
  <2>3. [old EXCEPT !.state = "loading"] = d
    BY <1>4, <2>2
  <2>4. details' = [details EXCEPT ![i] = [old EXCEPT !.state = "loading"]]
    BY <1>1, <2>1
  <2> QED
    BY <2>3, <2>4
<1>6. /\ d \in [state : {"unread", "loading", "data", "error"}, content : Contents \cup {Absent}]
      /\ d.state = "loading" /\ d.content = Absent
  BY <1>4
<1>7. /\ details' \in [Ids -> [state : {"unread", "loading", "data", "error"},
                              content : Contents \cup {Absent}]]
      /\ details'[i] = d /\ \A j \in Ids : j # i => details'[j] = details[j]
  BY <1>5, <1>6 DEF Holds1, TypeOK
<1>8. details[i].content = Absent
  BY <1>1 DEF Holds1, StateHolds
<1>9. ASSUME NEW j \in Calls, calls[j].op = "get"
      PROVE  calls[j].id # i /\ details'[calls[j].id] = details[calls[j].id]
  <2>1. CallHolds(calls[j])
    BY DEF Holds1, StateHolds
  <2>2. details[calls[j].id].state = "loading" /\ calls[j].id \in 1..minted
    BY <1>9, <2>1 DEF CallHolds
  <2>3. calls[j].id \in Ids
    BY <2>2, ListAssumption DEF Holds1, TypeOK, Ids
  <2> QED
    BY <1>1, <1>7, <2>2, <2>3
<1>10. /\ \A j \in Ids : details'[j].state # "unread" => j <= minted
       /\ \A j \in Ids : details'[j].state = "unread" => details'[j].content = Absent
       /\ \A j \in Ids : details[j].content # Absent => details'[j].content # Absent
       /\ \A j \in Ids : details'[j].state = "loading" => i = j \/ details[j].state = "loading"
  <2>1. i <= minted
    BY <1>3, ListAssumption DEF Holds1, TypeOK
  <2> QED
    BY <1>6, <1>7, <1>8, <2>1 DEF Holds1, StateHolds
<1>11. ListGoesOn /\ minted' = minted /\ guest' = guest /\ list' = list
  BY <1>1 DEF ListGoesOn, serverVars
<1>12. /\ list' \in [state : {"unread", "loading", "data", "error"}, page : Page \cup {Absent}]
       /\ (list.page # Absent => Made(list.page))'
       /\ list'.state \in {"unread", "data"} => (list'.page # Absent) = (list'.state = "data")
  BY <1>11, ListTyped
<1>13. /\ calls[k].op = "none" /\ UNCHANGED serverVars /\ loadingMore' = loadingMore
       /\ \A j \in Calls \ {k} : calls[j].op = "get" => calls[j].id # i
       /\ \A j \in Calls \ {k} :
             calls[j].op = "get" => details'[calls[j].id] = details[calls[j].id]
       /\ list'.state = "loading" => list.state = "loading"
  BY <1>1, <1>9 DEF NoCall
<1>14. CallHolds(new)'
  BY <1>2, <1>3, <1>4, <1>7, <1>11 DEF Begins, CallHolds, NoCall, Holds1, TypeOK
<1>15. blurred' \subseteq Ids /\ new.op = "get" /\ new.id = i
  BY <1>2 DEF Begins, Holds1, TypeOK
<1>16. Holds1'
  BY <1>2, <1>7, <1>10, <1>11, <1>12, <1>13, <1>14, <1>15, BeginStep
<1> QED
  BY <1>2, <1>4, <1>5, <1>16

\* optimisticallyAddCode, with or without the list's build.
LEMMA CreateAnsweredTypes ==
    ASSUME Holds1, NEW k \in Calls, CreateAnswered(k)
    PROVE  /\ Holds1' /\ calls[k].answer \in Item
           /\ list'.page \in Page /\ list'.page # Absent
           /\ list.page # Absent =>
                 /\ list'.page.codes = <<calls[k].answer>> \o list.page.codes
                 /\ list'.page.cursor = list.page.cursor
           /\ list.state = "unread" => list.page = Absent
                 /\ \E new, met : Begins(k, new, met, "list", Absent, Absent, Absent, TRUE)
<1>1. PICK item, p : item = calls[k].answer /\ p = list.page
  OBVIOUS
<1>2. /\ calls[k].op = "create" /\ calls[k].pc = "answered"
      /\ IF p = Absent THEN Data(<<item>>, Absent) ELSE Data(<<item>> \o p.codes, p.cursor)
      /\ IF list.state = "unread" THEN Put(k, ListCall, TRUE)
         ELSE Over(k) /\ adrift' = (adrift \/ p = Absent) /\ UNCHANGED blurred
      /\ UNCHANGED <<serverVars, guest, loadingMore, details>>
  BY <1>1 DEF CreateAnswered, At
<1>3. CallHolds(calls[k])
  BY DEF Holds1, StateHolds
<1>4. item \in Item /\ item.id \in 1..minted
  <2>1. item \in Item /\ item.id <= minted
    BY <1>1, <1>2, <1>3 DEF CallHolds
  <2> QED
    BY <2>1, ListAssumption DEF Item, Ids, Holds1, TypeOK
<1>5. PICK codes, cursor : codes = (IF p = Absent THEN <<item>> ELSE <<item>> \o p.codes)
                           /\ cursor = (IF p = Absent THEN Absent ELSE p.cursor)
  OBVIOUS
<1>6. p # Absent => /\ p \in Page /\ p.codes \in Seq(Item) /\ p.cursor \in Ids \cup {Absent}
                    /\ \A n \in DOMAIN p.codes : p.codes[n].id \in 1..minted
                    /\ p.cursor # Absent => p.cursor \in 1..minted
  <2> SUFFICES ASSUME p # Absent
               PROVE  /\ p \in Page /\ p.codes \in Seq(Item) /\ p.cursor \in Ids \cup {Absent}
                      /\ \A n \in DOMAIN p.codes : p.codes[n].id \in 1..minted
                      /\ p.cursor # Absent => p.cursor \in 1..minted
    OBVIOUS
  <2>1. p \in Page /\ Made(p)
    BY <1>1 DEF Holds1, TypeOK, StateHolds
  <2> QED
    BY <2>1, PageTyped
<1>7. <<item>> \in Seq(Item) /\ \A n \in DOMAIN <<item>> : <<item>>[n].id \in 1..minted
  BY <1>4
<1>8. /\ codes \in Seq(Item) /\ \A n \in DOMAIN codes : codes[n].id \in 1..minted
      /\ cursor \in Ids \cup {Absent} /\ (cursor # Absent => cursor \in 1..minted)
  <2>1. CASE p = Absent
    BY <1>5, <1>7, <2>1
  <2>2. CASE p # Absent
    <3>1. PICK s, t : s = <<item>> /\ t = p.codes
      OBVIOUS
    <3>2. s \in Seq(Item) /\ t \in Seq(Item) /\ codes = s \o t
      BY <1>5, <1>6, <1>7, <2>2, <3>1
    <3>3. codes \in Seq(Item) /\ \A n \in DOMAIN codes :
             \/ n \in DOMAIN s /\ codes[n] = s[n]
             \/ \E m \in DOMAIN t : codes[n] = t[m]
      BY <3>2, BothCodes
    <3> QED
      BY <1>5, <1>6, <1>7, <2>2, <3>1, <3>3
  <2> QED
    BY <2>1, <2>2
<1>9. Data(codes, cursor)
  BY <1>2, <1>5
<1>10. /\ ListGoesOn /\ list'.state = "data" /\ [codes |-> codes, cursor |-> cursor] \in Page
       /\ list'.page # Absent /\ list'.page = [codes |-> codes, cursor |-> cursor]
  BY <1>8, <1>9, DataShows
<1>11. DetailsGoOn(k) /\ loadingMore' = loadingMore /\ minted' = minted /\ guest' = guest
  BY <1>2 DEF DetailsGoOn, serverVars
<1>12. CASE list.state = "unread"
  <2>1. PICK new, met : Begins(k, new, met, "list", Absent, Absent, Absent, TRUE)
    BY <1>2, <1>12, ListCallBegins DEF Holds1
  <2>2. /\ list' \in [state : {"unread", "loading", "data", "error"}, page : Page \cup {Absent}]
        /\ (list.page # Absent => Made(list.page))'
        /\ list'.state \in {"unread", "data"} => (list'.page # Absent) = (list'.state = "data")
    BY <1>10, <1>11, ListTyped
  <2>3. /\ details' \in [Ids -> [state : {"unread", "loading", "data", "error"},
                                content : Contents \cup {Absent}]]
        /\ \A i \in Ids : details'[i].state # "unread" => i <= minted
        /\ \A i \in Ids : details'[i].state = "unread" => details'[i].content = Absent
        /\ \A i \in Ids : details[i].content # Absent => details'[i].content # Absent
        /\ \A i \in Ids : details'[i].state = "loading" => details[i].state = "loading"
        /\ \A j \in Calls \ {k} :
              calls[j].op = "get" => details'[calls[j].id] = details[calls[j].id]
    BY <1>11, DetailsTyped
  <2>4. blurred' \subseteq Ids /\ new.op = "list" /\ new.id = Absent
    BY <2>1 DEF Begins, Holds1, TypeOK
  <2>5. CallHolds(new)' /\ UNCHANGED serverVars /\ calls[k].op = "create"
    BY <1>2, <2>1, ListCallHolds
  <2>6. Holds1'
    BY <1>10, <1>11, <2>1, <2>2, <2>3, <2>4, <2>5, BeginStep
  <2>7. list.page = Absent
    BY <1>12 DEF Holds1, StateHolds
  <2>8. PICK r : r = list'.page
    OBVIOUS
  <2>9. r \in Page /\ r # Absent
    BY <1>10, <2>8
  <2> QED
    BY <1>1, <1>4, <2>1, <2>6, <2>7, <2>8, <2>9
<1>13. CASE list.state # "unread"
  <2>1. Over(k) /\ adrift' = (adrift \/ p = Absent) /\ blurred' = blurred
    BY <1>2, <1>13
  <2>2. loadingMore' = (loadingMore /\ calls[k].op # "more")
    BY <1>2 DEF Holds1, TypeOK
  <2>3. adrift' \in BOOLEAN /\ blurred' \subseteq Ids
    BY <2>1 DEF Holds1, TypeOK
  <2>4. Holds1'
    BY <1>2, <1>10, <1>11, <2>1, <2>2, <2>3, EndStep
  <2>5. PICK r : r = list'.page
    OBVIOUS
  <2>6. r \in Page /\ r # Absent /\ r.codes = codes /\ r.cursor = cursor
    BY <1>10, <2>5
  <2> QED
    BY <1>1, <1>4, <1>5, <1>13, <2>4, <2>5, <2>6
<1> QED
  BY <1>12, <1>13

\* Clear local data: of the calls, only that a reload was crossed changes.
LEMMA ClearKeeps ==
    ASSUME TypeOK, ClearLocalData, NEW j \in Calls
    PROVE  /\ calls' \in [Calls -> Call]
           /\ calls'[j].op = calls[j].op /\ calls'[j].pc = calls[j].pc
           /\ calls'[j].by = calls[j].by /\ calls'[j].id = calls[j].id
           /\ calls'[j].content = calls[j].content /\ calls'[j].before = calls[j].before
           /\ calls'[j].answer = calls[j].answer
           /\ calls[j].op = "list" => calls'[j].crossed
           /\ calls[j].op # "list" => calls'[j] = calls[j]
<1>1. /\ \A i \in Calls : calls'[i] = IF calls[i].op = "list" THEN [calls[i] EXCEPT !.crossed = TRUE]
                                     ELSE calls[i]
      /\ calls' = [i \in Calls |-> calls'[i]]
  BY DEF ClearLocalData, Under
<1>2. \A c \in Call : LET d == [c EXCEPT !.crossed = TRUE] IN
         /\ d \in Call /\ d.op = c.op /\ d.pc = c.pc /\ d.by = c.by /\ d.id = c.id
         /\ d.content = c.content /\ d.before = c.before /\ d.answer = c.answer /\ d.crossed
  BY DEF Call
<1>3. \A i \in Calls : calls[i] \in Call
  BY DEF TypeOK
<1>4. \A i \in Calls : calls'[i] \in Call
  BY <1>1, <1>2, <1>3
<1>5. calls' \in [Calls -> Call]
  BY <1>1, <1>4
<1>6. PICK c : c = calls[j]
  OBVIOUS
<1>7. CASE c.op = "list"
  <2>1. PICK d : d = [c EXCEPT !.crossed = TRUE]
    OBVIOUS
  <2>2. /\ d.op = c.op /\ d.pc = c.pc /\ d.by = c.by /\ d.id = c.id
        /\ d.content = c.content /\ d.before = c.before /\ d.answer = c.answer /\ d.crossed
    BY <1>2, <1>3, <1>6, <2>1
  <2>3. calls'[j] = d
    BY <1>1, <1>6, <1>7, <2>1
  <2> QED
    BY <1>5, <1>6, <1>7, <2>2, <2>3
<1>8. CASE c.op # "list"
  BY <1>1, <1>5, <1>6, <1>8
<1> QED
  BY <1>7, <1>8

LEMMA ClearTypes ==
    ASSUME Holds1, ClearLocalData
    PROVE  Holds1'
<1>1. /\ UNCHANGED <<serverVars, list, loadingMore, details, blurred>>
      /\ guest < MaxGuests /\ guest' = guest + 1 /\ adrift' = TRUE
  BY DEF ClearLocalData
<1>2. minted' = minted /\ server' = server /\ owners' = owners
  BY <1>1 DEF serverVars
<1>3. guest' \in Guests
  BY <1>1, ListAssumption DEF Guests, Holds1, TypeOK
<1>4. \A op : Under(op)' = Under(op)
  BY ClearKeeps DEF Under, Holds1
<1>5. Unserved' = Unserved
  BY <1>4, ClearKeeps DEF Unserved, Under, Holds1
<1>6. TypeOK'
  <2>1. calls' \in [Calls -> Call]
    <3>1. CASE Calls = {}
      BY <3>1 DEF ClearLocalData
    <3>2. CASE Calls # {}
      BY <3>2, ClearKeeps DEF Holds1
    <3> QED
      BY <3>1, <3>2
  <2>2. Cardinality(Under("more")') <= 1
    <3>1. Under("more")' = Under("more")
      BY <1>4
    <3> QED
      BY <3>1 DEF Holds1, TypeOK
  <2> QED
    BY <1>1, <1>2, <1>3, <2>1, <2>2 DEF Holds1, TypeOK
<1>7. \A j \in Calls : CallHolds(calls[j])'
  <2> SUFFICES ASSUME NEW j \in Calls
               PROVE  CallHolds(calls[j])'
    OBVIOUS
  <2>1. PICK c, d : c = calls[j] /\ d = calls'[j]
    OBVIOUS
  <2>2. CallHolds(c)
    BY <2>1 DEF Holds1, StateHolds, CallHolds, Made
  <2>3. /\ d.op = c.op /\ d.pc = c.pc /\ d.by = c.by /\ d.id = c.id /\ d.content = c.content
        /\ d.before = c.before /\ d.answer = c.answer /\ (c.op # "list" => d = c)
    BY <2>1, ClearKeeps DEF Holds1
  <2>4. (d = NoCall) = (c = NoCall)
    BY <2>3 DEF NoCall
  <2>5. CallHolds(d)'
    BY <1>1, <1>2, <2>2, <2>3, <2>4 DEF CallHolds, Made
  <2> QED
    BY <2>1, <2>5 DEF CallHolds, Made
<1>8. StateHolds'
  <2>1. (minted + Cardinality({j \in Under("create") : calls[j].pc = "sent"}) <= MaxCodes)'
    <3>1. (minted + Cardinality(Unserved) <= MaxCodes)'
      BY <1>2, <1>5 DEF Holds1, StateHolds, Unserved
    <3> QED
      BY <3>1 DEF Unserved
  <2>2. (list.page # Absent => Made(list.page))'
    BY <1>1, <1>2 DEF Holds1, StateHolds, Made
  <2>3. /\ (\A i, j \in Under("more") : i = j)'
        /\ (loadingMore = (Under("more") # {}))'
    <3>1. Under("more")' = Under("more") /\ loadingMore' = loadingMore
      BY <1>1, <1>4
    <3> QED
      BY <3>1 DEF Holds1, StateHolds
  <2>4. (\A i, j \in Under("get") : calls[i].id = calls[j].id => i = j)'
    <3>1. Under("get")' = Under("get") /\ \A j \in Calls : calls'[j].id = calls[j].id
      BY <1>4, ClearKeeps DEF Holds1
    <3> QED
      BY <3>1 DEF Holds1, StateHolds, Under
  <2>5. /\ (list.state \in {"unread", "data"} => (list.page # Absent) = (list.state = "data"))'
        /\ (\A i \in Ids : details[i].state # "unread" => i <= minted)'
        /\ (\A i \in Ids : details[i].state = "unread" => details[i].content = Absent)'
    BY <1>1, <1>2 DEF Holds1, StateHolds
  <2>6. (\A j \in Calls : CallHolds(calls[j]))'
    BY <1>7
  <2> QED
    BY <2>1, <2>2, <2>3, <2>4, <2>5, <2>6 DEF StateHolds
<1>9. NothingHangs'
  <2>1. /\ Under("list")' = Under("list") /\ Under("more")' = Under("more")
        /\ Under("get")' = Under("get") /\ \A j \in Calls : calls'[j].id = calls[j].id
    BY <1>4, ClearKeeps DEF Holds1
  <2>2. list' = list /\ loadingMore' = loadingMore /\ details' = details
    BY <1>1
  <2>3. (list.state = "loading" => Under("list") # {})' /\ (loadingMore => Under("more") # {})'
    BY <2>1, <2>2 DEF Holds1, NothingHangs
  <2>4. (\A i \in Ids : details[i].state = "loading" => \E k \in Under("get") : calls[k].id = i)'
    BY <2>1, <2>2 DEF Holds1, NothingHangs, Under
  <2> QED
    BY <2>3, <2>4 DEF NothingHangs
<1> QED
  BY <1>6, <1>8, <1>9 DEF Holds1

-----------------------------------------------------------------------------
(* Types, and that nothing loads for ever *)

LEMMA InitHolds1 == Init => Holds1
<1> SUFFICES ASSUME Init
             PROVE  Holds1
  OBVIOUS
<1>1. \A k \in Calls : calls[k] = NoCall
  BY DEF Init
<1>2. NoCall.op = "none"
  BY DEF NoCall
<1>3. \A op : op # "none" => Under(op) = {}
  BY <1>1, <1>2 DEF Under
<1>4. CallHolds(NoCall)
  BY DEF CallHolds, NoCall
<1>5. calls \in [Calls -> Call]
  BY NoCallTyped DEF Init
<1>6. Cardinality(Under("more")) <= 1
  BY <1>3, FS_EmptySet
<1>7. minted + Cardinality({j \in Under("create") : calls[j].pc = "sent"}) <= MaxCodes
  <2>1. PICK S : S = {j \in Under("create") : calls[j].pc = "sent"}
    OBVIOUS
  <2>2. S = {}
    BY <1>3, <2>1
  <2>3. minted + Cardinality(S) <= MaxCodes
    BY <2>2, FS_EmptySet, ListAssumption DEF Init
  <2> QED
    BY <2>1, <2>3
<1>8. TypeOK
  <2>1. 1 \in Guests
    BY ListAssumption DEF Guests
  <2>2. /\ list \in [state : {"unread", "loading", "data", "error"}, page : Page \cup {Absent}]
        /\ details \in [Ids -> [state : {"unread", "loading", "data", "error"},
                                content : Contents \cup {Absent}]]
        /\ server \in [Ids -> Contents \cup {Absent}]
        /\ \A i \in Ids : i > minted => server[i] = Absent
    BY ListAssumption DEF Init
  <2> QED
    BY <1>5, <1>6, <2>1, <2>2 DEF Init, TypeOK
<1>9. StateHolds
  <2>1. \A k \in Calls : CallHolds(calls[k])
    BY <1>1, <1>4
  <2>2. list.state = "unread" /\ list.page = Absent /\ loadingMore = FALSE
    BY DEF Init
  <2>3. \A i \in Ids : details[i].state = "unread" /\ details[i].content = Absent
    BY DEF Init
  <2>4. Under("more") = {} /\ Under("get") = {}
    BY <1>3
  <2> QED
    BY <1>7, <2>1, <2>2, <2>3, <2>4 DEF StateHolds
<1>10. NothingHangs
  BY DEF Init, NothingHangs
<1> QED
  BY <1>8, <1>9, <1>10 DEF Holds1

LEMMA StutterHolds1 == Holds1 /\ UNCHANGED vars => Holds1'
<1> SUFFICES ASSUME Holds1, UNCHANGED vars
             PROVE  Holds1'
  OBVIOUS
<1>1. TypeOK'
  BY DEF vars, Holds1, TypeOK, Under
<1>2. StateHolds'
  BY DEF vars, Holds1, StateHolds, CallHolds, Made, Under
<1>3. NothingHangs'
  BY DEF vars, Holds1, NothingHangs, Under
<1> QED
  BY <1>1, <1>2, <1>3 DEF Holds1

LEMMA NextHolds1 == Holds1 /\ [Next]_vars => Holds1'
<1> SUFFICES ASSUME Holds1, [Next]_vars
             PROVE  Holds1'
  OBVIOUS
<1>1. CASE UNCHANGED vars
  BY <1>1, StutterHolds1
<1>2. CASE ClearLocalData
  BY <1>2, ClearTypes
<1>3. ASSUME NEW k \in Calls, User(k)
      PROVE  Holds1'
  <2>1. Opened \subseteq Ids
    BY ListAssumption DEF Ids
  <2>2. CASE Watch(k)
    BY <2>2, WatchTypes
  <2>3. CASE Refresh(k)
    BY <2>3, RefreshTypes
  <2>4. CASE LoadMore(k)
    BY <2>4, LoadMoreTypes
  <2>5. CASE Save(k)
    BY <2>5, SaveTypes
  <2>6. ASSUME NEW i \in Opened, Open(k, i) \/ Delete(k, i)
        PROVE  Holds1'
    BY <2>1, <2>6, OpenTypes, DeleteTypes
  <2>7. ASSUME NEW i \in Opened, NEW c \in Contents, Edit(k, i, c)
        PROVE  Holds1'
    BY <2>1, <2>7, EditTypes
  <2> QED
    BY <1>3, <2>2, <2>3, <2>4, <2>5, <2>6, <2>7 DEF User
<1>4. ASSUME NEW k \in Calls, Progress(k)
      PROVE  Holds1'
  <2>1. CASE ServePage(k) \/ ServeCreate(k) \/ ServeEdit(k) \/ ServeRow(k) \/ ServeDelete(k)
    BY <2>1, ServePageTypes, ServeCreateTypes, ServeEditTypes, ServeRowTypes, ServeDeleteTypes
  <2>2. CASE NotFound(k) \/ Lose(k)
    BY <2>2, NotFoundTypes, LoseTypes
  <2>3. CASE ListAnswered(k) \/ ListFailed(k) \/ MoreAnswered(k) \/ MoreFailed(k)
    BY <2>3, ListAnsweredTypes, ListFailedTypes, MoreAnsweredTypes, MoreFailedTypes
  <2>4. CASE CreateAnswered(k) \/ GetAnswered(k) \/ GetFailed(k)
    BY <2>4, CreateAnsweredTypes, GetAnsweredTypes, GetFailedTypes
  <2>5. CASE EditAnswered(k) \/ EditFailed(k) \/ DeleteAnswered(k) \/ WriteFailed(k)
    BY <2>5, EditAnsweredTypes, EditFailedTypes, DeleteAnsweredTypes, WriteFailedTypes
  <2> QED
    BY <1>4, <2>1, <2>2, <2>3, <2>4, <2>5 DEF Progress
<1> QED
  BY <1>1, <1>2, <1>3, <1>4 DEF Next

LEMMA Holds1Always == Spec => []Holds1
<1>1. Init => Holds1
  BY InitHolds1
<1>2. Holds1 /\ [Next]_vars => Holds1'
  BY NextHolds1
<1> QED
  BY <1>1, <1>2, PTL DEF Spec

\* The app's and the server's state keep their types: loadMores are one at a time,
\* whatever fails and whenever the guest changes.
THEOREM ListTypes == Spec => []TypeOK
<1>1. Holds1 => TypeOK
  BY DEF Holds1
<1> QED
  BY <1>1, Holds1Always, PTL

\* Nothing loads for ever: what a screen shows as loading, and _loadingMore, belong to
\* a call under way.
THEOREM ListNeverHangs == Spec => []NothingHangs
<1>1. Holds1 => NothingHangs
  BY DEF Holds1
<1> QED
  BY <1>1, Holds1Always, PTL

-----------------------------------------------------------------------------
(* Calls that cross know it, and what edits and gets bring *)

Holds2 == Holds1 /\ CrossingsHold /\ EditsHold /\ DetailsAgree

\* Which calls cross: what they are decides, and the code they are about.
LEMMA CrossStep ==
    ASSUME Holds1, CrossingsHold, NEW k \in Calls, NEW new, NEW met, Turns(k, new, met),
           \A j \in Calls \ {k} : Crosses(calls[j], new) \/ Crosses(new, calls[j]) =>
               new.crossed /\ (j \in met \/ calls[j].crossed)
    PROVE  CrossingsHold'
<1>1. \A j \in Calls \ {k} : /\ calls'[j].op = calls[j].op /\ calls'[j].id = calls[j].id
                             /\ calls[j].crossed \/ j \in met => calls'[j].crossed
  BY OthersKeep DEF Holds1
<1>2. calls'[k] = new
  BY DEF Turns
<1>3. \A i, j \in Calls \ {k} : Crosses(calls[i], calls[j]) = Crosses(calls'[i], calls'[j])
  BY <1>1 DEF Crosses
<1>4. \A j \in Calls \ {k} : /\ Crosses(calls[j], new) = Crosses(calls'[j], calls'[k])
                             /\ Crosses(new, calls[j]) = Crosses(calls'[k], calls'[j])
  BY <1>1, <1>2 DEF Crosses
<1>5. ASSUME NEW i \in Calls, NEW j \in Calls, i # j, Crosses(calls'[i], calls'[j])
      PROVE  calls'[i].crossed /\ calls'[j].crossed
  <2>1. CASE i = k
    BY <1>1, <1>2, <1>4, <1>5, <2>1
  <2>2. CASE j = k
    BY <1>1, <1>2, <1>4, <1>5, <2>2
  <2>3. CASE i # k /\ j # k
    <3>1. Crosses(calls[i], calls[j])
      BY <1>3, <1>5, <2>3
    <3>2. calls[i].crossed /\ calls[j].crossed
      BY <1>5, <3>1 DEF CrossingsHold
    <3> QED
      BY <1>1, <2>3, <3>2
  <2> QED
    BY <2>1, <2>2, <2>3
<1>6. \A i, j \in Calls : i # j /\ Crosses(calls'[i], calls'[j]) => calls'[i].crossed /\ calls'[j].crossed
  BY <1>5
<1> QED
  BY <1>6 DEF CrossingsHold, Crosses

LEMMA CrossGoesOn ==
    ASSUME Holds1, CrossingsHold, NEW k \in Calls, NEW new, NEW pc, NEW answer,
           GoesOn(k, new, pc, answer)
    PROVE  CrossingsHold'
<1>1. Turns(k, new, {}) /\ new.op = calls[k].op /\ new.id = calls[k].id /\ new.crossed = calls[k].crossed
  BY DEF GoesOn
<1>2. \A j \in Calls \ {k} : /\ Crosses(calls[j], new) = Crosses(calls[j], calls[k])
                             /\ Crosses(new, calls[j]) = Crosses(calls[k], calls[j])
  BY <1>1 DEF Crosses
<1>3. \A j \in Calls \ {k} : Crosses(calls[j], new) \/ Crosses(new, calls[j]) =>
         new.crossed /\ calls[j].crossed
  BY <1>1, <1>2 DEF CrossingsHold
<1> QED
  BY <1>1, <1>3, CrossStep

LEMMA CrossOver ==
    ASSUME Holds1, CrossingsHold, NEW k \in Calls, Over(k)
    PROVE  CrossingsHold'
<1>1. PICK new : new = NoCall
  OBVIOUS
<1>2. Turns(k, new, {}) /\ new.op = "none"
  BY <1>1, OverTurns DEF Holds1, NoCall
<1>3. \A j \in Calls \ {k} : ~Crosses(calls[j], new) /\ ~Crosses(new, calls[j])
  BY <1>2 DEF Crosses, Writes
<1> QED
  BY <1>2, <1>3, CrossStep

LEMMA CrossBegins ==
    ASSUME Holds1, CrossingsHold, NEW k \in Calls, NEW new, NEW met, NEW op, NEW id, NEW content,
           NEW before, NEW amiss, Begins(k, new, met, op, id, content, before, amiss)
    PROVE  CrossingsHold'
<1>1. Turns(k, new, met) /\ new.crossed = (met # {})
      /\ \A j \in Calls \ {k} : j \in met <=> Crosses(calls[j], new) \/ Crosses(new, calls[j])
  BY DEF Begins
<1>2. \A j \in Calls \ {k} : Crosses(calls[j], new) \/ Crosses(new, calls[j]) =>
         new.crossed /\ (j \in met \/ calls[j].crossed)
  BY <1>1
<1> QED
  BY <1>1, <1>2, CrossStep

\* Two edits of a code under way: both crossed, and the code is blurred.
LEMMA EditsMeet ==
    ASSUME Holds2, NEW j \in Calls, NEW k \in Calls, j # k, calls[j].op = "edit",
           calls[k].op = "edit", calls[j].id = calls[k].id
    PROVE  calls[j].crossed /\ calls[k].crossed /\ calls[j].id \in blurred
<1>1. Crosses(calls[j], calls[k])
  BY DEF Crosses
<1> QED
  BY <1>1 DEF Holds2, CrossingsHold, EditsHold, Under

\* What a step leaves to be shown of edits and gets: of the slot it is about, and of the
\* others when it changes the server's rows or which codes are blurred.
LEMMA EditsStep ==
    ASSUME Holds2, NEW k \in Calls, NEW new, NEW met, Turns(k, new, met),
           \A j \in Calls \ {k} : calls[j].op = "edit" =>
               /\ owners'[calls[j].id] = owners[calls[j].id]
               /\ calls[j].id \in blurred => calls[j].id \in blurred'
               /\ \/ server'[calls[j].id] \in {server[calls[j].id], Absent}
                  \/ calls[j].id \in blurred' /\ calls'[j].crossed,
           \A j \in Calls \ {k} :
               calls[j].op = "get" => server'[calls[j].id] \in {server[calls[j].id], Absent},
           new.op = "edit" =>
               /\ \A j \in Calls \ {k} :
                     calls[j].op = "edit" /\ calls[j].id = new.id => new.id \in blurred'
               /\ EditHolds(new)',
           new.op = "get" /\ new.pc = "answered" => Has(new.id, new.answer.content)'
    PROVE  EditsHold'
<1>1. \A j \in Calls \ {k} :
         /\ calls'[j].op = calls[j].op /\ calls'[j].pc = calls[j].pc /\ calls'[j].by = calls[j].by
         /\ calls'[j].id = calls[j].id /\ calls'[j].before = calls[j].before
         /\ calls'[j].answer = calls[j].answer /\ (calls[j].crossed => calls'[j].crossed)
  BY OthersKeep DEF Holds2, Holds1
<1>2. calls'[k] = new
  BY DEF Turns
<1>3. ASSUME NEW i \in Calls, NEW j \in Calls, calls'[i].op = "edit", calls'[j].op = "edit",
             i # j, calls'[i].id = calls'[j].id
      PROVE  calls'[i].id \in blurred'
  <2>1. CASE i = k
    BY <1>1, <1>2, <1>3, <2>1
  <2>2. CASE j = k
    BY <1>1, <1>2, <1>3, <2>2
  <2>3. CASE i # k /\ j # k
    <3>1. calls[i].op = "edit" /\ calls[j].op = "edit" /\ calls[i].id = calls[j].id
      BY <1>1, <1>3, <2>3
    <3>2. calls[i].id \in blurred
      BY <1>3, <3>1, EditsMeet
    <3> QED
      BY <1>1, <2>3, <3>1, <3>2
  <2> QED
    BY <2>1, <2>2, <2>3
<1>4. ASSUME NEW j \in Calls, calls'[j].op = "edit"
      PROVE  EditHolds(calls[j])'
  <2>1. CASE j = k
    BY <1>2, <1>4, <2>1 DEF EditHolds, Has
  <2>2. CASE j # k
    <3>1. PICK c, d : c = calls[j] /\ d = calls'[j]
      OBVIOUS
    <3>2. /\ d.op = c.op /\ d.pc = c.pc /\ d.by = c.by /\ d.id = c.id /\ d.before = c.before
          /\ d.answer = c.answer /\ (c.crossed => d.crossed) /\ c.op = "edit"
      BY <1>1, <1>4, <2>2, <3>1
    <3>3. EditHolds(c)
      BY <3>1, <3>2 DEF Holds2, EditsHold, Under, EditHolds, Has
    <3>4. /\ owners'[c.id] = owners[c.id] /\ (c.id \in blurred => c.id \in blurred')
          /\ \/ server'[c.id] \in {server[c.id], Absent}
             \/ c.id \in blurred' /\ d.crossed
      BY <2>2, <3>1, <3>2
    <3>5. EditHolds(d)'
      <4>1. CASE server'[c.id] \in {server[c.id], Absent}
        BY <3>2, <3>3, <3>4, <4>1 DEF EditHolds, Has
      <4>2. CASE c.id \in blurred' /\ d.crossed
        BY <3>2, <3>3, <3>4, <4>2 DEF EditHolds, Has
      <4> QED
        BY <3>4, <4>1, <4>2
    <3> QED
      BY <3>1, <3>5 DEF EditHolds, Has
  <2> QED
    BY <2>1, <2>2
<1>5. ASSUME NEW j \in Calls, calls'[j].op = "get", calls'[j].pc = "answered"
      PROVE  server'[calls'[j].id] \in {calls'[j].answer.content, Absent}
  <2>1. CASE j = k
    BY <1>2, <1>5, <2>1 DEF Has
  <2>2. CASE j # k
    <3>1. Has(calls[j].id, calls[j].answer.content) /\ calls[j].op = "get"
      BY <1>1, <1>5, <2>2 DEF Holds2, EditsHold, At
    <3>2. server'[calls[j].id] \in {server[calls[j].id], Absent}
      BY <2>2, <3>1
    <3> QED
      BY <1>1, <2>2, <3>1, <3>2 DEF Has
  <2> QED
    BY <2>1, <2>2
<1>6. (\A i, j \in Under("edit") : i # j /\ calls[i].id = calls[j].id => calls[i].id \in blurred)'
  BY <1>3 DEF Under
<1>7. (\A j \in Under("edit") : EditHolds(calls[j]))'
  BY <1>4 DEF Under, EditHolds, Has
<1>8. (\A j \in Calls : At(j, "get", "answered") => Has(calls[j].id, calls[j].answer.content))'
  BY <1>5 DEF At, Has
<1> QED
  BY <1>6, <1>7, <1>8 DEF EditsHold

\* Of each screen: it stays as it was, it shows what the server has, or an edit of its
\* code is under way.
LEMMA DetailsStep ==
    ASSUME Holds2, NEW k \in Calls, NEW new, NEW met, Turns(k, new, met),
           \A i \in Ids :
               \/ /\ details'[i].content = details[i].content
                  /\ server'[i] \in {server[i], Absent}
                  /\ i \in blurred => i \in blurred'
                  /\ calls[k].op = "edit" /\ calls[k].id = i => new.op = "edit" /\ new.id = i
               \/ details'[i].content = Absent \/ i \in blurred'
               \/ server'[i] \in {details'[i].content, Absent}
               \/ new.op = "edit" /\ new.id = i
    PROVE  DetailsAgree'
<1>1. \A j \in Calls \ {k} : calls'[j].op = calls[j].op /\ calls'[j].id = calls[j].id
  BY OthersKeep DEF Holds2, Holds1
<1>2. calls'[k] = new
  BY DEF Turns
<1> SUFFICES ASSUME NEW i \in Ids, i \notin blurred', details'[i].content # Absent,
                    server'[i] # Absent, \A j \in Calls : ~(calls'[j].op = "edit" /\ calls'[j].id = i)
             PROVE  details'[i].content = server'[i]
  BY DEF DetailsAgree
<1>3. CASE server'[i] \in {details'[i].content, Absent}
  BY <1>3
<1>4. CASE /\ details'[i].content = details[i].content
           /\ server'[i] \in {server[i], Absent}
           /\ i \in blurred => i \in blurred'
           /\ calls[k].op = "edit" /\ calls[k].id = i => new.op = "edit" /\ new.id = i
  <2>1. \A j \in Calls : ~(calls[j].op = "edit" /\ calls[j].id = i)
    BY <1>1, <1>2, <1>4
  <2> QED
    BY <1>4, <2>1 DEF Holds2, DetailsAgree
<1> QED
  BY <1>2, <1>3, <1>4

\* A step about no edit and no get's answer, on the server's rows and the screens as they are.
LEMMA QuietStep ==
    ASSUME Holds2, Holds1', CrossingsHold', NEW k \in Calls, NEW new, NEW met, Turns(k, new, met),
           UNCHANGED <<serverVars, details, blurred>>, calls[k].op # "edit", new.op # "edit",
           ~(new.op = "get" /\ new.pc = "answered")
    PROVE  Holds2'
<1>1. server' = server /\ owners' = owners /\ details' = details /\ blurred' = blurred
  BY DEF serverVars
<1>2. EditsHold'
  BY <1>1, EditsStep
<1>3. DetailsAgree'
  BY <1>1, DetailsStep
<1> QED
  BY <1>2, <1>3 DEF Holds2

LEMMA QuietOver ==
    ASSUME Holds2, Holds1', NEW k \in Calls, Over(k), UNCHANGED <<serverVars, details, blurred>>,
           calls[k].op # "edit"
    PROVE  Holds2'
<1>1. PICK new : new = NoCall
  OBVIOUS
<1>2. Turns(k, new, {}) /\ new.op = "none"
  BY <1>1, OverTurns DEF NoCall, Holds2, Holds1
<1>3. CrossingsHold'
  BY CrossOver DEF Holds2
<1> QED
  BY <1>2, <1>3, QuietStep

LEMMA QuietBegins ==
    ASSUME Holds2, Holds1', NEW k \in Calls, NEW new, NEW met, NEW op, NEW id, NEW content,
           NEW before, NEW amiss, Begins(k, new, met, op, id, content, before, amiss), op # "edit",
           UNCHANGED <<serverVars, details>>, calls[k].op # "edit"
    PROVE  Holds2'
<1>1. Turns(k, new, met) /\ new.op = op /\ new.pc = "sent" /\ blurred' = blurred
  BY DEF Begins
<1>2. CrossingsHold'
  BY CrossBegins DEF Holds2
<1> QED
  BY <1>1, <1>2, QuietStep

LEMMA EndsAgree ==
    ASSUME Holds2, Holds1', NEW k \in Calls,
           \/ ListAnswered(k) \/ ListFailed(k) \/ MoreAnswered(k) \/ MoreFailed(k)
           \/ DeleteAnswered(k) \/ WriteFailed(k)
    PROVE  Holds2'
<1>1. /\ calls[k].op # "edit" /\ Over(k)
      /\ UNCHANGED <<serverVars, details, blurred>>
  BY DEF ListAnswered, ListFailed, MoreAnswered, MoreFailed, DeleteAnswered, WriteFailed, At
<1> QED
  BY <1>1, QuietOver

LEMMA CreateAnsweredAgrees ==
    ASSUME Holds2, Holds1', NEW k \in Calls, CreateAnswered(k)
    PROVE  Holds2'
<1>1. calls[k].op # "edit" /\ UNCHANGED <<serverVars, details>>
  BY DEF CreateAnswered, At
<1>2. CASE list.state = "unread"
  <2>1. PICK new, met : Begins(k, new, met, "list", Absent, Absent, Absent, TRUE)
    BY <1>2, CreateAnsweredTypes DEF Holds2
  <2> QED
    BY <1>1, <2>1, QuietBegins
<1>3. CASE list.state # "unread"
  <2>1. Over(k) /\ UNCHANGED <<serverVars, details, blurred>>
    BY <1>3 DEF CreateAnswered
  <2> QED
    BY <1>1, <2>1, QuietOver
<1> QED
  BY <1>2, <1>3

\* The user's steps but Open and Edit.
LEMMA StartsAgree ==
    ASSUME Holds2, Holds1', NEW k \in Calls,
           Watch(k) \/ Refresh(k) \/ LoadMore(k) \/ Save(k) \/ \E i \in Ids : Delete(k, i)
    PROVE  Holds2'
<1>1. calls[k] = NoCall /\ UNCHANGED <<serverVars, details>>
  BY DEF Watch, Refresh, LoadMore, Save, Delete, Start
<1>2. calls[k].op # "edit"
  BY <1>1 DEF NoCall
<1>3. \E new, met, op, id, content, before :
         op # "edit" /\ Begins(k, new, met, op, id, content, before, FALSE)
  <2>1. CASE Watch(k) \/ Refresh(k)
    <3>1. \E new, met : Begins(k, new, met, "list", Absent, Absent, Absent, FALSE)
      BY <2>1, WatchTypes, RefreshTypes DEF Holds2
    <3> QED
      BY <3>1
  <2>2. CASE LoadMore(k)
    <3>1. \E new, met : Begins(k, new, met, "more", list.page.cursor, Absent, list.page, FALSE)
      BY <2>2, LoadMoreTypes DEF Holds2
    <3> QED
      BY <3>1
  <2>3. CASE Save(k)
    <3>1. \E new, met : Begins(k, new, met, "create", Absent, Original, Absent, FALSE)
      BY <2>3, SaveTypes DEF Holds2
    <3> QED
      BY <3>1
  <2>4. ASSUME NEW i \in Ids, Delete(k, i)
        PROVE  \E new, met, op, id, content, before :
                  op # "edit" /\ Begins(k, new, met, op, id, content, before, FALSE)
    <3>1. \E new, met : Begins(k, new, met, "delete", i, Absent, Absent, FALSE)
      BY <2>4, DeleteTypes DEF Holds2
    <3> QED
      BY <3>1
  <2> QED
    BY <2>1, <2>2, <2>3, <2>4
<1> QED
  BY <1>1, <1>2, <1>3, QuietBegins

LEMMA OpenAgrees ==
    ASSUME Holds2, Holds1', NEW k \in Calls, NEW i \in Ids, Open(k, i)
    PROVE  Holds2'
<1>1. PICK new, met : Begins(k, new, met, "get", i, Absent, Absent, FALSE)
  BY OpenTypes DEF Holds2
<1>2. Turns(k, new, met) /\ new.op = "get" /\ new.pc = "sent" /\ blurred' = blurred
  BY <1>1 DEF Begins
<1>3. calls[k].op = "none" /\ server' = server /\ owners' = owners
  BY DEF Open, Start, NoCall, serverVars
<1>4. PICK d : d = [state |-> "loading", content |-> Absent]
  OBVIOUS
<1>5. details' = [details EXCEPT ![i] = d] /\ d.content = Absent
  BY <1>4, OpenTypes DEF Holds2
<1>6. \A j \in Ids : details'[j].content = Absent \/ details'[j].content = details[j].content
  BY <1>5 DEF Holds2, Holds1, TypeOK
<1>7. CrossingsHold'
  BY <1>1, CrossBegins DEF Holds2
<1>8. EditsHold'
  BY <1>2, <1>3, EditsStep
<1>9. DetailsAgree'
  BY <1>2, <1>3, <1>6, DetailsStep
<1> QED
  BY <1>7, <1>8, <1>9 DEF Holds2

\* An edit reads what the screen shows; another edit under way blurs the code.
LEMMA EditAgrees ==
    ASSUME Holds2, Holds1', NEW k \in Calls, NEW i \in Ids, NEW c \in Contents, Edit(k, i, c)
    PROVE  Holds2'
<1>1. PICK new, met : Begins(k, new, met, "edit", i, c, details[i].content, FALSE)
  BY EditTypes DEF Holds2
<1>2. /\ Turns(k, new, met) /\ new.op = "edit" /\ new.pc = "sent" /\ new.id = i
      /\ new.before = details[i].content
      /\ \A j \in Calls \ {k} : j \in met <=> Crosses(calls[j], new) \/ Crosses(new, calls[j])
      /\ blurred' = blurred \cup {j \in {i} : \E m \in met : calls[m].op = "edit"}
  BY <1>1 DEF Begins
<1>3. /\ calls[k].op = "none" /\ server' = server /\ owners' = owners /\ details[i].content # Absent
      /\ details' = [details EXCEPT ![i] = [state |-> "data", content |-> c]]
  BY DEF Edit, Start, NoCall, serverVars, Show
<1>4. \A j \in Calls \ {k} : calls[j].op = "edit" /\ calls[j].id = i => j \in met /\ i \in blurred'
  <2>1. \A j \in Calls \ {k} : calls[j].op = "edit" /\ calls[j].id = i => Crosses(calls[j], new)
    BY <1>2 DEF Crosses
  <2>2. \A j \in Calls \ {k} : calls[j].op = "edit" /\ calls[j].id = i => j \in met
    BY <1>2, <2>1
  <2>3. ASSUME NEW j \in met, calls[j].op = "edit"
        PROVE  i \in blurred'
    BY <1>2, <2>3
  <2> QED
    BY <2>2, <2>3
<1>5. blurred \subseteq blurred'
  BY <1>2
<1>6. i \notin blurred' => server[i] \in {details[i].content, Absent}
  <2>1. ASSUME i \notin blurred'
        PROVE  \A j \in Calls : ~(calls[j].op = "edit" /\ calls[j].id = i)
    BY <1>3, <1>4, <2>1
  <2> QED
    BY <1>3, <1>5, <2>1 DEF Holds2, DetailsAgree
<1>7. EditHolds(new)'
  BY <1>2, <1>3, <1>6 DEF EditHolds, Has
<1>8. EditsHold'
  BY <1>2, <1>3, <1>4, <1>5, <1>7, EditsStep
<1>9. \A j \in Ids : j = i \/ details'[j].content = details[j].content
  BY <1>3 DEF Holds2, Holds1, TypeOK
<1>10. DetailsAgree'
  BY <1>2, <1>3, <1>5, <1>9, DetailsStep
<1>11. CrossingsHold'
  BY <1>1, CrossBegins DEF Holds2
<1> QED
  BY <1>8, <1>10, <1>11 DEF Holds2

\* What a call is about was made, and is one of the codes.
LEMMA CallIds ==
    ASSUME Holds1, NEW k \in Calls, calls[k].op \in {"more", "edit", "get", "delete"}
    PROVE  calls[k].id \in 1..minted /\ calls[k].id \in Ids /\ calls[k].id # minted + 1
<1>1. CallHolds(calls[k])
  BY DEF Holds1, StateHolds
<1>2. calls[k].id \in 1..minted
  BY <1>1 DEF CallHolds
<1> QED
  BY <1>2, ListAssumption DEF Holds1, TypeOK, Ids

LEMMA ServePageAgrees ==
    ASSUME Holds2, Holds1', NEW k \in Calls, ServePage(k)
    PROVE  Holds2'
<1>1. PICK new : GoesOn(k, new, "answered", PageAfter(calls[k].by, calls[k].id))
  BY ServePageTypes DEF Holds2
<1>2. /\ calls[k].op \in {"list", "more"} /\ UNCHANGED <<serverVars, details, blurred>>
  BY DEF ServePage, At, client
<1>3. Turns(k, new, {}) /\ new.op \in {"list", "more"}
  BY <1>1, <1>2 DEF GoesOn
<1>4. CrossingsHold'
  BY <1>1, CrossGoesOn DEF Holds2
<1> QED
  BY <1>2, <1>3, <1>4, QuietStep

LEMMA ServeCreateAgrees ==
    ASSUME Holds2, Holds1', NEW k \in Calls, ServeCreate(k)
    PROVE  Holds2'
<1>1. PICK item : item = [id |-> minted + 1, content |-> calls[k].content]
  OBVIOUS
<1>2. PICK new : GoesOn(k, new, "answered", item)
  BY <1>1, ServeCreateTypes DEF Holds2
<1>3. /\ calls[k].op = "create"
      /\ server' = [server EXCEPT ![minted + 1] = calls[k].content]
      /\ owners' = [owners EXCEPT ![minted + 1] = calls[k].by]
      /\ details' = details /\ blurred' = blurred
  BY DEF ServeCreate, At, client
<1>4. Turns(k, new, {}) /\ new.op = "create"
  BY <1>2, <1>3 DEF GoesOn
<1>5. \A i \in Ids : i # minted + 1 => server'[i] = server[i] /\ owners'[i] = owners[i]
  BY <1>3 DEF Holds2, Holds1, TypeOK
<1>6. \A j \in Calls : calls[j].op \in {"edit", "get"} =>
         server'[calls[j].id] = server[calls[j].id] /\ owners'[calls[j].id] = owners[calls[j].id]
  BY <1>5, CallIds DEF Holds2
<1>7. EditsHold'
  BY <1>3, <1>4, <1>6, EditsStep
<1>8. details[minted + 1].content = Absent \/ minted + 1 \notin Ids
  <2>1. minted + 1 \in Ids => details[minted + 1].state = "unread"
    BY ListAssumption DEF Holds2, Holds1, TypeOK, StateHolds
  <2> QED
    BY <2>1 DEF Holds2, Holds1, StateHolds
<1>9. DetailsAgree'
  <2>1. \A i \in Ids : \/ details'[i].content = details[i].content /\ server'[i] = server[i]
                       \/ details'[i].content = Absent
    BY <1>3, <1>5, <1>8
  <2> QED
    BY <1>3, <1>4, <2>1, DetailsStep
<1>10. CrossingsHold'
  BY <1>2, CrossGoesOn DEF Holds2
<1> QED
  BY <1>7, <1>9, <1>10 DEF Holds2

\* The other edits of the code were crossed by this one, and it is blurred; no get of it
\* is under way, for its screen shows it.
LEMMA ServeEditAgrees ==
    ASSUME Holds2, Holds1', NEW k \in Calls, ServeEdit(k)
    PROVE  Holds2'
<1>1. PICK new : GoesOn(k, new, "written", calls[k].answer) /\ new.by = calls[k].by
  BY ServeEditTypes DEF Holds2
<1>2. PICK id : id = calls[k].id
  OBVIOUS
<1>3. /\ calls[k].op = "edit" /\ Found(k)
      /\ server' = [server EXCEPT ![id] = calls[k].content]
      /\ owners' = owners /\ details' = details /\ blurred' = blurred
  BY <1>2 DEF ServeEdit, At, client
<1>4. Turns(k, new, {}) /\ new.op = "edit" /\ new.id = id /\ new.pc = "written"
  BY <1>1, <1>2, <1>3 DEF GoesOn
<1>5. \A i \in Ids : i # id => server'[i] = server[i]
  BY <1>3 DEF Holds2, Holds1, TypeOK
<1>6. ASSUME NEW j \in Calls \ {k}, calls[j].op = "edit"
      PROVE  \/ server'[calls[j].id] = server[calls[j].id]
             \/ calls[j].id \in blurred' /\ calls'[j].crossed
  <2>1. CASE calls[j].id = id
    <3>1. calls[j].crossed /\ id \in blurred
      BY <1>2, <1>3, <1>6, <2>1, EditsMeet
    <3>2. calls'[j] = calls[j]
      BY <1>4, OthersKeep DEF Holds2, Holds1
    <3> QED
      BY <1>3, <2>1, <3>1, <3>2
  <2>2. CASE calls[j].id # id
    BY <1>5, <1>6, <2>2, CallIds DEF Holds2
  <2> QED
    BY <2>1, <2>2
<1>7. ASSUME NEW j \in Calls, calls[j].op = "get"
      PROVE  server'[calls[j].id] = server[calls[j].id]
  <2>1. CallHolds(calls[j]) /\ CallHolds(calls[k])
    BY DEF Holds2, Holds1, StateHolds
  <2>2. details[calls[j].id].content = Absent /\ details[id].content # Absent
    BY <1>2, <1>3, <1>7, <2>1 DEF CallHolds
  <2>3. calls[j].id # id /\ calls[j].id \in Ids
    BY <1>7, <2>2, CallIds DEF Holds2
  <2> QED
    BY <1>5, <2>3
<1>8. EditHolds(new)' /\ \A j \in Calls \ {k} :
         calls[j].op = "edit" /\ calls[j].id = new.id => new.id \in blurred'
  <2>1. owners'[new.id] = new.by
    BY <1>1, <1>2, <1>3, <1>4 DEF Found, Live
  <2>2. EditHolds(new)'
    BY <1>4, <2>1 DEF EditHolds
  <2>3. ASSUME NEW j \in Calls \ {k}, calls[j].op = "edit", calls[j].id = new.id
        PROVE  new.id \in blurred'
    BY <1>2, <1>3, <1>4, <2>3, EditsMeet
  <2> QED
    BY <2>2, <2>3
<1>9. EditsHold'
  BY <1>3, <1>4, <1>6, <1>7, <1>8, EditsStep
<1>10. DetailsAgree'
  <2>1. \A i \in Ids : \/ details'[i].content = details[i].content /\ server'[i] = server[i]
                          /\ calls[k].id # i
                       \/ new.op = "edit" /\ new.id = i
    BY <1>2, <1>3, <1>4, <1>5
  <2> QED
    BY <1>3, <1>4, <2>1, DetailsStep
<1>11. CrossingsHold'
  BY <1>1, CrossGoesOn DEF Holds2
<1> QED
  BY <1>9, <1>10, <1>11 DEF Holds2

\* A call goes on, and the server's rows stay or go.
LEMMA GoesOnAgrees ==
    ASSUME Holds2, Holds1', NEW k \in Calls, NEW new, NEW pc, NEW answer,
           GoesOn(k, new, pc, answer), owners' = owners, details' = details,
           blurred \subseteq blurred',
           \A i \in Ids : server'[i] \in {server[i], Absent},
           new.op = "edit" => EditHolds(new)',
           new.op = "get" /\ new.pc = "answered" => Has(new.id, new.answer.content)'
    PROVE  Holds2'
<1>1. Turns(k, new, {}) /\ new.op = calls[k].op /\ new.id = calls[k].id
  BY DEF GoesOn
<1>2. \A j \in Calls : calls[j].op \in {"edit", "get"} =>
         server'[calls[j].id] \in {server[calls[j].id], Absent}
  BY CallIds DEF Holds2
<1>3. ASSUME new.op = "edit", NEW j \in Calls \ {k}, calls[j].op = "edit", calls[j].id = new.id
      PROVE  new.id \in blurred'
  BY <1>1, <1>3, EditsMeet
<1>4. EditsHold'
  BY <1>1, <1>2, <1>3, EditsStep
<1>5. DetailsAgree'
  BY <1>1, DetailsStep
<1>6. CrossingsHold'
  BY CrossGoesOn DEF Holds2
<1> QED
  BY <1>4, <1>5, <1>6 DEF Holds2

LEMMA ServeRowAgrees ==
    ASSUME Holds2, Holds1', NEW k \in Calls, ServeRow(k)
    PROVE  Holds2'
<1>1. PICK item : item = [id |-> calls[k].id, content |-> server[calls[k].id]]
  OBVIOUS
<1>2. PICK new : GoesOn(k, new, "answered", item)
  BY <1>1, ServeRowTypes DEF Holds2
<1>3. /\ calls[k].op \in {"edit", "get"}
      /\ server' = server /\ owners' = owners /\ details' = details /\ blurred' = blurred
  BY DEF ServeRow, At, client, serverVars
<1>4. new.pc = "answered" /\ new.answer.content = server'[new.id]
  BY <1>1, <1>2, <1>3 DEF GoesOn
<1>5. EditHolds(new)' /\ Has(new.id, new.answer.content)'
  BY <1>4 DEF EditHolds, Has
<1> QED
  BY <1>2, <1>3, <1>5, GoesOnAgrees

LEMMA ServeDeleteAgrees ==
    ASSUME Holds2, Holds1', NEW k \in Calls, ServeDelete(k)
    PROVE  Holds2'
<1>1. PICK new : GoesOn(k, new, "answered", Absent)
  BY ServeDeleteTypes DEF Holds2
<1>2. /\ calls[k].op = "delete" /\ server' = [server EXCEPT ![calls[k].id] = Absent]
      /\ owners' = owners /\ details' = details /\ blurred' = blurred
  BY DEF ServeDelete, At, client
<1>3. new.op = "delete"
  BY <1>1, <1>2 DEF GoesOn
<1>4. \A i \in Ids : server'[i] \in {server[i], Absent}
  BY <1>2 DEF Holds2, Holds1, TypeOK
<1> QED
  BY <1>1, <1>2, <1>3, <1>4, GoesOnAgrees

\* A 404: the code is gone, or belongs to another guest, who could not have written it.
LEMMA NotFoundAgrees ==
    ASSUME Holds2, Holds1', NEW k \in Calls, NotFound(k)
    PROVE  Holds2'
<1>1. PICK new : GoesOn(k, new, "lost", Absent)
  BY NotFoundTypes DEF Holds2
<1>2. /\ ~Found(k) /\ server' = server /\ owners' = owners /\ details' = details
      /\ blurred' = blurred /\ calls[k].pc \in {"sent", "written"}
      /\ calls[k].op \in {"edit", "get", "delete"}
  BY DEF NotFound, At, client, serverVars
<1>3. PICK c : c = calls[k]
  OBVIOUS
<1>4. new.op = c.op /\ new.pc = "lost" /\ new.id = c.id /\ new.before = c.before
  BY <1>1, <1>3 DEF GoesOn
<1>5. ASSUME new.op = "edit"
      PROVE  EditHolds(new)'
  <2>1. EditHolds(c)
    BY <1>3, <1>4, <1>5 DEF Holds2, EditsHold, Under, EditHolds, Has
  <2>2. CASE c.pc = "sent"
    BY <1>2, <1>4, <2>1, <2>2 DEF EditHolds, Has
  <2>3. CASE c.pc = "written"
    <3>1. owners[c.id] = c.by /\ c.id \in Ids
      BY <1>3, <1>4, <1>5, <2>1, <2>3, CallIds DEF EditHolds, Holds2
    <3>2. server[c.id] = Absent
      BY <1>2, <1>3, <3>1 DEF Found, Live
    <3> QED
      BY <1>2, <1>4, <3>2 DEF EditHolds, Has
  <2> QED
    BY <1>2, <1>3, <2>2, <2>3
<1> QED
  BY <1>1, <1>2, <1>4, <1>5, GoesOnAgrees

\* A lost answer of an edit that was carried out blurs its code.
LEMMA LoseAgrees ==
    ASSUME Holds2, Holds1', NEW k \in Calls, Lose(k)
    PROVE  Holds2'
<1>1. PICK new : GoesOn(k, new, "lost", Absent)
  BY LoseTypes DEF Holds2
<1>2. PICK c : c = calls[k]
  OBVIOUS
<1>3. /\ server' = server /\ owners' = owners /\ details' = details
      /\ blurred' = blurred \cup {i \in {c.id} : c.op = "edit" /\ c.pc # "sent"}
  <2>1. /\ UNCHANGED <<serverVars, guest, list, loadingMore, details>>
        /\ blurred' = blurred \cup {i \in {c.id} : (c.op \in Writes /\ c.pc # "sent") /\ c.op = "edit"}
    BY <1>2 DEF Lose
  <2> QED
    BY <2>1 DEF serverVars, Writes
<1>4. new.op = c.op /\ new.pc = "lost" /\ new.id = c.id /\ new.before = c.before
  BY <1>1, <1>2 DEF GoesOn
<1>5. ASSUME new.op = "edit"
      PROVE  EditHolds(new)'
  <2>1. EditHolds(c)
    BY <1>2, <1>4, <1>5 DEF Holds2, EditsHold, Under, EditHolds, Has
  <2>2. CASE c.pc = "sent"
    BY <1>3, <1>4, <2>1, <2>2 DEF EditHolds, Has
  <2>3. CASE c.pc # "sent"
    BY <1>3, <1>4, <1>5, <2>3 DEF EditHolds
  <2> QED
    BY <2>2, <2>3
<1> QED
  BY <1>1, <1>3, <1>4, <1>5, GoesOnAgrees

\* An edit or a get ends: its screen shows what the server has, or nothing.
LEMMA ScreenAgrees ==
    ASSUME Holds2, Holds1', NEW k \in Calls, Over(k), UNCHANGED serverVars,
           calls[k].op \in {"edit", "get"},
           NEW state \in {"data", "error"}, NEW content \in Contents \cup {Absent},
           details' = [details EXCEPT ![calls[k].id] = [state |-> state, content |-> content]],
           \A j \in Calls \ {k} : calls[j].op = "edit" /\ calls[j].id \in blurred =>
               calls[j].id \in blurred',
           \A i \in Ids : i # calls[k].id /\ i \in blurred => i \in blurred',
           \/ content = Absent \/ calls[k].id \in blurred'
           \/ server[calls[k].id] \in {content, Absent}
    PROVE  Holds2'
<1>1. PICK new : new = NoCall
  OBVIOUS
<1>2. Turns(k, new, {}) /\ new.op = "none"
  BY <1>1, OverTurns DEF NoCall, Holds2, Holds1
<1>3. server' = server /\ owners' = owners
  BY DEF serverVars
<1>4. PICK id, d : id = calls[k].id /\ d = [state |-> state, content |-> content]
  OBVIOUS
<1>5. details' = [details EXCEPT ![id] = d] /\ d.content = content
  BY <1>4
<1>6. \A i \in Ids : IF i = id THEN details'[i].content = content
                     ELSE details'[i].content = details[i].content
  BY <1>5 DEF Holds2, Holds1, TypeOK
<1>7. CrossingsHold'
  BY CrossOver DEF Holds2
<1>8. EditsHold'
  BY <1>2, <1>3, EditsStep
<1>9. DetailsAgree'
  <2>1. ASSUME NEW i \in Ids
        PROVE  \/ /\ details'[i].content = details[i].content
                  /\ server'[i] \in {server[i], Absent}
                  /\ i \in blurred => i \in blurred'
                  /\ calls[k].op = "edit" /\ calls[k].id = i => new.op = "edit" /\ new.id = i
               \/ details'[i].content = Absent \/ i \in blurred'
               \/ server'[i] \in {details'[i].content, Absent}
    <3>1. CASE i = id
      BY <1>3, <1>4, <1>6, <3>1
    <3>2. CASE i # id
      BY <1>3, <1>4, <1>6, <3>2
    <3> QED
      BY <3>1, <3>2
  <2> QED
    BY <1>2, <2>1, DetailsStep
<1> QED
  BY <1>7, <1>8, <1>9 DEF Holds2

LEMMA GetAnsweredAgrees ==
    ASSUME Holds2, Holds1', NEW k \in Calls, GetAnswered(k)
    PROVE  Holds2'
<1>1. /\ calls[k].op = "get" /\ calls[k].pc = "answered" /\ Over(k)
      /\ UNCHANGED serverVars /\ blurred' = blurred
  BY DEF GetAnswered, At
<1>2. PICK content : content = calls[k].answer.content
  OBVIOUS
<1>3. content \in Contents
  <2>1. calls[k].answer \in Item
    BY GetAnsweredTypes DEF Holds2
  <2> QED
    BY <1>2, <2>1 DEF Item
<1>4. details' = [details EXCEPT ![calls[k].id] = [state |-> "data", content |-> content]]
  BY <1>2 DEF GetAnswered, Show
<1>5. server[calls[k].id] \in {content, Absent}
  BY <1>1, <1>2 DEF Holds2, EditsHold, At, Has
<1> QED
  BY <1>1, <1>3, <1>4, <1>5, ScreenAgrees

LEMMA GetFailedAgrees ==
    ASSUME Holds2, Holds1', NEW k \in Calls, GetFailed(k)
    PROVE  Holds2'
<1>1. /\ calls[k].op = "get" /\ Over(k) /\ UNCHANGED serverVars /\ blurred' = blurred
  BY DEF GetFailed, At
<1>2. details' = [details EXCEPT ![calls[k].id] = [state |-> "error", content |-> Absent]]
  BY GetFailedTypes DEF Holds2
<1> QED
  BY <1>1, <1>2, ScreenAgrees

\* The row the server sent: an edit that crossed none makes its code clear again.
LEMMA EditAnsweredAgrees ==
    ASSUME Holds2, Holds1', NEW k \in Calls, EditAnswered(k)
    PROVE  Holds2'
<1>1. /\ calls[k].op = "edit" /\ calls[k].pc = "answered" /\ Over(k) /\ UNCHANGED serverVars
      /\ blurred' = IF calls[k].crossed THEN blurred ELSE blurred \ {calls[k].id}
  BY DEF EditAnswered, At
<1>2. PICK content : content = calls[k].answer.content
  OBVIOUS
<1>3. content \in Contents
  <2>1. calls[k].answer \in Item
    BY EditAnsweredTypes DEF Holds2
  <2> QED
    BY <1>2, <2>1 DEF Item
<1>4. details' = [details EXCEPT ![calls[k].id] = [state |-> "data", content |-> content]]
  BY <1>2 DEF EditAnswered, Show
<1>5. EditHolds(calls[k])
  BY <1>1 DEF Holds2, EditsHold, Under, EditHolds, Has
<1>6. calls[k].id \in blurred' \/ server[calls[k].id] \in {content, Absent}
  BY <1>1, <1>2, <1>5 DEF EditHolds, Has
<1>7. ASSUME NEW j \in Calls \ {k}, calls[j].op = "edit", calls[j].id \in blurred
      PROVE  calls[j].id \in blurred'
  <2>1. CASE calls[j].id = calls[k].id
    <3>1. calls[k].crossed
      BY <1>1, <1>7, <2>1, EditsMeet
    <3> QED
      BY <1>1, <1>7, <3>1
  <2>2. CASE calls[j].id # calls[k].id
    BY <1>1, <1>7, <2>2
  <2> QED
    BY <2>1, <2>2
<1>8. \A i \in Ids : i # calls[k].id /\ i \in blurred => i \in blurred'
  BY <1>1
<1> QED
  BY <1>1, <1>3, <1>4, <1>6, <1>7, <1>8, ScreenAgrees

LEMMA EditFailedAgrees ==
    ASSUME Holds2, Holds1', NEW k \in Calls, EditFailed(k)
    PROVE  Holds2'
<1>1. /\ calls[k].op = "edit" /\ calls[k].pc = "lost" /\ Over(k) /\ UNCHANGED serverVars
      /\ blurred' = blurred
  BY DEF EditFailed, At
<1>2. PICK content : content = calls[k].before
  OBVIOUS
<1>3. content \in Contents
  BY <1>2, EditFailedTypes DEF Holds2
<1>4. details' = [details EXCEPT ![calls[k].id] = [state |-> "data", content |-> content]]
  BY <1>2 DEF EditFailed, Show
<1>5. EditHolds(calls[k])
  BY <1>1 DEF Holds2, EditsHold, Under, EditHolds, Has
<1>6. calls[k].id \in blurred' \/ server[calls[k].id] \in {content, Absent}
  BY <1>1, <1>2, <1>5 DEF EditHolds, Has
<1> QED
  BY <1>1, <1>3, <1>4, <1>6, ScreenAgrees

LEMMA ClearAgrees ==
    ASSUME Holds2, Holds1', ClearLocalData
    PROVE  Holds2'
<1>1. server' = server /\ owners' = owners /\ details' = details /\ blurred' = blurred
  BY DEF ClearLocalData, serverVars
<1>2. \A j \in Calls : /\ calls'[j].op = calls[j].op /\ calls'[j].id = calls[j].id
                       /\ calls'[j].pc = calls[j].pc /\ calls'[j].answer = calls[j].answer
                       /\ calls'[j] = calls[j] \/ calls'[j].crossed
                       /\ calls[j].op # "list" => calls'[j] = calls[j]
  BY ClearKeeps DEF Holds2, Holds1
<1>3. CrossingsHold'
  BY <1>2 DEF Holds2, CrossingsHold, Crosses
<1>4. EditsHold'
  <2>1. (\A i, j \in Under("edit") : i # j /\ calls[i].id = calls[j].id => calls[i].id \in blurred)'
    BY <1>1, <1>2 DEF Holds2, EditsHold, Under
  <2>2. (\A j \in Under("edit") : EditHolds(calls[j]))'
    BY <1>1, <1>2 DEF Holds2, EditsHold, Under, EditHolds, Has
  <2>3. (\A j \in Calls : At(j, "get", "answered") => Has(calls[j].id, calls[j].answer.content))'
    BY <1>1, <1>2 DEF Holds2, EditsHold, At, Has
  <2> QED
    BY <2>1, <2>2, <2>3 DEF EditsHold
<1>5. DetailsAgree'
  BY <1>1, <1>2 DEF Holds2, DetailsAgree
<1> QED
  BY <1>3, <1>4, <1>5 DEF Holds2

LEMMA StutterHolds2 == Holds2 /\ UNCHANGED vars => Holds2'
<1> SUFFICES ASSUME Holds2, UNCHANGED vars
             PROVE  Holds2'
  OBVIOUS
<1>1. Holds1'
  BY StutterHolds1 DEF Holds2
<1>2. CrossingsHold' /\ DetailsAgree'
  BY DEF vars, Holds2, CrossingsHold, Crosses, DetailsAgree
<1>3. EditsHold'
  BY DEF vars, Holds2, EditsHold, EditHolds, Has, Under, At
<1> QED
  BY <1>1, <1>2, <1>3 DEF Holds2

LEMMA InitHolds2 == Init => Holds2
<1> SUFFICES ASSUME Init
             PROVE  Holds2
  OBVIOUS
<1>1. \A k \in Calls : calls[k].op = "none"
  BY DEF Init, NoCall
<1>2. CrossingsHold
  BY <1>1 DEF CrossingsHold, Crosses, Writes
<1>3. EditsHold
  BY <1>1 DEF EditsHold, Under, At
<1>4. DetailsAgree
  BY DEF Init, DetailsAgree
<1> QED
  BY <1>2, <1>3, <1>4, InitHolds1 DEF Holds2

LEMMA NextHolds2 == Holds2 /\ [Next]_vars => Holds2'
<1> SUFFICES ASSUME Holds2, [Next]_vars
             PROVE  Holds2'
  OBVIOUS
<1>1. Holds1'
  BY NextHolds1 DEF Holds2
<1>2. CASE UNCHANGED vars
  BY <1>2, StutterHolds2
<1>3. CASE ClearLocalData
  BY <1>1, <1>3, ClearAgrees
<1>4. ASSUME NEW k \in Calls, User(k)
      PROVE  Holds2'
  <2>1. Opened \subseteq Ids
    BY ListAssumption DEF Ids
  <2>2. CASE Watch(k) \/ Refresh(k) \/ LoadMore(k) \/ Save(k)
    BY <1>1, <2>2, StartsAgree
  <2>3. ASSUME NEW i \in Opened, Open(k, i) \/ Delete(k, i)
        PROVE  Holds2'
    BY <1>1, <2>1, <2>3, OpenAgrees, StartsAgree
  <2>4. ASSUME NEW i \in Opened, NEW c \in Contents, Edit(k, i, c)
        PROVE  Holds2'
    BY <1>1, <2>1, <2>4, EditAgrees
  <2> QED
    BY <1>4, <2>2, <2>3, <2>4 DEF User
<1>5. ASSUME NEW k \in Calls, Progress(k)
      PROVE  Holds2'
  <2>1. CASE ServePage(k) \/ ServeCreate(k) \/ ServeEdit(k) \/ ServeRow(k) \/ ServeDelete(k)
    BY <1>1, <2>1, ServePageAgrees, ServeCreateAgrees, ServeEditAgrees, ServeRowAgrees,
       ServeDeleteAgrees
  <2>2. CASE NotFound(k) \/ Lose(k)
    BY <1>1, <2>2, NotFoundAgrees, LoseAgrees
  <2>3. CASE \/ ListAnswered(k) \/ ListFailed(k) \/ MoreAnswered(k) \/ MoreFailed(k)
             \/ DeleteAnswered(k) \/ WriteFailed(k)
    BY <1>1, <2>3, EndsAgree
  <2>4. CASE CreateAnswered(k) \/ GetAnswered(k) \/ GetFailed(k)
    BY <1>1, <2>4, CreateAnsweredAgrees, GetAnsweredAgrees, GetFailedAgrees
  <2>5. CASE EditAnswered(k) \/ EditFailed(k)
    BY <1>1, <2>5, EditAnsweredAgrees, EditFailedAgrees
  <2> QED
    BY <1>5, <2>1, <2>2, <2>3, <2>4, <2>5 DEF Progress
<1> QED
  BY <1>2, <1>3, <1>4, <1>5 DEF Next

LEMMA Holds2Always == Spec => []Holds2
<1>1. Init => Holds2
  BY InitHolds2
<1>2. Holds2 /\ [Next]_vars => Holds2'
  BY NextHolds2
<1> QED
  BY <1>1, <1>2, PTL DEF Spec

\* A code's screen shows what the server has, or what its edits under way will make of it,
\* unless two edits crossed or an answer was lost, and none went well since.
THEOREM ScreensAgree == Spec => []DetailsAgree
<1>1. Holds2 => DetailsAgree
  BY DEF Holds2
<1> QED
  BY <1>1, Holds2Always, PTL

-----------------------------------------------------------------------------
(* The list *)

\* A reload that crossed nothing is alone with the list.
LEMMA ReloadAlone ==
    ASSUME Holds2, NEW k \in Calls, calls[k].op = "list", ~calls[k].crossed, NEW j \in Calls
    PROVE  calls[j].op \notin Writes \cup {"more"}
<1>1. calls[j].op \in Writes \cup {"more"} => j # k /\ Crosses(calls[k], calls[j])
  BY DEF Crosses, Writes
<1> QED
  BY <1>1 DEF Holds2, CrossingsHold

\* So are a loadMore and the writes, as long as the list is not adrift.
LEMMA WriteAlone ==
    ASSUME Inv, ~adrift, NEW k \in Calls, NEW j \in Calls, j # k,
           calls[k].op \in Writes \cup {"more"}
    PROVE  /\ Apart(calls[k])
           /\ calls[k].op \in Writes => calls[j].op # "more"
           /\ calls[k].op = "more" => calls[j].op \notin Writes \cup {"more"}
           /\ calls[k].op = "create" => calls[j].op # "create"
           /\ calls[k].op = "edit" => ~(calls[j].op = "edit" /\ calls[j].id = calls[k].id)
<1>1. Apart(calls[k]) /\ ~calls[k].crossed
  BY DEF Inv, ListHolds, Apart
<1>2. ~Crosses(calls[k], calls[j]) /\ ~Crosses(calls[j], calls[k])
  BY <1>1 DEF Inv, CrossingsHold
<1>3. calls[k].op = "more" => calls[j].op # "more"
  BY DEF Inv, StateHolds, Under
<1> QED
  BY <1>1, <1>2, <1>3 DEF Crosses, Writes

\* What a call under way has yet to tell the list of.
Comes(c, i) == c.op = "create" /\ c.pc = "answered" /\ c.answer.id = i
Changes(c, i) == c.op = "edit" /\ c.pc \in {"written", "answered"} /\ c.id = i
Goes(c, i) == c.op = "delete" /\ c.pc = "answered" /\ c.id = i

LEMMA ToldOf ==
    ASSUME TypeOK, NEW k \in Calls, NEW new, NEW met, Turns(k, new, met), NEW i
    PROVE  /\ i \in Coming <=> Comes(calls[k], i) \/ \E j \in Calls \ {k} : Comes(calls[j], i)
           /\ i \in Coming' <=> Comes(new, i) \/ \E j \in Calls \ {k} : Comes(calls[j], i)
           /\ i \in Changing <=> Changes(calls[k], i) \/ \E j \in Calls \ {k} : Changes(calls[j], i)
           /\ i \in Changing' <=> Changes(new, i) \/ \E j \in Calls \ {k} : Changes(calls[j], i)
           /\ i \in Going <=> Goes(calls[k], i) \/ \E j \in Calls \ {k} : Goes(calls[j], i)
           /\ i \in Going' <=> Goes(new, i) \/ \E j \in Calls \ {k} : Goes(calls[j], i)
<1>1. \A j \in Calls \ {k} : /\ calls'[j].op = calls[j].op /\ calls'[j].pc = calls[j].pc
                             /\ calls'[j].id = calls[j].id /\ calls'[j].answer = calls[j].answer
  BY OthersKeep
<1>2. calls'[k] = new
  BY DEF Turns
<1>3. /\ i \in Coming <=> \E j \in Calls : Comes(calls[j], i)
      /\ i \in Changing <=> \E j \in Calls : Changes(calls[j], i)
      /\ i \in Going <=> \E j \in Calls : Goes(calls[j], i)
  BY DEF Coming, Changing, Going, Comes, Changes, Goes, At, Under
<1>4. /\ i \in Coming' <=> Comes(new, i) \/ \E j \in Calls \ {k} : Comes(calls[j], i)
      /\ i \in Changing' <=> Changes(new, i) \/ \E j \in Calls \ {k} : Changes(calls[j], i)
      /\ i \in Going' <=> Goes(new, i) \/ \E j \in Calls \ {k} : Goes(calls[j], i)
  BY <1>1, <1>2 DEF Coming, Changing, Going, Comes, Changes, Goes, At, Under
<1> QED
  BY <1>3, <1>4

\* What a reload that crossed nothing brings stays true.
LEMMA ReloadsStep ==
    ASSUME Inv, NEW k \in Calls, NEW new, NEW met, Turns(k, new, met), guest' = guest,
           (\E j \in Calls \ {k} : calls[j].op = "list" /\ ~calls[j].crossed) =>
               server' = server /\ owners' = owners,
           new.op = "list" /\ ~new.crossed =>
               /\ new.pc = "sent" => new.by = guest
               /\ new.pc = "answered" => Faithful(new.answer)'
    PROVE  ReloadsHold'
<1>1. \A j \in Calls \ {k} :
         /\ calls'[j].op = calls[j].op /\ calls'[j].pc = calls[j].pc /\ calls'[j].by = calls[j].by
         /\ calls'[j].answer = calls[j].answer /\ (calls[j].crossed => calls'[j].crossed)
  BY OthersKeep DEF Inv
<1>2. calls'[k] = new
  BY DEF Turns
<1>3. ASSUME NEW j \in Calls, calls'[j].op = "list", ~calls'[j].crossed
      PROVE  /\ calls'[j].pc = "sent" => calls'[j].by = guest'
             /\ (calls[j].pc = "answered" => Faithful(calls[j].answer))'
  <2>1. CASE j = k
    BY <1>2, <1>3, <2>1 DEF Faithful, Live, Listed
  <2>2. CASE j # k
    <3>1. calls[j].op = "list" /\ ~calls[j].crossed /\ server' = server /\ owners' = owners
      BY <1>1, <1>3, <2>2
    <3>2. /\ calls[j].pc = "sent" => calls[j].by = guest
          /\ calls[j].pc = "answered" => Faithful(calls[j].answer)
      BY <3>1 DEF Inv, ReloadsHold, Under
    <3>3. PICK q : q = calls[j].answer
      OBVIOUS
    <3>4. calls[j].pc = "answered" => Faithful(q)'
      BY <3>1, <3>2, <3>3 DEF Faithful, Live, Listed
    <3>5. calls'[j].answer = q /\ calls'[j].pc = calls[j].pc /\ calls'[j].by = calls[j].by
      BY <1>1, <2>2, <3>3
    <3> QED
      BY <3>2, <3>4, <3>5 DEF Faithful, Live, Listed
  <2> QED
    BY <2>1, <2>2
<1> QED
  BY <1>3 DEF ReloadsHold, Under

\* A page stays current on other codes, as long as each that it tells of is there, or going;
\* it tells of each that is there, and has it as it is.
LEMMA CurrentStep ==
    ASSUME NEW p, Current(p),
           \A i \in Listed(p) : i \in (Live(guest)' \cup Going') \ Coming',
           \A i \in Live(guest)' \ Coming' : Within(i, p.cursor) => i \in Live(guest) \ Coming,
           \A i \in Listed(p) : i \in Live(guest)' \ Changing' =>
               i \in Live(guest) \ Changing /\ server'[i] = server[i]
    PROVE  Current(p)'
<1>1. \A n \in DOMAIN p.codes : p.codes[n].id \in Listed(p)
  BY DEF Listed
<1>2. \A n \in DOMAIN p.codes :
         p.codes[n].id \in Live(guest)' \ Changing' => p.codes[n].content = server'[p.codes[n].id]
  BY <1>1 DEF Current
<1>3. \A i \in Live(guest)' \ Coming' : Within(i, p.cursor) => i \in Listed(p)
  BY DEF Current
<1>4. Listed(p)' = Listed(p) /\ \A i : Within(i, p.cursor)' = Within(i, p.cursor)
  BY DEF Listed, Within
<1>5. \A m, n \in DOMAIN p.codes : m < n => p.codes[m].id > p.codes[n].id
  BY DEF Current
<1>6. \A i \in Listed(p) : Within(i, p.cursor)
  BY DEF Current
<1> HIDE DEF Listed, Within
<1> QED
  BY <1>2, <1>3, <1>4, <1>5, <1>6 DEF Current

\* What a step leaves to be shown of the list.
LEMMA InvStep ==
    ASSUME Holds2', ReloadsHold', ~adrift' => ListHolds'
    PROVE  Inv'
<1>1. ListHolds'
  <2>1. CASE adrift'
    BY <2>1 DEF ListHolds
  <2> QED
    BY <2>1
<1> QED
  BY <1>1 DEF Inv, Holds2, Holds1

\* A call that tells the list nothing new: the list's page and the server's rows stay, and
\* what the list is yet to be told of.
LEMMA QuietList ==
    ASSUME Inv, ~adrift, NEW k \in Calls, NEW new, Turns(k, new, {}),
           guest' = guest, UNCHANGED serverVars, list'.page = list.page,
           \A i : Comes(new, i) <=> Comes(calls[k], i),
           \A i : Goes(new, i) <=> Goes(calls[k], i),
           \A i \in Live(guest) : Changes(calls[k], i) => Changes(new, i),
           new.op = "create" /\ new.pc = "answered" => new.answer = calls[k].answer,
           \A i \in Ids : details[i].state = "unread" /\ i \in Coming => details'[i].state = "unread",
           new.op \in Writes \cup {"more"} => ~new.crossed /\ (new.pc \in {"sent", "written"} => new.by = guest),
           new.op = "more" =>
               /\ list.page = new.before
               /\ new.pc = "answered" => Follows(list.page, new.answer)
    PROVE  ListHolds'
<1>1. \A j \in Calls \ {k} : calls'[j] = calls[j]
  BY OthersKeep DEF Inv
<1>2. calls'[k] = new
  BY DEF Turns
<1>3. server' = server /\ owners' = owners /\ minted' = minted /\ guest' = guest
  BY DEF serverVars
<1>4. Live(guest)' = Live(guest)
  BY <1>3 DEF Live
<1>5. \A i : /\ i \in Coming' <=> i \in Coming
             /\ i \in Going' <=> i \in Going
             /\ i \in Live(guest) /\ i \in Changing => i \in Changing'
  BY ToldOf DEF Inv
<1>6. list'.page # Absent => Current(list'.page) /\ list'.page = list.page
  BY DEF Inv, ListHolds
<1>7. (list.page # Absent => Current(list.page))'
  <2> SUFFICES ASSUME list'.page # Absent
               PROVE  Current(list.page)'
    OBVIOUS
  <2>1. PICK p : p = list.page
    OBVIOUS
  <2>2. Current(p)
    BY <1>6, <2>1 DEF Current, Listed
  <2>3. /\ \A i \in Listed(p) : i \in (Live(guest)' \cup Going') \ Coming'
        /\ \A i \in Live(guest)' \ Coming' : Within(i, p.cursor) => i \in Live(guest) \ Coming
        /\ \A i \in Listed(p) : i \in Live(guest)' \ Changing' =>
              i \in Live(guest) \ Changing /\ server'[i] = server[i]
    <3>1. \A i \in Listed(p) : i \in (Live(guest) \cup Going) \ Coming
      BY <2>2 DEF Current
    <3> QED
      BY <1>3, <1>4, <1>5, <3>1
  <2>4. Current(p)'
    BY <2>2, <2>3, CurrentStep
  <2> QED
    BY <1>6, <2>1, <2>4 DEF Current, Listed
<1>8. \A j \in Calls : calls'[j].op \in Writes \cup {"more"} => Apart(calls[j])'
  <2>1. Apart(calls[k])' <=> ~new.crossed /\ (new.pc \in {"sent", "written"} => new.by = guest)
    BY <1>2, <1>3 DEF Apart
  <2>2. \A j \in Calls \ {k} : Apart(calls[j])' <=> Apart(calls[j])
    BY <1>1, <1>3 DEF Apart
  <2>3. \A j \in Calls : calls[j].op \in Writes \cup {"more"} => Apart(calls[j])
    BY DEF Inv, ListHolds
  <2> QED
    BY <1>1, <1>2, <2>1, <2>2, <2>3
<1>9. ASSUME NEW j \in Calls, calls'[j].op = "create", calls'[j].pc = "answered"
      PROVE  Newest(calls[j].answer)'
  <2>1. calls[j].op = "create" /\ calls[j].pc = "answered" /\ calls'[j].answer = calls[j].answer
    <3>1. CASE j = k
      <4>1. Comes(new, new.answer.id)
        BY <1>2, <1>9, <3>1 DEF Comes
      <4>2. Comes(calls[k], new.answer.id)
        BY <4>1
      <4> QED
        BY <1>2, <1>9, <3>1, <4>2 DEF Comes
    <3>2. CASE j # k
      BY <1>1, <1>9, <3>2
    <3> QED
      BY <3>1, <3>2
  <2>2. PICK item : item = calls[j].answer
    OBVIOUS
  <2>3. Newest(item)
    BY <2>1, <2>2 DEF Inv, ListHolds, At, Newest, Live
  <2>4. item.id \in Coming
    BY <2>1, <2>2 DEF Coming, At
  <2>5. item.id \in Ids
    BY <2>3 DEF Newest, Live
  <2>6. details'[item.id].state = "unread"
    BY <2>3, <2>4, <2>5 DEF Newest
  <2>7. Newest(item)'
    BY <1>3, <1>4, <2>3, <2>6 DEF Newest
  <2> QED
    BY <2>1, <2>2, <2>7 DEF Newest, Live
<1>10. ASSUME NEW j \in Calls, calls'[j].op = "more"
       PROVE  /\ list'.page = calls'[j].before
              /\ (calls[j].pc = "answered" => Follows(list.page, calls[j].answer))'
  <2>1. PICK p, q : p = list.page /\ q = calls'[j].answer
    OBVIOUS
  <2>2. list.page = calls'[j].before /\ (calls'[j].pc = "answered" => Follows(p, q))
    <3>1. CASE j = k
      BY <1>2, <1>10, <2>1, <3>1 DEF Follows, Listed
    <3>2. CASE j # k
      BY <1>1, <1>10, <2>1, <3>2 DEF Inv, ListHolds, Under, Follows, Listed
    <3> QED
      BY <3>1, <3>2
  <2>3. Follows(p, q) => Follows(p, q)'
    BY <1>3, <1>4 DEF Follows, Listed, Within
  <2> QED
    BY <2>1, <2>2, <2>3 DEF Follows, Listed
<1> QED
  BY <1>7, <1>8, <1>9, <1>10 DEF ListHolds, Under, At

\* A write, or a loadMore, that the server carries out or that ends: of the others, the writes
\* stay apart from it, and there is no loadMore.
LEMMA WriteStep ==
    ASSUME Inv, ~adrift, NEW k \in Calls, NEW new, Turns(k, new, {}), guest' = guest,
           calls[k].op \in Writes \cup {"more"}, new.op \in {calls[k].op, "none"}, new.op # "more",
           (list.page # Absent => Current(list.page))',
           new.op # "none" =>
               new.crossed = calls[k].crossed /\ (new.pc \in {"sent", "written"} => new.by = calls[k].by
                                                     /\ calls[k].pc \in {"sent", "written"}),
           \A j \in Calls \ {k} : calls[j].op = "create" /\ calls[j].pc = "answered" =>
               /\ minted' = minted /\ server'[minted] = server[minted]
               /\ owners'[minted] = owners[minted] /\ details'[minted].state = "unread",
           new.op = "create" /\ new.pc = "answered" => Newest(new.answer)'
    PROVE  ListHolds'
<1>1. \A j \in Calls \ {k} : calls'[j] = calls[j]
  BY OthersKeep DEF Inv
<1>2. calls'[k] = new
  BY DEF Turns
<1>3. \A j \in Calls : calls'[j].op # "more"
  <2>1. \A j \in Calls \ {k} : calls[j].op # "more"
    BY WriteAlone
  <2> QED
    BY <1>1, <1>2, <2>1
<1>4. ASSUME NEW j \in Calls, calls'[j].op \in Writes \cup {"more"}
      PROVE  Apart(calls[j])'
  <2>1. CASE j = k
    <3>1. Apart(calls[k]) /\ new.op = calls[k].op /\ new.op # "none"
      BY <1>2, <1>4, <2>1 DEF Inv, ListHolds, Writes
    <3> QED
      BY <1>2, <2>1, <3>1 DEF Apart
  <2>2. CASE j # k
    <3>1. Apart(calls[j]) /\ calls'[j] = calls[j]
      BY <1>1, <1>4, <2>2 DEF Inv, ListHolds
    <3> QED
      BY <3>1 DEF Apart
  <2> QED
    BY <2>1, <2>2
<1>5. ASSUME NEW j \in Calls, calls'[j].op = "create", calls'[j].pc = "answered"
      PROVE  Newest(calls[j].answer)'
  <2>1. CASE j = k
    BY <1>2, <1>5, <2>1 DEF Newest, Live
  <2>2. CASE j # k
    <3>1. calls'[j] = calls[j] /\ calls[j].op = "create" /\ calls[j].pc = "answered"
      BY <1>1, <1>5, <2>2
    <3>2. PICK item : item = calls[j].answer
      OBVIOUS
    <3>3. Newest(item)
      BY <3>1, <3>2 DEF Inv, ListHolds, At, Newest, Live
    <3>4. /\ minted' = minted /\ server'[minted] = server[minted]
          /\ owners'[minted] = owners[minted] /\ details'[minted].state = "unread"
      BY <2>2, <3>1
    <3>5. Newest(item)'
      BY <3>3, <3>4 DEF Newest, Live
    <3> QED
      BY <3>1, <3>2, <3>5 DEF Newest, Live
  <2> QED
    BY <2>1, <2>2
<1> QED
  BY <1>3, <1>4, <1>5 DEF ListHolds, Under, At

\* A page of this guest's codes tells the truth, or what follows the page before.
LEMMA PageTells ==
    ASSUME TypeOK, NEW cursor \in Ids \cup {Absent}, NEW q, q = PageAfter(guest, cursor)
    PROVE  /\ cursor = Absent => Faithful(q)
           /\ \A p : cursor # Absent /\ p.cursor = cursor => Follows(p, q)
<1>1. guest \in Guests /\ Absent \notin Ids /\ Ids \subseteq Nat
  BY ListAssumption DEF TypeOK, Ids
<1>2. /\ \A m, n \in DOMAIN q.codes : m < n => q.codes[m].id > q.codes[n].id
      /\ Listed(q) = {i \in Live(guest) : (cursor # Absent => i < cursor) /\ Within(i, q.cursor)}
      /\ q.cursor # Absent => q.cursor \in Live(guest) /\ (cursor # Absent => q.cursor < cursor)
      /\ \A n \in DOMAIN q.codes : q.codes[n].content = server[q.codes[n].id]
  BY <1>1, PageIs
<1>3. cursor = Absent => Faithful(q)
  BY <1>2 DEF Faithful, Within
<1>4. ASSUME NEW p, cursor # Absent, p.cursor = cursor
      PROVE  Follows(p, q)
  <2>1. Listed(q) = {i \in Live(guest) : i < p.cursor /\ Within(i, q.cursor)}
    BY <1>2, <1>4
  <2>2. Within(p.cursor, q.cursor)
    <3>1. Live(guest) \subseteq Ids
      BY DEF Live
    <3>2. q.cursor # Absent => q.cursor \in Ids /\ q.cursor < cursor
      BY <1>2, <1>4, <3>1
    <3> QED
      BY <1>1, <1>4, <3>2 DEF Within, Ids
  <2> QED
    BY <1>2, <2>1, <2>2 DEF Follows
<1> QED
  BY <1>3, <1>4

LEMMA ServePageKeeps ==
    ASSUME Inv, Holds2', NEW k \in Calls, ServePage(k)
    PROVE  Inv'
<1>1. PICK c, q : c = calls[k] /\ q = PageAfter(calls[k].by, calls[k].id)
  OBVIOUS
<1>2. PICK new : GoesOn(k, new, "answered", q)
  BY <1>1, ServePageTypes DEF Inv, Holds1
<1>3. /\ c.op \in {"list", "more"} /\ c.pc = "sent"
      /\ UNCHANGED serverVars /\ guest' = guest /\ list' = list /\ details' = details /\ adrift' = adrift
  BY <1>1 DEF ServePage, At, client
<1>4. /\ Turns(k, new, {}) /\ new.op = c.op /\ new.id = c.id /\ new.before = c.before
      /\ new.crossed = c.crossed /\ new.pc = "answered" /\ new.answer = q
  BY <1>1, <1>2 DEF GoesOn
<1>5. CallHolds(c) /\ c \in Call
  BY <1>1, CallTyped DEF Inv, StateHolds, CallHolds, Made
<1>6. server' = server /\ owners' = owners /\ minted' = minted
  BY <1>3 DEF serverVars
<1>7. c.op = "list" /\ ~c.crossed => Faithful(q)
  <2> SUFFICES ASSUME c.op = "list", ~c.crossed
               PROVE  Faithful(q)
    OBVIOUS
  <2>1. c.by = guest
    BY <1>1, <1>3 DEF Inv, ReloadsHold, Under
  <2>2. c.id = Absent
    BY <1>5 DEF CallHolds
  <2> QED
    BY <1>1, <2>1, <2>2, PageTells DEF Inv
<1>8. ReloadsHold'
  <2>1. new.op = "list" /\ ~new.crossed => Faithful(new.answer)'
    BY <1>3, <1>4, <1>6, <1>7 DEF Faithful, Live, Listed
  <2> QED
    BY <1>3, <1>4, <1>6, <2>1, ReloadsStep
<1>9. ASSUME ~adrift
      PROVE  ListHolds'
  <2>1. c.op = "more" => list.page = c.before /\ Apart(c)
    BY <1>1, <1>9 DEF Inv, ListHolds, Under, Apart
  <2>2. c.op = "more" => Follows(list.page, q)
    <3> SUFFICES ASSUME c.op = "more"
                 PROVE  Follows(list.page, q)
      OBVIOUS
    <3>1. c.by = guest /\ c.id = list.page.cursor /\ c.id \in 1..minted
      BY <1>3, <1>5, <2>1 DEF Apart, CallHolds
    <3>2. c.id \in Ids \cup {Absent} /\ c.id # Absent
      BY <1>5, <3>1, ListAssumption DEF Call
    <3>3. q = PageAfter(guest, c.id)
      BY <1>1, <3>1
    <3> QED
      BY <3>1, <3>2, <3>3, PageTells DEF Inv
  <2>3. \A i : ~Comes(new, i) /\ ~Comes(calls[k], i) /\ ~Goes(new, i) /\ ~Goes(calls[k], i)
               /\ ~Changes(calls[k], i)
    BY <1>1, <1>3, <1>4 DEF Comes, Goes, Changes
  <2>4. new.op \in Writes \cup {"more"} => ~new.crossed
    BY <1>3, <1>4, <2>1 DEF Apart, Writes
  <2>5. new.op = "more" => list.page = new.before /\ Follows(list.page, new.answer)
    BY <1>4, <2>1, <2>2
  <2> QED
    BY <1>3, <1>4, <1>9, <2>3, <2>4, <2>5, QuietList
<1> QED
  BY <1>3, <1>8, <1>9, InvStep

\* The server answers an edit or a get with its row, or a call fails.
LEMMA GoesOnKeeps ==
    ASSUME Inv, Holds2', NEW k \in Calls, NEW new, NEW pc \in {"answered", "lost"}, NEW answer,
           GoesOn(k, new, pc, answer), UNCHANGED serverVars, guest' = guest, list' = list,
           details' = details, ~adrift' => ~adrift,
           pc = "answered" => calls[k].op \in {"edit", "get"},
           ~adrift' => /\ calls[k].op \in Writes => calls[k].pc # "answered"
                       /\ \A i \in Live(guest) : Changes(calls[k], i) => Changes(new, i)
    PROVE  Inv'
<1>1. /\ Turns(k, new, {}) /\ new.op = calls[k].op /\ new.before = calls[k].before
      /\ new.crossed = calls[k].crossed /\ new.pc = pc
  BY DEF GoesOn
<1>2. server' = server /\ owners' = owners
  BY DEF serverVars
<1>3. ReloadsHold'
  BY <1>1, <1>2, ReloadsStep
<1>4. ASSUME ~adrift'
      PROVE  ListHolds'
  <2>1. ~adrift
    BY <1>4
  <2>2. \A i : ~Comes(new, i) /\ ~Comes(calls[k], i) /\ ~Goes(new, i) /\ ~Goes(calls[k], i)
    BY <1>1, <1>4 DEF Comes, Goes, Writes
  <2>3. new.op \in Writes \cup {"more"} => ~new.crossed
    BY <1>1, <2>1 DEF Inv, ListHolds, Apart
  <2>4. new.op = "more" => list.page = new.before /\ new.pc # "answered"
    BY <1>1, <2>1 DEF Inv, ListHolds, Under
  <2>5. ~(new.op = "create" /\ new.pc = "answered")
    BY <1>1
  <2>6. \A i \in Live(guest) : Changes(calls[k], i) => Changes(new, i)
    BY <1>4
  <2> QED
    BY <1>1, <2>1, <2>2, <2>3, <2>4, <2>5, <2>6, QuietList
<1> QED
  BY <1>3, <1>4, InvStep

LEMMA ServeRowKeeps ==
    ASSUME Inv, Holds2', NEW k \in Calls, ServeRow(k)
    PROVE  Inv'
<1>1. PICK item : item = [id |-> calls[k].id, content |-> server[calls[k].id]]
  OBVIOUS
<1>2. PICK new : GoesOn(k, new, "answered", item)
  BY <1>1, ServeRowTypes DEF Inv, Holds1
<1>3. /\ calls[k].op \in {"edit", "get"} /\ calls[k].pc # "answered"
      /\ UNCHANGED serverVars /\ guest' = guest /\ list' = list /\ details' = details /\ adrift' = adrift
  BY DEF ServeRow, At, client
<1>4. \A i : Changes(calls[k], i) => Changes(new, i)
  BY <1>2 DEF Changes, GoesOn
<1> QED
  BY <1>2, <1>3, <1>4, GoesOnKeeps

LEMMA NotFoundKeeps ==
    ASSUME Inv, Holds2', NEW k \in Calls, NotFound(k)
    PROVE  Inv'
<1>1. PICK new : GoesOn(k, new, "lost", Absent)
  BY NotFoundTypes DEF Inv, Holds1
<1>2. /\ ~Found(k) /\ calls[k].pc \in {"sent", "written"}
      /\ UNCHANGED serverVars /\ guest' = guest /\ list' = list /\ details' = details /\ adrift' = adrift
  BY DEF NotFound, At, client
<1>3. ASSUME ~adrift, NEW i \in Live(guest), Changes(calls[k], i)
      PROVE  FALSE
  <2>1. calls[k].op = "edit" /\ calls[k].pc = "written" /\ calls[k].id = i
    BY <1>2, <1>3 DEF Changes
  <2>2. calls[k].by = guest
    BY <1>3, <2>1 DEF Inv, ListHolds, Apart, Writes
  <2> QED
    BY <1>2, <1>3, <2>1, <2>2 DEF Found
<1> QED
  BY <1>1, <1>2, <1>3, GoesOnKeeps

LEMMA LoseKeeps ==
    ASSUME Inv, Holds2', NEW k \in Calls, Lose(k)
    PROVE  Inv'
<1>1. PICK new : GoesOn(k, new, "lost", Absent)
  BY LoseTypes DEF Inv, Holds1
<1>2. /\ adrift' = (adrift \/ (calls[k].op \in Writes /\ calls[k].pc # "sent"))
      /\ UNCHANGED serverVars /\ guest' = guest /\ list' = list /\ details' = details
  BY DEF Lose
<1>3. ~adrift' => ~adrift /\ (calls[k].op \in Writes => calls[k].pc = "sent")
  BY <1>2
<1>4. ~adrift' => \A i : ~Changes(calls[k], i)
  BY <1>3 DEF Changes, Writes
<1> QED
  BY <1>1, <1>2, <1>3, <1>4, GoesOnKeeps

\* A call that tells the list nothing ends.
LEMMA OverKeeps ==
    ASSUME Inv, Holds2', NEW k \in Calls, Over(k), UNCHANGED serverVars, guest' = guest,
           list'.page = list.page, adrift' = adrift,
           calls[k].op \in {"create", "edit", "delete"} => calls[k].pc = "lost",
           \A i \in Ids : details[i].state = "unread" /\ i \in Coming => details'[i].state = "unread"
    PROVE  Inv'
<1>1. PICK new : new = NoCall
  OBVIOUS
<1>2. Turns(k, new, {}) /\ new.op = "none"
  BY <1>1, OverTurns DEF NoCall, Inv
<1>3. server' = server /\ owners' = owners
  BY DEF serverVars
<1>4. ReloadsHold'
  BY <1>2, <1>3, ReloadsStep
<1>5. \A i : /\ ~Comes(new, i) /\ ~Comes(calls[k], i) /\ ~Goes(new, i) /\ ~Goes(calls[k], i)
             /\ ~Changes(calls[k], i)
  BY <1>2 DEF Comes, Goes, Changes
<1>6. ASSUME ~adrift'
      PROVE  ListHolds'
  <2>1. ~adrift /\ new.op \notin Writes \cup {"more"}
    BY <1>2, <1>6 DEF Writes
  <2> QED
    BY <1>2, <1>5, <2>1, QuietList
<1> QED
  BY <1>4, <1>6, InvStep

LEMMA FailuresKeep ==
    ASSUME Inv, Holds2', NEW k \in Calls, ListFailed(k) \/ MoreFailed(k) \/ WriteFailed(k)
    PROVE  Inv'
<1>1. /\ Over(k) /\ UNCHANGED serverVars /\ guest' = guest /\ adrift' = adrift /\ details' = details
      /\ calls[k].op \in {"create", "edit", "delete"} => calls[k].pc = "lost"
  BY DEF ListFailed, MoreFailed, WriteFailed, At
<1>2. list'.page = list.page
  BY DEF ListFailed, MoreFailed, WriteFailed, Inv, TypeOK
<1> QED
  BY <1>1, <1>2, OverKeeps

\* The screen of a get or an edit is no code's that was just made.
LEMMA ScreenKeeps ==
    ASSUME Inv, Holds2', NEW k \in Calls, Over(k), UNCHANGED serverVars, guest' = guest,
           list' = list, adrift' = adrift, calls[k].op \in {"get", "edit"},
           calls[k].op = "edit" => calls[k].pc = "lost",
           NEW d, details' = [details EXCEPT ![calls[k].id] = d]
    PROVE  Inv'
<1>1. CallHolds(calls[k])
  BY DEF Inv, StateHolds
<1>2. details[calls[k].id].state # "unread" \/ details[calls[k].id].content # Absent
  BY <1>1 DEF CallHolds
<1>3. calls[k].id \in Ids
  BY CallIds DEF Inv, Holds1
<1>4. details[calls[k].id].state # "unread"
  BY <1>2, <1>3 DEF Inv, StateHolds
<1>5. \A i \in Ids : details[i].state = "unread" => details'[i].state = "unread"
  BY <1>4 DEF Inv, TypeOK
<1> QED
  BY <1>5, OverKeeps

LEMMA ScreensKeep ==
    ASSUME Inv, Holds2', NEW k \in Calls, GetAnswered(k) \/ GetFailed(k) \/ EditFailed(k)
    PROVE  Inv'
<1>1. /\ Over(k) /\ UNCHANGED serverVars /\ guest' = guest /\ adrift' = adrift /\ list' = list
      /\ calls[k].op \in {"get", "edit"} /\ (calls[k].op = "edit" => calls[k].pc = "lost")
  BY DEF GetAnswered, GetFailed, EditFailed, At
<1>2. \E d : details' = [details EXCEPT ![calls[k].id] = d]
  <2>1. CASE GetAnswered(k) \/ EditFailed(k)
    BY <2>1 DEF GetAnswered, EditFailed, Show
  <2>2. CASE GetFailed(k)
    BY <2>2, GetFailedTypes DEF Inv, Holds1
  <2> QED
    BY <2>1, <2>2
<1> QED
  BY <1>1, <1>2, ScreenKeeps

\* A call begins: it crosses, or the list stays as it was.
LEMMA BeginKeeps ==
    ASSUME Inv, Holds2', NEW k \in Calls, NEW new, NEW met, NEW op, NEW id, NEW content, NEW before,
           Begins(k, new, met, op, id, content, before, FALSE),
           calls[k] = NoCall, UNCHANGED serverVars, guest' = guest, list'.page = list.page,
           \A i \in Ids : details[i].state = "unread" /\ i \in Coming => details'[i].state = "unread",
           op = "more" => before = list.page
    PROVE  Inv'
<1>1. /\ Turns(k, new, met) /\ new.op = op /\ new.pc = "sent" /\ new.by = guest
      /\ new.before = before /\ new.crossed = (met # {})
      /\ adrift' = (adrift \/ met # {})
  BY DEF Begins
<1>2. server' = server /\ owners' = owners
  BY DEF serverVars
<1>3. ReloadsHold'
  BY <1>1, <1>2, ReloadsStep
<1>4. ASSUME ~adrift'
      PROVE  ListHolds'
  <2>1. ~adrift /\ met = {} /\ ~new.crossed
    BY <1>1, <1>4
  <2>2. Turns(k, new, {})
    BY <1>1, <2>1
  <2>3. \A i : /\ ~Comes(new, i) /\ ~Comes(calls[k], i) /\ ~Goes(new, i) /\ ~Goes(calls[k], i)
               /\ ~Changes(calls[k], i)
    BY <1>1 DEF Comes, Goes, Changes, NoCall
  <2>4. new.op = "more" => list.page = new.before
    BY <1>1
  <2> QED
    BY <1>1, <2>1, <2>2, <2>3, <2>4, QuietList
<1> QED
  BY <1>3, <1>4, InvStep

LEMMA StartsKeep ==
    ASSUME Inv, Holds2', NEW k \in Calls,
           Watch(k) \/ Refresh(k) \/ LoadMore(k) \/ Save(k) \/ \E i \in Ids : Delete(k, i)
    PROVE  Inv'
<1>1. calls[k] = NoCall /\ UNCHANGED serverVars /\ guest' = guest /\ details' = details
  BY DEF Watch, Refresh, LoadMore, Save, Delete, Start
<1>2. list'.page = list.page
  BY DEF Watch, Refresh, LoadMore, Save, Delete, Inv, TypeOK
<1>3. Holds1
  BY DEF Inv, Holds1
<1>4. \E new, met, op, id, content, before :
         /\ op = "more" => before = list.page
         /\ Begins(k, new, met, op, id, content, before, FALSE)
  <2>1. CASE Watch(k) \/ Refresh(k)
    <3>1. \E new, met : Begins(k, new, met, "list", Absent, Absent, Absent, FALSE)
      BY <1>3, <2>1, WatchTypes, RefreshTypes
    <3> QED
      BY <3>1
  <2>2. CASE LoadMore(k)
    <3>1. \E new, met : Begins(k, new, met, "more", list.page.cursor, Absent, list.page, FALSE)
      BY <1>3, <2>2, LoadMoreTypes
    <3> QED
      BY <3>1
  <2>3. CASE Save(k)
    <3>1. \E new, met : Begins(k, new, met, "create", Absent, Original, Absent, FALSE)
      BY <1>3, <2>3, SaveTypes
    <3> QED
      BY <3>1
  <2>4. ASSUME NEW i \in Ids, Delete(k, i)
        PROVE  \E new, met, op, id, content, before :
                  /\ op = "more" => before = list.page
                  /\ Begins(k, new, met, op, id, content, before, FALSE)
    <3>1. \E new, met : Begins(k, new, met, "delete", i, Absent, Absent, FALSE)
      BY <1>3, <2>4, DeleteTypes
    <3> QED
      BY <3>1
  <2> QED
    BY <2>1, <2>2, <2>3, <2>4
<1> QED
  BY <1>1, <1>2, <1>4, BeginKeeps

LEMMA EditKeeps ==
    ASSUME Inv, Holds2', NEW k \in Calls, NEW i \in Ids, NEW c \in Contents, Edit(k, i, c)
    PROVE  Inv'
<1>1. /\ calls[k] = NoCall /\ UNCHANGED serverVars /\ guest' = guest /\ list' = list
      /\ details[i].content # Absent
      /\ details' = [details EXCEPT ![i] = [state |-> "data", content |-> c]]
  BY DEF Edit, Start, Show
<1>2. \E new, met : Begins(k, new, met, "edit", i, c, details[i].content, FALSE)
  BY EditTypes DEF Inv, Holds1
<1>3. details[i].state # "unread"
  BY <1>1 DEF Inv, StateHolds
<1>4. \A j \in Ids : details[j].state = "unread" => details'[j].state = "unread"
  BY <1>1, <1>3 DEF Inv, TypeOK
<1> QED
  BY <1>1, <1>2, <1>4, BeginKeeps

\* The code whose screen is opened is on the list: it was not just made, unless the list is
\* adrift already.
LEMMA OpenKeeps ==
    ASSUME Inv, Holds2', NEW k \in Calls, NEW i \in Ids, Open(k, i)
    PROVE  Inv'
<1>1. /\ calls[k] = NoCall /\ UNCHANGED serverVars /\ guest' = guest /\ list' = list
      /\ list.page # Absent /\ i \in Listed(list.page)
  BY DEF Open, Start
<1>2. PICK new, met : Begins(k, new, met, "get", i, Absent, Absent, FALSE)
  BY OpenTypes DEF Inv, Holds1
<1>3. details' = [details EXCEPT ![i] = [state |-> "loading", content |-> Absent]]
  BY OpenTypes DEF Inv, Holds1
<1>4. CASE adrift
  <2>1. Turns(k, new, met) /\ new.op = "get" /\ adrift'
    BY <1>2, <1>4 DEF Begins
  <2>2. server' = server /\ owners' = owners
    BY <1>1 DEF serverVars
  <2>3. ReloadsHold'
    BY <1>1, <2>1, <2>2, ReloadsStep
  <2> QED
    BY <2>1, <2>3, InvStep
<1>5. CASE ~adrift
  <2>1. i \notin Coming
    BY <1>1, <1>5 DEF Inv, ListHolds, Current, Listed
  <2>2. \A j \in Ids : details[j].state = "unread" /\ j \in Coming => details'[j].state = "unread"
    BY <1>3, <2>1 DEF Inv, TypeOK
  <2> QED
    BY <1>1, <1>2, <2>2, BeginKeeps
<1> QED
  BY <1>4, <1>5

\* Another guest's reload can only tell the former guest's list.
LEMMA ClearKeepsInv ==
    ASSUME Inv, Holds2', ClearLocalData
    PROVE  Inv'
<1>1. adrift'
  BY DEF ClearLocalData
<1>2. \A j \in Calls : calls'[j].op = "list" => calls'[j].crossed
  BY ClearKeeps DEF Inv
<1>3. ReloadsHold'
  BY <1>2 DEF ReloadsHold, Under
<1> QED
  BY <1>1, <1>3, InvStep

LEMMA StutterInv == Inv /\ UNCHANGED vars => Inv'
<1> SUFFICES ASSUME Inv, UNCHANGED vars
             PROVE  Inv'
  OBVIOUS
<1>1. Holds2'
  BY StutterHolds2 DEF Inv, Holds2, Holds1
<1>2. Coming' = Coming /\ Changing' = Changing /\ Going' = Going /\ Live(guest)' = Live(guest)
  BY DEF vars, Coming, Changing, Going, Live, At, Under
<1>3. ReloadsHold'
  BY DEF vars, Inv, ReloadsHold, Under, Faithful, Live, Listed
<1>4. ListHolds'
  <2> SUFFICES ASSUME ~adrift'
               PROVE  ListHolds'
    BY DEF ListHolds
  <2>1. UNCHANGED <<server, owners, minted, guest, list, details, calls, adrift>>
    BY DEF vars
  <2>2. (list.page # Absent => Current(list.page))'
    BY <1>2, <2>1 DEF Inv, ListHolds, Current, Listed, Within
  <2>3. (\A k \in Calls : calls[k].op \in Writes \cup {"more"} => Apart(calls[k]))'
    BY <2>1 DEF Inv, ListHolds, Apart
  <2>4. (\A k \in Calls : At(k, "create", "answered") => Newest(calls[k].answer))'
    BY <1>2, <2>1 DEF Inv, ListHolds, At, Newest
  <2>5. (\A k \in Under("more") :
            /\ list.page = calls[k].before
            /\ calls[k].pc = "answered" => Follows(list.page, calls[k].answer))'
    BY <1>2, <2>1 DEF Inv, ListHolds, Under, Follows, Listed, Within
  <2> QED
    BY <2>2, <2>3, <2>4, <2>5 DEF ListHolds
<1> QED
  BY <1>1, <1>3, <1>4, InvStep

\* A write is never under way beside a reload that crossed nothing.
LEMMA ReloadsStay ==
    ASSUME Inv, NEW k \in Calls, calls[k].op \in Writes \cup {"more"}, NEW new, NEW met,
           Turns(k, new, met), guest' = guest, new.op # "list"
    PROVE  ReloadsHold'
<1>1. ~\E j \in Calls \ {k} : calls[j].op = "list" /\ ~calls[j].crossed
  BY ReloadAlone DEF Inv, Holds2, Holds1
<1> QED
  BY <1>1, ReloadsStep

\* The codes on the list's page were made.
LEMMA ListedMade ==
    ASSUME TypeOK, StateHolds, list.page # Absent
    PROVE  /\ Listed(list.page) \subseteq 1..minted /\ minted \in Nat
           /\ list.page.codes \in Seq(Item) /\ list.page.cursor \in Ids \cup {Absent}
           /\ list.page.cursor # Absent => list.page.cursor \in 1..minted
<1>1. PICK p : p = list.page
  OBVIOUS
<1>2. p \in Page /\ Made(p)
  BY <1>1 DEF TypeOK, StateHolds
<1>3. /\ p.codes \in Seq(Item) /\ p.cursor \in Ids \cup {Absent}
      /\ \A n \in DOMAIN p.codes : p.codes[n].id \in 1..minted
      /\ p.cursor # Absent => p.cursor \in 1..minted
  BY <1>2, PageTyped
<1>4. Listed(p) \subseteq 1..minted
  BY <1>3 DEF Listed
<1>5. minted \in Nat
  BY ListAssumption DEF TypeOK
<1> QED
  BY <1>1, <1>3, <1>4, <1>5

\* The new code is the newest; the list is yet to be told of it.
LEMMA ServeCreateKeeps ==
    ASSUME Inv, Holds2', NEW k \in Calls, ServeCreate(k)
    PROVE  Inv'
<1>1. PICK c, item : c = calls[k] /\ item = [id |-> minted + 1, content |-> calls[k].content]
  OBVIOUS
<1>2. PICK new : GoesOn(k, new, "answered", item)
  BY <1>1, ServeCreateTypes DEF Inv, Holds1
<1>3. /\ c.op = "create" /\ c.pc = "sent" /\ minted' = minted + 1
      /\ server' = [server EXCEPT ![minted + 1] = c.content]
      /\ owners' = [owners EXCEPT ![minted + 1] = c.by]
      /\ guest' = guest /\ list' = list /\ details' = details /\ adrift' = adrift
  BY <1>1 DEF ServeCreate, At, client
<1>4. /\ Turns(k, new, {}) /\ new.op = "create" /\ new.pc = "answered" /\ new.answer = item
      /\ new.crossed = c.crossed
  BY <1>1, <1>2, <1>3 DEF GoesOn
<1>5. /\ minted + 1 \in Ids /\ c.content \in Contents /\ c.by \in Guests
      /\ item.id = minted + 1 /\ item.content = c.content
  BY <1>1, ServeCreateTypes DEF Inv, Holds1
<1>6. /\ \A i \in Ids : server'[i] = IF i = minted + 1 THEN c.content ELSE server[i]
      /\ \A i \in Ids : owners'[i] = IF i = minted + 1 THEN c.by ELSE owners[i]
      /\ minted \in Nat /\ Absent \notin Contents
  BY <1>3, ListAssumption DEF Inv, TypeOK
<1>7. ReloadsHold'
  BY <1>1, <1>3, <1>4, ReloadsStay DEF Writes
<1>8. ASSUME ~adrift'
      PROVE  ListHolds'
  <2>1. ~adrift /\ c.by = guest /\ ~c.crossed
        /\ \A j \in Calls \ {k} : calls[j].op # "create"
    <3>1. ~adrift /\ calls[k].op = "create" /\ "create" \in Writes
      BY <1>1, <1>3, <1>8 DEF Writes
    <3>2. Apart(calls[k]) /\ \A j \in Calls \ {k} : calls[j].op # "create"
      <4>1. Apart(calls[k])
        BY <3>1 DEF Inv, ListHolds
      <4> QED
        BY <3>1, <4>1, WriteAlone
    <3> QED
      BY <1>1, <1>3, <3>1, <3>2 DEF Apart
  <2>2. /\ \A i : i \notin Coming
        /\ \A i : i \in Coming' <=> i = minted + 1
        /\ \A i : i \in Changing' <=> i \in Changing
        /\ \A i : i \in Going' <=> i \in Going
    <3>1. \A i : /\ ~Comes(calls[k], i) /\ \A j \in Calls \ {k} : ~Comes(calls[j], i)
                 /\ Comes(new, i) <=> i = minted + 1
                 /\ ~Changes(calls[k], i) /\ ~Changes(new, i)
                 /\ ~Goes(calls[k], i) /\ ~Goes(new, i)
      BY <1>1, <1>3, <1>4, <1>5, <2>1 DEF Comes, Changes, Goes
    <3> QED
      BY <1>4, <3>1, ToldOf DEF Inv
  <2>3. \A i : i \in Live(guest)' <=> i \in Live(guest) \/ i = minted + 1
    <3>1. server'[minted + 1] # Absent /\ owners'[minted + 1] = guest
      BY <1>5, <1>6, <2>1
    <3> QED
      BY <1>3, <1>5, <1>6, <3>1 DEF Live
  <2>4. (list.page # Absent => Current(list.page))'
    <3> SUFFICES ASSUME list'.page # Absent
                 PROVE  Current(list.page)'
      OBVIOUS
    <3>1. PICK p : p = list.page
      OBVIOUS
    <3>2. Current(p)
      BY <1>3, <2>1, <3>1 DEF Inv, ListHolds, Current, Listed
    <3>3. \A i \in Listed(p) : i \in 1..minted /\ i # minted + 1
      BY <1>3, <1>6, <3>1, ListedMade DEF Inv
    <3>4. \A i \in Listed(p) : i \in Live(guest) \cup Going
      BY <3>2 DEF Current
    <3>5. \A i \in Listed(p) : i \in (Live(guest)' \cup Going') \ Coming'
      BY <2>2, <2>3, <3>3, <3>4
    <3>6. \A i \in Live(guest)' \ Coming' : i \in Live(guest) \ Coming
      BY <2>2, <2>3
    <3>7. \A i \in Listed(p) : i \in Live(guest)' \ Changing' =>
             i \in Live(guest) \ Changing /\ server'[i] = server[i]
      <4>1. Live(guest) \subseteq Ids
        BY DEF Live
      <4> QED
        BY <1>6, <2>2, <2>3, <3>3, <4>1
    <3>8. Current(p)'
      BY <3>2, <3>5, <3>6, <3>7, CurrentStep
    <3> QED
      BY <1>3, <3>1, <3>8 DEF Current, Listed
  <2>5. Newest(item)'
    <3>1. details[minted + 1].state = "unread"
      BY <1>5, <1>6, ListAssumption DEF Inv, TypeOK, StateHolds
    <3> QED
      BY <1>3, <1>5, <1>6, <2>3, <3>1 DEF Newest
  <2>6. Newest(new.answer)'
    BY <1>4, <2>5 DEF Newest, Live
  <2> QED
    BY <1>1, <1>3, <1>4, <2>1, <2>4, <2>6, WriteStep DEF Writes
<1> QED
  BY <1>7, <1>8, InvStep

\* A code just made is on no screen: none edits or deletes it.
LEMMA NewestUntouched ==
    ASSUME Inv, ~adrift, NEW j \in Calls, calls[j].op = "create", calls[j].pc = "answered",
           NEW k \in Calls, calls[k].op \in {"edit", "delete"}
    PROVE  calls[k].id # minted /\ details[minted].state = "unread"
<1>1. PICK item : item = calls[j].answer
  OBVIOUS
<1>2. Newest(item)
  BY <1>1 DEF Inv, ListHolds, At, Newest, Live
<1>3. minted \in Ids /\ details[minted].state = "unread"
  BY <1>2 DEF Newest, Live
<1>4. details[minted].content = Absent
  BY <1>3 DEF Inv, StateHolds
<1>5. CallHolds(calls[k])
  BY DEF Inv, StateHolds
<1>6. details[calls[k].id].content # Absent
  BY <1>5 DEF CallHolds
<1> QED
  BY <1>3, <1>4, <1>6

\* The code reads anew, and the list is yet to be told.
LEMMA ServeEditKeeps ==
    ASSUME Inv, Holds2', NEW k \in Calls, ServeEdit(k)
    PROVE  Inv'
<1>1. PICK c, id : c = calls[k] /\ id = calls[k].id
  OBVIOUS
<1>2. PICK new : GoesOn(k, new, "written", c.answer) /\ new.by = c.by
  BY <1>1, ServeEditTypes DEF Inv, Holds1
<1>3. /\ c.op = "edit" /\ c.pc = "sent" /\ Found(k)
      /\ server' = [server EXCEPT ![id] = c.content] /\ owners' = owners /\ minted' = minted
      /\ guest' = guest /\ list' = list /\ details' = details /\ adrift' = adrift
  BY <1>1 DEF ServeEdit, At, client
<1>4. /\ Turns(k, new, {}) /\ new.op = "edit" /\ new.pc = "written" /\ new.id = id
      /\ new.crossed = c.crossed
  BY <1>1, <1>2, <1>3 DEF GoesOn
<1>5. c.content \in Contents /\ id \in Ids /\ id \in Live(c.by)
  BY <1>1, <1>3, ServeEditTypes DEF Inv, Holds1, Found
<1>6. \A i \in Ids : server'[i] = IF i = id THEN c.content ELSE server[i]
  BY <1>3 DEF Inv, TypeOK
<1>7. ReloadsHold'
  BY <1>1, <1>3, <1>4, ReloadsStay DEF Writes
<1>8. ASSUME ~adrift'
      PROVE  ListHolds'
  <2>1. ~adrift
    BY <1>3, <1>8
  <2>2. c.by = guest /\ ~c.crossed
    BY <1>1, <1>3, <2>1 DEF Inv, ListHolds, Apart, Writes
  <2>3. /\ \A i : i \in Coming' <=> i \in Coming
        /\ \A i : i \in Changing' <=> i \in Changing \/ i = id
        /\ \A i : i \in Going' <=> i \in Going
    <3>1. \A i : /\ ~Comes(calls[k], i) /\ ~Comes(new, i)
                 /\ ~Changes(calls[k], i) /\ (Changes(new, i) <=> i = id)
                 /\ ~Goes(calls[k], i) /\ ~Goes(new, i)
      BY <1>1, <1>3, <1>4 DEF Comes, Changes, Goes
    <3> QED
      BY <1>4, <3>1, ToldOf DEF Inv
  <2>4. \A i : i \in Live(guest)' <=> i \in Live(guest)
    <3>1. c.content # Absent /\ server[id] # Absent
      BY <1>5, ListAssumption DEF Live
    <3> QED
      BY <1>3, <1>6, <3>1 DEF Live
  <2>5. (list.page # Absent => Current(list.page))'
    <3> SUFFICES ASSUME list'.page # Absent
                 PROVE  Current(list.page)'
      OBVIOUS
    <3>1. PICK p : p = list.page
      OBVIOUS
    <3>2. Current(p)
      BY <1>3, <2>1, <3>1 DEF Inv, ListHolds, Current, Listed
    <3>3. \A i \in Listed(p) : i \in (Live(guest) \cup Going) \ Coming
      BY <3>2 DEF Current
    <3>4. \A i \in Listed(p) : i \in (Live(guest)' \cup Going') \ Coming'
      BY <2>3, <2>4, <3>3
    <3>5. \A i \in Live(guest)' \ Coming' : i \in Live(guest) \ Coming
      BY <2>3, <2>4
    <3>6. \A i \in Listed(p) : i \in Live(guest)' \ Changing' =>
             i \in Live(guest) \ Changing /\ server'[i] = server[i]
      <4>1. Live(guest) \subseteq Ids
        BY DEF Live
      <4> QED
        BY <1>6, <2>3, <2>4, <4>1
    <3>7. Current(p)'
      BY <3>2, <3>4, <3>5, <3>6, CurrentStep
    <3> QED
      BY <1>3, <3>1, <3>7 DEF Current, Listed
  <2>6. \A j \in Calls \ {k} : calls[j].op = "create" /\ calls[j].pc = "answered" =>
           /\ minted' = minted /\ server'[minted] = server[minted]
           /\ owners'[minted] = owners[minted] /\ details'[minted].state = "unread"
    <3>1. \A j \in Calls \ {k} : calls[j].op = "create" /\ calls[j].pc = "answered" =>
             id # minted /\ details[minted].state = "unread"
      BY <1>1, <1>3, <2>1, NewestUntouched
    <3> QED
      BY <1>3, <3>1
  <2> QED
    BY <1>1, <1>2, <1>3, <1>4, <2>1, <2>5, <2>6, WriteStep DEF Writes
<1> QED
  BY <1>7, <1>8, InvStep

\* The code is gone, and the list is yet to be told.
LEMMA ServeDeleteKeeps ==
    ASSUME Inv, Holds2', NEW k \in Calls, ServeDelete(k)
    PROVE  Inv'
<1>1. PICK c, id : c = calls[k] /\ id = calls[k].id
  OBVIOUS
<1>2. PICK new : GoesOn(k, new, "answered", Absent)
  BY ServeDeleteTypes DEF Inv, Holds1
<1>3. /\ c.op = "delete" /\ c.pc = "sent" /\ Found(k)
      /\ server' = [server EXCEPT ![id] = Absent] /\ owners' = owners /\ minted' = minted
      /\ guest' = guest /\ list' = list /\ details' = details /\ adrift' = adrift
  BY <1>1 DEF ServeDelete, At, client
<1>4. /\ Turns(k, new, {}) /\ new.op = "delete" /\ new.pc = "answered" /\ new.id = id
      /\ new.crossed = c.crossed
  BY <1>1, <1>2, <1>3 DEF GoesOn
<1>5. id \in Ids /\ id \in Live(c.by)
  BY <1>1, <1>3, ServeDeleteTypes DEF Inv, Holds1, Found
<1>6. \A i \in Ids : server'[i] = IF i = id THEN Absent ELSE server[i]
  BY <1>3 DEF Inv, TypeOK
<1>7. ReloadsHold'
  BY <1>1, <1>3, <1>4, ReloadsStay DEF Writes
<1>8. ASSUME ~adrift'
      PROVE  ListHolds'
  <2>1. ~adrift
    BY <1>3, <1>8
  <2>2. c.by = guest /\ ~c.crossed
    BY <1>1, <1>3, <2>1 DEF Inv, ListHolds, Apart, Writes
  <2>3. /\ \A i : i \in Coming' <=> i \in Coming
        /\ \A i : i \in Changing' <=> i \in Changing
        /\ \A i : i \in Going' <=> i \in Going \/ i = id
    <3>1. \A i : /\ ~Comes(calls[k], i) /\ ~Comes(new, i)
                 /\ ~Changes(calls[k], i) /\ ~Changes(new, i)
                 /\ ~Goes(calls[k], i) /\ (Goes(new, i) <=> i = id)
      BY <1>1, <1>3, <1>4 DEF Comes, Changes, Goes
    <3> QED
      BY <1>4, <3>1, ToldOf DEF Inv
  <2>4. \A i : i \in Live(guest)' <=> i \in Live(guest) /\ i # id
    BY <1>3, <1>6 DEF Live
  <2>5. (list.page # Absent => Current(list.page))'
    <3> SUFFICES ASSUME list'.page # Absent
                 PROVE  Current(list.page)'
      OBVIOUS
    <3>1. PICK p : p = list.page
      OBVIOUS
    <3>2. Current(p)
      BY <1>3, <2>1, <3>1 DEF Inv, ListHolds, Current, Listed
    <3>3. \A i \in Listed(p) : i \in (Live(guest) \cup Going) \ Coming
      BY <3>2 DEF Current
    <3>4. \A i \in Listed(p) : i \in (Live(guest)' \cup Going') \ Coming'
      BY <2>3, <2>4, <3>3
    <3>5. \A i \in Live(guest)' \ Coming' : i \in Live(guest) \ Coming
      BY <2>3, <2>4
    <3>6. \A i \in Listed(p) : i \in Live(guest)' \ Changing' =>
             i \in Live(guest) \ Changing /\ server'[i] = server[i]
      <4>1. Live(guest) \subseteq Ids
        BY DEF Live
      <4> QED
        BY <1>6, <2>3, <2>4, <4>1
    <3>7. Current(p)'
      BY <3>2, <3>4, <3>5, <3>6, CurrentStep
    <3> QED
      BY <1>3, <3>1, <3>7 DEF Current, Listed
  <2>6. \A j \in Calls \ {k} : calls[j].op = "create" /\ calls[j].pc = "answered" =>
           /\ minted' = minted /\ server'[minted] = server[minted]
           /\ owners'[minted] = owners[minted] /\ details'[minted].state = "unread"
    <3>1. \A j \in Calls \ {k} : calls[j].op = "create" /\ calls[j].pc = "answered" =>
             id # minted /\ details[minted].state = "unread"
      BY <1>1, <1>3, <2>1, NewestUntouched
    <3> QED
      BY <1>3, <3>1
  <2> QED
    BY <1>1, <1>3, <1>4, <2>1, <2>5, <2>6, WriteStep DEF Writes
<1> QED
  BY <1>7, <1>8, InvStep

-----------------------------------------------------------------------------
(* The controllers, when a call ends *)

\* With no write to be told of, what tells the truth is current, and the other way round.
LEMMA TruthIsCurrent ==
    ASSUME NEW p, \A i : i \notin Coming /\ i \notin Changing /\ i \notin Going,
           guest \in Guests
    PROVE  Faithful(p) <=> Current(p)
<1>1. Listed(p) = {i \in Live(guest) : IF p.cursor = Absent THEN TRUE ELSE i >= p.cursor}
         <=> /\ \A i \in Listed(p) : Within(i, p.cursor) /\ i \in Live(guest)
             /\ \A i \in Live(guest) : Within(i, p.cursor) => i \in Listed(p)
  BY DEF Within
<1>2. Faithful(p) =>
         \A n \in DOMAIN p.codes : p.codes[n].content = server[p.codes[n].id]
  BY DEF Faithful
<1>3. Current(p) =>
         \A n \in DOMAIN p.codes : p.codes[n].content = server[p.codes[n].id]
  <2> SUFFICES ASSUME Current(p), NEW n \in DOMAIN p.codes
               PROVE  p.codes[n].content = server[p.codes[n].id]
    OBVIOUS
  <2>1. p.codes[n].id \in Listed(p)
    BY DEF Listed
  <2>2. p.codes[n].id \in Live(guest)
    BY <2>1 DEF Current
  <2> QED
    BY <2>2 DEF Current
<1> HIDE DEF Listed, Within, Live
<1> QED
  BY <1>1, <1>2, <1>3 DEF Faithful, Current

\* With no write under way the list is yet to be told nothing.
LEMMA NothingToTell ==
    ASSUME \A j \in Calls : calls[j].op \notin Writes
    PROVE  \A i : i \notin Coming /\ i \notin Changing /\ i \notin Going
BY DEF Coming, Changing, Going, At, Under, Writes

\* A page that tells the truth is shown, and nothing else is under way that touches the list.
LEMMA TruthShown ==
    ASSUME Inv, NEW k \in Calls, NEW new, Turns(k, new, {}), new.op = "none",
           UNCHANGED serverVars, guest' = guest,
           \A j \in Calls : calls[j].op \notin Writes, \A j \in Calls \ {k} : calls[j].op # "more",
           NEW q, list'.page = q, Faithful(q)
    PROVE  ListHolds'
<1>1. server' = server /\ owners' = owners
  BY DEF serverVars
<1>2. \A j \in Calls : calls'[j].op \notin Writes \cup {"more"}
  <2>1. \A j \in Calls \ {k} : calls'[j].op = calls[j].op
    BY OthersKeep DEF Inv
  <2>2. calls'[k].op = "none"
    BY DEF Turns
  <2> QED
    BY <2>1, <2>2 DEF Writes
<1>3. \A i : i \notin Coming /\ i \notin Changing /\ i \notin Going
  BY NothingToTell
<1>4. Current(q)
  BY <1>3, TruthIsCurrent DEF Inv, TypeOK
<1>5. \A i : i \notin Coming' /\ i \notin Changing' /\ i \notin Going'
  BY <1>2 DEF Coming, Changing, Going, At, Under, Writes
<1>6. Live(guest)' = Live(guest)
  BY <1>1 DEF Live
<1>7. /\ \A i \in Listed(q) : i \in (Live(guest)' \cup Going') \ Coming'
      /\ \A i \in Live(guest)' \ Coming' : i \in Live(guest) \ Coming
      /\ \A i \in Listed(q) : i \in Live(guest)' \ Changing' =>
            i \in Live(guest) \ Changing /\ server'[i] = server[i]
  <2>1. \A i \in Listed(q) : i \in Live(guest) \cup Going
    BY <1>4 DEF Current
  <2> QED
    BY <1>1, <1>3, <1>5, <1>6, <2>1
<1>8. Current(q)'
  BY <1>4, <1>7, CurrentStep
<1>9. (list.page # Absent => Current(list.page))'
  BY <1>8 DEF Current, Listed
<1> QED
  BY <1>2, <1>9 DEF ListHolds, Under, At, Writes

\* What a reload that crossed nothing brings is current.
LEMMA ListAnsweredKeeps ==
    ASSUME Inv, Holds2', NEW k \in Calls, ListAnswered(k)
    PROVE  Inv'
<1>1. PICK q, new : q = calls[k].answer /\ new = NoCall
  OBVIOUS
<1>2. /\ calls[k].op = "list" /\ calls[k].pc = "answered" /\ adrift' = calls[k].crossed /\ Over(k)
      /\ UNCHANGED serverVars /\ guest' = guest
      /\ list' = [state |-> "data", page |-> q]
  BY <1>1, ListAnsweredTypes DEF ListAnswered, At, Inv, Holds1
<1>3. Turns(k, new, {}) /\ new.op = "none" /\ server' = server /\ owners' = owners
  BY <1>1, <1>2, OverTurns DEF NoCall, Inv, serverVars
<1>4. ReloadsHold'
  BY <1>2, <1>3, ReloadsStep
<1>5. ASSUME ~adrift'
      PROVE  ListHolds'
  <2>1. \A j \in Calls : calls[j].op \notin Writes \cup {"more"}
    BY <1>2, <1>5, ReloadAlone DEF Inv, Holds2, Holds1
  <2>2. Faithful(q)
    BY <1>1, <1>2, <1>5 DEF Inv, ReloadsHold, Under, Faithful, Listed
  <2>3. list'.page = q
    BY <1>2
  <2> QED
    BY <1>2, <1>3, <2>1, <2>2, <2>3, TruthShown
<1> QED
  BY <1>4, <1>5, InvStep

\* A page, and what follows it.
LEMMA BothTell ==
    ASSUME TypeOK, NEW p, NEW q, NEW r, p.codes \in Seq(Item), q.codes \in Seq(Item),
           p.cursor \in Ids, q.cursor \in Ids \cup {Absent},
           Faithful(p), Follows(p, q), r.codes = p.codes \o q.codes, r.cursor = q.cursor
    PROVE  Faithful(r)
<1>1. Ids \subseteq Nat /\ Absent \notin Ids /\ guest \in Guests /\ Live(guest) \subseteq Ids
  BY ListAssumption DEF Ids, TypeOK, Live
<1>2. PICK s, t, u : s = p.codes /\ t = q.codes /\ u = r.codes
  OBVIOUS
<1>3. s \in Seq(Item) /\ t \in Seq(Item) /\ u = s \o t
  BY <1>2
<1>4. /\ \A n \in DOMAIN u :
            \/ n \in DOMAIN s /\ u[n] = s[n]
            \/ \E m \in DOMAIN t : n = Len(s) + m /\ u[n] = t[m]
      /\ \A n \in DOMAIN s : n \in DOMAIN u /\ n <= Len(s) /\ u[n] = s[n]
      /\ \A m \in DOMAIN t : Len(s) + m \in DOMAIN u /\ u[Len(s) + m] = t[m]
  BY <1>3, BothCodes
<1>5. /\ \A n \in DOMAIN s : s[n].id \in Listed(p) /\ s[n].content = server[s[n].id]
      /\ \A m, n \in DOMAIN s : m < n => s[m].id > s[n].id
      /\ \A n \in DOMAIN s : s[n].id \in Live(guest) /\ s[n].id >= p.cursor
      /\ \A i \in Live(guest) : i >= p.cursor => \E n \in DOMAIN s : s[n].id = i
  <2>1. Listed(p) = {i \in Live(guest) : i >= p.cursor}
    BY <1>1 DEF Faithful
  <2>2. Listed(p) = {s[n].id : n \in DOMAIN s}
    BY <1>2 DEF Listed
  <2>3. /\ \A m, n \in DOMAIN s : m < n => s[m].id > s[n].id
        /\ \A n \in DOMAIN s : s[n].content = server[s[n].id]
    BY <1>2 DEF Faithful
  <2> HIDE DEF Listed, Live
  <2>4. \A n \in DOMAIN s : s[n].id \in Listed(p)
    BY <2>2
  <2>5. \A n \in DOMAIN s : s[n].id \in Live(guest) /\ s[n].id >= p.cursor
    BY <2>1, <2>4
  <2>6. \A i \in Live(guest) : i >= p.cursor => i \in Listed(p)
    BY <2>1
  <2>7. \A i \in Live(guest) : i >= p.cursor => \E n \in DOMAIN s : s[n].id = i
    BY <2>2, <2>6
  <2> QED
    BY <2>3, <2>4, <2>5, <2>7
<1>6. /\ \A n \in DOMAIN t : t[n].content = server[t[n].id]
      /\ \A m, n \in DOMAIN t : m < n => t[m].id > t[n].id
      /\ \A n \in DOMAIN t :
            t[n].id \in Live(guest) /\ t[n].id < p.cursor /\ Within(t[n].id, q.cursor)
      /\ \A i \in Live(guest) :
            i < p.cursor /\ Within(i, q.cursor) => \E n \in DOMAIN t : t[n].id = i
      /\ Within(p.cursor, q.cursor)
  <2>1. Listed(q) = {i \in Live(guest) : i < p.cursor /\ Within(i, q.cursor)}
    BY DEF Follows
  <2>2. Listed(q) = {t[n].id : n \in DOMAIN t}
    BY <1>2 DEF Listed
  <2>3. /\ \A m, n \in DOMAIN t : m < n => t[m].id > t[n].id
        /\ \A n \in DOMAIN t : t[n].content = server[t[n].id]
        /\ Within(p.cursor, q.cursor)
    BY <1>2 DEF Follows
  <2> HIDE DEF Listed, Live, Within
  <2>4. \A n \in DOMAIN t : t[n].id \in Listed(q)
    BY <2>2
  <2>5. \A n \in DOMAIN t :
           t[n].id \in Live(guest) /\ t[n].id < p.cursor /\ Within(t[n].id, q.cursor)
    BY <2>1, <2>4
  <2>6. \A i \in Live(guest) : i < p.cursor /\ Within(i, q.cursor) => i \in Listed(q)
    BY <2>1
  <2>7. \A i \in Live(guest) :
           i < p.cursor /\ Within(i, q.cursor) => \E n \in DOMAIN t : t[n].id = i
    BY <2>2, <2>6
  <2> QED
    BY <2>3, <2>5, <2>7
<1>7. /\ \A n \in DOMAIN s : Within(s[n].id, q.cursor)
      /\ \A n \in DOMAIN s : s[n].id \in Nat
      /\ \A n \in DOMAIN t : t[n].id \in Nat
      /\ p.cursor \in Nat
  <2>1. \A n \in DOMAIN s : s[n].id \in Nat /\ s[n].id >= p.cursor
    BY <1>1, <1>5
  <2>2. q.cursor # Absent => q.cursor \in Nat /\ p.cursor >= q.cursor
    BY <1>1, <1>6 DEF Within
  <2>3. p.cursor \in Nat
    BY <1>1
  <2>4. \A n \in DOMAIN t : t[n].id \in Nat
    BY <1>1, <1>6
  <2> QED
    BY <2>1, <2>2, <2>3, <2>4 DEF Within
<1>8. ASSUME NEW m \in DOMAIN u, NEW n \in DOMAIN u, m < n
      PROVE  u[m].id > u[n].id
  <2>1. Len(s) \in Nat /\ DOMAIN t \subseteq Nat \ {0} /\ DOMAIN s \subseteq Nat
    BY <1>3
  <2>2. CASE m \in DOMAIN s /\ u[m] = s[m]
    <3>1. CASE n \in DOMAIN s /\ u[n] = s[n]
      BY <1>5, <1>8, <2>2, <3>1
    <3>2. CASE \E j \in DOMAIN t : n = Len(s) + j /\ u[n] = t[j]
      BY <1>5, <1>6, <1>7, <2>2, <3>2
    <3> QED
      BY <1>4, <3>1, <3>2
  <2>3. CASE \E i \in DOMAIN t : m = Len(s) + i /\ u[m] = t[i]
    <3>1. PICK i \in DOMAIN t : m = Len(s) + i /\ u[m] = t[i]
      BY <2>3
    <3>2. CASE n \in DOMAIN s
      <4>1. n <= Len(s) /\ n \in Nat /\ i \in Nat
        BY <1>4, <2>1, <3>1, <3>2
      <4> QED
        BY <1>8, <2>1, <3>1, <4>1
    <3>3. CASE \E j \in DOMAIN t : n = Len(s) + j /\ u[n] = t[j]
      <4>1. PICK j \in DOMAIN t : n = Len(s) + j /\ u[n] = t[j]
        BY <3>3
      <4>2. i \in Nat /\ j \in Nat
        BY <2>1, <3>1, <4>1
      <4>3. i < j
        BY <1>8, <2>1, <3>1, <4>1, <4>2
      <4> QED
        BY <1>6, <3>1, <4>1, <4>3
    <3> QED
      BY <1>4, <3>2, <3>3
  <2> QED
    BY <1>4, <2>2, <2>3
<1>9. ASSUME NEW n \in DOMAIN u
      PROVE  /\ u[n].id \in Live(guest) /\ Within(u[n].id, q.cursor)
             /\ u[n].content = server[u[n].id]
  BY <1>4, <1>5, <1>6, <1>7
<1>10. ASSUME NEW i \in Live(guest), Within(i, q.cursor)
       PROVE  \E n \in DOMAIN u : u[n].id = i
  <2>1. i \in Nat /\ p.cursor \in Nat
    BY <1>1
  <2>2. CASE i >= p.cursor
    <3>1. PICK n \in DOMAIN s : s[n].id = i
      BY <1>5, <2>2
    <3> QED
      BY <1>4, <3>1
  <2>3. CASE i < p.cursor
    <3>1. PICK n \in DOMAIN t : t[n].id = i
      BY <1>6, <1>10, <2>3
    <3> QED
      BY <1>4, <3>1
  <2> QED
    BY <2>1, <2>2, <2>3
<1>11. Listed(r) = {i \in Live(guest) : IF r.cursor = Absent THEN TRUE ELSE i >= r.cursor}
  <2>1. Listed(r) = {u[n].id : n \in DOMAIN u}
    BY <1>2 DEF Listed
  <2>2. \A i : i \in Listed(r) <=> i \in Live(guest) /\ Within(i, q.cursor)
    BY <1>9, <1>10, <2>1
  <2>3. \A i : Within(i, q.cursor) <=> IF r.cursor = Absent THEN TRUE ELSE i >= r.cursor
    BY DEF Within
  <2> QED
    BY <2>2, <2>3
<1> QED
  BY <1>2, <1>8, <1>9, <1>11 DEF Faithful

\* What a loadMore that crossed no write adds is what follows.
LEMMA MoreAnsweredKeeps ==
    ASSUME Inv, Holds2', NEW k \in Calls, MoreAnswered(k)
    PROVE  Inv'
<1>1. PICK p, q, new, r : p = calls[k].before /\ q = calls[k].answer /\ new = NoCall /\ r = list'.page
  OBVIOUS
<1>2. /\ calls[k].op = "more" /\ calls[k].pc = "answered" /\ adrift' = adrift /\ Over(k)
      /\ UNCHANGED serverVars /\ guest' = guest
  BY DEF MoreAnswered, At
<1>3. p \in Page /\ q \in Page /\ r.codes = p.codes \o q.codes /\ r.cursor = q.cursor
  BY <1>1, MoreAnsweredTypes DEF Inv, Holds1
<1>4. Turns(k, new, {}) /\ new.op = "none"
  BY <1>1, <1>2, OverTurns DEF NoCall, Inv
<1>5. ReloadsHold'
  BY <1>2, <1>4, ReloadsStay
<1>6. ASSUME ~adrift'
      PROVE  ListHolds'
  <2>1. ~adrift
    BY <1>2, <1>6
  <2>2. \A j \in Calls \ {k} : calls[j].op \notin Writes \cup {"more"}
    BY <1>2, <2>1, WriteAlone
  <2>3. \A j \in Calls : calls[j].op \notin Writes
    BY <1>2, <2>2 DEF Writes
  <2>4. list.page = p /\ Follows(p, q)
    BY <1>1, <1>2, <2>1 DEF Inv, ListHolds, Under, Follows, Listed
  <2>5. Current(p)
    <3>1. p # Absent
      BY <1>3, AbsentIsNoPage
    <3> QED
      BY <2>1, <2>4, <3>1 DEF Inv, ListHolds, Current, Listed
  <2>6. Faithful(p)
    <3>1. \A i : i \notin Coming /\ i \notin Changing /\ i \notin Going
      BY <2>3, NothingToTell
    <3> QED
      BY <2>5, <3>1, TruthIsCurrent DEF Inv, TypeOK
  <2>7. p.cursor \in Ids
    <3>1. CallHolds(calls[k])
      BY DEF Inv, StateHolds
    <3>2. p.cursor = calls[k].id
      BY <1>1, <1>2, <3>1 DEF CallHolds
    <3> QED
      BY <1>2, <3>2, CallIds DEF Inv, Holds1
  <2>8. Faithful(r)
    <3>1. p.codes \in Seq(Item) /\ q.codes \in Seq(Item) /\ q.cursor \in Ids \cup {Absent}
      BY <1>3, PageTyped
    <3> QED
      BY <1>3, <2>4, <2>6, <2>7, <3>1, BothTell DEF Inv
  <2> QED
    BY <1>1, <1>2, <1>4, <2>2, <2>3, <2>8, TruthShown
<1> QED
  BY <1>5, <1>6, InvStep

\* The newest code goes to the top of the list.
LEMMA AddedIsCurrent ==
    ASSUME Inv, NEW p, NEW item \in Item, NEW r, p = list.page, p # Absent, Current(p),
           r.codes = <<item>> \o p.codes, r.cursor = p.cursor,
           Newest(item), \A i : i \in Coming <=> i = minted, \A i : i \notin Coming',
           \A i : (i \in Changing' <=> i \in Changing) /\ (i \in Going' <=> i \in Going),
           server' = server, owners' = owners, guest' = guest
    PROVE  Current(r)'
<1>1. /\ minted \in Nat /\ p.codes \in Seq(Item) /\ p.cursor \in Ids \cup {Absent}
      /\ p.cursor # Absent => p.cursor \in 1..minted
      /\ Listed(p) \subseteq 1..minted
  BY ListedMade DEF Inv
<1>2. \A i \in Listed(p) : i \in 1..minted /\ i # minted /\ i < minted
  <2>1. \A i \in Listed(p) : i # minted
    BY DEF Current
  <2> QED
    BY <1>1, <2>1
<1>3. PICK s, t, u : s = <<item>> /\ t = p.codes /\ u = r.codes
  OBVIOUS
<1>4. s \in Seq(Item) /\ t \in Seq(Item) /\ u = s \o t
  BY <1>1, <1>3
<1>5. /\ \A n \in DOMAIN u :
            \/ n \in DOMAIN s /\ u[n] = s[n]
            \/ \E m \in DOMAIN t : n = Len(s) + m /\ u[n] = t[m]
      /\ \A n \in DOMAIN s : n \in DOMAIN u /\ n <= Len(s) /\ u[n] = s[n]
      /\ \A m \in DOMAIN t : Len(s) + m \in DOMAIN u /\ u[Len(s) + m] = t[m]
  BY <1>4, BothCodes
<1>6. /\ 1 \in DOMAIN u /\ u[1] = item
      /\ \A n \in DOMAIN u : \/ n = 1 /\ u[n] = item
                             \/ \E m \in DOMAIN t : n = 1 + m /\ u[n] = t[m]
      /\ \A m \in DOMAIN t : 1 + m \in DOMAIN u /\ u[1 + m] = t[m]
  <2>1. Len(s) = 1 /\ DOMAIN s = {1} /\ s[1] = item
    BY <1>3
  <2> QED
    BY <1>5, <2>1
<1>7. DOMAIN t \subseteq Nat \ {0}
  BY <1>4
<1>8. \A n \in DOMAIN t : t[n].id \in Listed(p)
  BY <1>3 DEF Listed
<1>9. item.id = minted /\ item.id \in Live(guest) /\ item.content = server[item.id]
  BY DEF Newest
<1>10. Live(guest)' = Live(guest)
  BY DEF Live
<1>11. \A i : i \in Listed(r) <=> i = minted \/ i \in Listed(p)
  <2>1. Listed(r) = {u[n].id : n \in DOMAIN u} /\ Listed(p) = {t[n].id : n \in DOMAIN t}
    BY <1>3 DEF Listed
  <2>2. \A n \in DOMAIN u : u[n].id = minted \/ u[n].id \in Listed(p)
    BY <1>6, <1>8, <1>9
  <2>3. \A m \in DOMAIN t : t[m].id \in Listed(r)
    BY <1>6, <2>1
  <2>4. minted \in Listed(r)
    BY <1>6, <1>9, <2>1
  <2> QED
    BY <2>1, <2>2, <2>3, <2>4
<1>12. ASSUME NEW m \in DOMAIN u, NEW n \in DOMAIN u, m < n
       PROVE  u[m].id > u[n].id
  <2>1. \A a, b \in DOMAIN t : a < b => t[a].id > t[b].id
    BY <1>3 DEF Current
  <2>2. CASE n = 1
    <3>1. m = 1 \/ \E a \in DOMAIN t : m = 1 + a
      BY <1>6
    <3> QED
      BY <1>7, <1>12, <2>2, <3>1
  <2>3. CASE \E b \in DOMAIN t : n = 1 + b /\ u[n] = t[b]
    <3>1. PICK b \in DOMAIN t : n = 1 + b /\ u[n] = t[b]
      BY <2>3
    <3>2. CASE m = 1
      <4>1. t[b].id \in Nat /\ t[b].id < minted
        BY <1>1, <1>2, <1>8, <3>1
      <4>2. u[m].id = minted
        BY <1>6, <1>9, <3>2
      <4> QED
        BY <1>1, <3>1, <4>1, <4>2
    <3>3. CASE \E a \in DOMAIN t : m = 1 + a /\ u[m] = t[a]
      <4>1. PICK a \in DOMAIN t : m = 1 + a /\ u[m] = t[a]
        BY <3>3
      <4>2. a < b
        BY <1>7, <1>12, <3>1, <4>1
      <4> QED
        BY <2>1, <3>1, <4>1, <4>2
    <3> QED
      BY <1>6, <3>2, <3>3
  <2> QED
    BY <1>6, <2>2, <2>3
<1>13. \A i \in Listed(r) :
          Within(i, r.cursor) /\ i \in (Live(guest)' \cup Going') \ Coming'
  <2>1. \A i \in Listed(p) : Within(i, p.cursor) /\ i \in Live(guest) \cup Going
    BY DEF Current
  <2>2. Within(minted, p.cursor)
    BY <1>1 DEF Within
  <2> QED
    BY <1>9, <1>10, <1>11, <2>1, <2>2
<1>14. \A i \in Live(guest)' \ Coming' : Within(i, r.cursor) => i \in Listed(r)
  <2>1. \A i \in Live(guest) \ Coming : Within(i, p.cursor) => i \in Listed(p)
    BY DEF Current
  <2> QED
    BY <1>10, <1>11, <2>1
<1>15. \A n \in DOMAIN u : u[n].id \in Live(guest)' \ Changing' => u[n].content = server'[u[n].id]
  <2>1. \A n \in DOMAIN t : t[n].id \in Live(guest) \ Changing => t[n].content = server[t[n].id]
    BY <1>3 DEF Current
  <2> QED
    BY <1>6, <1>9, <1>10, <2>1
<1>16. Listed(r)' = Listed(r) /\ \A i : Within(i, r.cursor)' = Within(i, r.cursor)
  BY DEF Listed, Within
<1> HIDE DEF Listed, Within
<1> QED
  BY <1>3, <1>12, <1>13, <1>14, <1>15, <1>16 DEF Current

LEMMA CreateAnsweredKeeps ==
    ASSUME Inv, Holds2', NEW k \in Calls, CreateAnswered(k)
    PROVE  Inv'
<1>1. /\ calls[k].op = "create" /\ calls[k].pc = "answered" /\ UNCHANGED serverVars
      /\ guest' = guest /\ details' = details
  BY DEF CreateAnswered, At
<1>2. server' = server /\ owners' = owners /\ minted' = minted
  BY <1>1 DEF serverVars
<1>3. CASE list.state = "unread"
  <2>1. PICK new, met : Begins(k, new, met, "list", Absent, Absent, Absent, TRUE)
    BY <1>3, CreateAnsweredTypes DEF Inv, Holds1
  <2>2. /\ Turns(k, new, met) /\ new.op = "list" /\ new.pc = "sent" /\ new.by = guest
        /\ adrift' = (adrift \/ TRUE \/ met # {})
    BY <2>1 DEF Begins
  <2>3. ReloadsHold'
    BY <1>1, <1>2, <2>2, ReloadsStep
  <2> QED
    BY <2>2, <2>3, InvStep
<1>4. CASE list.state # "unread"
  <2>1. PICK p, item, r, new : p = list.page /\ item = calls[k].answer /\ r = list'.page /\ new = NoCall
    OBVIOUS
  <2>2. Over(k) /\ adrift' = (adrift \/ p = Absent)
    BY <1>4, <2>1 DEF CreateAnswered
  <2>3. Turns(k, new, {}) /\ new.op = "none"
    BY <2>1, <2>2, OverTurns DEF NoCall, Inv
  <2>4. ReloadsHold'
    BY <1>1, <2>3, ReloadsStay DEF Writes
  <2>5. ASSUME ~adrift'
        PROVE  ListHolds'
    <3>1. ~adrift /\ p # Absent
      BY <2>2, <2>5
    <3>2. item \in Item /\ r.codes = <<item>> \o p.codes /\ r.cursor = p.cursor
      BY <2>1, <3>1, CreateAnsweredTypes DEF Inv, Holds1
    <3>3. Newest(item) /\ Current(p)
      BY <1>1, <2>1, <3>1 DEF Inv, ListHolds, At, Newest, Live, Current, Listed
    <3>4. \A j \in Calls \ {k} : calls[j].op # "create"
      BY <1>1, <3>1, WriteAlone DEF Writes
    <3>5. \A i : /\ i \in Coming <=> i = minted
                 /\ i \notin Coming'
                 /\ i \in Changing' <=> i \in Changing
                 /\ i \in Going' <=> i \in Going
      <4>1. item.id = minted
        BY <3>3 DEF Newest
      <4>2. \A i : /\ Comes(calls[k], i) <=> i = minted
                   /\ ~Comes(new, i) /\ \A j \in Calls \ {k} : ~Comes(calls[j], i)
                   /\ ~Changes(calls[k], i) /\ ~Changes(new, i)
                   /\ ~Goes(calls[k], i) /\ ~Goes(new, i)
        BY <1>1, <2>1, <2>3, <3>4, <4>1 DEF Comes, Changes, Goes
      <4> QED
        BY <2>3, <4>2, ToldOf DEF Inv
    <3>6. Current(r)'
      BY <1>1, <1>2, <2>1, <3>1, <3>2, <3>3, <3>5, AddedIsCurrent
    <3>7. (list.page # Absent => Current(list.page))'
      BY <2>1, <3>6 DEF Current, Listed
    <3> QED
      BY <1>1, <2>3, <3>1, <3>4, <3>7, WriteStep DEF Writes
  <2> QED
    BY <2>4, <2>5, InvStep
<1> QED
  BY <1>3, <1>4

\* The row an edit was answered with takes its code's place.
LEMMA EditAnsweredKeeps ==
    ASSUME Inv, Holds2', NEW k \in Calls, EditAnswered(k)
    PROVE  Inv'
<1>1. PICK p, item, id, r, new : /\ p = list.page /\ item = calls[k].answer /\ id = calls[k].id
                                 /\ r = list'.page /\ new = NoCall
  OBVIOUS
<1>2. /\ calls[k].op = "edit" /\ calls[k].pc = "answered" /\ Over(k) /\ UNCHANGED serverVars
      /\ guest' = guest /\ adrift' = adrift
      /\ details' = [details EXCEPT ![id] = [state |-> "data", content |-> item.content]]
  BY <1>1 DEF EditAnswered, At, Show
<1>3. server' = server /\ owners' = owners /\ minted' = minted
  BY <1>2 DEF serverVars
<1>4. /\ id \in Ids /\ item \in Item /\ item.id = id
      /\ p = Absent => r = Absent
      /\ p # Absent => r.cursor = p.cursor /\ r.codes = Replaced(p.codes, item)
  <2>1. /\ id \in Ids /\ item \in Item /\ item.id = id
        /\ p # Absent => r.cursor = p.cursor /\ r.codes = Replaced(p.codes, item)
    BY <1>1, EditAnsweredTypes DEF Inv, Holds1
  <2>2. p = Absent => list' = list
    BY <1>1, EditAnsweredTypes DEF Inv, Holds1
  <2> QED
    BY <1>1, <2>1, <2>2
<1>5. Turns(k, new, {}) /\ new.op = "none"
  BY <1>1, <1>2, OverTurns DEF NoCall, Inv
<1>6. ReloadsHold'
  BY <1>2, <1>5, ReloadsStay DEF Writes
<1>7. ASSUME ~adrift'
      PROVE  ListHolds'
  <2>1. ~adrift
    BY <1>2, <1>7
  <2>2. ~calls[k].crossed /\ \A j \in Calls \ {k} : ~(calls[j].op = "edit" /\ calls[j].id = id)
    <3>1. Apart(calls[k])
      BY <1>2, <2>1 DEF Inv, ListHolds, Writes
    <3> QED
      BY <1>1, <1>2, <2>1, <3>1, WriteAlone DEF Apart, Writes
  <2>3. server[id] \in {item.content, Absent}
    <3>1. Has(id, item.content)
      BY <1>1, <1>2, <2>2 DEF Inv, EditsHold, Under, EditHolds, Has
    <3> QED
      BY <3>1 DEF Has
  <2>4. \A i : /\ i \in Coming' <=> i \in Coming
               /\ i \in Changing' <=> i \in Changing /\ i # id
               /\ i \in Going' <=> i \in Going
    <3>1. \A i : /\ ~Comes(calls[k], i) /\ ~Comes(new, i)
                 /\ (Changes(calls[k], i) <=> i = id) /\ ~Changes(new, i)
                 /\ \A j \in Calls \ {k} : ~Changes(calls[j], id)
                 /\ ~Goes(calls[k], i) /\ ~Goes(new, i)
      BY <1>1, <1>2, <1>5, <2>2 DEF Comes, Changes, Goes
    <3> QED
      BY <1>5, <3>1, ToldOf DEF Inv
  <2>5. (list.page # Absent => Current(list.page))'
    <3> SUFFICES ASSUME p # Absent
                 PROVE  Current(r)'
      BY <1>1, <1>4 DEF Current, Listed
    <3>1. Current(p) /\ r.cursor = p.cursor
      BY <1>1, <1>4, <2>1 DEF Inv, ListHolds, Current, Listed
    <3>2. PICK s, u : s = p.codes /\ u = r.codes
      OBVIOUS
    <3>3. s \in Seq(Item)
      BY <1>1, <3>2, ListedMade DEF Inv
    <3>4. u = Replaced(s, item)
      BY <1>4, <3>2
    <3>5. /\ DOMAIN u = DOMAIN s
          /\ \A n \in DOMAIN s : /\ u[n].id = s[n].id
                                 /\ s[n].id # item.id => u[n] = s[n]
                                 /\ s[n].id = item.id => u[n] = item
      BY <1>4, <3>3, <3>4, ReplacedIs
    <3>6. \A i : i \in Listed(r) <=> i \in Listed(p)
      BY <3>2, <3>5 DEF Listed
    <3>7. Live(guest)' = Live(guest)
      BY <1>2, <1>3 DEF Live
    <3>8. \A m, n \in DOMAIN u : m < n => u[m].id > u[n].id
      BY <3>1, <3>2, <3>5 DEF Current
    <3>9. \A n \in DOMAIN u :
             u[n].id \in Live(guest)' \ Changing' => u[n].content = server'[u[n].id]
      <4>1. \A n \in DOMAIN s : s[n].id \in Live(guest) \ Changing => s[n].content = server[s[n].id]
        BY <3>1, <3>2 DEF Current
      <4>2. id \in Live(guest) => item.content = server[id]
        BY <2>3 DEF Live
      <4> QED
        BY <1>3, <1>4, <2>4, <3>5, <3>7, <4>1, <4>2
    <3>10. /\ \A i \in Listed(r) : Within(i, r.cursor) /\ i \in (Live(guest)' \cup Going') \ Coming'
           /\ \A i \in Live(guest)' \ Coming' : Within(i, r.cursor) => i \in Listed(r)
      <4>1. /\ \A i \in Listed(p) : Within(i, p.cursor) /\ i \in (Live(guest) \cup Going) \ Coming
            /\ \A i \in Live(guest) \ Coming : Within(i, p.cursor) => i \in Listed(p)
        BY <3>1 DEF Current
      <4> QED
        BY <2>4, <3>1, <3>6, <3>7, <4>1
    <3>11. Listed(r)' = Listed(r) /\ \A i : Within(i, r.cursor)' = Within(i, r.cursor)
      BY DEF Listed, Within
    <3> HIDE DEF Listed, Within
    <3> QED
      BY <3>2, <3>8, <3>9, <3>10, <3>11 DEF Current
  <2>6. \A j \in Calls \ {k} : calls[j].op = "create" /\ calls[j].pc = "answered" =>
           /\ minted' = minted /\ server'[minted] = server[minted]
           /\ owners'[minted] = owners[minted] /\ details'[minted].state = "unread"
    <3>1. \A j \in Calls \ {k} : calls[j].op = "create" /\ calls[j].pc = "answered" =>
             id # minted /\ details[minted].state = "unread"
      BY <1>1, <1>2, <2>1, NewestUntouched
    <3> QED
      BY <1>2, <1>3, <3>1
  <2> QED
    BY <1>2, <1>5, <2>1, <2>5, <2>6, WriteStep DEF Writes
<1> QED
  BY <1>6, <1>7, InvStep

\* The code that is gone leaves the list.
LEMMA DeleteAnsweredKeeps ==
    ASSUME Inv, Holds2', NEW k \in Calls, DeleteAnswered(k)
    PROVE  Inv'
<1>1. PICK p, id, r, new : p = list.page /\ id = calls[k].id /\ r = list'.page /\ new = NoCall
  OBVIOUS
<1>2. /\ calls[k].op = "delete" /\ calls[k].pc = "answered" /\ Over(k) /\ UNCHANGED serverVars
      /\ guest' = guest /\ adrift' = adrift /\ details' = details
  BY DEF DeleteAnswered, At
<1>3. server' = server /\ owners' = owners /\ minted' = minted
  BY <1>2 DEF serverVars
<1>4. /\ p = Absent => r = Absent
      /\ p # Absent => r.cursor = p.cursor /\ r.codes = Without(p.codes, id)
  <2>1. p # Absent => r.cursor = p.cursor /\ r.codes = Without(p.codes, id)
    BY <1>1, DeleteAnsweredTypes DEF Inv, Holds1
  <2>2. p = Absent => list' = list
    BY <1>1, DeleteAnsweredTypes DEF Inv, Holds1
  <2> QED
    BY <1>1, <2>1, <2>2
<1>5. Turns(k, new, {}) /\ new.op = "none"
  BY <1>1, <1>2, OverTurns DEF NoCall, Inv
<1>6. ReloadsHold'
  BY <1>2, <1>5, ReloadsStay DEF Writes
<1>7. server[id] = Absent
  <2>1. CallHolds(calls[k])
    BY DEF Inv, StateHolds
  <2> QED
    BY <1>1, <1>2, <2>1 DEF CallHolds
<1>8. ASSUME ~adrift'
      PROVE  ListHolds'
  <2>1. ~adrift
    BY <1>2, <1>8
  <2>2. \A i : /\ i \in Coming' <=> i \in Coming
               /\ i \in Changing' <=> i \in Changing
               /\ i # id => (i \in Going' <=> i \in Going)
    <3>1. \A i : /\ ~Comes(calls[k], i) /\ ~Comes(new, i)
                 /\ ~Changes(calls[k], i) /\ ~Changes(new, i)
                 /\ (Goes(calls[k], i) <=> i = id) /\ ~Goes(new, i)
      BY <1>1, <1>2, <1>5 DEF Comes, Changes, Goes
    <3> QED
      BY <1>5, <3>1, ToldOf DEF Inv
  <2>3. (list.page # Absent => Current(list.page))'
    <3> SUFFICES ASSUME p # Absent
                 PROVE  Current(r)'
      BY <1>1, <1>4 DEF Current, Listed
    <3>1. Current(p) /\ r.cursor = p.cursor
      BY <1>1, <1>4, <2>1 DEF Inv, ListHolds, Current, Listed
    <3>2. PICK s, u : s = p.codes /\ u = r.codes
      OBVIOUS
    <3>3. s \in Seq(Item)
      BY <1>1, <3>2, ListedMade DEF Inv
    <3>4. u = Without(s, id)
      BY <1>4, <3>2
    <3>5. /\ \A n \in DOMAIN u : \E m \in DOMAIN s : u[n] = s[m] /\ s[m].id # id
          /\ \A m \in DOMAIN s : s[m].id # id => \E n \in DOMAIN u : u[n] = s[m]
      BY <3>3, <3>4, WithoutIs
    <3>6. \A m, n \in DOMAIN u : m < n => u[m].id > u[n].id
      <4>1. \A m, n \in DOMAIN s : m < n => s[m].id > s[n].id
        BY <3>1, <3>2 DEF Current
      <4> QED
        BY <3>3, <3>4, <4>1, WithoutIs
    <3>7. \A i : i \in Listed(r) <=> i \in Listed(p) /\ i # id
      BY <3>2, <3>5 DEF Listed
    <3>8. Live(guest)' = Live(guest) /\ id \notin Live(guest)
      BY <1>2, <1>3, <1>7 DEF Live
    <3>9. \A n \in DOMAIN u :
             u[n].id \in Live(guest)' \ Changing' => u[n].content = server'[u[n].id]
      <4>1. \A n \in DOMAIN s : s[n].id \in Live(guest) \ Changing => s[n].content = server[s[n].id]
        BY <3>1, <3>2 DEF Current
      <4> QED
        BY <1>3, <2>2, <3>5, <3>8, <4>1
    <3>10. /\ \A i \in Listed(r) : Within(i, r.cursor) /\ i \in (Live(guest)' \cup Going') \ Coming'
           /\ \A i \in Live(guest)' \ Coming' : Within(i, r.cursor) => i \in Listed(r)
      <4>1. /\ \A i \in Listed(p) : Within(i, p.cursor) /\ i \in (Live(guest) \cup Going) \ Coming
            /\ \A i \in Live(guest) \ Coming : Within(i, p.cursor) => i \in Listed(p)
        BY <3>1 DEF Current
      <4> QED
        BY <2>2, <3>1, <3>7, <3>8, <4>1
    <3>11. Listed(r)' = Listed(r) /\ \A i : Within(i, r.cursor)' = Within(i, r.cursor)
      BY DEF Listed, Within
    <3> HIDE DEF Listed, Within
    <3> QED
      BY <3>2, <3>6, <3>9, <3>10, <3>11 DEF Current
  <2>4. \A j \in Calls \ {k} : calls[j].op = "create" /\ calls[j].pc = "answered" =>
           /\ minted' = minted /\ server'[minted] = server[minted]
           /\ owners'[minted] = owners[minted] /\ details'[minted].state = "unread"
    <3>1. \A j \in Calls \ {k} : calls[j].op = "create" /\ calls[j].pc = "answered" =>
             details[minted].state = "unread"
      BY <1>2, <2>1, NewestUntouched
    <3> QED
      BY <1>2, <1>3, <3>1
  <2> QED
    BY <1>2, <1>5, <2>1, <2>3, <2>4, WriteStep DEF Writes
<1> QED
  BY <1>6, <1>8, InvStep

-----------------------------------------------------------------------------

\* Nothing is under way, and nothing read.
LEMMA InitInv == Init => Inv
<1> SUFFICES ASSUME Init
             PROVE  Inv
  OBVIOUS
<1>1. Holds2
  BY InitHolds2
<1>2. \A j \in Calls : calls[j].op = "none"
  BY DEF Init, NoCall
<1>3. list.page = Absent
  BY DEF Init
<1>4. ReloadsHold /\ ListHolds
  BY <1>2, <1>3 DEF ReloadsHold, ListHolds, Under, At, Writes
<1> QED
  BY <1>1, <1>4 DEF Inv, Holds2, Holds1

LEMMA NextInv == Inv /\ [Next]_vars => Inv'
<1> SUFFICES ASSUME Inv, [Next]_vars
             PROVE  Inv'
  OBVIOUS
<1>1. Holds2'
  BY NextHolds2 DEF Inv, Holds2, Holds1
<1>2. CASE UNCHANGED vars
  BY <1>2, StutterInv
<1>3. CASE ClearLocalData
  BY <1>1, <1>3, ClearKeepsInv
<1>4. ASSUME NEW k \in Calls, User(k)
      PROVE  Inv'
  <2>1. Opened \subseteq Ids
    BY ListAssumption DEF Ids
  <2>2. CASE Watch(k) \/ Refresh(k) \/ LoadMore(k) \/ Save(k)
    BY <1>1, <2>2, StartsKeep
  <2>3. ASSUME NEW i \in Opened, Open(k, i)
        PROVE  Inv'
    BY <1>1, <2>1, <2>3, OpenKeeps
  <2>4. ASSUME NEW i \in Opened, Delete(k, i)
        PROVE  Inv'
    BY <1>1, <2>1, <2>4, StartsKeep
  <2>5. ASSUME NEW i \in Opened, NEW c \in Contents, Edit(k, i, c)
        PROVE  Inv'
    BY <1>1, <2>1, <2>5, EditKeeps
  <2> QED
    BY <1>4, <2>2, <2>3, <2>4, <2>5 DEF User
<1>5. ASSUME NEW k \in Calls, Progress(k)
      PROVE  Inv'
  <2>1. CASE ServePage(k) \/ ServeCreate(k) \/ ServeEdit(k) \/ ServeRow(k) \/ ServeDelete(k)
    BY <1>1, <2>1, ServePageKeeps, ServeCreateKeeps, ServeEditKeeps, ServeRowKeeps,
       ServeDeleteKeeps
  <2>2. CASE NotFound(k) \/ Lose(k)
    BY <1>1, <2>2, NotFoundKeeps, LoseKeeps
  <2>3. CASE ListFailed(k) \/ MoreFailed(k) \/ WriteFailed(k)
    BY <1>1, <2>3, FailuresKeep
  <2>4. CASE GetAnswered(k) \/ GetFailed(k) \/ EditFailed(k)
    BY <1>1, <2>4, ScreensKeep
  <2>5. CASE \/ ListAnswered(k) \/ MoreAnswered(k) \/ CreateAnswered(k)
             \/ EditAnswered(k) \/ DeleteAnswered(k)
    BY <1>1, <2>5, ListAnsweredKeeps, MoreAnsweredKeeps, CreateAnsweredKeeps,
       EditAnsweredKeeps, DeleteAnsweredKeeps
  <2> QED
    BY <1>5, <2>1, <2>2, <2>3, <2>4, <2>5 DEF Progress
<1> QED
  BY <1>2, <1>3, <1>4, <1>5 DEF Next

\* The inductive invariant of the app's codes: in every state what the list shows and what
\* the calls under way are still to tell it make up what the server has, or the list is adrift.
THEOREM ListInvariance == Spec => []Inv
<1>1. Init => Inv
  BY InitInv
<1>2. Inv /\ [Next]_vars => Inv'
  BY NextInv
<1> QED
  BY <1>1, <1>2, PTL DEF Spec

\* "The dashboard updates without a refetch": for any number of codes, guests and calls, the
\* list is what the server has once no call is under way, but for what ListAgrees names.
THEOREM ListTrue == Spec => []ListAgrees
<1>1. Inv => ListAgrees
  <2> SUFFICES ASSUME Inv, ~adrift, list.page # Absent,
                      \A k \in Calls : calls[k].op \in {"none", "get"}
               PROVE  Faithful(list.page)
    BY DEF ListAgrees
  <2>1. PICK p : p = list.page
    OBVIOUS
  <2>2. Current(p)
    BY <2>1 DEF Inv, ListHolds, Current, Listed
  <2>3. \A i : i \notin Coming /\ i \notin Changing /\ i \notin Going
    <3>1. \A k \in Calls : calls[k].op \notin Writes
      BY DEF Writes
    <3> QED
      BY <3>1, NothingToTell
  <2>4. Faithful(p)
    BY <2>2, <2>3, TruthIsCurrent DEF Inv, TypeOK
  <2> QED
    BY <2>1, <2>4 DEF Faithful, Listed
<1> QED
  BY <1>1, ListInvariance, PTL

\* A refresh that nothing crossed mends the list, however far it was adrift (refresh,
\* codes_list_controller.dart): what is then shown is what the server has.
RefreshMends ==
    [][\A k \in Calls : ListAnswered(k) /\ ~calls[k].crossed => ~adrift' /\ Faithful(list.page)']_vars

\* RefreshMends, for any number of codes, guests and calls, and any page size.
THEOREM RefreshTrue == Spec => RefreshMends
<1>1. ASSUME Inv, NEW k \in Calls, ListAnswered(k), ~calls[k].crossed
      PROVE  ~adrift' /\ Faithful(list.page)'
  <2>1. PICK q : q = calls[k].answer
    OBVIOUS
  <2>2. /\ calls[k].op = "list" /\ calls[k].pc = "answered" /\ adrift' = calls[k].crossed
        /\ UNCHANGED serverVars /\ guest' = guest /\ list' = [state |-> "data", page |-> q]
    BY <1>1, <2>1, ListAnsweredTypes DEF ListAnswered, At, Inv, Holds1
  <2>3. Faithful(q)
    BY <1>1, <2>1, <2>2 DEF Inv, ReloadsHold, Under, Faithful, Listed
  <2>4. server' = server /\ owners' = owners /\ list'.page = q
    BY <2>2 DEF serverVars
  <2> QED
    BY <1>1, <2>2, <2>3, <2>4 DEF Faithful, Listed, Live
<1>2. Inv /\ [Next]_vars =>
         [\A k \in Calls : ListAnswered(k) /\ ~calls[k].crossed => ~adrift' /\ Faithful(list.page)']_vars
  BY <1>1
<1> QED
  BY <1>2, ListInvariance, PTL DEF Spec, RefreshMends

\* At every moment, while calls are under way as well, the list that is not adrift has
\* each code as the server has it, but for those whose calls are yet to tell it.
THEOREM ListTrueMeanwhile == Spec => [](~adrift /\ list.page # Absent => Current(list.page))
<1>1. Inv => (~adrift /\ list.page # Absent => Current(list.page))
  BY DEF Inv, ListHolds
<1> QED
  BY <1>1, ListInvariance, PTL
=============================================================================
