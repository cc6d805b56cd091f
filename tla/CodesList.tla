------------------------------ MODULE CodesList ------------------------------
(***************************************************************************)
(* The app's codes (lib/features/codes, and the generator's save): the     *)
(* paged list and the details of single codes, kept in step with the       *)
(* server without a refetch.  The server's part is the app's guests' codes *)
(* and the keyset pages of GET /api/v1/codes.  Settings' "Clear local      *)
(* data" makes the app another guest, and leaves the codes on its screens. *)
(*                                                                         *)
(* Codes are numbered in the order (created_at, id).  What an edit can     *)
(* change, the label or the destination, is one value: the two methods     *)
(* treat them alike.                                                       *)
(***************************************************************************)
EXTENDS Naturals, FiniteSets, SequencesExt

CONSTANTS
    MaxCodes,   \* bound: the codes ever created
    PageSize,   \* DefaultListLimit
    Opened,     \* bound: the codes whose screens are opened
    Contents,   \* what a code may say
    Original,   \* what it says until an edit
    Calls,      \* the slots for requests under way
    MaxGuests,  \* bound: the guests the app is, one after the other
    Absent      \* nothing

ASSUME ListAssumption ==
    /\ MaxCodes \in Nat /\ PageSize \in Nat \ {0}
    /\ Opened \subseteq 1..MaxCodes /\ Original \in Contents
    /\ MaxGuests \in Nat \ {0} /\ IsFiniteSet(Calls)
    /\ Absent \notin Contents /\ Absent \notin Nat

VARIABLES
    server,     \* server[i]: what code i says, or Absent
    owners,     \* owners[i]: the guest whose code i is
    minted,     \* how many codes were ever created
    guest,      \* the guest whose token is stored
    list,       \* the CodesListController's state
    loadingMore,\* its _loadingMore
    details,    \* details[i]: the CodeDetailController's state
    calls,      \* calls[k]: a request and where it stands
    adrift,     \* history: calls crossed, an answer was lost, or the guest changed; see ListAgrees
    blurred     \* history: the codes whose edits crossed or were lost

vars == <<server, owners, minted, guest, list, loadingMore, details, calls, adrift, blurred>>

serverVars == <<server, owners, minted>>

Ids == 1..MaxCodes
Guests == 1..MaxGuests
Item == [id : Ids, content : Contents]

\* PaginatedCodes
Page == [codes : Seq(Item), cursor : Ids \cup {Absent}]

\* Absent is no page.
ASSUME AbsentIsNoPage == Absent \notin Page

Writes == {"create", "edit", "delete"}

\* "written": the server has changed the row, and reads it again; "lost": the
\* call will throw.  by: the guest whose token it carries; like content, it matters
\* until the server is done.  before: what loadMore or an edit read when it started.
Call == [op : {"none", "list", "more", "get"} \cup Writes,
         pc : {"idle", "sent", "written", "answered", "lost"},
         by : Guests \cup {Absent}, id : Ids \cup {Absent}, content : Contents \cup {Absent},
         before : Page \cup Contents \cup {Absent}, answer : Page \cup Item \cup {Absent},
         crossed : BOOLEAN]

NewCall(op, id, content, before) ==
    [op |-> op, pc |-> "sent", by |-> guest, id |-> id, content |-> content, before |-> before,
     answer |-> Absent, crossed |-> FALSE]

NoCall == [op |-> "none", pc |-> "idle", by |-> Absent, id |-> Absent, content |-> Absent,
           before |-> Absent, answer |-> Absent, crossed |-> FALSE]

Under(op) == {k \in Calls : calls[k].op = op}

TypeOK ==
    /\ minted \in 0..MaxCodes
    /\ server \in [Ids -> Contents \cup {Absent}]
    /\ \A i \in Ids : i > minted => server[i] = Absent
    /\ owners \in [Ids -> Guests] /\ guest \in Guests
    /\ list \in [state : {"unread", "loading", "data", "error"}, page : Page \cup {Absent}]
    /\ details \in [Ids -> [state : {"unread", "loading", "data", "error"},
                            content : Contents \cup {Absent}]]
    /\ calls \in [Calls -> Call]
    /\ loadingMore \in BOOLEAN /\ Cardinality(Under("more")) <= 1
    /\ adrift \in BOOLEAN /\ blurred \subseteq Ids

\* The user has codes from before; the app has read none.
Init ==
    /\ minted \in 0..MaxCodes
    /\ server = [i \in Ids |-> IF i > minted THEN Absent ELSE Original]
    /\ owners = [i \in Ids |-> 1]
    /\ guest = 1
    /\ list = [state |-> "unread", page |-> Absent]
    /\ loadingMore = FALSE
    /\ details = [i \in Ids |-> [state |-> "unread", content |-> Absent]]
    /\ calls = [k \in Calls |-> NoCall]
    /\ adrift = FALSE
    /\ blurred = {}

-----------------------------------------------------------------------------
(* Calls that cross: each may undo what the other did to the list *)

Crosses(a, b) ==
    \/ a.op = "list" /\ b.op \in Writes \cup {"more"}
    \/ a.op = "more" /\ b.op \in Writes
    \/ a.op = "create" /\ b.op = "create"
    \/ a.op = "edit" /\ b.op = "edit" /\ a.id = b.id

Crossing(k, call) ==
    {j \in Calls \ {k} : Crosses(calls[j], call) \/ Crosses(call, calls[j])}

\* Slot k takes up a call, of a list that may already be amiss.
Put(k, call, amiss) ==
    LET met == Crossing(k, call) IN
    /\ calls' = [j \in Calls |->
          IF j = k THEN [call EXCEPT !.crossed = met # {}]
          ELSE [calls[j] EXCEPT !.crossed = @ \/ j \in met]]
    /\ adrift' = (adrift \/ amiss \/ met # {})
    /\ blurred' = blurred \cup {i \in {call.id} : call.op = "edit" /\ met \cap Under("edit") # {}}

Start(k, call) == calls[k] = NoCall /\ Put(k, call, FALSE)

ListCall == NewCall("list", Absent, Absent, Absent)

-----------------------------------------------------------------------------
(* The user *)

\* The list is watched for the first time: build.
Watch(k) ==
    /\ list.state = "unread"
    /\ Start(k, ListCall)
    /\ list' = [list EXCEPT !.state = "loading"]
    /\ UNCHANGED <<serverVars, guest, loadingMore, details>>

\* Pull to refresh, or Retry.  The data stay in sight.
Refresh(k) ==
    /\ list.state \in {"data", "error"}
    /\ Start(k, ListCall)
    /\ UNCHANGED <<serverVars, guest, list, loadingMore, details>>

\* Mutation: no _loadingMore.
LoadMoreAgain(k) ==
    /\ list.state = "data" /\ list.page.codes # <<>> /\ list.page.cursor # Absent
    /\ Start(k, NewCall("more", list.page.cursor, Absent, list.page))
    /\ loadingMore' = TRUE
    /\ UNCHANGED <<serverVars, guest, list, details>>

\* The list, which is not the empty view, is scrolled to its end.
LoadMore(k) ==
    /\ list.state = "data" /\ list.page.codes # <<>> /\ list.page.cursor # Absent
    /\ ~loadingMore
    /\ Start(k, NewCall("more", list.page.cursor, Absent, list.page))
    /\ loadingMore' = TRUE
    /\ UNCHANGED <<serverVars, guest, list, details>>

\* The generator's save.
Save(k) ==
    /\ minted + Cardinality({j \in Under("create") : calls[j].pc = "sent"}) < MaxCodes
    /\ Start(k, NewCall("create", Absent, Original, Absent))
    /\ UNCHANGED <<serverVars, guest, list, loadingMore, details>>

Listed(p) == {p.codes[n].id : n \in DOMAIN p.codes}

\* A tile is tapped, or the generator goes on to the code it has made.
Open(k, i) ==
    /\ list.page # Absent /\ i \in Listed(list.page)
    /\ details[i].state = "unread"
    /\ Start(k, NewCall("get", i, Absent, Absent))
    /\ details' = [details EXCEPT ![i].state = "loading"]
    /\ UNCHANGED <<serverVars, guest, list, loadingMore>>

Show(i, content) == details' = [details EXCEPT ![i] = [state |-> "data", content |-> content]]

\* updateLabel, updateDestination: shown at once.
Edit(k, i, c) ==
    /\ details[i].content # Absent
    /\ Start(k, NewCall("edit", i, c, details[i].content))
    /\ Show(i, c)
    /\ UNCHANGED <<serverVars, guest, list, loadingMore>>

Delete(k, i) ==
    /\ details[i].content # Absent
    /\ Start(k, NewCall("delete", i, Absent, Absent))
    /\ UNCHANGED <<serverVars, guest, list, loadingMore, details>>

\* Clear local data (SettingsScreen, resetGuest): a new guest's token, and the
\* codes' providers as they were.
ClearLocalData ==
    /\ guest < MaxGuests
    /\ guest' = guest + 1
    /\ adrift' = TRUE
    /\ calls' = [k \in Calls |-> IF k \in Under("list") THEN [calls[k] EXCEPT !.crossed = TRUE]
                                ELSE calls[k]]
    /\ UNCHANGED <<serverVars, list, loadingMore, details, blurred>>

-----------------------------------------------------------------------------
(* The server *)

\* Every query is for one user.
Live(g) == {i \in Ids : server[i] # Absent /\ owners[i] = g}

\* The numbers in S, in order.
InOrder(S) ==
    CHOOSE t \in [1..Cardinality(S) -> S] : \A m, n \in DOMAIN t : m < n => t[m] < t[n]

\* Mutation: the cursor is the row too many.
PageWithExtraCursor(g, cursor) ==
    LET older == {i \in Live(g) : IF cursor = Absent THEN TRUE ELSE i < cursor}
        all   == Reverse(InOrder(older))
        last  == IF Len(all) > PageSize THEN PageSize ELSE Len(all)
    IN  [codes  |-> [n \in 1..last |-> [id |-> all[n], content |-> server[all[n]]]],
         cursor |-> IF Len(all) > PageSize THEN all[PageSize + 1] ELSE Absent]

\* The newest codes older than the cursor, and the last one's position if there
\* are more.
PageAfter(g, cursor) ==
    LET older == {i \in Live(g) : IF cursor = Absent THEN TRUE ELSE i < cursor}
        all   == Reverse(InOrder(older))
        last  == IF Len(all) > PageSize THEN PageSize ELSE Len(all)
    IN  [codes  |-> [n \in 1..last |-> [id |-> all[n], content |-> server[all[n]]]],
         cursor |-> IF Len(all) > PageSize THEN all[PageSize] ELSE Absent]

At(k, op, pc) == calls[k].op = op /\ calls[k].pc = pc

Found(k) == calls[k].id \in Live(calls[k].by)

\* The server is done with call k, or will never be.
Done(k, pc, answer) ==
    calls' = [calls EXCEPT ![k].pc = pc, ![k].answer = answer,
                           ![k].by = Absent, ![k].content = Absent]

Reply(k, answer) == Done(k, "answered", answer)

client == <<guest, list, loadingMore, details, adrift, blurred>>

ServePage(k) ==
    /\ At(k, "list", "sent") \/ At(k, "more", "sent")
    /\ Reply(k, PageAfter(calls[k].by, calls[k].id))
    /\ UNCHANGED serverVars /\ UNCHANGED client

ServeCreate(k) ==
    /\ At(k, "create", "sent")
    /\ minted' = minted + 1
    /\ server' = [server EXCEPT ![minted + 1] = calls[k].content]
    /\ owners' = [owners EXCEPT ![minted + 1] = calls[k].by]
    /\ Reply(k, [id |-> minted + 1, content |-> calls[k].content])
    /\ UNCHANGED client

\* PATCH: the write, and then the row read again.
ServeEdit(k) ==
    /\ At(k, "edit", "sent") /\ Found(k)
    /\ server' = [server EXCEPT ![calls[k].id] = calls[k].content]
    /\ calls' = [calls EXCEPT ![k].pc = "written"]
    /\ UNCHANGED <<owners, minted>> /\ UNCHANGED client

ServeRow(k) ==
    /\ At(k, "edit", "written") \/ At(k, "get", "sent")
    /\ Found(k)
    /\ Reply(k, [id |-> calls[k].id, content |-> server[calls[k].id]])
    /\ UNCHANGED serverVars /\ UNCHANGED client

ServeDelete(k) ==
    /\ At(k, "delete", "sent") /\ Found(k)
    /\ server' = [server EXCEPT ![calls[k].id] = Absent]
    /\ Reply(k, Absent)
    /\ UNCHANGED <<owners, minted>> /\ UNCHANGED client

\* 404.
NotFound(k) ==
    /\ At(k, "edit", "sent") \/ At(k, "edit", "written") \/ At(k, "get", "sent")
       \/ At(k, "delete", "sent")
    /\ ~Found(k)
    /\ Done(k, "lost", Absent)
    /\ UNCHANGED serverVars /\ UNCHANGED client

\* The call, or its answer, is lost, perhaps after the write; or the server refuses
\* it or fails.
Lose(k) ==
    /\ calls[k].pc \in {"sent", "written", "answered"}
    /\ Done(k, "lost", Absent)
    /\ LET written == calls[k].op \in Writes /\ calls[k].pc # "sent" IN
       /\ adrift' = (adrift \/ written)
       /\ blurred' = blurred \cup {i \in {calls[k].id} : written /\ calls[k].op = "edit"}
    /\ UNCHANGED <<serverVars, guest, list, loadingMore, details>>

-----------------------------------------------------------------------------
(* The controllers, when a call ends *)

Over(k) == calls' = [calls EXCEPT ![k] = NoCall]

Data(codes, cursor) ==
    list' = [state |-> "data", page |-> [codes |-> codes, cursor |-> cursor]]

\* build, refresh: the answer becomes the state.
ListAnswered(k) ==
    /\ At(k, "list", "answered")
    /\ Data(calls[k].answer.codes, calls[k].answer.cursor)
    /\ adrift' = calls[k].crossed
    /\ Over(k)
    /\ UNCHANGED <<serverVars, guest, loadingMore, details, blurred>>

ListFailed(k) ==
    /\ At(k, "list", "lost")
    /\ list' = [list EXCEPT !.state = "error"]
    /\ Over(k)
    /\ UNCHANGED <<serverVars, guest, loadingMore, details, adrift, blurred>>

\* loadMore: what it read before, and the page.
MoreAnswered(k) ==
    /\ At(k, "more", "answered")
    /\ Data(calls[k].before.codes \o calls[k].answer.codes, calls[k].answer.cursor)
    /\ loadingMore' = FALSE
    /\ Over(k)
    /\ UNCHANGED <<serverVars, guest, details, adrift, blurred>>

\* Mutation: no finally.
MoreFailsOpen(k) ==
    /\ At(k, "more", "lost")
    /\ Over(k)
    /\ UNCHANGED <<serverVars, guest, list, loadingMore, details, adrift, blurred>>

MoreFailed(k) ==
    /\ At(k, "more", "lost")
    /\ loadingMore' = FALSE
    /\ Over(k)
    /\ UNCHANGED <<serverVars, guest, list, details, adrift, blurred>>

\* optimisticallyAddCode: on a list not read yet, build starts as well.
CreateAnswered(k) ==
    /\ At(k, "create", "answered")
    /\ IF list.page = Absent
         THEN Data(<<calls[k].answer>>, Absent)
         ELSE Data(<<calls[k].answer>> \o list.page.codes, list.page.cursor)
    /\ IF list.state = "unread" THEN Put(k, ListCall, TRUE)
       ELSE Over(k) /\ adrift' = (adrift \/ list.page = Absent) /\ UNCHANGED blurred
    /\ UNCHANGED <<serverVars, guest, loadingMore, details>>

GetAnswered(k) ==
    /\ At(k, "get", "answered")
    /\ Show(calls[k].id, calls[k].answer.content)
    /\ Over(k)
    /\ UNCHANGED <<serverVars, guest, list, loadingMore, adrift, blurred>>

GetFailed(k) ==
    /\ At(k, "get", "lost")
    /\ details' = [details EXCEPT ![calls[k].id].state = "error"]
    /\ Over(k)
    /\ UNCHANGED <<serverVars, guest, list, loadingMore, adrift, blurred>>

Replaced(codes, item) == [n \in DOMAIN codes |-> IF codes[n].id = item.id THEN item ELSE codes[n]]

\* The row the server sent is shown, in the list too (replaceCode).
EditAnswered(k) ==
    /\ At(k, "edit", "answered")
    /\ Show(calls[k].id, calls[k].answer.content)
    /\ IF list.page = Absent THEN UNCHANGED list
       ELSE Data(Replaced(list.page.codes, calls[k].answer), list.page.cursor)
    /\ blurred' = IF calls[k].crossed THEN blurred ELSE blurred \ {calls[k].id}
    /\ Over(k)
    /\ UNCHANGED <<serverVars, guest, loadingMore, adrift>>

\* Mutation: no rollback.
EditKept(k) ==
    /\ At(k, "edit", "lost")
    /\ Over(k)
    /\ UNCHANGED <<serverVars, guest, list, loadingMore, details, adrift, blurred>>

\* Rolled back to what it read before.
EditFailed(k) ==
    /\ At(k, "edit", "lost")
    /\ Show(calls[k].id, calls[k].before)
    /\ Over(k)
    /\ UNCHANGED <<serverVars, guest, list, loadingMore, adrift, blurred>>

\* The codes but i.
Without(codes, i) ==
    LET kept == InOrder({n \in DOMAIN codes : codes[n].id # i})
    IN  [n \in DOMAIN kept |-> codes[kept[n]]]

\* optimisticallyRemoveCode.
DeleteAnswered(k) ==
    /\ At(k, "delete", "answered")
    /\ IF list.page = Absent THEN UNCHANGED list
       ELSE Data(Without(list.page.codes, calls[k].id), list.page.cursor)
    /\ Over(k)
    /\ UNCHANGED <<serverVars, guest, loadingMore, details, adrift, blurred>>

\* A create or a delete that fails changes nothing.
WriteFailed(k) ==
    /\ At(k, "create", "lost") \/ At(k, "delete", "lost")
    /\ Over(k)
    /\ UNCHANGED <<serverVars, guest, list, loadingMore, details, adrift, blurred>>

-----------------------------------------------------------------------------

User(k) ==
    \/ Watch(k) \/ Refresh(k) \/ LoadMore(k) \/ Save(k)
    \/ \E i \in Opened : Open(k, i) \/ Delete(k, i)
    \/ \E i \in Opened, c \in Contents : Edit(k, i, c)

Progress(k) ==
    \/ ServePage(k) \/ ServeCreate(k) \/ ServeEdit(k) \/ ServeRow(k) \/ ServeDelete(k)
    \/ NotFound(k) \/ Lose(k)
    \/ ListAnswered(k) \/ ListFailed(k) \/ MoreAnswered(k) \/ MoreFailed(k)
    \/ CreateAnswered(k) \/ GetAnswered(k) \/ GetFailed(k)
    \/ EditAnswered(k) \/ EditFailed(k) \/ DeleteAnswered(k) \/ WriteFailed(k)

Next == ClearLocalData \/ \E k \in Calls : User(k) \/ Progress(k)

Spec == Init /\ [][Next]_vars

-----------------------------------------------------------------------------
(* Properties *)

\* A page that tells the truth: newest first, nothing twice, nothing skipped down
\* to the cursor, and each code as the server has it.
Faithful(p) ==
    /\ \A m, n \in DOMAIN p.codes : m < n => p.codes[m].id > p.codes[n].id
    /\ Listed(p) = {i \in Live(guest) : IF p.cursor = Absent THEN TRUE ELSE i >= p.cursor}
    /\ \A n \in DOMAIN p.codes : p.codes[n].content = server[p.codes[n].id]

\* "the dashboard updates without a refetch" (codes_list_controller.dart): with no
\* call under way the list is what the server has for this guest, unless since the
\* last refresh that crossed nothing
\*   - a reload or a loadMore crossed a write or each other, two saves crossed, or
\*     two edits of one code did;
\*   - the answer to a write that was carried out was lost;
\*   - local data were cleared: the list is the former guest's, and only a refresh,
\*     whatever calls of that guest are still under way, makes it the new one's;
\*   - a code was added to a list that could not be read.
ListAgrees ==
    ~adrift /\ list.page # Absent /\ (\A k \in Calls : calls[k].op \in {"none", "get"})
        => Faithful(list.page)

\* "apply the change optimistically, call the API, and roll back on error"
\* (code_detail_controller.dart): a code's screen shows what the server has, unless
\* two edits of it crossed or the answer to one was lost, and none went well since.
DetailsAgree ==
    \A i \in Ids :
        i \notin blurred /\ details[i].content # Absent /\ server[i] # Absent
            /\ (\A k \in Calls : ~(calls[k].op = "edit" /\ calls[k].id = i))
            => details[i].content = server[i]

\* Nothing loads for ever: what the screens show as loading, and the flag that
\* keeps loadMore from overlapping, belong to a call that is under way (and Dio's
\* timeouts end every call).
NothingHangs ==
    /\ list.state = "loading" => Under("list") # {}
    /\ loadingMore => Under("more") # {}
    /\ \A i \in Ids : details[i].state = "loading" => \E k \in Under("get") : calls[k].id = i
=============================================================================
