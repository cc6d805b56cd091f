------------------------------ MODULE Generator ------------------------------
(***************************************************************************)
(* The app's create flow: the form (GeneratorController), which outlives   *)
(* the screen, the screen with its debounced preview (GeneratorScreen),    *)
(* and the saves under way.  The list that a saved code is added to is     *)
(* CodesList's; colour and label are left out.                             *)
(***************************************************************************)
EXTENDS Payloads

CONSTANTS
    Types,      \* the types offered
    Samples,    \* bound: Samples[type], what is typed into that type's form
    Specimens,  \* bound: the payloads the encoder is tried on
    Saves,      \* the slots for saves under way
    Link,       \* a dynamic code's /r/<slug>
    Absent      \* nothing

ASSUME GeneratorAssumption ==
    /\ "url" \in Types /\ Types \subseteq CodeType
    /\ \A type \in Types : Samples[type] \subseteq PayloadOf(type)
    /\ \A p \in Specimens : \E type \in CodeType : p \in PayloadOf(type)

VARIABLES
    form,       \* the GeneratorState
    screen,     \* the GeneratorScreen: open, _previewData, _debounce, _saving
    saves,      \* saves[k]: a call of _save and what it awaits
    copies,     \* history: the codes made since the form was last reset; 2 is many
    astray      \* history: since then, or before and still under way, a save's
                \* screen was left or its answer lost

vars == <<form, screen, saves, copies, astray>>

Blank == [type |-> "url", payloads |-> [t \in Types |-> Empty(t)], dynamic |-> FALSE]

\* The payload for the selected type.
Payload == form.payloads[form.type]

\* dispose cancels the timer.
Closed == [open |-> FALSE, preview |-> <<>>, due |-> FALSE, saving |-> FALSE]

\* "sent": before the server acts; "made": the code is there; "failed": save() will
\* throw; "sheet": the download sheet is shown.  here: the screen is mounted.
NoSave == [pc |-> "idle", json |-> Absent, dynamic |-> FALSE, here |-> FALSE,
           meant |-> Absent, sheet |-> Absent]

Forms == [t \in Types |-> Samples[t] \cup {Empty(t)}]

\* What may be on a form.
Drafts == UNION {Forms[t] : t \in Types}

Previews == {<<>>} \cup {Encode(p) : p \in Drafts}

Jsons == {ToJson(p) : p \in Drafts}

\* What the app encodes for a code it has from the server.
Sheets == {Encode(FromJson(json)) : json \in Jsons}

\* Absent is nothing a QR says.
ASSUME AbsentIsNoText == Absent \notin Sheets \cup {Link}

\* A save; what meant may be is left to SavesHold.
SaveCall(meant) ==
    [pc : {"idle", "sent", "made", "failed", "sheet"}, json : Jsons \cup {Absent},
     dynamic : BOOLEAN, here : BOOLEAN, meant : {meant}, sheet : Sheets \cup {Link, Absent}]

TypeOK ==
    /\ form \in [type : Types, payloads : [Types -> Drafts], dynamic : BOOLEAN]
    /\ \A t \in Types : form.payloads[t] \in Forms[t]
    /\ form.dynamic => SupportsDynamic(form.type)
    /\ screen \in [open : BOOLEAN, preview : Previews, due : BOOLEAN, saving : BOOLEAN]
    /\ ~screen.open => screen = Closed
    /\ saves = [k \in Saves |-> saves[k]]
    /\ \A k \in Saves :
          /\ saves[k] \in SaveCall(saves[k].meant)
          /\ (saves[k].pc = "idle") = (saves[k] = NoSave)
          /\ (saves[k].pc = "sheet") = (saves[k].sheet # Absent)
          /\ saves[k].dynamic => saves[k].json.type = "url"
    /\ copies \in 0..2 /\ astray \in BOOLEAN

Init ==
    /\ form = Blank
    /\ screen = Closed
    /\ saves = [k \in Saves |-> NoSave]
    /\ copies = 0
    /\ astray = FALSE

-----------------------------------------------------------------------------
(* The screen *)

Enter ==
    /\ ~screen.open
    /\ screen' = [Closed EXCEPT !.open = TRUE]
    /\ UNCHANGED <<form, saves, copies, astray>>

NoSheet == \A k \in Saves : saves[k].pc # "sheet"

\* Touch: on an open screen, and with no sheet over it.
Touch == screen.open /\ NoSheet

\* The user goes elsewhere; a save goes on without its screen.
Leave ==
    /\ Touch
    /\ screen' = Closed
    /\ saves' = [k \in Saves |-> [saves[k] EXCEPT !.here = FALSE]]
    /\ astray' = (astray \/ \E k \in Saves : saves[k].here)
    /\ UNCHANGED <<form, copies>>

\* Mutation: no _schedulePreview.
SelectTypeQuietly(type) ==
    /\ Touch
    /\ form' = [form EXCEPT !.type = type, !.dynamic = SupportsDynamic(type) /\ @]
    /\ UNCHANGED <<screen, saves, copies, astray>>

\* Mutation: the flag stays.
SelectTypeKeepingDynamic(type) ==
    /\ Touch
    /\ form' = [form EXCEPT !.type = type]
    /\ screen' = [screen EXCEPT !.due = TRUE]
    /\ UNCHANGED <<saves, copies, astray>>

\* setType
SelectType(type) ==
    /\ Touch
    /\ form' = [form EXCEPT !.type = type, !.dynamic = SupportsDynamic(type) /\ @]
    /\ screen' = [screen EXCEPT !.due = TRUE]
    /\ UNCHANGED <<saves, copies, astray>>

\* updatePayload
UpdatePayload(p) ==
    /\ Touch
    /\ form' = [form EXCEPT !.payloads[form.type] = p]
    /\ screen' = [screen EXCEPT !.due = TRUE]
    /\ UNCHANGED <<saves, copies, astray>>

\* setDynamic; the switch is enabled for urls only.
SetDynamic(value) ==
    /\ Touch /\ SupportsDynamic(form.type)
    /\ form' = [form EXCEPT !.dynamic = value]
    /\ UNCHANGED <<screen, saves, copies, astray>>

\* The debounce is up.
ShowPreview ==
    /\ screen.due
    /\ screen' = [screen EXCEPT !.preview = Encode(Payload), !.due = FALSE]
    /\ UNCHANGED <<form, saves, copies, astray>>

-----------------------------------------------------------------------------
(* A save *)

NewSave ==
    [pc |-> "sent", json |-> ToJson(Payload), here |-> TRUE, sheet |-> Absent,
     dynamic |-> form.dynamic /\ SupportsDynamic(form.type), meant |-> Meaning(FromJson(Payload))]

\* Mutation: the button is not disabled while a save is under way.
SaveTwice(k) ==
    /\ Touch /\ IsValid(Payload)
    /\ saves[k] = NoSave
    /\ saves' = [saves EXCEPT ![k] = NewSave]
    /\ screen' = [screen EXCEPT !.saving = TRUE]
    /\ UNCHANGED <<form, copies, astray>>

Save(k) ==
    /\ Touch /\ IsValid(Payload) /\ ~screen.saving
    /\ saves[k] = NoSave
    /\ saves' = [saves EXCEPT ![k] = NewSave]
    /\ screen' = [screen EXCEPT !.saving = TRUE]
    /\ UNCHANGED <<form, copies, astray>>

\* The server makes the code, and sends it back as it was sent.
ServeCreate(k) ==
    /\ saves[k].pc = "sent"
    /\ saves' = [saves EXCEPT ![k].pc = "made"]
    /\ copies' = IF copies = 0 THEN 1 ELSE 2
    /\ UNCHANGED <<form, screen, astray>>

Refuse(k) ==
    /\ saves[k].pc = "sent"
    /\ saves' = [saves EXCEPT ![k].pc = "failed"]
    /\ UNCHANGED <<form, screen, copies, astray>>

\* No answer: the code may be there, or yet be made.
Lose(k) ==
    /\ saves[k].pc \in {"sent", "made"}
    /\ saves' = [saves EXCEPT ![k].pc = "failed"]
    /\ astray' = TRUE
    /\ UNCHANGED <<form, screen, copies>>

\* Mutation: every code's QR is its payload's.
PayloadContent(k) == Encode(FromJson(saves[k].json))

\* Code.qrContent
QrContent(k) == IF saves[k].dynamic THEN Link ELSE Encode(FromJson(saves[k].json))

\* Mutation: the form is reset before the screen is looked at.
AnsweredReset(k) ==
    /\ saves[k].pc = "made"
    /\ saves' = [saves EXCEPT ![k] = IF saves[k].here
                                      THEN [@ EXCEPT !.pc = "sheet", !.sheet = QrContent(k)]
                                      ELSE NoSave]
    /\ form' = Blank
    /\ UNCHANGED <<screen, copies, astray>>

\* The answer comes: on a screen that was left, nothing more happens.
Answered(k) ==
    /\ saves[k].pc = "made"
    /\ saves' = [saves EXCEPT ![k] = IF saves[k].here
                                      THEN [@ EXCEPT !.pc = "sheet", !.sheet = QrContent(k)]
                                      ELSE NoSave]
    /\ UNCHANGED <<form, screen, copies, astray>>

\* The sheet is closed: the form is reset, and the code's own screen follows.
Dismiss(k) ==
    /\ saves[k].pc = "sheet"
    /\ form' = Blank
    /\ screen' = Closed
    /\ saves' = [saves EXCEPT ![k] = NoSave]
    /\ copies' = 0
    /\ astray' = \E j \in Saves \ {k} : saves[j].pc # "idle"

\* Mutation: no finally.
FailedStuck(k) ==
    /\ saves[k].pc = "failed"
    /\ saves' = [saves EXCEPT ![k] = NoSave]
    /\ UNCHANGED <<form, screen, copies, astray>>

Failed(k) ==
    /\ saves[k].pc = "failed"
    /\ saves' = [saves EXCEPT ![k] = NoSave]
    /\ screen' = [screen EXCEPT !.saving = @ /\ ~saves[k].here]
    /\ UNCHANGED <<form, copies, astray>>

-----------------------------------------------------------------------------

Next ==
    \/ Enter \/ Leave \/ ShowPreview
    \/ \E type \in Types : SelectType(type)
    \/ \E p \in Forms[form.type] : UpdatePayload(p)
    \/ \E value \in BOOLEAN : SetDynamic(value)
    \/ \E k \in Saves :
          \/ Save(k) \/ ServeCreate(k) \/ Refuse(k) \/ Lose(k)
          \/ Answered(k) \/ Dismiss(k) \/ Failed(k)

Spec == Init /\ [][Next]_vars

-----------------------------------------------------------------------------
(* Properties *)

\* "watch the QR update live" (generator_screen.dart): when no update is due, the
\* preview is empty or says what the form says, whichever type was selected and
\* whatever was reset or left meanwhile.
PreviewTellsTheForm ==
    screen.open /\ ~screen.due => screen.preview \in {<<>>, Encode(Payload)}

\* The Save button is disabled by, and only by, a save of this very screen: the one
\* save that it has under way, not one whose screen was left, however they end.
SavingIsReal ==
    /\ \A j, k \in Saves : saves[j].here /\ saves[k].here => j = k
    /\ screen.saving = \E k \in Saves : saves[k].here

\* A form is saved once, before it is reset, unless a save's screen was left or its
\* answer lost: then the form is still filled in, and saving it again makes a copy.
SavedOnce == ~astray => copies <= 1

\* "if (!mounted) return" (generator_screen.dart): a save whose screen was left never
\* touches the form, which may hold a new draft by then.
DraftSurvives ==
    [][\A k \in Saves :
          saves[k].pc # "idle" /\ ~saves[k].here /\ saves'[k] # saves[k] => form' = form]_vars

\* The recipient is not encoded: a "?", a "%" or a "#" in it is misread (the reader here
\* does not end a link at the "#").
Misread(p) == p.type = "email" /\ \E n \in DOMAIN p.to : p.to[n] \in {"?", "%", "#"}

\* What is downloaded is what was on the form when Save was tapped, the edges' blanks
\* and a misread recipient aside, through the JSON, the server and back; a dynamic
\* code's is its link.
SheetReads ==
    \A k \in Saves :
        saves[k].pc = "sheet" =>
            IF saves[k].dynamic THEN saves[k].sheet = Link
            ELSE \/ Misread(saves[k].json)
                 \/ Read(saves[k].json.type, saves[k].sheet) = saves[k].meant

\* What is stored of payload p reads as it was typed, the edges' blanks aside.
ReadsBack(p) == Read(p.type, Encode(FromJson(ToJson(p)))) = Meaning(FromJson(p))

\* What a phone reads otherwise than it was typed, or than it was stored once saved.
Garbled ==
    {p \in Specimens : ~Misread(p) /\ (Read(p.type, Encode(p)) # Meaning(p) \/ ~ReadsBack(p))}

\* A url the app can save that the server does not draw, or anything it draws
\* otherwise than the app.
Diverging ==
    {p \in Specimens :
        LET json == ToJson(p) IN
        \/ p.type = "url" /\ IsValid(p) /\ ~ServerDraws(json)
        \/ ServerDraws(json) /\ ServerContent(json) # Encode(FromJson(json))}

\* "the exact string encoded into a QR code" (payload_encoder.dart), and "to avoid
\* diverging from the client's encoding" (qr.go): whichever type is selected, a phone
\* reads every payload of it back, whatever separators, escapes and blanks its fields
\* hold (but for the recipient's "?", "%" and "#"), and the server draws what the app would.
CodecsAgree == \A p \in Garbled \cup Diverging : p.type # form.type
=============================================================================
