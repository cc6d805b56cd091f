--------------------------- MODULE GeneratorProofs ---------------------------
(***************************************************************************)
(* Proofs about Generator, for any payloads typed into the forms and any   *)
(* number of saves under way.                                              *)
(***************************************************************************)
EXTENDS Generator, SequenceTheorems, WellFoundedInduction, TLAPS

-----------------------------------------------------------------------------
(* Why it holds: the inductive invariant *)

\* A save carries what was on the form when it began; the sheet is on its screen, and
\* shows what was saved.
SavesHold ==
    \A k \in Saves : saves[k].pc # "idle" =>
        /\ \E p \in Drafts :
              /\ IsValid(p)
              /\ saves[k].json = ToJson(p)
              /\ saves[k].meant = Meaning(FromJson(p))
        /\ saves[k].pc = "sheet" => saves[k].here /\ saves[k].sheet = QrContent(k)

\* As long as nothing goes astray, the screen is there for the save under way, and the
\* one code there may be is that save's.
CopiesHold ==
    ~astray =>
        /\ \A k \in Saves : saves[k].pc # "idle" => saves[k].here
        /\ copies = IF \E k \in Saves : saves[k].pc \in {"made", "sheet"} THEN 1 ELSE 0

Inv ==
    /\ TypeOK
    /\ PreviewTellsTheForm
    /\ SavingIsReal
    /\ SavesHold
    /\ CopiesHold

-----------------------------------------------------------------------------
(* The payloads *)

\* What is typed into a form is a payload of its type, and so is an empty form.
LEMMA FormsTyped ==
    ASSUME NEW t \in Types
    PROVE  Forms[t] \subseteq PayloadOf(t) /\ Empty(t) \in Forms[t]
<1>1. <<>> \in Text
  BY DEF Text
<1>2. t \in CodeType /\ Samples[t] \subseteq PayloadOf(t)
  BY GeneratorAssumption
<1>3. Empty(t) \in PayloadOf(t)
  BY <1>1, <1>2 DEF CodeType, Empty, PayloadOf
<1> QED
  BY <1>2, <1>3 DEF Forms

\* A payload's JSON has its type, and its type tells which form it is from.
LEMMA JsonTyped ==
    ASSUME NEW t \in Types, NEW p \in Forms[t]
    PROVE  p.type = t /\ ToJson(p).type = t /\ p \in Drafts /\ ToJson(p) \in Jsons
<1>1. t \in CodeType /\ p \in PayloadOf(t)
  BY FormsTyped, GeneratorAssumption
<1>2. p.type = t /\ ToJson(p).type = t
  BY <1>1 DEF CodeType, PayloadOf, ToJson
<1>3. p \in Drafts
  BY DEF Drafts
<1> QED
  BY <1>2, <1>3 DEF Jsons

-----------------------------------------------------------------------------
(* The form and the screen *)

\* What the invariant says of the form.
LEMMA FormTyped ==
    ASSUME Inv
    PROVE  /\ form.type \in Types /\ Payload \in Forms[form.type] /\ Payload.type = form.type
           /\ form.payloads \in [Types -> Drafts]
           /\ \A t \in Types : form.payloads[t] \in Forms[t]
           /\ Encode(Payload) \in Previews
<1>1. form.type \in Types /\ Payload \in Forms[form.type]
  BY DEF Inv, TypeOK, Payload
<1> QED
  BY <1>1, JsonTyped DEF Inv, TypeOK, Previews

\* The saves are untouched by what touches neither them nor their history.
LEMMA SavesStay ==
    ASSUME SavesHold, CopiesHold, UNCHANGED <<saves, copies, astray>>
    PROVE  SavesHold' /\ CopiesHold'
  BY DEF SavesHold, CopiesHold, QrContent

\* A screen opens with an empty preview, and shows the form when the debounce is up.
LEMMA ScreenInv ==
    ASSUME Inv, Enter \/ ShowPreview
    PROVE  Inv'
<1>1. UNCHANGED <<form, saves, copies, astray>>
  BY DEF Enter, ShowPreview
<1>2. screen \in [open : BOOLEAN, preview : Previews, due : BOOLEAN, saving : BOOLEAN]
  BY DEF Inv, TypeOK
<1>3. CASE Enter
  <2>1. screen'.open /\ screen'.preview = <<>> /\ screen'.saving = FALSE
        /\ screen' \in [open : BOOLEAN, preview : Previews, due : BOOLEAN, saving : BOOLEAN]
    BY <1>3 DEF Enter, Closed, Previews
  <2>2. screen.saving = FALSE
    BY <1>3 DEF Enter, Closed, Inv, TypeOK
  <2>3. TypeOK'
    BY <1>1, <2>1 DEF Inv, TypeOK
  <2>4. PreviewTellsTheForm' /\ SavingIsReal'
    BY <1>1, <2>1, <2>2 DEF Inv, PreviewTellsTheForm, SavingIsReal
  <2> QED
    BY <1>1, <2>3, <2>4, SavesStay DEF Inv
<1>4. CASE ShowPreview
  <2>1. screen' = [screen EXCEPT !.preview = Encode(Payload), !.due = FALSE] /\ screen.due
    BY <1>4 DEF ShowPreview
  <2>2. screen'.open = screen.open /\ screen'.saving = screen.saving
        /\ screen'.preview = Encode(Payload)
        /\ screen' \in [open : BOOLEAN, preview : Previews, due : BOOLEAN, saving : BOOLEAN]
    BY <1>2, <2>1, FormTyped
  <2>3. screen.open
    BY <2>1 DEF Inv, TypeOK, Closed
  <2>4. TypeOK'
    BY <1>1, <2>2, <2>3 DEF Inv, TypeOK
  <2>5. PreviewTellsTheForm' /\ SavingIsReal'
    BY <1>1, <2>2 DEF Inv, PreviewTellsTheForm, SavingIsReal, Payload
  <2> QED
    BY <1>1, <2>4, <2>5, SavesStay DEF Inv
<1> QED
  BY <1>3, <1>4

\* No save has the screen that was left.
LEMMA LeaveInv ==
    ASSUME Inv, Leave
    PROVE  Inv'
<1>1. /\ screen' = Closed
      /\ saves' = [k \in Saves |-> [saves[k] EXCEPT !.here = FALSE]]
      /\ astray' = (astray \/ \E k \in Saves : saves[k].here)
      /\ UNCHANGED <<form, copies>>
      /\ \A k \in Saves : saves[k].pc # "sheet"
  BY DEF Leave, Touch, NoSheet
<1>2. \A k \in Saves : saves'[k] = [saves[k] EXCEPT !.here = FALSE]
                       /\ saves[k] \in SaveCall(saves[k].meant)
  BY <1>1 DEF Inv, TypeOK
<1>3. \A k \in Saves :
         /\ saves'[k].pc = saves[k].pc /\ saves'[k].json = saves[k].json
         /\ saves'[k].dynamic = saves[k].dynamic /\ saves'[k].meant = saves[k].meant
         /\ saves'[k].sheet = saves[k].sheet /\ saves'[k].here = FALSE
         /\ saves'[k] \in SaveCall(saves[k].meant)
  BY <1>2 DEF SaveCall
<1>4. \A k \in Saves : (saves'[k].pc = "idle") = (saves'[k] = NoSave)
  <2> SUFFICES ASSUME NEW k \in Saves
               PROVE  (saves'[k].pc = "idle") = (saves'[k] = NoSave)
    OBVIOUS
  <2>1. CASE saves[k].pc = "idle"
    <3>1. saves[k] = NoSave
      BY <2>1 DEF Inv, TypeOK
    <3> QED
      BY <1>2, <3>1 DEF NoSave
  <2>2. CASE saves[k].pc # "idle"
    BY <1>3, <2>2 DEF NoSave
  <2> QED
    BY <2>1, <2>2
<1>5. TypeOK'
  <2>1. screen' \in [open : BOOLEAN, preview : Previews, due : BOOLEAN, saving : BOOLEAN]
    BY <1>1 DEF Closed, Previews
  <2>2. astray' \in BOOLEAN /\ saves' = [k \in Saves |-> saves'[k]]
    BY <1>1 DEF Inv, TypeOK
  <2>3. \A k \in Saves : /\ (saves'[k].pc = "sheet") = (saves'[k].sheet # Absent)
                         /\ saves'[k].dynamic => saves'[k].json.type = "url"
                         /\ saves'[k] \in SaveCall(saves'[k].meant)
    BY <1>3 DEF Inv, TypeOK
  <2> QED
    BY <1>1, <1>4, <2>1, <2>2, <2>3 DEF Inv, TypeOK
<1>6. PreviewTellsTheForm' /\ SavingIsReal'
  BY <1>1, <1>3 DEF PreviewTellsTheForm, SavingIsReal, Closed
<1>7. SavesHold'
  BY <1>1, <1>3 DEF Inv, SavesHold
<1>8. CopiesHold'
  BY <1>1, <1>3 DEF Inv, CopiesHold
<1> QED
  BY <1>5, <1>6, <1>7, <1>8 DEF Inv

\* A change of what the QR says has an update due.
LEMMA FormInv ==
    ASSUME Inv,
           \/ \E type \in Types : SelectType(type)
           \/ \E p \in Forms[form.type] : UpdatePayload(p)
           \/ \E value \in BOOLEAN : SetDynamic(value)
    PROVE  Inv'
<1>1. UNCHANGED <<saves, copies, astray>> /\ screen.open
  BY DEF SelectType, UpdatePayload, SetDynamic, Touch
<1>2. form \in [type : Types, payloads : [Types -> Drafts], dynamic : BOOLEAN]
      /\ screen \in [open : BOOLEAN, preview : Previews, due : BOOLEAN, saving : BOOLEAN]
  BY DEF Inv, TypeOK
<1>3. /\ form' \in [type : Types, payloads : [Types -> Drafts], dynamic : BOOLEAN]
      /\ \A t \in Types : form'.payloads[t] \in Forms[t]
      /\ form'.dynamic => SupportsDynamic(form'.type)
  <2>1. CASE \E type \in Types : SelectType(type)
    BY <1>2, <2>1, FormTyped DEF SelectType
  <2>2. ASSUME NEW p \in Forms[form.type], UpdatePayload(p)
        PROVE  <1>3!:
    <3>1. form' = [form EXCEPT !.payloads[form.type] = p]
      BY <2>2 DEF UpdatePayload
    <3>2. p \in Drafts
      BY FormTyped, JsonTyped
    <3>3. /\ form'.type = form.type /\ form'.dynamic = form.dynamic
          /\ form'.payloads = [form.payloads EXCEPT ![form.type] = p]
      BY <1>2, <3>1
    <3> QED
      BY <1>2, <3>1, <3>2, <3>3, FormTyped DEF Inv, TypeOK
  <2>3. CASE \E value \in BOOLEAN : SetDynamic(value)
    BY <1>2, <2>3, FormTyped DEF SetDynamic
  <2> QED
    BY <2>1, <2>2, <2>3
<1>4. /\ screen' \in [open : BOOLEAN, preview : Previews, due : BOOLEAN, saving : BOOLEAN]
      /\ screen'.open /\ screen'.saving = screen.saving
  BY <1>1, <1>2 DEF SelectType, UpdatePayload, SetDynamic
<1>5. TypeOK'
  BY <1>1, <1>3, <1>4 DEF Inv, TypeOK
<1>6. PreviewTellsTheForm'
  <2>1. CASE \E type \in Types : SelectType(type)
    BY <1>2, <2>1 DEF SelectType, PreviewTellsTheForm
  <2>2. CASE \E p \in Forms[form.type] : UpdatePayload(p)
    BY <1>2, <2>2 DEF UpdatePayload, PreviewTellsTheForm
  <2>3. CASE \E value \in BOOLEAN : SetDynamic(value)
    <3>1. Payload' = Payload /\ screen' = screen
      BY <1>2, <2>3 DEF SetDynamic, Payload
    <3> QED
      BY <3>1 DEF Inv, PreviewTellsTheForm
  <2> QED
    BY <2>1, <2>2, <2>3
<1>7. SavingIsReal'
  BY <1>1, <1>4 DEF Inv, SavingIsReal
<1> QED
  BY <1>1, <1>5, <1>6, <1>7, SavesStay DEF Inv

-----------------------------------------------------------------------------
(* A save *)

\* What one save's step leaves to be shown, but for the histories.
LEMMA OneSave ==
    ASSUME Inv, NEW k \in Saves, NEW call,
           saves' = [saves EXCEPT ![k] = call], UNCHANGED form,
           call \in SaveCall(call.meant),
           (call.pc = "idle") = (call = NoSave),
           (call.pc = "sheet") = (call.sheet # Absent),
           call.dynamic => call.json.type = "url",
           call.pc # "idle" =>
              /\ \E p \in Drafts :
                    IsValid(p) /\ call.json = ToJson(p) /\ call.meant = Meaning(FromJson(p))
              /\ call.pc = "sheet" =>
                    /\ call.here
                    /\ call.sheet = IF call.dynamic THEN Link ELSE Encode(FromJson(call.json)),
           \/ screen' = screen
           \/ \E saving \in BOOLEAN : screen.open /\ screen' = [screen EXCEPT !.saving = saving],
           copies' \in 0..2, astray' \in BOOLEAN
    PROVE  /\ TypeOK' /\ PreviewTellsTheForm' /\ SavesHold'
           /\ \A j \in Saves : saves'[j] = IF j = k THEN call ELSE saves[j]
<1>1. /\ \A j \in Saves : saves'[j] = IF j = k THEN call ELSE saves[j]
      /\ saves' = [j \in Saves |-> saves'[j]]
  <2>1. saves = [j \in Saves |-> saves[j]]
    BY DEF Inv, TypeOK
  <2> QED
    BY <2>1
<1>2. /\ screen' \in [open : BOOLEAN, preview : Previews, due : BOOLEAN, saving : BOOLEAN]
      /\ screen'.open = screen.open /\ screen'.preview = screen.preview
      /\ screen'.due = screen.due
      /\ ~screen.open => screen' = screen
  BY DEF Inv, TypeOK
<1>3. TypeOK'
  <2>1. ASSUME NEW j \in Saves
        PROVE  /\ saves'[j] \in SaveCall(saves'[j].meant)
               /\ (saves'[j].pc = "idle") = (saves'[j] = NoSave)
               /\ (saves'[j].pc = "sheet") = (saves'[j].sheet # Absent)
               /\ saves'[j].dynamic => saves'[j].json.type = "url"
    <3>1. CASE j = k
      BY <1>1, <3>1
    <3>2. CASE j # k
      BY <1>1, <3>2 DEF Inv, TypeOK
    <3> QED
      BY <3>1, <3>2
  <2> QED
    BY <1>1, <1>2, <2>1 DEF Inv, TypeOK
<1>4. PreviewTellsTheForm'
  BY <1>2 DEF Inv, PreviewTellsTheForm, Payload
<1>5. SavesHold'
  BY <1>1 DEF Inv, SavesHold, QrContent
<1> QED
  BY <1>1, <1>3, <1>4, <1>5

\* A save begins with what is on the form, on a screen that had none under way.
LEMMA SaveInv ==
    ASSUME Inv, NEW k \in Saves, Save(k)
    PROVE  Inv'
<1>1. /\ IsValid(Payload) /\ ~screen.saving /\ screen.open
      /\ saves[k] = NoSave
      /\ saves' = [saves EXCEPT ![k] = NewSave]
      /\ screen' = [screen EXCEPT !.saving = TRUE]
      /\ UNCHANGED <<form, copies, astray>>
  BY DEF Save, Touch
<1>2. PICK call : call = NewSave
  OBVIOUS
<1>3. /\ call.pc = "sent" /\ call.json = ToJson(Payload) /\ call.here = TRUE
      /\ call.sheet = Absent /\ call.meant = Meaning(FromJson(Payload))
      /\ call.dynamic = (form.dynamic /\ SupportsDynamic(form.type))
  BY <1>2 DEF NewSave
<1>4. call.json.type = form.type /\ call.json \in Jsons
  BY <1>3, FormTyped, JsonTyped
<1>5. call \in SaveCall(call.meant)
  BY <1>2, <1>3, <1>4 DEF NewSave, SaveCall, Inv, TypeOK
<1>6. (call.pc = "idle") = (call = NoSave)
  BY <1>3 DEF NoSave
<1>7. call.dynamic => call.json.type = "url"
  BY <1>3, <1>4 DEF SupportsDynamic
<1>8. /\ TypeOK' /\ PreviewTellsTheForm' /\ SavesHold'
      /\ \A j \in Saves : saves'[j] = IF j = k THEN call ELSE saves[j]
  <2>1. \E p \in Drafts :
            IsValid(p) /\ call.json = ToJson(p) /\ call.meant = Meaning(FromJson(p))
    BY <1>1, <1>3, FormTyped, JsonTyped
  <2>2. copies' \in 0..2 /\ astray' \in BOOLEAN
    BY <1>1 DEF Inv, TypeOK
  <2>3. \E saving \in BOOLEAN : screen.open /\ screen' = [screen EXCEPT !.saving = saving]
    BY <1>1
  <2>4. (call.pc = "sheet") = (call.sheet # Absent) /\ call.pc # "sheet"
    BY <1>3
  <2>5. saves' = [saves EXCEPT ![k] = call]
    BY <1>1, <1>2
  <2> QED
    BY <1>1, <1>5, <1>6, <1>7, <2>1, <2>2, <2>3, <2>4, <2>5, OneSave
<1>9. \A j \in Saves : ~saves[j].here
  BY <1>1 DEF Inv, SavingIsReal
<1>10. SavingIsReal'
  <2>1. screen'.saving = TRUE
    BY <1>1 DEF Inv, TypeOK
  <2> QED
    BY <1>3, <1>8, <1>9, <2>1 DEF SavingIsReal
<1>11. CopiesHold'
  BY <1>1, <1>3, <1>8, <1>9 DEF Inv, CopiesHold
<1> QED
  BY <1>8, <1>10, <1>11 DEF Inv

\* The server's answer, or none, changes what the save has come to and nothing else.
LEMMA ServerInv ==
    ASSUME Inv, NEW k \in Saves, ServeCreate(k) \/ Refuse(k) \/ Lose(k)
    PROVE  Inv'
<1>1. PICK pc \in {"made", "failed"} :
        /\ saves' = [saves EXCEPT ![k].pc = pc]
        /\ UNCHANGED form /\ UNCHANGED screen
        /\ saves[k].pc \in {"sent", "made"}
        /\ \/ pc = "made" /\ saves[k].pc = "sent" /\ astray' = astray
              /\ copies' = IF copies = 0 THEN 1 ELSE 2
           \/ pc = "failed" /\ copies' = copies /\ saves[k].pc = "sent" /\ astray' = astray
           \/ pc = "failed" /\ copies' = copies /\ astray' = TRUE
  <2>1. CASE ServeCreate(k)
    BY <2>1 DEF ServeCreate
  <2>2. CASE Refuse(k)
    BY <2>2 DEF Refuse
  <2>3. CASE Lose(k)
    BY <2>3 DEF Lose
  <2> QED
    BY <2>1, <2>2, <2>3
<1>2. PICK old : old = saves[k]
  OBVIOUS
<1>3. PICK call : call = [old EXCEPT !.pc = pc]
  OBVIOUS
<1>4. old \in SaveCall(old.meant)
  BY <1>2 DEF Inv, TypeOK
<1>5. /\ call \in SaveCall(call.meant) /\ call.pc = pc
      /\ call.json = old.json /\ call.here = old.here /\ call.meant = old.meant
      /\ call.sheet = old.sheet /\ call.dynamic = old.dynamic
  BY <1>3, <1>4 DEF SaveCall
<1>6. /\ TypeOK' /\ PreviewTellsTheForm' /\ SavesHold'
      /\ \A j \in Saves : saves'[j] = IF j = k THEN call ELSE saves[j]
  <2>1. saves' = [saves EXCEPT ![k] = call]
    BY <1>1, <1>2, <1>3
  <2>2. (call.pc = "idle") = (call = NoSave)
    BY <1>1, <1>5 DEF NoSave
  <2>3. (call.pc = "sheet") = (call.sheet # Absent) /\ call.pc # "sheet"
    BY <1>1, <1>2, <1>5 DEF Inv, TypeOK
  <2>4. call.dynamic => call.json.type = "url"
    BY <1>2, <1>5 DEF Inv, TypeOK
  <2>5. \E p \in Drafts :
            IsValid(p) /\ call.json = ToJson(p) /\ call.meant = Meaning(FromJson(p))
    BY <1>1, <1>2, <1>5 DEF Inv, SavesHold
  <2>6. copies' \in 0..2
    BY <1>1 DEF Inv, TypeOK
  <2>7. astray' \in BOOLEAN
    <3>1. astray \in BOOLEAN
      BY DEF Inv, TypeOK
    <3>2. astray' = astray \/ astray' = TRUE
      BY <1>1
    <3> QED
      BY <3>1, <3>2
  <2> QED
    BY <1>1, <1>5, <2>1, <2>2, <2>3, <2>4, <2>5, <2>6, <2>7, OneSave
<1>7. SavingIsReal'
  <2>1. \A j \in Saves : saves'[j].here = saves[j].here
    BY <1>2, <1>5, <1>6
  <2> QED
    BY <1>1, <2>1 DEF Inv, SavingIsReal
<1>8. CopiesHold'
  <2> SUFFICES ASSUME ~astray'
               PROVE  /\ \A j \in Saves : saves'[j].pc # "idle" => saves'[j].here
                      /\ copies' = IF \E j \in Saves : saves'[j].pc \in {"made", "sheet"}
                                     THEN 1 ELSE 0
    BY DEF CopiesHold
  <2>1. ~astray /\ old.pc = "sent"
    BY <1>1, <1>2
  <2>2. \A j \in Saves : saves[j].pc # "idle" => j = k
    BY <1>1, <2>1 DEF Inv, CopiesHold, SavingIsReal
  <2>3. copies = 0
    BY <1>2, <2>1, <2>2 DEF Inv, CopiesHold
  <2> QED
    BY <1>1, <1>2, <1>5, <1>6, <2>1, <2>2, <2>3 DEF Inv, CopiesHold
<1> QED
  BY <1>6, <1>7, <1>8 DEF Inv

\* A save that is over leaves its slot empty.
LEMMA OverTyped ==
    ASSUME Inv, NEW k \in Saves, saves' = [saves EXCEPT ![k] = NoSave], UNCHANGED form,
           \/ screen' = screen
           \/ \E saving \in BOOLEAN : screen.open /\ screen' = [screen EXCEPT !.saving = saving],
           copies' \in 0..2, astray' \in BOOLEAN
    PROVE  /\ TypeOK' /\ PreviewTellsTheForm' /\ SavesHold'
           /\ \A j \in Saves : saves'[j] = IF j = k THEN NoSave ELSE saves[j]
           /\ NoSave.pc = "idle" /\ ~NoSave.here
<1>1. PICK call : call = NoSave
  OBVIOUS
<1>2. /\ call.pc = "idle" /\ call.sheet = Absent /\ call.dynamic = FALSE /\ call.here = FALSE
      /\ call \in SaveCall(call.meant)
  BY <1>1 DEF NoSave, SaveCall
<1>3. (call.pc = "idle") = (call = NoSave)
  BY <1>1, <1>2
<1>4. (call.pc = "sheet") = (call.sheet # Absent)
  BY <1>2
<1>5. saves' = [saves EXCEPT ![k] = call]
  BY <1>1
<1>6. call.dynamic => call.json.type = "url"
  BY <1>2
<1>7. call.pc # "idle" =>
        /\ \E p \in Drafts :
              IsValid(p) /\ call.json = ToJson(p) /\ call.meant = Meaning(FromJson(p))
        /\ call.pc = "sheet" =>
              /\ call.here
              /\ call.sheet = IF call.dynamic THEN Link ELSE Encode(FromJson(call.json))
  BY <1>2
<1>8. call \in SaveCall(call.meant)
  BY <1>2
<1>9. /\ TypeOK' /\ PreviewTellsTheForm' /\ SavesHold'
      /\ \A j \in Saves : saves'[j] = IF j = k THEN call ELSE saves[j]
  BY <1>3, <1>4, <1>5, <1>6, <1>7, <1>8, OneSave
<1> QED
  BY <1>1, <1>2, <1>9

\* The answer brings the sheet, or nothing to a screen that was left.
LEMMA AnsweredInv ==
    ASSUME Inv, NEW k \in Saves, Answered(k)
    PROVE  Inv'
<1>1. /\ saves[k].pc = "made"
      /\ saves' = [saves EXCEPT ![k] = IF saves[k].here
                                        THEN [@ EXCEPT !.pc = "sheet", !.sheet = QrContent(k)]
                                        ELSE NoSave]
      /\ UNCHANGED <<form, screen, copies, astray>>
  BY DEF Answered
<1>2. copies' \in 0..2 /\ astray' \in BOOLEAN
  BY <1>1 DEF Inv, TypeOK
<1>3. CASE ~saves[k].here
  <2>1. /\ TypeOK' /\ PreviewTellsTheForm' /\ SavesHold'
        /\ \A j \in Saves : saves'[j] = IF j = k THEN NoSave ELSE saves[j]
        /\ NoSave.pc = "idle" /\ ~NoSave.here
    <3>1. saves' = [saves EXCEPT ![k] = NoSave]
      BY <1>1, <1>3
    <3> QED
      BY <1>1, <1>2, <3>1, OverTyped
  <2>2. SavingIsReal'
    BY <1>1, <1>3, <2>1 DEF Inv, SavingIsReal
  <2>3. CopiesHold'
    BY <1>1, <1>3, <2>1 DEF Inv, CopiesHold
  <2> QED
    BY <2>1, <2>2, <2>3 DEF Inv
<1>4. CASE saves[k].here
  <2>1. PICK old, qr : old = saves[k] /\ qr = QrContent(k)
    OBVIOUS
  <2>2. PICK call : call = [old EXCEPT !.pc = "sheet", !.sheet = qr]
    OBVIOUS
  <2>3. old \in SaveCall(old.meant) /\ old.json \in Jsons /\ (old.dynamic => old.json.type = "url")
    <3>1. old \in SaveCall(old.meant) /\ (old.dynamic => old.json.type = "url")
      BY <2>1 DEF Inv, TypeOK
    <3>2. \E p \in Drafts : old.json = ToJson(p)
      BY <1>1, <2>1 DEF Inv, SavesHold
    <3> QED
      BY <3>1, <3>2 DEF Jsons
  <2>4. qr = (IF old.dynamic THEN Link ELSE Encode(FromJson(old.json)))
        /\ qr \in Sheets \cup {Link} /\ qr # Absent
    BY <2>1, <2>3, AbsentIsNoText DEF QrContent, Sheets
  <2>5. /\ call \in SaveCall(call.meant) /\ call.pc = "sheet" /\ call.sheet = qr
        /\ call.json = old.json /\ call.here = old.here /\ call.meant = old.meant
        /\ call.dynamic = old.dynamic
    BY <2>2, <2>3, <2>4 DEF SaveCall
  <2>6. /\ TypeOK' /\ PreviewTellsTheForm' /\ SavesHold'
        /\ \A j \in Saves : saves'[j] = IF j = k THEN call ELSE saves[j]
    <3>1. saves' = [saves EXCEPT ![k] = call]
      BY <1>1, <1>4, <2>1, <2>2
    <3>2. (call.pc = "idle") = (call = NoSave)
      BY <2>5 DEF NoSave
    <3>3. \E p \in Drafts :
              IsValid(p) /\ call.json = ToJson(p) /\ call.meant = Meaning(FromJson(p))
      BY <1>1, <2>1, <2>5 DEF Inv, SavesHold
    <3>4. (call.pc = "sheet") = (call.sheet # Absent)
      BY <2>4, <2>5
    <3>5. call.dynamic => call.json.type = "url"
      BY <2>3, <2>5
    <3>6. call.here /\ call.sheet = (IF call.dynamic THEN Link ELSE Encode(FromJson(call.json)))
      BY <1>4, <2>1, <2>4, <2>5
    <3> QED
      BY <1>1, <1>2, <2>5, <3>1, <3>2, <3>3, <3>4, <3>5, <3>6, OneSave
  <2>7. SavingIsReal'
    <3>1. \A j \in Saves : saves'[j].here = saves[j].here
      BY <2>1, <2>5, <2>6
    <3> QED
      BY <1>1, <3>1 DEF Inv, SavingIsReal
  <2>8. CopiesHold'
    BY <1>1, <2>1, <2>5, <2>6 DEF Inv, CopiesHold
  <2> QED
    BY <2>6, <2>7, <2>8 DEF Inv
<1> QED
  BY <1>3, <1>4

\* A failed save frees the button of its own screen only.
LEMMA FailedInv ==
    ASSUME Inv, NEW k \in Saves, Failed(k)
    PROVE  Inv'
<1>1. /\ saves[k].pc = "failed"
      /\ saves' = [saves EXCEPT ![k] = NoSave]
      /\ screen' = [screen EXCEPT !.saving = @ /\ ~saves[k].here]
      /\ UNCHANGED <<form, copies, astray>>
  BY DEF Failed
<1>2. copies' \in 0..2 /\ astray' \in BOOLEAN
      /\ screen \in [open : BOOLEAN, preview : Previews, due : BOOLEAN, saving : BOOLEAN]
      /\ saves[k].here \in BOOLEAN
  BY <1>1 DEF Inv, TypeOK, SaveCall
<1>3. \/ screen' = screen
      \/ \E saving \in BOOLEAN : screen.open /\ screen' = [screen EXCEPT !.saving = saving]
  <2>1. CASE screen.open
    BY <1>1, <1>2, <2>1
  <2>2. CASE ~screen.open
    <3>1. screen.saving = FALSE
      BY <2>2 DEF Inv, TypeOK, Closed
    <3> QED
      BY <1>1, <1>2, <3>1
  <2> QED
    BY <2>1, <2>2
<1>4. /\ TypeOK' /\ PreviewTellsTheForm' /\ SavesHold'
      /\ \A j \in Saves : saves'[j] = IF j = k THEN NoSave ELSE saves[j]
      /\ NoSave.pc = "idle" /\ ~NoSave.here
  BY <1>1, <1>2, <1>3, OverTyped
<1>5. screen'.saving = (screen.saving /\ ~saves[k].here)
  BY <1>1, <1>2
<1>6. SavingIsReal'
  BY <1>4, <1>5 DEF Inv, SavingIsReal
<1>7. CopiesHold'
  BY <1>1, <1>4 DEF Inv, CopiesHold
<1> QED
  BY <1>4, <1>6, <1>7 DEF Inv

\* The sheet's screen is the one there is: with it go the form's text and the histories.
LEMMA DismissInv ==
    ASSUME Inv, NEW k \in Saves, Dismiss(k)
    PROVE  Inv'
<1>1. /\ saves[k].pc = "sheet"
      /\ form' = Blank /\ screen' = Closed
      /\ saves' = [saves EXCEPT ![k] = NoSave]
      /\ copies' = 0
      /\ astray' = \E j \in Saves \ {k} : saves[j].pc # "idle"
  BY DEF Dismiss
<1>2. /\ \A j \in Saves : saves'[j] = IF j = k THEN NoSave ELSE saves[j]
      /\ saves' = [j \in Saves |-> saves'[j]]
  <2>1. saves = [j \in Saves |-> saves[j]]
    BY DEF Inv, TypeOK
  <2> QED
    BY <1>1, <2>1
<1>3. NoSave.pc = "idle" /\ ~NoSave.here /\ NoSave.sheet = Absent /\ ~NoSave.dynamic
      /\ NoSave \in SaveCall(NoSave.meant)
  BY DEF NoSave, SaveCall
<1>4. TypeOK'
  <2>1. /\ form' \in [type : Types, payloads : [Types -> Drafts], dynamic : BOOLEAN]
        /\ \A t \in Types : form'.payloads[t] \in Forms[t]
        /\ form'.dynamic = FALSE
    BY <1>1, FormsTyped, JsonTyped, GeneratorAssumption DEF Blank
  <2>2. screen' \in [open : BOOLEAN, preview : Previews, due : BOOLEAN, saving : BOOLEAN]
    BY <1>1 DEF Closed, Previews
  <2>3. ASSUME NEW j \in Saves
        PROVE  /\ saves'[j] \in SaveCall(saves'[j].meant)
               /\ (saves'[j].pc = "idle") = (saves'[j] = NoSave)
               /\ (saves'[j].pc = "sheet") = (saves'[j].sheet # Absent)
               /\ saves'[j].dynamic => saves'[j].json.type = "url"
    <3>1. CASE j = k
      BY <1>2, <1>3, <3>1
    <3>2. CASE j # k
      BY <1>2, <3>2 DEF Inv, TypeOK
    <3> QED
      BY <3>1, <3>2
  <2> QED
    BY <1>1, <1>2, <2>1, <2>2, <2>3 DEF TypeOK
<1>5. PreviewTellsTheForm'
  BY <1>1 DEF PreviewTellsTheForm, Closed
<1>6. SavingIsReal'
  <2>1. saves[k].here
    BY <1>1 DEF Inv, SavesHold
  <2> QED
    BY <1>1, <1>2, <1>3, <2>1 DEF Inv, SavingIsReal, Closed
<1>7. SavesHold'
  BY <1>2, <1>3 DEF Inv, SavesHold, QrContent
<1>8. CopiesHold'
  BY <1>1, <1>2, <1>3 DEF CopiesHold
<1> QED
  BY <1>4, <1>5, <1>6, <1>7, <1>8 DEF Inv

-----------------------------------------------------------------------------
(* Every step *)

\* The invariant holds at first.
LEMMA InitInv == Init => Inv
<1> SUFFICES ASSUME Init
             PROVE  Inv
  OBVIOUS
<1>1. /\ form = Blank /\ screen = Closed /\ saves = [k \in Saves |-> NoSave]
      /\ copies = 0 /\ astray = FALSE
  BY DEF Init
<1>2. NoSave.pc = "idle" /\ ~NoSave.here /\ NoSave.sheet = Absent /\ ~NoSave.dynamic
      /\ NoSave \in SaveCall(NoSave.meant)
  BY DEF NoSave, SaveCall
<1>3. /\ form \in [type : Types, payloads : [Types -> Drafts], dynamic : BOOLEAN]
      /\ \A t \in Types : form.payloads[t] \in Forms[t]
      /\ form.dynamic = FALSE
  BY <1>1, FormsTyped, JsonTyped, GeneratorAssumption DEF Blank
<1>4. screen \in [open : BOOLEAN, preview : Previews, due : BOOLEAN, saving : BOOLEAN]
      /\ ~screen.open /\ screen.saving = FALSE
  BY <1>1 DEF Closed, Previews
<1>5. TypeOK
  <2>1. \A k \in Saves : saves[k] = NoSave
    BY <1>1
  <2>2. saves = [k \in Saves |-> saves[k]]
    BY <1>1
  <2>3. \A k \in Saves :
           /\ saves[k] \in SaveCall(saves[k].meant)
           /\ (saves[k].pc = "idle") = (saves[k] = NoSave)
           /\ (saves[k].pc = "sheet") = (saves[k].sheet # Absent)
           /\ saves[k].dynamic => saves[k].json.type = "url"
    BY <1>2, <2>1
  <2>4. screen = Closed /\ copies \in 0..2
    BY <1>1
  <2>5. astray \in BOOLEAN
    BY <1>1
  <2> QED
    BY <1>3, <1>4, <2>2, <2>3, <2>4, <2>5 DEF TypeOK
<1>6. PreviewTellsTheForm /\ SavingIsReal /\ SavesHold /\ CopiesHold
  BY <1>1, <1>2, <1>4 DEF PreviewTellsTheForm, SavingIsReal, SavesHold, CopiesHold
<1> QED
  BY <1>5, <1>6 DEF Inv

\* Every step keeps it.
LEMMA StepInv == Inv /\ [Next]_vars => Inv'
<1> SUFFICES ASSUME Inv, [Next]_vars
             PROVE  Inv'
  OBVIOUS
<1>1. CASE UNCHANGED vars
  BY <1>1 DEF vars, Inv, TypeOK, PreviewTellsTheForm, SavingIsReal, SavesHold, CopiesHold,
              Payload, QrContent
<1>2. CASE Enter \/ ShowPreview
  BY <1>2, ScreenInv
<1>3. CASE Leave
  BY <1>3, LeaveInv
<1>4. CASE \/ \E type \in Types : SelectType(type)
           \/ \E p \in Forms[form.type] : UpdatePayload(p)
           \/ \E value \in BOOLEAN : SetDynamic(value)
  BY <1>4, FormInv
<1>5. ASSUME NEW k \in Saves,
             \/ Save(k) \/ ServeCreate(k) \/ Refuse(k) \/ Lose(k)
             \/ Answered(k) \/ Dismiss(k) \/ Failed(k)
      PROVE  Inv'
  BY <1>5, SaveInv, ServerInv, AnsweredInv, DismissInv, FailedInv
<1> QED
  BY <1>1, <1>2, <1>3, <1>4, <1>5 DEF Next

\* The invariant holds, for any payloads and any number of saves under way.
THEOREM GeneratorInvariance == Spec => []Inv
  BY InitInv, StepInv, PTL DEF Spec

-----------------------------------------------------------------------------
(* What the runs check *)

\* A dynamic code is a url's, a closed screen has no timer, and a sheet is shown just
\* when there is one.
THEOREM GeneratorTypes == Spec => []TypeOK
<1>1. Inv => TypeOK
  BY DEF Inv
<1> QED
  BY <1>1, GeneratorInvariance, PTL

\* The preview tells the form, once no update is due.
THEOREM PreviewTells == Spec => []PreviewTellsTheForm
<1>1. Inv => PreviewTellsTheForm
  BY DEF Inv
<1> QED
  BY <1>1, GeneratorInvariance, PTL

\* The button is disabled by, and only by, the one save of this very screen.
THEOREM SavingReal == Spec => []SavingIsReal
<1>1. Inv => SavingIsReal
  BY DEF Inv
<1> QED
  BY <1>1, GeneratorInvariance, PTL

\* A form is saved once, unless a save's screen was left or its answer lost.
THEOREM SavesOnce == Spec => []SavedOnce
<1>1. Inv => SavedOnce
  BY DEF Inv, CopiesHold, SavedOnce
<1> QED
  BY <1>1, GeneratorInvariance, PTL

\* A save whose screen was left never touches the form: only Dismiss changes both the
\* form and a save, and a sheet's screen is there.
THEOREM DraftsSurvive == Spec => DraftSurvives
<1>1. Inv /\ [Next]_vars => [\A k \in Saves :
          saves[k].pc # "idle" /\ ~saves[k].here /\ saves'[k] # saves[k] => form' = form]_vars
  <2> SUFFICES ASSUME Inv, Next, NEW k \in Saves,
                      saves[k].pc # "idle", ~saves[k].here, saves'[k] # saves[k]
               PROVE  form' = form
    OBVIOUS
  <2>1. CASE \/ Enter \/ Leave \/ ShowPreview
             \/ \E type \in Types : SelectType(type)
             \/ \E p \in Forms[form.type] : UpdatePayload(p)
             \/ \E value \in BOOLEAN : SetDynamic(value)
    BY <2>1 DEF Enter, Leave, ShowPreview, SelectType, UpdatePayload, SetDynamic
  <2>2. ASSUME NEW j \in Saves,
               Save(j) \/ ServeCreate(j) \/ Refuse(j) \/ Lose(j) \/ Answered(j) \/ Failed(j)
        PROVE  form' = form
    BY <2>2 DEF Save, ServeCreate, Refuse, Lose, Answered, Failed
  <2>3. ASSUME NEW j \in Saves, Dismiss(j)
        PROVE  form' = form
    <3>1. saves[j].pc = "sheet" /\ saves' = [saves EXCEPT ![j] = NoSave]
      BY <2>3 DEF Dismiss
    <3>2. saves[j].here
      BY <3>1 DEF Inv, SavesHold
    <3>3. j # k
      BY <3>2
    <3>4. saves = [i \in Saves |-> saves[i]]
      BY DEF Inv, TypeOK
    <3>5. saves'[k] = saves[k]
      BY <3>1, <3>3, <3>4
    <3> QED
      BY <3>5
  <2> QED
    BY <2>1, <2>2, <2>3 DEF Next
<1> QED
  BY <1>1, GeneratorInvariance, PTL DEF Spec, DraftSurvives

-----------------------------------------------------------------------------
(* Texts, one character after the other *)

\* A set of naturals has a least one.
LEMMA LeastOf ==
    ASSUME NEW S, S \subseteq Nat, S # {}
    PROVE  \E m \in S : \A n \in S : m <= n
<1>1. IsWellFoundedOn(OpToRel(<, Nat), Nat)
  BY NatLessThanWellFounded
<1>2. \E m \in S : \A n \in S : ~ (<<n, m>> \in OpToRel(<, Nat))
  BY <1>1, WFMin
<1>3. \A m, n \in S : <<n, m>> \in OpToRel(<, Nat) <=> n < m
  BY DEF OpToRel
<1>4. PICK m \in S : \A n \in S : ~ (<<n, m>> \in OpToRel(<, Nat))
  BY <1>2
<1>5. \A n \in S : ~ (n < m)
  BY <1>3, <1>4
<1> QED
  BY <1>5

\* What holds of 0, and of each number up to N if of the one before, holds up to N.
LEMMA UpTo ==
    ASSUME NEW N \in Nat, NEW S, 0 \in S, \A n \in 1..N : n - 1 \in S => n \in S
    PROVE  0..N \subseteq S
<1> SUFFICES ASSUME 0..N \ S # {}
             PROVE  FALSE
  OBVIOUS
<1> DEFINE rest == 0..N \ S
<1>1. PICK m \in rest : \A n \in rest : m <= n
  <2>1. rest \subseteq Nat /\ rest # {}
    OBVIOUS
  <2> HIDE DEF rest
  <2> QED
    BY <2>1, LeastOf
<1>2. m \in 1..N /\ m - 1 \in 0..N
  BY <1>1
<1>3. m - 1 \notin rest
  BY <1>1, <1>2
<1> QED
  BY <1>1, <1>2, <1>3

\* What holds of the empty text, and of each longer one if of the shorter, holds of all.
LEMMA EveryText ==
    ASSUME NEW S, <<>> \in S,
           \A t \in Text, c \in Chars : t \in S => Append(t, c) \in S
    PROVE  Text \subseteq S
<1> SUFFICES ASSUME NEW t \in Text
             PROVE  t \in S
  OBVIOUS
<1>1. t \in Seq(Chars)
  BY DEF Text
<1>2. PICK N \in Nat : N = Len(t)
  BY <1>1
<1>3. PICK prefix : prefix = [n \in 0..N |-> SubSeq(t, 1, n)]
  OBVIOUS
<1>4. prefix[0] = <<>> /\ prefix[N] = t
  <2>1. prefix[0] = SubSeq(t, 1, 0) /\ prefix[N] = SubSeq(t, 1, N)
    BY <1>3
  <2>2. SubSeq(t, 1, 0) = <<>> /\ SubSeq(t, 1, N) = t
    BY <1>1, <1>2
  <2> QED
    BY <2>1, <2>2
<1>5. ASSUME NEW n \in 1..N
      PROVE  /\ prefix[n - 1] \in Text /\ t[n] \in Chars
             /\ prefix[n] = Append(prefix[n - 1], t[n])
  <2>1. prefix[n] = SubSeq(t, 1, n) /\ prefix[n - 1] = SubSeq(t, 1, n - 1)
    BY <1>3
  <2>2. SubSeq(t, 1, n - 1) \in Seq(Chars) /\ t[n] \in Chars
        /\ SubSeq(t, 1, n) = Append(SubSeq(t, 1, n - 1), t[n])
    BY <1>1, <1>2
  <2> QED
    BY <2>1, <2>2 DEF Text
<1> DEFINE good == {n \in 0..N : prefix[n] \in S}
<1>6. 0 \in good
  BY <1>4
<1>7. \A n \in 1..N : n - 1 \in good => n \in good
  <2>1. \A n \in 1..N : prefix[n - 1] \in S => prefix[n] \in S
    BY <1>5
  <2> QED
    BY <2>1
<1>8. N \in good
  <2> HIDE DEF good
  <2>1. 0..N \subseteq good
    BY <1>6, <1>7, UpTo
  <2> QED
    BY <2>1
<1> QED
  BY <1>4, <1>8

\* f goes from first, through N steps in V.
Stepwise(f, V, N, first, step) ==
    f \in [0..N -> V] /\ f[0] = first /\ \A n \in 1..N : f[n] = step[n][f[n - 1]]

\* What the steps make of what is in V is in V.
Within(V, N, step) == \A n \in 1..N : \A v \in V : step[n][v] \in V

\* A function defined step by step exists,
LEMMA StepByStep ==
    ASSUME NEW V, NEW N \in Nat, NEW first \in V,
           NEW step, Within(V, N, step)
    PROVE  \E f : Stepwise(f, V, N, first, step)
<1>0. \A n \in 1..N : \A v \in V : step[n][v] \in V
  BY DEF Within
<1> DEFINE Upto(n) == {f \in [0..n -> V] :
                          f[0] = first /\ \A m \in 1..n : f[m] = step[m][f[m - 1]]}
           good == {n \in 0..N : Upto(n) # {}}
<1>1. 0 \in good
  <2>1. [n \in 0..0 |-> first] \in Upto(0)
    OBVIOUS
  <2> QED
    BY <2>1
<1>2. ASSUME NEW n \in 1..N, n - 1 \in good
      PROVE  n \in good
  <2>1. PICK f \in [0..n - 1 -> V] :
           f[0] = first /\ \A m \in 1..n - 1 : f[m] = step[m][f[m - 1]]
    BY <1>2
  <2>2. PICK g : g = [m \in 0..n |-> IF m = n THEN step[n][f[n - 1]] ELSE f[m]]
    OBVIOUS
  <2>3. f[n - 1] \in V
    BY <2>1
  <2>4. step[n][f[n - 1]] \in V
    BY <1>0, <2>3
  <2>5. g \in [0..n -> V]
    BY <2>1, <2>2, <2>4
  <2>6. g[0] = first
    BY <2>1, <2>2
  <2>7. ASSUME NEW m \in 1..n
        PROVE  g[m] = step[m][g[m - 1]]
    <3>1. CASE m = n
      BY <2>2, <3>1
    <3>2. CASE m # n
      <4>1. m \in 1..n - 1 /\ m - 1 \in 0..n - 1 /\ m - 1 # n
        BY <3>2
      <4> QED
        BY <2>1, <2>2, <4>1
    <3> QED
      BY <3>1, <3>2
  <2>8. g \in Upto(n)
    BY <2>5, <2>6, <2>7
  <2> QED
    BY <2>8
<1>3. N \in good
  <2> HIDE DEF good
  <2>1. 0..N \subseteq good
    BY <1>1, <1>2, UpTo
  <2> QED
    BY <2>1
<1> QED
  BY <1>3 DEF Stepwise

\* and is the only one of its kind.
LEMMA OnlyOne ==
    ASSUME NEW N \in Nat, NEW f, NEW g, f[0] = g[0],
           \A n \in 1..N : f[n - 1] = g[n - 1] => f[n] = g[n]
    PROVE  \A n \in 0..N : f[n] = g[n]
<1> DEFINE same == {n \in 0..N : f[n] = g[n]}
<1>1. 0 \in same
  OBVIOUS
<1>2. \A n \in 1..N : n - 1 \in same => n \in same
  OBVIOUS
<1>3. 0..N \subseteq same
  <2> HIDE DEF same
  <2> QED
    BY <1>1, <1>2, UpTo
<1> QED
  BY <1>3

\* A sequence with one element more.
LEMMA OneLonger ==
    ASSUME NEW C, NEW t \in Seq(C), NEW c \in C, NEW n \in Nat, n = Len(t),
           NEW x, x = Append(t, c)
    PROVE  x \in Seq(C) /\ Len(x) = n + 1 /\ (\A i \in 1..n : x[i] = t[i]) /\ x[n + 1] = c
<1>1. /\ Append(t, c) \in Seq(C)
      /\ Len(Append(t, c)) = Len(t) + 1
      /\ \A i \in 1..Len(t) : Append(t, c)[i] = t[i]
      /\ Append(t, c)[Len(t) + 1] = c
  BY AppendProperties
<1> QED
  BY <1>1

\* f is what the first characters of t have become.
Mapped(f, t, N, image) ==
    /\ f \in [0..N -> Text] /\ MapChars(t, image) = f[N]
    /\ f[0] = <<>> /\ \A n \in 1..N : f[n] = f[n - 1] \o image[t[n]]

\* Each character of a text in turn becomes its image.
LEMMA Mapping ==
    ASSUME NEW t \in Text, NEW image, \A d \in Chars : image[d] \in Text
    PROVE  \E f : Mapped(f, t, Len(t), image)
<1>1. PICK N \in Nat : N = Len(t)
  BY DEF Text
<1>2. \A n \in 1..N : t[n] \in Chars /\ image[t[n]] \in Text
  <2>1. t \in Seq(Chars)
    BY DEF Text
  <2>2. \A n \in 1..N : t[n] \in Chars
    BY <1>1, <2>1
  <2> QED
    BY <2>2
<1> DEFINE Add(v, n) == v \o image[t[n]]
           mapped == CHOOSE g : g = [n \in 0..N |-> IF n = 0 THEN <<>> ELSE Add(g[n - 1], n)]
<1>3. MapChars(t, image) = mapped[N]
  BY <1>1 DEF MapChars
<1>4. \A v \in Text : \A n \in 1..N : Add(v, n) \in Text
  BY <1>2 DEF Text
<1>5. <<>> \in Text
  BY DEF Text
<1> HIDE DEF Add
<1>6. PICK f : /\ f \in [0..N -> Text]
               /\ f[0] = <<>> /\ \A n \in 1..N : f[n] = Add(f[n - 1], n)
  <2>1. PICK none : none = <<>>
    OBVIOUS
  <2>2. PICK step : step = [n \in 1..N |-> [v \in Text |-> Add(v, n)]]
    OBVIOUS
  <2>3. Within(Text, N, step)
    BY <1>4, <2>2 DEF Within
  <2>4. none \in Text
    BY <1>5, <2>1
  <2>5. \E f : Stepwise(f, Text, N, none, step)
    BY <2>3, <2>4, StepByStep
  <2>6. PICK f : f \in [0..N -> Text] /\ f[0] = none /\ \A n \in 1..N : f[n] = step[n][f[n - 1]]
    BY <2>5 DEF Stepwise
  <2>7. ASSUME NEW n \in 1..N
        PROVE  f[n] = Add(f[n - 1], n)
    <3>1. f[n - 1] \in Text
      BY <2>6
    <3>2. step[n][f[n - 1]] = Add(f[n - 1], n)
      BY <2>2, <3>1
    <3> QED
      BY <2>6, <3>2
  <2> QED
    BY <2>1, <2>6, <2>7
<1>7. mapped = [n \in 0..N |-> IF n = 0 THEN <<>> ELSE Add(mapped[n - 1], n)]
  <2>1. f = [n \in 0..N |-> IF n = 0 THEN <<>> ELSE Add(f[n - 1], n)]
    BY <1>6
  <2> QED
    BY <2>1, Zenon
<1>8. \A n \in 0..N : f[n] = mapped[n]
  <2> HIDE DEF mapped
  <2>1. f[0] = mapped[0]
    BY <1>6, <1>7
  <2>2. \A n \in 1..N : f[n - 1] = mapped[n - 1] => f[n] = mapped[n]
    BY <1>6, <1>7
  <2> QED
    BY <2>1, <2>2, OnlyOne
<1>9. mapped[N] = f[N]
  BY <1>8
<1> QED
  BY <1>1, <1>3, <1>6, <1>9 DEF Add, Mapped

\* The image of the empty text.
LEMMA MapNone ==
    ASSUME NEW image, \A d \in Chars : image[d] \in Text
    PROVE  MapChars(<<>>, image) = <<>>
<1>1. PICK t : t = <<>>
  OBVIOUS
<1>2. t \in Text /\ Len(t) = 0
  BY <1>1 DEF Text
<1>3. PICK f : Mapped(f, t, Len(t), image)
  BY <1>2, Mapping
<1> QED
  BY <1>1, <1>2, <1>3 DEF Mapped

\* The image of a text with one character more.
LEMMA MapOneMore ==
    ASSUME NEW t \in Text, NEW c \in Chars, NEW image, \A d \in Chars : image[d] \in Text
    PROVE  /\ MapChars(t, image) \in Text
           /\ MapChars(Append(t, c), image) = MapChars(t, image) \o image[c]
<1>1. PICK N \in Nat : N = Len(t)
  BY DEF Text
<1>2. PICK u : u = Append(t, c)
  OBVIOUS
<1>3. u \in Text /\ Len(u) = N + 1 /\ u[N + 1] = c /\ \A n \in 1..N : u[n] = t[n]
  <2>1. t \in Seq(Chars) /\ N = Len(t)
    BY <1>1 DEF Text
  <2> QED
    BY <1>2, <2>1, OneLonger DEF Text
<1>4. PICK f :
         /\ f \in [0..N -> Text]
         /\ f[0] = <<>> /\ \A n \in 1..N : f[n] = f[n - 1] \o image[t[n]]
         /\ MapChars(t, image) = f[N]
  <2>1. \E f : Mapped(f, t, N, image)
    BY <1>1, Mapping
  <2> QED
    BY <2>1 DEF Mapped
<1>5. PICK g :
         /\ g \in [0..N + 1 -> Text]
         /\ g[0] = <<>> /\ \A n \in 1..N + 1 : g[n] = g[n - 1] \o image[u[n]]
         /\ MapChars(u, image) = g[N + 1]
  <2>1. \E g : Mapped(g, u, N + 1, image)
    BY <1>3, Mapping
  <2> QED
    BY <2>1 DEF Mapped
<1>6. \A n \in 0..N : f[n] = g[n]
  <2>1. \A n \in 1..N : n \in 1..N + 1 /\ u[n] = t[n]
    BY <1>3
  <2>2. \A n \in 1..N : f[n - 1] = g[n - 1] => f[n] = g[n]
    BY <1>4, <1>5, <2>1
  <2>3. f[0] = g[0]
    BY <1>4, <1>5
  <2> QED
    BY <2>2, <2>3, OnlyOne
<1>7. g[N + 1] = g[N] \o image[c] /\ f[N] = g[N] /\ f[N] \in Text
  <2>1. PICK M : M = N + 1
    OBVIOUS
  <2>2. M \in 1..M /\ M - 1 = N /\ N \in 0..N
    BY <2>1
  <2>3. g[M] = g[M - 1] \o image[u[M]]
    BY <1>5, <2>1, <2>2
  <2>4. g[M] = g[N] \o image[c]
    BY <1>3, <2>1, <2>2, <2>3
  <2>5. f[N] = g[N] /\ f[N] \in Text
    BY <1>4, <1>6, <2>2
  <2> QED
    BY <2>1, <2>4, <2>5
<1> QED
  BY <1>2, <1>4, <1>5, <1>7

\* What a reader has read.
HaveRead == [open : BOOLEAN, word : Text, words : SUBSET Text]

\* A character is read to something that may have been read.
LEMMA StepTyped ==
    ASSUME NEW s \in HaveRead, NEW c \in Chars, NEW format
    PROVE  Step(s, c, format) \in HaveRead
<1>1. s.open \in BOOLEAN /\ s.word \in Text /\ s.words \in SUBSET Text
  BY DEF HaveRead
<1>2. "\n" \in Chars
  BY CharsAssumption DEF Keywords
<1>3. \A d \in Chars : Append(s.word, d) \in Text
  BY <1>1 DEF Text
<1>4. <<>> \in Text
  BY DEF Text
<1>5. (IF c = "n" /\ format.breaks THEN "\n" ELSE c) \in Chars
  BY <1>2
<1>6. Append(s.word, IF c = "n" /\ format.breaks THEN "\n" ELSE c) \in Text
      /\ Append(s.word, c) \in Text
  BY <1>3, <1>5
<1>7. s.words \cup {s.word} \in SUBSET Text
  BY <1>1
<1> QED
  BY <1>1, <1>4, <1>6, <1>7 DEF Step, HaveRead

\* f is what has been read after the first characters of t.
Scanned(f, t, N, format) ==
    /\ f \in [0..N -> HaveRead] /\ Scan(t, format) = f[N]
    /\ f[0] = Start /\ \A n \in 1..N : f[n] = Step(f[n - 1], t[n], format)

\* A text is read one character after the other.
LEMMA Scanning ==
    ASSUME NEW t \in Text, NEW format
    PROVE  \E f : Scanned(f, t, Len(t), format)
<1>1. PICK N \in Nat : N = Len(t)
  BY DEF Text
<1>2. \A n \in 1..N : t[n] \in Chars
  <2>1. t \in Seq(Chars)
    BY DEF Text
  <2> QED
    BY <1>1, <2>1
<1> DEFINE Go(v, n) == Step(v, t[n], format)
           at == CHOOSE g : g = [n \in 0..N |-> IF n = 0 THEN Start ELSE Go(g[n - 1], n)]
<1>3. Scan(t, format) = at[N]
  BY <1>1 DEF Scan
<1>4. \A v \in HaveRead : \A n \in 1..N : Go(v, n) \in HaveRead
  BY <1>2, StepTyped
<1>5. Start \in HaveRead
  BY DEF Start, HaveRead, Text
<1> HIDE DEF Go
<1>6. PICK f : /\ f \in [0..N -> HaveRead]
               /\ f[0] = Start /\ \A n \in 1..N : f[n] = Go(f[n - 1], n)
  <2>1. PICK step : step = [n \in 1..N |-> [v \in HaveRead |-> Go(v, n)]]
    OBVIOUS
  <2>2. Within(HaveRead, N, step)
    BY <1>4, <2>1 DEF Within
  <2>3. \E f : Stepwise(f, HaveRead, N, Start, step)
    BY <1>5, <2>2, StepByStep
  <2>4. PICK f : f \in [0..N -> HaveRead] /\ f[0] = Start
                 /\ \A n \in 1..N : f[n] = step[n][f[n - 1]]
    BY <2>3 DEF Stepwise
  <2>5. ASSUME NEW n \in 1..N
        PROVE  f[n] = Go(f[n - 1], n)
    <3>1. f[n - 1] \in HaveRead
      BY <2>4
    <3>2. step[n][f[n - 1]] = Go(f[n - 1], n)
      BY <2>1, <3>1
    <3> QED
      BY <2>4, <3>2
  <2> QED
    BY <2>4, <2>5
<1>7. at = [n \in 0..N |-> IF n = 0 THEN Start ELSE Go(at[n - 1], n)]
  <2>1. f = [n \in 0..N |-> IF n = 0 THEN Start ELSE Go(f[n - 1], n)]
    BY <1>6
  <2> QED
    BY <2>1, Zenon
<1>8. \A n \in 0..N : f[n] = at[n]
  <2> HIDE DEF at
  <2>1. f[0] = at[0]
    BY <1>6, <1>7
  <2>2. \A n \in 1..N : f[n - 1] = at[n - 1] => f[n] = at[n]
    BY <1>6, <1>7
  <2> QED
    BY <2>1, <2>2, OnlyOne
<1>9. at[N] = f[N]
  BY <1>8
<1> QED
  BY <1>1, <1>3, <1>6, <1>9 DEF Go, Scanned

\* Nothing is read of the empty text.
LEMMA ScanNone ==
    ASSUME NEW format
    PROVE  Scan(<<>>, format) = Start
<1>1. PICK t : t = <<>>
  OBVIOUS
<1>2. t \in Text /\ Len(t) = 0
  BY <1>1 DEF Text
<1>3. PICK f : Scanned(f, t, Len(t), format)
  BY <1>2, Scanning
<1> QED
  BY <1>1, <1>2, <1>3 DEF Scanned

\* What is read of a text with one character more.
LEMMA ScanOneMore ==
    ASSUME NEW t \in Text, NEW c \in Chars, NEW format
    PROVE  /\ Scan(t, format) \in HaveRead
           /\ Scan(Append(t, c), format) = Step(Scan(t, format), c, format)
<1>1. PICK N \in Nat : N = Len(t)
  BY DEF Text
<1>2. PICK u : u = Append(t, c)
  OBVIOUS
<1>3. u \in Text /\ Len(u) = N + 1 /\ u[N + 1] = c /\ \A n \in 1..N : u[n] = t[n]
  <2>1. t \in Seq(Chars) /\ N = Len(t)
    BY <1>1 DEF Text
  <2> QED
    BY <1>2, <2>1, OneLonger DEF Text
<1>4. PICK f : Scanned(f, t, N, format)
  BY <1>1, Scanning
<1>5. PICK g : Scanned(g, u, N + 1, format)
  BY <1>3, Scanning
<1>6. \A n \in 0..N : f[n] = g[n]
  <2>1. \A n \in 1..N : n \in 1..N + 1 /\ u[n] = t[n]
    BY <1>3
  <2>2. \A n \in 1..N : f[n - 1] = g[n - 1] => f[n] = g[n]
    BY <1>4, <1>5, <2>1 DEF Scanned
  <2>3. f[0] = g[0]
    BY <1>4, <1>5 DEF Scanned
  <2> QED
    BY <2>2, <2>3, OnlyOne
<1>7. g[N + 1] = Step(g[N], c, format) /\ f[N] = g[N] /\ f[N] \in HaveRead
  <2>1. PICK M : M = N + 1
    OBVIOUS
  <2>2. M \in 1..M /\ M - 1 = N /\ N \in 0..N
    BY <2>1
  <2>3. g[M] = Step(g[M - 1], u[M], format)
    BY <1>5, <2>1, <2>2 DEF Scanned
  <2>4. g[M] = Step(g[N], c, format)
    BY <1>3, <2>1, <2>2, <2>3
  <2>5. f[N] = g[N] /\ f[N] \in HaveRead
    BY <1>4, <1>6, <2>2 DEF Scanned
  <2> QED
    BY <2>1, <2>4, <2>5
<1>8. Scan(t, format) = f[N] /\ Scan(u, format) = g[N + 1]
  BY <1>4, <1>5 DEF Scanned
<1> QED
  BY <1>2, <1>7, <1>8

\* Texts and characters put after texts.
LEMMA Sticks ==
    ASSUME NEW t \in Text, NEW u \in Text
    PROVE  /\ t \o u \in Text /\ t \o <<>> = t /\ <<>> \o t = t
           /\ \A c \in Chars : /\ <<c>> \in Text /\ Append(u, c) \in Text
                                /\ t \o <<c>> = Append(t, c)
                                /\ t \o Append(u, c) = Append(t \o u, c)
<1>1. t \in Seq(Chars) /\ u \in Seq(Chars)
  BY DEF Text
<1>2. t \o u \in Seq(Chars)
  BY <1>1
<1>3. t \o <<>> = t /\ <<>> \o t = t
  BY <1>1, ConcatEmptySeq
<1>4. \A v \in Seq(Chars) : (t \o u) \o v = t \o (u \o v)
  BY <1>1, ConcatAssociative
<1>5. \A r \in Seq(Chars), c \in Chars : Append(r, c) = r \o <<c>>
  BY AppendIsConcat
<1>6. \A c \in Chars : <<c>> \in Seq(Chars) /\ Append(u, c) \in Seq(Chars)
  BY <1>1
<1>7. ASSUME NEW c \in Chars
      PROVE  t \o Append(u, c) = Append(t \o u, c)
  <2>1. Append(u, c) = u \o <<c>> /\ Append(t \o u, c) = (t \o u) \o <<c>>
    BY <1>1, <1>2, <1>5
  <2>2. (t \o u) \o <<c>> = t \o (u \o <<c>>)
    BY <1>4, <1>6
  <2> QED
    BY <2>1, <2>2
<1>8. \A c \in Chars : t \o <<c>> = Append(t, c)
  BY <1>1, <1>5
<1> QED
  BY <1>2, <1>3, <1>4, <1>6, <1>7, <1>8 DEF Text

\* Three texts, one after the other.
LEMMA Regroup ==
    ASSUME NEW t \in Text, NEW u \in Text, NEW v \in Text
    PROVE  (t \o u) \o v = t \o (u \o v)
  BY ConcatAssociative DEF Text

\* Two characters, one after the other.
LEMMA Pair ==
    ASSUME NEW C, NEW a \in C, NEW b \in C
    PROVE  <<a>> \in Seq(C) /\ <<a, b>> \in Seq(C) /\ <<a>> \o <<b>> = <<a, b>>
<1>1. PICK s, x, y : s = <<a>> /\ x = Append(s, b) /\ y = <<a, b>>
  OBVIOUS
<1>2. s \in Seq(C) /\ Len(s) = 1 /\ s[1] = a
  BY <1>1
<1>3. x \in Seq(C) /\ Len(x) = 2 /\ x[1] = a /\ x[2] = b
  <2>1. x \in Seq(C) /\ Len(x) = 1 + 1 /\ (\A i \in 1..1 : x[i] = s[i]) /\ x[1 + 1] = b
    BY <1>1, <1>2, OneLonger
  <2> QED
    BY <1>2, <2>1
<1>4. y \in Seq(C) /\ Len(y) = 2 /\ y[1] = a /\ y[2] = b
  BY <1>1
<1>5. x = y
  <2>1. \A i \in 1..Len(x) : x[i] = y[i]
    BY <1>3, <1>4
  <2> QED
    BY <1>3, <1>4, <2>1, SeqEqual
<1>6. Append(s, b) = s \o <<b>>
  BY <1>2, AppendIsConcat
<1> QED
  BY <1>1, <1>2, <1>4, <1>5, <1>6

\* A text with two characters more.
LEMMA TwoMore ==
    ASSUME NEW t \in Text, NEW m \in Chars, NEW c \in Chars
    PROVE  t \o <<m, c>> = Append(Append(t, m), c)
<1>1. PICK one, other, two : one = <<m>> /\ other = <<c>> /\ two = <<m, c>>
  OBVIOUS
<1>2. one \in Text /\ other \in Text /\ one \o other = two
  BY <1>1, Pair DEF Text
<1>3. (t \o one) \o other = t \o two
  BY <1>2, Regroup
<1>4. Append(t, m) \in Text /\ t \o one = Append(t, m)
  BY <1>1, Sticks
<1>5. Append(t, m) \o other = Append(Append(t, m), c)
  BY <1>1, <1>4, Sticks
<1> QED
  BY <1>1, <1>3, <1>4, <1>5

-----------------------------------------------------------------------------
(* What a text says, read within a word *)

\* What parts the word being read from the next.
Separator(s, format) == IF s.words = {} THEN format.first ELSE format.next

\* Wherever sep parts the words, w is read as u and nothing more.
Says(w, u, format, sep) ==
    /\ w \in Text /\ u \in Text
    /\ \A t \in Text :
          LET s == Scan(t, format) IN
          ~s.open /\ Separator(s, format) = sep =>
              Scan(t \o w, format) = [s EXCEPT !.word = @ \o u]

\* The empty text says nothing.
LEMMA SaysNothing ==
    ASSUME NEW format, NEW sep
    PROVE  Says(<<>>, <<>>, format, sep)
<1>1. <<>> \in Text
  BY DEF Text
<1>2. ASSUME NEW t \in Text
      PROVE  Scan(t \o <<>>, format) = [Scan(t, format) EXCEPT !.word = @ \o <<>>]
  <2>1. PICK s : s = Scan(t, format)
    OBVIOUS
  <2>2. s \in HaveRead
    <3>1. \E c \in Chars : TRUE
      BY CharsAssumption DEF Keywords
    <3> QED
      BY <2>1, <3>1, ScanOneMore
  <2>3. s.word \o <<>> = s.word /\ t \o <<>> = t
    BY <2>2, Sticks DEF HaveRead
  <2>4. [s EXCEPT !.word = s.word \o <<>>] = s
    BY <2>2, <2>3 DEF HaveRead
  <2> QED
    BY <2>1, <2>3, <2>4
<1> QED
  BY <1>1, <1>2 DEF Says

\* What two texts say, the one after the other says.
LEMMA SaysBoth ==
    ASSUME NEW format, NEW sep, NEW v, NEW w, NEW x, NEW y,
           Says(v, x, format, sep), Says(w, y, format, sep)
    PROVE  Says(v \o w, x \o y, format, sep)
<1>1. v \in Text /\ w \in Text /\ x \in Text /\ y \in Text
  BY DEF Says
<1>2. v \o w \in Text /\ x \o y \in Text
  BY <1>1, Sticks
<1>3. ASSUME NEW t \in Text, ~Scan(t, format).open, Separator(Scan(t, format), format) = sep
      PROVE  Scan(t \o (v \o w), format) = [Scan(t, format) EXCEPT !.word = @ \o (x \o y)]
  <2>1. PICK s : s = Scan(t, format)
    OBVIOUS
  <2>2. s \in HaveRead
    <3>1. \E c \in Chars : TRUE
      BY CharsAssumption DEF Keywords
    <3> QED
      BY <2>1, <3>1, ScanOneMore
  <2>3. PICK r : r = Scan(t \o v, format)
    OBVIOUS
  <2>4. r = [s EXCEPT !.word = s.word \o x]
    BY <1>3, <2>1, <2>3 DEF Says
  <2>5. r.open = s.open /\ r.words = s.words /\ r.word = s.word \o x
    BY <2>2, <2>4 DEF HaveRead
  <2>6. t \o v \in Text /\ (t \o v) \o w = t \o (v \o w)
    <3>1. t \o v \in Text
      BY <1>1, Sticks
    <3> QED
      BY <1>1, <3>1, Regroup
  <2>7. Scan((t \o v) \o w, format) = [r EXCEPT !.word = r.word \o y]
    BY <1>3, <2>1, <2>3, <2>5, <2>6 DEF Says, Separator
  <2>8. (s.word \o x) \o y = s.word \o (x \o y)
    <3>1. s.word \in Text
      BY <2>2 DEF HaveRead
    <3> QED
      BY <1>1, <3>1, Regroup
  <2>9. [r EXCEPT !.word = r.word \o y] = [s EXCEPT !.word = s.word \o (x \o y)]
    BY <2>2, <2>4, <2>5, <2>8 DEF HaveRead
  <2> QED
    BY <2>1, <2>6, <2>7, <2>9
<1> QED
  BY <1>2, <1>3 DEF Says

\* A character that is none of the format's says itself.
LEMMA SaysPlain ==
    ASSUME NEW format, NEW sep, NEW c \in Chars, c # format.mark, c # sep
    PROVE  Says(<<c>>, <<c>>, format, sep)
<1>1. ASSUME NEW t \in Text, ~Scan(t, format).open, Separator(Scan(t, format), format) = sep
      PROVE  Scan(t \o <<c>>, format) = [Scan(t, format) EXCEPT !.word = @ \o <<c>>]
  <2>1. PICK s : s = Scan(t, format)
    OBVIOUS
  <2>2. s \in HaveRead /\ Scan(Append(t, c), format) = Step(s, c, format)
    BY <2>1, ScanOneMore
  <2>3. Step(s, c, format) = [s EXCEPT !.word = Append(s.word, c)]
    BY <1>1, <2>1 DEF Step, Separator
  <2>4. s.word \in Text
    BY <2>2 DEF HaveRead
  <2>5. Append(t, c) = t \o <<c>> /\ Append(s.word, c) = s.word \o <<c>>
    BY <2>4, Sticks
  <2> QED
    BY <2>1, <2>2, <2>3, <2>5
<1>2. <<c>> \in Text
  BY DEF Text
<1> QED
  BY <1>1, <1>2 DEF Says

\* A marked character says what is meant by it.
LEMMA SaysMarked ==
    ASSUME NEW format, NEW sep, format.mark \in Chars, NEW c \in Chars, NEW d \in Chars,
           d = IF c = "n" /\ format.breaks THEN "\n" ELSE c
    PROVE  Says(<<format.mark, c>>, <<d>>, format, sep)
<1>1. PICK m \in Chars : m = format.mark
  OBVIOUS
<1>2. ASSUME NEW t \in Text, ~Scan(t, format).open, Separator(Scan(t, format), format) = sep
      PROVE  Scan(t \o <<m, c>>, format) = [Scan(t, format) EXCEPT !.word = @ \o <<d>>]
  <2>1. PICK s : s = Scan(t, format)
    OBVIOUS
  <2>2. PICK u : u = Append(t, m)
    OBVIOUS
  <2>3. PICK r : r = Scan(u, format)
    OBVIOUS
  <2>4. s \in HaveRead /\ r = Step(s, m, format)
    BY <2>1, <2>2, <2>3, ScanOneMore
  <2>5. r = [s EXCEPT !.open = TRUE]
    BY <1>1, <1>2, <2>1, <2>4 DEF Step
  <2>6. r.open = TRUE /\ r.word = s.word /\ r.words = s.words
    BY <2>4, <2>5 DEF HaveRead
  <2>7. u \in Text
    BY <2>2, Sticks
  <2>8. Scan(Append(u, c), format) = Step(r, c, format)
    BY <2>3, <2>7, ScanOneMore
  <2>9. Step(r, c, format) = [r EXCEPT !.open = FALSE, !.word = Append(r.word, d)]
    BY <2>6 DEF Step
  <2>10. [r EXCEPT !.open = FALSE, !.word = Append(r.word, d)] = [s EXCEPT !.word = Append(s.word, d)]
    BY <1>2, <2>1, <2>4, <2>5, <2>6 DEF HaveRead
  <2>11. s.word \in Text
    BY <2>4 DEF HaveRead
  <2>12. Append(s.word, d) = s.word \o <<d>>
    BY <2>11, Sticks
  <2>13. Append(u, c) = t \o <<m, c>>
    BY <2>2, TwoMore
  <2> QED
    BY <2>1, <2>8, <2>9, <2>10, <2>12, <2>13
<1>3. <<m, c>> \in Text /\ <<d>> \in Text
  BY DEF Text
<1> QED
  BY <1>1, <1>2, <1>3 DEF Says

\* What each character's image says, the text's image says.
LEMMA SaysMapped ==
    ASSUME NEW format, NEW sep, NEW image,
           \A c \in Chars : Says(image[c], <<c>>, format, sep), NEW u \in Text
    PROVE  Says(MapChars(u, image), u, format, sep)
<1> DEFINE S == {v \in Text : Says(MapChars(v, image), v, format, sep)}
<1>1. \A c \in Chars : image[c] \in Text
  BY DEF Says
<1>2. <<>> \in S
  <2>1. <<>> \in Text /\ MapChars(<<>>, image) = <<>>
    BY <1>1, MapNone DEF Text
  <2> QED
    BY <2>1, SaysNothing
<1>3. ASSUME NEW v \in Text, NEW c \in Chars, v \in S
      PROVE  Append(v, c) \in S
  <2>1. MapChars(Append(v, c), image) = MapChars(v, image) \o image[c]
    BY <1>1, MapOneMore
  <2>2. Append(v, c) \in Text /\ Append(v, c) = v \o <<c>>
    BY Sticks
  <2>3. Says(MapChars(v, image) \o image[c], v \o <<c>>, format, sep)
    BY <1>3, SaysBoth
  <2> QED
    BY <2>1, <2>2, <2>3
<1>4. Text \subseteq S
  <2> HIDE DEF S
  <2> QED
    BY <1>2, <1>3, EveryText
<1> QED
  BY <1>4

\* A text with none of the format's characters says itself.
LEMMA SaysItself ==
    ASSUME NEW format, NEW sep, NEW u \in Text,
           \A n \in DOMAIN u : u[n] # format.mark /\ u[n] # sep
    PROVE  Says(u, u, format, sep)
<1> DEFINE Free(v) == \A n \in DOMAIN v : v[n] # format.mark /\ v[n] # sep
           S == {v \in Text : Free(v) => Says(v, v, format, sep)}
<1>1. <<>> \in S
  BY SaysNothing DEF Text
<1>2. ASSUME NEW v \in Text, NEW c \in Chars, v \in S
      PROVE  Append(v, c) \in S
  <2>1. Append(v, c) \in Text /\ Append(v, c) = v \o <<c>>
    BY Sticks
  <2>2. ASSUME Free(Append(v, c))
        PROVE  Free(v) /\ c # format.mark /\ c # sep
    <3>1. v \in Seq(Chars)
      BY DEF Text
    <3>2. PICK N \in Nat : N = Len(v)
      BY <3>1
    <3>3. PICK x : x = Append(v, c)
      OBVIOUS
    <3>4. /\ DOMAIN x = 1..N + 1 /\ DOMAIN v = 1..N
          /\ x[N + 1] = c /\ \A n \in 1..N : x[n] = v[n]
      BY <3>1, <3>2, <3>3
    <3>5. \A n \in 1..N + 1 : x[n] # format.mark /\ x[n] # sep
      BY <2>2, <3>3, <3>4
    <3> QED
      BY <3>4, <3>5
  <2>3. ASSUME Free(Append(v, c))
        PROVE  Says(v \o <<c>>, v \o <<c>>, format, sep)
    <3>1. Free(v) /\ c # format.mark /\ c # sep
      BY <2>2, <2>3
    <3>2. Says(v, v, format, sep)
      BY <1>2, <3>1
    <3>3. Says(<<c>>, <<c>>, format, sep)
      BY <3>1, SaysPlain
    <3> QED
      BY <3>2, <3>3, SaysBoth
  <2> QED
    BY <2>1, <2>3
<1>3. Text \subseteq S
  <2> HIDE DEF S
  <2> QED
    BY <1>1, <1>2, EveryText
<1> QED
  BY <1>3

\* Wifi: a separator, a mark and what else is escaped is marked.
LEMMA SaysWifi ==
    ASSUME NEW u \in Text
    PROVE  Says(WifiEscape(u), u, Wifi, ";")
<1>1. PICK image : image = [c \in Chars |-> IF c \in {"\\", ";", ",", ":", "\""}
                                           THEN <<"\\", c>> ELSE <<c>>]
  OBVIOUS
<1>2. ASSUME NEW c \in Chars
      PROVE  Says(image[c], <<c>>, Wifi, ";")
  <2>1. Wifi.mark = "\\" /\ Wifi.breaks = FALSE /\ Wifi.mark \in Chars
    BY CharsAssumption DEF Wifi, Keywords
  <2>2. CASE c \in {"\\", ";", ",", ":", "\""}
    <3>1. Says(<<Wifi.mark, c>>, <<c>>, Wifi, ";")
      BY <2>1, SaysMarked
    <3> QED
      BY <1>1, <2>1, <2>2, <3>1
  <2>3. CASE c \notin {"\\", ";", ",", ":", "\""}
    <3>1. c # Wifi.mark /\ c # ";"
      BY <2>1, <2>3
    <3>2. Says(<<c>>, <<c>>, Wifi, ";")
      BY <3>1, SaysPlain
    <3> QED
      BY <1>1, <2>3, <3>2
  <2> QED
    BY <2>2, <2>3
<1>3. Says(MapChars(u, image), u, Wifi, ";")
  BY <1>2, SaysMapped
<1> QED
  BY <1>1, <1>3 DEF WifiEscape

\* Email: every character but a scheme's is marked, the separators and the mark too.
LEMMA SaysEmail ==
    ASSUME NEW u \in Text
    PROVE  Says(EncodeComponent(u), u, Email, "&")
<1>1. PICK image : image = [c \in Chars |-> IF c \in SchemeChars THEN <<c>> ELSE <<"%", c>>]
  OBVIOUS
<1>2. ASSUME NEW c \in Chars
      PROVE  Says(image[c], <<c>>, Email, "&")
  <2>1. Email.mark = "%" /\ Email.breaks = FALSE /\ Email.mark \in Chars
    BY CharsAssumption DEF Email, Keywords
  <2>2. CASE c \in SchemeChars
    <3>1. c # Email.mark /\ c # "&"
      BY <2>1, <2>2 DEF SchemeChars, Letters
    <3>2. Says(<<c>>, <<c>>, Email, "&")
      BY <3>1, SaysPlain
    <3> QED
      BY <1>1, <2>2, <3>2
  <2>3. CASE c \notin SchemeChars
    <3>1. Says(<<Email.mark, c>>, <<c>>, Email, "&")
      BY <2>1, SaysMarked
    <3> QED
      BY <1>1, <2>1, <2>3, <3>1
  <2> QED
    BY <2>2, <2>3
<1>3. Says(MapChars(u, image), u, Email, "&")
  BY <1>2, SaysMapped
<1> QED
  BY <1>1, <1>3 DEF EncodeComponent

\* To map a text is to map each part.
LEMMA MapParts ==
    ASSUME NEW u \in Text, NEW image, \A d \in Chars : image[d] \in Text
    PROVE  \A v \in Text : MapChars(u \o v, image) = MapChars(u, image) \o MapChars(v, image)
<1>1. \A w \in Text : MapChars(w, image) \in Text
  <2>1. \E d \in Chars : TRUE
    BY CharsAssumption DEF Keywords
  <2> QED
    BY <2>1, MapOneMore
<1>2. <<>> \in Text /\ MapChars(<<>>, image) = <<>>
  BY MapNone DEF Text
<1>3. MapChars(u \o <<>>, image) = MapChars(u, image) \o MapChars(<<>>, image)
  <2>1. u \o <<>> = u /\ MapChars(u, image) \o <<>> = MapChars(u, image)
    BY <1>1, <1>2, Sticks
  <2> QED
    BY <1>2, <2>1
<1>4. ASSUME NEW w \in Text, NEW d \in Chars,
             MapChars(u \o w, image) = MapChars(u, image) \o MapChars(w, image)
      PROVE  MapChars(u \o Append(w, d), image) = MapChars(u, image) \o MapChars(Append(w, d), image)
  <2>1. u \o Append(w, d) = Append(u \o w, d) /\ u \o w \in Text
    BY Sticks
  <2>2. MapChars(Append(u \o w, d), image) = MapChars(u \o w, image) \o image[d]
    BY <2>1, MapOneMore
  <2>3. MapChars(Append(w, d), image) = MapChars(w, image) \o image[d]
    BY MapOneMore
  <2>4. PICK x, y, z : x = MapChars(u, image) /\ y = MapChars(w, image) /\ z = image[d]
    OBVIOUS
  <2>5. x \in Text /\ y \in Text /\ z \in Text
    BY <1>1, <2>4
  <2>6. (x \o y) \o z = x \o (y \o z)
    BY <2>5, Regroup, Zenon
  <2> QED
    BY <1>4, <2>1, <2>2, <2>3, <2>4, <2>6
<1> DEFINE S == {w \in Text : MapChars(u \o w, image) = MapChars(u, image) \o MapChars(w, image)}
<1>5. <<>> \in S
  BY <1>2, <1>3
<1>6. ASSUME NEW w \in Text, NEW d \in Chars, w \in S
      PROVE  Append(w, d) \in S
  <2>1. Append(w, d) \in Text
    BY DEF Text
  <2> QED
    BY <1>4, <1>6, <2>1
<1>7. Text \subseteq S
  <2> HIDE DEF S
  <2> QED
    BY <1>5, <1>6, EveryText
<1> QED
  BY <1>7

\* What becomes of each character.
ReplaceImage(c, by) == [d \in Chars |-> IF d = c THEN by ELSE <<d>>]

\* To replace is to map.
LEMMA ReplaceIs ==
    ASSUME NEW c, NEW by \in Text
    PROVE  /\ \A w : Replace(w, c, by) = MapChars(w, ReplaceImage(c, by))
           /\ \A d \in Chars : ReplaceImage(c, by)[d] \in Text
           /\ \A d \in Chars : ReplaceImage(c, by)[d] = IF d = c THEN by ELSE <<d>>
<1>1. \A d \in Chars : <<d>> \in Text
  BY DEF Text
<1> QED
  BY <1>1 DEF Replace, ReplaceImage

\* What was replaced in a text leaves a text.
LEMMA ReplaceTyped ==
    ASSUME NEW u \in Text, NEW c, NEW by \in Text
    PROVE  Replace(u, c, by) \in Text
<1>1. PICK image : image = ReplaceImage(c, by)
  OBVIOUS
<1>2. \A d \in Chars : image[d] \in Text
  BY <1>1, ReplaceIs
<1>3. \E d \in Chars : TRUE
  BY CharsAssumption DEF Keywords
<1>4. MapChars(u, image) \in Text
  BY <1>2, <1>3, MapOneMore
<1> QED
  BY <1>1, <1>4, ReplaceIs

\* In the empty text there is nothing to replace.
LEMMA ReplaceEmpty ==
    ASSUME NEW c, NEW by \in Text
    PROVE  Replace(<<>>, c, by) = <<>>
<1>1. PICK image : image = ReplaceImage(c, by)
  OBVIOUS
<1>2. \A d \in Chars : image[d] \in Text
  BY <1>1, ReplaceIs
<1>3. MapChars(<<>>, image) = <<>>
  BY <1>2, MapNone
<1> QED
  BY <1>1, <1>3, ReplaceIs

\* To replace a character is to replace it in each part.
LEMMA ReplaceBoth ==
    ASSUME NEW u \in Text, NEW v \in Text, NEW c, NEW by \in Text
    PROVE  Replace(u \o v, c, by) = Replace(u, c, by) \o Replace(v, c, by)
<1>1. PICK image : image = ReplaceImage(c, by)
  OBVIOUS
<1>2. \A d \in Chars : image[d] \in Text
  BY <1>1, ReplaceIs
<1>3. MapChars(u \o v, image) = MapChars(u, image) \o MapChars(v, image)
  BY <1>2, MapParts
<1>4. /\ Replace(u \o v, c, by) = MapChars(u \o v, image)
      /\ Replace(u, c, by) = MapChars(u, image)
      /\ Replace(v, c, by) = MapChars(v, image)
  BY <1>1, ReplaceIs
<1> QED
  BY <1>3, <1>4, Zenon

\* One character is replaced, or it is not.
LEMMA ReplaceSingle ==
    ASSUME NEW d \in Chars, NEW c, NEW by \in Text
    PROVE  Replace(<<d>>, c, by) = IF d = c THEN by ELSE <<d>>
<1>1. PICK image : image = ReplaceImage(c, by)
  OBVIOUS
<1>2. \A e \in Chars : image[e] \in Text
  BY <1>1, ReplaceIs
<1>3. image[d] = IF d = c THEN by ELSE <<d>>
  BY <1>1, ReplaceIs
<1>4. MapChars(<<>>, image) = <<>>
  BY <1>2, MapNone
<1>5. <<>> \in Text /\ Append(<<>>, d) = <<d>>
  BY DEF Text
<1>6. MapChars(Append(<<>>, d), image) = MapChars(<<>>, image) \o image[d]
  BY <1>2, <1>5, MapOneMore
<1>7. <<>> \o image[d] = image[d]
  BY <1>2, Sticks
<1>8. MapChars(<<d>>, image) = image[d]
  BY <1>4, <1>5, <1>6, <1>7
<1>9. Replace(<<d>>, c, by) = MapChars(<<d>>, image)
  BY <1>1, ReplaceIs
<1> QED
  BY <1>3, <1>8, <1>9

\* Two other characters are not.
LEMMA ReplacePair ==
    ASSUME NEW d \in Chars, NEW e \in Chars, NEW c, d # c, e # c, NEW by \in Text
    PROVE  Replace(<<d, e>>, c, by) = <<d, e>>
<1>1. PICK one, other : one = <<d>> /\ other = <<e>>
  OBVIOUS
<1>2. one \in Text /\ other \in Text
  BY <1>1 DEF Text
<1>3. one \o other = <<d, e>>
  BY <1>1, Pair
<1>4. Replace(one \o other, c, by) = Replace(one, c, by) \o Replace(other, c, by)
  BY <1>2, ReplaceBoth
<1>5. Replace(<<d>>, c, by) = <<d>>
  BY ReplaceSingle
<1>6. Replace(<<e>>, c, by) = <<e>>
  BY ReplaceSingle
<1> QED
  BY <1>1, <1>3, <1>4, <1>5, <1>6

\* To replace a character in a text is to do it in its parts.
Splits(c, by) ==
    \A x, y \in Text : Replace(x \o y, c, by) = Replace(x, c, by) \o Replace(y, c, by)

\* Every replacement splits.
LEMMA ReplaceSplits ==
    ASSUME NEW c, NEW by \in Text
    PROVE  Splits(c, by)
  BY ReplaceBoth DEF Splits

\* To escape a text, in four passes, is to escape its parts.
LEMMA EscapeParts ==
    ASSUME NEW u \in Text, NEW v \in Text
    PROVE  /\ VcardEscape(u \o v) = VcardEscape(u) \o VcardEscape(v)
           /\ VcardEscape(<<>>) = <<>>
<1>1. PICK k1, k2, k3, k4, n : k1 = "\\" /\ k2 = "," /\ k3 = ";" /\ k4 = "\n" /\ n = "n"
  OBVIOUS
<1>2. k1 \in Chars /\ k2 \in Chars /\ k3 \in Chars /\ n \in Chars
  BY <1>1, CharsAssumption DEF Keywords
<1>3. PICK b1, b2, b3, b4 :
         b1 = <<k1, k1>> /\ b2 = <<k1, k2>> /\ b3 = <<k1, k3>> /\ b4 = <<k1, n>>
  OBVIOUS
<1>4. b1 \in Text /\ b2 \in Text /\ b3 \in Text /\ b4 \in Text
  BY <1>2, <1>3, Pair DEF Text
<1>5. \A w : VcardEscape(w) = Replace(Replace(Replace(Replace(w, k1, b1), k2, b2), k3, b3), k4, b4)
  BY <1>1, <1>3 DEF VcardEscape
<1>6. Splits(k1, b1) /\ Splits(k2, b2) /\ Splits(k3, b3) /\ Splits(k4, b4)
  BY <1>4, ReplaceSplits
<1>7. PICK u1, v1 : u1 = Replace(u, k1, b1) /\ v1 = Replace(v, k1, b1)
  OBVIOUS
<1>8. PICK u2, v2 : u2 = Replace(u1, k2, b2) /\ v2 = Replace(v1, k2, b2)
  OBVIOUS
<1>9. PICK u3, v3 : u3 = Replace(u2, k3, b3) /\ v3 = Replace(v2, k3, b3)
  OBVIOUS
<1>10. u1 \in Text /\ v1 \in Text
  BY <1>4, <1>7, ReplaceTyped
<1>11. u2 \in Text /\ v2 \in Text
  BY <1>4, <1>8, <1>10, ReplaceTyped
<1>12. u3 \in Text /\ v3 \in Text
  BY <1>4, <1>9, <1>11, ReplaceTyped
<1>13. Replace(u \o v, k1, b1) = u1 \o v1
  BY <1>6, <1>7 DEF Splits
<1>14. Replace(u1 \o v1, k2, b2) = u2 \o v2
  BY <1>6, <1>8, <1>10 DEF Splits
<1>15. Replace(u2 \o v2, k3, b3) = u3 \o v3
  BY <1>6, <1>9, <1>11 DEF Splits
<1>16. Replace(u3 \o v3, k4, b4) = Replace(u3, k4, b4) \o Replace(v3, k4, b4)
  BY <1>6, <1>12 DEF Splits
<1>17. VcardEscape(u \o v) = VcardEscape(u) \o VcardEscape(v)
  BY <1>5, <1>7, <1>8, <1>9, <1>13, <1>14, <1>15, <1>16
<1>18. /\ Replace(<<>>, k1, b1) = <<>> /\ Replace(<<>>, k2, b2) = <<>>
       /\ Replace(<<>>, k3, b3) = <<>> /\ Replace(<<>>, k4, b4) = <<>>
  BY <1>4, ReplaceEmpty
<1>19. VcardEscape(<<>>) = <<>>
  BY <1>5, <1>18
<1> QED
  BY <1>17, <1>19

\* The four passes mark a character once, or leave it as it is.
LEMMA EscapeOne ==
    ASSUME NEW c \in Chars
    PROVE  /\ c = "\n" => VcardEscape(<<c>>) = <<"\\", "n">>
           /\ c \in {"\\", ",", ";"} => VcardEscape(<<c>>) = <<"\\", c>>
           /\ c \notin {"\\", ",", ";", "\n"} => VcardEscape(<<c>>) = <<c>>
<1>1. PICK k1, k2, k3, k4, n : k1 = "\\" /\ k2 = "," /\ k3 = ";" /\ k4 = "\n" /\ n = "n"
  OBVIOUS
<1>2. /\ k1 \in Chars /\ k2 \in Chars /\ k3 \in Chars /\ n \in Chars
      /\ k1 # k2 /\ k1 # k3 /\ k1 # k4 /\ k2 # k3 /\ k2 # k4 /\ k3 # k4 /\ n # k4
  BY <1>1, CharsAssumption DEF Keywords
<1>3. PICK b1, b2, b3, b4 :
         b1 = <<k1, k1>> /\ b2 = <<k1, k2>> /\ b3 = <<k1, k3>> /\ b4 = <<k1, n>>
  OBVIOUS
<1>4. b1 \in Text /\ b2 \in Text /\ b3 \in Text /\ b4 \in Text
  BY <1>2, <1>3, Pair DEF Text
<1>5. VcardEscape(<<c>>) = Replace(Replace(Replace(Replace(<<c>>, k1, b1), k2, b2), k3, b3), k4, b4)
  BY <1>1, <1>3 DEF VcardEscape
<1>6. /\ Replace(<<c>>, k1, b1) = IF c = k1 THEN b1 ELSE <<c>>
      /\ Replace(<<c>>, k2, b2) = IF c = k2 THEN b2 ELSE <<c>>
      /\ Replace(<<c>>, k3, b3) = IF c = k3 THEN b3 ELSE <<c>>
      /\ Replace(<<c>>, k4, b4) = IF c = k4 THEN b4 ELSE <<c>>
  BY <1>4, ReplaceSingle
<1>7. Replace(b1, k2, b2) = b1 /\ Replace(b1, k3, b3) = b1 /\ Replace(b1, k4, b4) = b1
  BY <1>2, <1>3, <1>4, ReplacePair
<1>8. Replace(b2, k3, b3) = b2 /\ Replace(b2, k4, b4) = b2
  BY <1>2, <1>3, <1>4, ReplacePair
<1>9. Replace(b3, k4, b4) = b3
  BY <1>2, <1>3, <1>4, ReplacePair
<1>10. CASE c = k1
  <2>1. VcardEscape(<<c>>) = b1
    BY <1>5, <1>6, <1>7, <1>10
  <2> QED
    BY <1>1, <1>2, <1>3, <1>10, <2>1
<1>11. CASE c = k2
  <2>1. VcardEscape(<<c>>) = b2
    BY <1>2, <1>5, <1>6, <1>8, <1>11
  <2> QED
    BY <1>1, <1>2, <1>3, <1>11, <2>1
<1>12. CASE c = k3
  <2>1. VcardEscape(<<c>>) = b3
    BY <1>2, <1>5, <1>6, <1>9, <1>12
  <2> QED
    BY <1>1, <1>2, <1>3, <1>12, <2>1
<1>13. CASE c = k4
  <2>1. VcardEscape(<<c>>) = b4
    BY <1>2, <1>5, <1>6, <1>13
  <2> QED
    BY <1>1, <1>2, <1>3, <1>13, <2>1
<1>14. CASE c \notin {k1, k2, k3, k4}
  <2>1. VcardEscape(<<c>>) = <<c>>
    BY <1>5, <1>6, <1>14
  <2> QED
    BY <1>1, <1>14, <2>1
<1> QED
  BY <1>10, <1>11, <1>12, <1>13, <1>14

\* A separator, a mark and a line break are marked.
LEMMA SaysVcard ==
    ASSUME NEW u \in Text
    PROVE  Says(VcardEscape(u), u, Vcard, "\n")
<1>1. ASSUME NEW c \in Chars
      PROVE  Says(VcardEscape(<<c>>), <<c>>, Vcard, "\n")
  <2>1. /\ Vcard.mark = "\\" /\ Vcard.breaks = TRUE /\ Vcard.mark \in Chars
        /\ "n" \in Chars /\ "\n" \in Chars
    BY CharsAssumption DEF Vcard, Keywords
  <2>2. CASE c = "\n"
    <3>1. PICK n, d : n = "n" /\ d = "\n"
      OBVIOUS
    <3>2. Says(<<Vcard.mark, n>>, <<d>>, Vcard, "\n")
      BY <2>1, <3>1, SaysMarked
    <3> QED
      BY <2>1, <2>2, <3>1, <3>2, EscapeOne
  <2>3. CASE c \in {"\\", ",", ";"}
    <3>1. Says(<<Vcard.mark, c>>, <<c>>, Vcard, "\n")
      BY <2>1, <2>3, SaysMarked
    <3> QED
      BY <2>1, <2>3, <3>1, EscapeOne
  <2>4. CASE c \notin {"\\", ",", ";", "\n"}
    <3>1. Says(<<c>>, <<c>>, Vcard, "\n")
      BY <2>1, <2>4, SaysPlain
    <3> QED
      BY <2>4, <3>1, EscapeOne
  <2> QED
    BY <2>2, <2>3, <2>4
<1> DEFINE S == {v \in Text : Says(VcardEscape(v), v, Vcard, "\n")}
<1>2. <<>> \in S
  <2>1. <<>> \in Text /\ VcardEscape(<<>>) = <<>>
    BY EscapeParts DEF Text
  <2> QED
    BY <2>1, SaysNothing
<1>3. ASSUME NEW v \in Text, NEW c \in Chars, v \in S
      PROVE  Append(v, c) \in S
  <2>1. PICK one : one = <<c>>
    OBVIOUS
  <2>2. one \in Text /\ Append(v, c) \in Text /\ Append(v, c) = v \o one
    BY <2>1, Sticks
  <2>3. VcardEscape(v \o one) = VcardEscape(v) \o VcardEscape(one)
    BY <2>2, EscapeParts
  <2>4. Says(VcardEscape(v) \o VcardEscape(one), v \o one, Vcard, "\n")
    BY <1>1, <1>3, <2>1, SaysBoth
  <2> QED
    BY <2>2, <2>3, <2>4
<1>4. Text \subseteq S
  <2> HIDE DEF S
  <2> QED
    BY <1>2, <1>3, EveryText
<1> QED
  BY <1>4

-----------------------------------------------------------------------------
(* The words that are read of a text *)

\* What is read of the first word.
LEMMA FirstWord ==
    ASSUME NEW format, NEW w, NEW u, Says(w, u, format, format.first)
    PROVE  Scan(w, format) = [open |-> FALSE, word |-> u, words |-> {}]
<1>1. PICK e, s : e = <<>> /\ s = Scan(e, format)
  OBVIOUS
<1>2. e \in Text /\ s = Start
  BY <1>1, ScanNone DEF Text
<1>3. ~s.open /\ s.word = <<>> /\ s.words = {} /\ Separator(s, format) = format.first
  BY <1>2 DEF Start, Separator
<1>4. Scan(e \o w, format) = [s EXCEPT !.word = s.word \o u]
  BY <1>1, <1>2, <1>3 DEF Says
<1>5. w \in Text /\ u \in Text
  BY DEF Says
<1>6. e \o w = w /\ s.word \o u = u
  BY <1>1, <1>3, <1>5, Sticks
<1>7. [s EXCEPT !.word = u] = [open |-> FALSE, word |-> u, words |-> {}]
  <2>1. s \in [open : BOOLEAN, word : {<<>>}, words : {{}}] /\ s.open = FALSE
    BY <1>2 DEF Start
  <2>2. PICK y : y = [s EXCEPT !.word = u]
    OBVIOUS
  <2>3. y \in [open : BOOLEAN, word : {u}, words : {{}}] /\ y.open = FALSE
    BY <2>1, <2>2
  <2>4. y = [open |-> FALSE, word |-> u, words |-> {}]
    BY <2>3
  <2> QED
    BY <2>2, <2>4
<1> QED
  BY <1>4, <1>6, <1>7

\* What is read after a separator and one word more.
LEMMA NextWord ==
    ASSUME NEW format, NEW t \in Text, NEW s, s = Scan(t, format), ~s.open,
           NEW c \in Chars, c # format.mark, c = Separator(s, format),
           NEW w, NEW u, Says(w, u, format, format.next)
    PROVE  /\ t \o (<<c>> \o w) \in Text
           /\ Scan(t \o (<<c>> \o w), format) = [open |-> FALSE, word |-> u, words |-> s.words \cup {s.word}]
<1>1. w \in Text /\ u \in Text
  BY DEF Says
<1>2. PICK one : one = <<c>>
  OBVIOUS
<1>3. one \in Text
  BY <1>2 DEF Text
<1>4. PICK x : x = t \o one
  OBVIOUS
<1>5. x \in Text
  BY <1>3, <1>4, Sticks
<1>6. x \o w = t \o (one \o w)
  BY <1>1, <1>3, <1>4, Regroup
<1>7. x \o w \in Text
  BY <1>1, <1>5, Sticks
<1>8. x = Append(t, c)
  BY <1>2, <1>4, Sticks
<1>9. PICK r : r = Scan(x, format)
  OBVIOUS
<1>10. s \in HaveRead /\ r = Step(s, c, format)
  BY <1>8, <1>9, ScanOneMore
<1>11. r = [s EXCEPT !.word = <<>>, !.words = s.words \cup {s.word}]
  BY <1>10 DEF Step, Separator
<1>12. r = [open |-> FALSE, word |-> <<>>, words |-> s.words \cup {s.word}]
  BY <1>10, <1>11 DEF HaveRead
<1>13. r.open = FALSE /\ r.word = <<>> /\ r.words # {}
  BY <1>12
<1>14. Separator(r, format) = format.next
  BY <1>13 DEF Separator
<1>15. Scan(x \o w, format) = [r EXCEPT !.word = r.word \o u]
  BY <1>5, <1>9, <1>13, <1>14 DEF Says
<1>16. r.word \o u = u
  BY <1>1, <1>13, Sticks
<1>17. [r EXCEPT !.word = u] = [open |-> FALSE, word |-> u, words |-> s.words \cup {s.word}]
  <2>1. /\ r \in [open : BOOLEAN, word : {<<>>}, words : {s.words \cup {s.word}}]
        /\ r.open = FALSE
    BY <1>12
  <2>2. PICK y : y = [r EXCEPT !.word = u]
    OBVIOUS
  <2>3. y \in [open : BOOLEAN, word : {u}, words : {s.words \cup {s.word}}] /\ y.open = FALSE
    BY <2>1, <2>2
  <2>4. y = [open |-> FALSE, word |-> u, words |-> s.words \cup {s.word}]
    BY <2>3
  <2> QED
    BY <2>2, <2>4
<1> QED
  BY <1>2, <1>6, <1>7, <1>15, <1>16, <1>17

\* After a text: no mark is open, and a word and the words before it were read.
Parsed(t, format, word, words) ==
    /\ t \in Text
    /\ Scan(t, format) = [open |-> FALSE, word |-> word, words |-> words]

\* FirstWord, and what is left of it.
LEMMA FirstParsed ==
    ASSUME NEW format, NEW w, NEW u, Says(w, u, format, format.first)
    PROVE  Parsed(w, format, u, {})
<1>1. w \in Text
  BY DEF Says
<1> QED
  BY <1>1, FirstWord DEF Parsed

\* NextWord, likewise.
LEMMA NextParsed ==
    ASSUME NEW format, NEW t, NEW word, NEW words, Parsed(t, format, word, words),
           NEW c \in Chars, c # format.mark, c = IF words = {} THEN format.first ELSE format.next,
           NEW w, NEW u, Says(w, u, format, format.next)
    PROVE  Parsed(t \o (<<c>> \o w), format, u, words \cup {word})
<1>1. PICK s : s = Scan(t, format)
  OBVIOUS
<1>2. t \in Text /\ ~s.open /\ s.word = word /\ s.words = words
  BY <1>1 DEF Parsed
<1>3. c = Separator(s, format)
  BY <1>2 DEF Separator
<1>4. /\ t \o (<<c>> \o w) \in Text
      /\ Scan(t \o (<<c>> \o w), format)
         = [open |-> FALSE, word |-> u, words |-> s.words \cup {s.word}]
  BY <1>1, <1>2, <1>3, NextWord
<1> QED
  BY <1>2, <1>4 DEF Parsed

\* A word and its key.
LEMMA Headed ==
    ASSUME NEW k \in Chars, NEW sign \in Chars, NEW v \in Text
    PROVE  /\ <<k, sign>> \o v \in Text
           /\ Len(<<k, sign>> \o v) > 1
           /\ (<<k, sign>> \o v)[1] = k
           /\ (<<k, sign>> \o v)[2] = sign
           /\ SubSeq(<<k, sign>> \o v, 3, Len(<<k, sign>> \o v)) = v
<1>1. PICK h, w : h = <<k, sign>> /\ w = h \o v
  OBVIOUS
<1>2. h \in Seq(Chars) /\ Len(h) = 2 /\ h[1] = k /\ h[2] = sign
  BY <1>1
<1>3. v \in Seq(Chars)
  BY DEF Text
<1>4. PICK N \in Nat : N = Len(v)
  BY <1>3
<1>5. /\ w \in Seq(Chars) /\ Len(w) = 2 + N
      /\ \A i \in 1..2 + N : w[i] = IF i <= 2 THEN h[i] ELSE v[i - 2]
  BY <1>1, <1>2, <1>3, <1>4, ConcatProperties
<1>6. w[1] = k /\ w[2] = sign
  BY <1>2, <1>4, <1>5
<1>7. PICK x : x = SubSeq(w, 3, 2 + N)
  OBVIOUS
<1>8. x \in Seq(Chars) /\ Len(x) = N /\ \A i \in 1..N : x[i] = w[3 + i - 1]
  BY <1>4, <1>5, <1>7, SubSeqProperties
<1>9. \A i \in 1..N : x[i] = v[i]
  BY <1>4, <1>5, <1>8
<1>10. x = v
  BY <1>3, <1>4, <1>8, <1>9, SeqEqual
<1> QED
  BY <1>1, <1>4, <1>5, <1>6, <1>7, <1>10 DEF Text

\* The value of the one word that has the key.
LEMMA ValueFound ==
    ASSUME NEW words, NEW k \in Chars, NEW sign \in Chars, NEW v \in Text,
           <<k, sign>> \o v \in words,
           \A w \in words : w = <<k, sign>> \o v \/ ~(Len(w) > 1 /\ w[1] = k /\ w[2] = sign)
    PROVE  Value(words, k, sign) = v
<1>1. PICK x : x = <<k, sign>> \o v
  OBVIOUS
<1>2. Len(x) > 1 /\ x[1] = k /\ x[2] = sign /\ SubSeq(x, 3, Len(x)) = v
  BY <1>1, Headed
<1>3. {w \in words : Len(w) > 1 /\ w[1] = k /\ w[2] = sign} = {x}
  BY <1>1, <1>2
<1>4. (CHOOSE w \in {x} : TRUE) = x
  OBVIOUS
<1> QED
  BY <1>2, <1>3, <1>4 DEF Value

\* The value where no word has the key.
LEMMA ValueMissing ==
    ASSUME NEW words, NEW k, NEW sign,
           \A w \in words : ~(Len(w) > 1 /\ w[1] = k /\ w[2] = sign)
    PROVE  Value(words, k, sign) = <<>>
  BY DEF Value

\* A text that has the characters of two, one after the other.
LEMMA Spelled ==
    ASSUME NEW s \in Text, NEW t \in Text, NEW r \in Text, Len(r) = Len(s) + Len(t),
           \A i \in 1..Len(r) : r[i] = IF i <= Len(s) THEN s[i] ELSE t[i - Len(s)]
    PROVE  r = s \o t
<1>1. s \in Seq(Chars) /\ t \in Seq(Chars) /\ r \in Seq(Chars)
  BY DEF Text
<1>2. PICK x : x = s \o t
  OBVIOUS
<1>3. /\ x \in Seq(Chars) /\ Len(x) = Len(s) + Len(t)
      /\ \A i \in 1..Len(s) + Len(t) : x[i] = IF i <= Len(s) THEN s[i] ELSE t[i - Len(s)]
  BY <1>1, <1>2, ConcatProperties
<1>4. Len(r) = Len(x) /\ \A i \in 1..Len(r) : r[i] = x[i]
  BY <1>3
<1> QED
  BY <1>1, <1>2, <1>3, <1>4, SeqEqual

\* Two characters.
LEMMA LiteralTwo ==
    ASSUME NEW a \in Chars, NEW b \in Chars
    PROVE  <<a>> \in Text /\ <<a, b>> \in Text /\ <<a, b>> = <<a>> \o <<b>>
  BY Pair DEF Text

\* Three characters, apart in two ways.
LEMMA LiteralThree ==
    ASSUME NEW a \in Chars, NEW b \in Chars, NEW c \in Chars
    PROVE  <<a, b, c>> \in Text /\ <<a, b, c>> = <<a>> \o <<b, c>> /\ <<a, b, c>> = <<a, b>> \o <<c>>
<1>1. PICK r, x, y, s, t : /\ r = <<a, b, c>> /\ x = <<a>> /\ y = <<b, c>>
                           /\ s = <<a, b>> /\ t = <<c>>
  OBVIOUS
<1>2. r \in Text /\ x \in Text /\ y \in Text /\ s \in Text /\ t \in Text
  BY <1>1 DEF Text
<1>3. /\ Len(r) = 3 /\ Len(x) = 1 /\ Len(y) = 2 /\ Len(s) = 2 /\ Len(t) = 1
      /\ r[1] = a /\ r[2] = b /\ r[3] = c
      /\ x[1] = a /\ y[1] = b /\ y[2] = c /\ s[1] = a /\ s[2] = b /\ t[1] = c
  BY <1>1
<1>4. \A i \in 1..3 : i = 1 \/ i = 2 \/ i = 3
  OBVIOUS
<1>5. \A i \in 1..Len(r) : r[i] = IF i <= Len(x) THEN x[i] ELSE y[i - Len(x)]
  BY <1>3, <1>4
<1>9. Len(r) = Len(x) + Len(y) /\ Len(r) = Len(s) + Len(t)
  BY <1>3
<1>6. r = x \o y
  BY <1>2, <1>5, <1>9, Spelled, Zenon
<1>7. \A i \in 1..Len(r) : r[i] = IF i <= Len(s) THEN s[i] ELSE t[i - Len(s)]
  BY <1>3, <1>4
<1>8. r = s \o t
  BY <1>2, <1>7, <1>9, Spelled, Zenon
<1> QED
  BY <1>1, <1>2, <1>6, <1>8

\* A word says its key, and what follows it says.
LEMMA WordStart ==
    ASSUME NEW k \in Chars, NEW sign \in Chars, NEW format, NEW sep,
           k # format.mark, sign # format.mark, k # sep, sign # sep,
           NEW w, NEW u, Says(w, u, format, sep)
    PROVE  Says(<<k, sign>> \o w, <<k, sign>> \o u, format, sep)
<1>1. Says(<<k>>, <<k>>, format, sep) /\ Says(<<sign>>, <<sign>>, format, sep)
  BY SaysPlain
<1>2. Says(<<k>> \o <<sign>>, <<k>> \o <<sign>>, format, sep)
  BY <1>1, SaysBoth
<1>3. <<k, sign>> = <<k>> \o <<sign>>
  BY LiteralTwo
<1>4. Says(<<k, sign>>, <<k, sign>>, format, sep)
  BY <1>2, <1>3
<1> QED
  BY <1>4, SaysBoth

-----------------------------------------------------------------------------
(* A wifi code *)

\* Five words and the last, empty one.
WifiSays(t, a, x, b, y, c, z, d, v) ==
    /\ Says(a, x, Wifi, ";") /\ Says(b, y, Wifi, ";")
    /\ Says(c, z, Wifi, ";") /\ Says(d, v, Wifi, ";")
    /\ t = ((((a \o (<<";">> \o b)) \o (<<";">> \o c)) \o (<<";">> \o d))
            \o (<<";">> \o <<>>)) \o (<<";">> \o <<>>)

\* They are four words, and an empty one.
LEMMA WifiWords ==
    ASSUME NEW t, NEW a, NEW x, NEW b, NEW y, NEW c, NEW z, NEW d, NEW v,
           WifiSays(t, a, x, b, y, c, z, d, v)
    PROVE  t \in Text /\ Words(t, Wifi) = {x, y, z, v, <<>>}
<1>1. /\ Wifi.mark = "\\" /\ Wifi.first = ";" /\ Wifi.next = ";" /\ ";" \in Chars
  BY CharsAssumption DEF Wifi, Keywords
<1>2. PICK f, m : f = Wifi /\ m = ";"
  OBVIOUS
<1>3. /\ f.first = m /\ f.next = m /\ m \in Chars /\ m # f.mark
      /\ \A s : Separator(s, f) = m
  BY <1>1, <1>2 DEF Separator
<1>4. PICK e : e = <<>>
  OBVIOUS
<1>5. Says(e, e, f, m)
  BY <1>4, SaysNothing
<1>19. Says(a, x, f, m) /\ Says(b, y, f, m) /\ Says(c, z, f, m) /\ Says(d, v, f, m)
  BY <1>2 DEF WifiSays
<1>6. Parsed(a, f, x, {})
  BY <1>3, <1>19, FirstParsed
<1>7. PICK t1 : t1 = a \o (<<m>> \o b)
  OBVIOUS
<1>8. Parsed(t1, f, y, {} \cup {x})
  BY <1>3, <1>19, <1>6, <1>7, NextParsed
<1>9. PICK t2 : t2 = t1 \o (<<m>> \o c)
  OBVIOUS
<1>10. Parsed(t2, f, z, {x} \cup {y})
  <2>1. Parsed(t1, f, y, {x})
    BY <1>8
  <2> QED
    BY <1>3, <1>19, <1>9, <2>1, NextParsed
<1>11. PICK t3 : t3 = t2 \o (<<m>> \o d)
  OBVIOUS
<1>12. Parsed(t3, f, v, {x, y} \cup {z})
  <2>1. Parsed(t2, f, z, {x, y}) /\ {x, y} # {}
    <3>1. {x} \cup {y} = {x, y}
      OBVIOUS
    <3> QED
      BY <1>10, <3>1
  <2> QED
    BY <1>3, <1>19, <1>11, <2>1, NextParsed
<1>13. PICK t4 : t4 = t3 \o (<<m>> \o e)
  OBVIOUS
<1>14. Parsed(t4, f, e, {x, y, z} \cup {v})
  <2>1. Parsed(t3, f, v, {x, y, z}) /\ {x, y, z} # {}
    <3>1. {x, y} \cup {z} = {x, y, z}
      OBVIOUS
    <3> QED
      BY <1>12, <3>1
  <2> QED
    BY <1>3, <1>5, <1>13, <2>1, NextParsed
<1>15. PICK t5 : t5 = t4 \o (<<m>> \o e)
  OBVIOUS
<1>16. Parsed(t5, f, e, {x, y, z, v} \cup {e})
  <2>1. Parsed(t4, f, e, {x, y, z, v}) /\ {x, y, z, v} # {}
    <3>1. {x, y, z} \cup {v} = {x, y, z, v}
      OBVIOUS
    <3> QED
      BY <1>14, <3>1
  <2> QED
    BY <1>3, <1>5, <1>15, <2>1, NextParsed
<1>17. Words(t5, f) = {x, y, z, v, e}
  <2>1. PICK read : read = {x, y, z, v} \cup {e}
    OBVIOUS
  <2>2. Parsed(t5, f, e, read)
    BY <1>16, <2>1
  <2>3. PICK s : s = Scan(t5, f)
    OBVIOUS
  <2>6. t5 \in Text /\ Scan(t5, f) = [open |-> FALSE, word |-> e, words |-> read]
    BY <2>2 DEF Parsed
  <2>7. s = [open |-> FALSE, word |-> e, words |-> read]
    BY <2>3, <2>6
  <2>8. s.word = e
    BY <2>7
  <2>9. s.words = read
    BY <2>7
  <2>4. s.word = e /\ s.words = read
    BY <2>8, <2>9
  <2>5. Words(t5, f) = read \cup {e}
    BY <2>3, <2>4 DEF Words
  <2> QED
    BY <2>1, <2>5
<1>18. t5 \in Text
  BY <1>16 DEF Parsed
<1>20. t = t5
  BY <1>2, <1>4, <1>7, <1>9, <1>11, <1>13, <1>15 DEF WifiSays
<1> QED
  BY <1>2, <1>4, <1>17, <1>18, <1>20

\* The names of the parts of a wifi code's text, put together.
LEMMA WifiHead ==
    ASSUME NEW a \in Chars, NEW s \in Text
    PROVE  <<"WIFI", ":", "T", ":", a, ";", "S", ":">> \o s
           = <<"WIFI", ":">> \o ((<<"T", ":">> \o <<a>>) \o (<<";">> \o (<<"S", ":">> \o s)))
<1>1. PICK kW, kT, kS, c, m : kW = "WIFI" /\ kT = "T" /\ kS = "S" /\ c = ":" /\ m = ";"
  OBVIOUS
<1>2. kW \in Chars /\ kT \in Chars /\ kS \in Chars /\ c \in Chars /\ m \in Chars
  BY <1>1, CharsAssumption DEF Keywords
<1>3. PICK l, w, x, y : /\ l = <<kW, c, kT, c, a, m, kS, c>> /\ w = <<kT, c, a, m, kS, c>>
                        /\ x = <<kT, c, a>> /\ y = <<m, kS, c>>
  OBVIOUS
<1>4. PICK hW, hT, hS, one, v :
         hW = <<kW, c>> /\ hT = <<kT, c>> /\ hS = <<kS, c>> /\ one = <<m>> /\ v = <<a>>
  OBVIOUS
<1>5. l \in Text
  BY <1>2, <1>3 DEF Text
<1>6. w \in Text
  BY <1>2, <1>3 DEF Text
<1>7. x \in Text
  BY <1>2, <1>3 DEF Text
<1>8. y \in Text
  BY <1>2, <1>3 DEF Text
<1>9. hW \in Text
  BY <1>2, <1>4 DEF Text
<1>10. hT \in Text
  BY <1>2, <1>4 DEF Text
<1>11. hS \in Text
  BY <1>2, <1>4 DEF Text
<1>12. one \in Text
  BY <1>2, <1>4 DEF Text
<1>13. v \in Text
  BY <1>4 DEF Text
<1>14. l = hW \o w
  <2>1. /\ Len(l) = 8 /\ Len(hW) = 2 /\ Len(w) = 6
        /\ l[1] = kW /\ l[2] = c /\ l[3] = kT /\ l[4] = c /\ l[5] = a /\ l[6] = m /\ l[7] = kS /\ l[8] = c
        /\ hW[1] = kW /\ hW[2] = c
        /\ w[1] = kT /\ w[2] = c /\ w[3] = a /\ w[4] = m /\ w[5] = kS /\ w[6] = c
    BY <1>3, <1>4
  <2>2. \A i \in 1..8 : i = 1 \/ i = 2 \/ i = 3 \/ i = 4 \/ i = 5 \/ i = 6 \/ i = 7 \/ i = 8
    OBVIOUS
  <2>3. \A i \in 1..Len(l) : l[i] = IF i <= Len(hW) THEN hW[i] ELSE w[i - Len(hW)]
    BY <2>1, <2>2
  <2>4. Len(l) = Len(hW) + Len(w)
    BY <2>1
  <2> QED
    BY <1>5, <1>6, <1>9, <2>3, <2>4, Spelled, Zenon
<1>15. w = x \o y
  <2>1. /\ Len(w) = 6 /\ Len(x) = 3 /\ Len(y) = 3
        /\ w[1] = kT /\ w[2] = c /\ w[3] = a /\ w[4] = m /\ w[5] = kS /\ w[6] = c
        /\ x[1] = kT /\ x[2] = c /\ x[3] = a /\ y[1] = m /\ y[2] = kS /\ y[3] = c
    BY <1>3
  <2>2. \A i \in 1..6 : i = 1 \/ i = 2 \/ i = 3 \/ i = 4 \/ i = 5 \/ i = 6
    OBVIOUS
  <2>3. \A i \in 1..Len(w) : w[i] = IF i <= Len(x) THEN x[i] ELSE y[i - Len(x)]
    BY <2>1, <2>2
  <2>4. Len(w) = Len(x) + Len(y)
    BY <2>1
  <2> QED
    BY <1>6, <1>7, <1>8, <2>3, <2>4, Spelled, Zenon
<1>16. x = hT \o v
  BY <1>2, <1>3, <1>4, LiteralThree
<1>17. y = one \o hS
  BY <1>2, <1>3, <1>4, LiteralThree
<1>18. (hW \o w) \o s = hW \o (w \o s)
  BY <1>6, <1>9, Regroup, Zenon
<1>19. (x \o y) \o s = x \o (y \o s)
  BY <1>7, <1>8, Regroup, Zenon
<1>20. (one \o hS) \o s = one \o (hS \o s)
  BY <1>11, <1>12, Regroup, Zenon
<1>21. l \o s = hW \o ((hT \o v) \o (one \o (hS \o s)))
  BY <1>14, <1>15, <1>16, <1>17, <1>18, <1>19, <1>20
<1> QED
  BY <1>1, <1>3, <1>4, <1>21

\* The names at its end.
LEMMA WifiTail ==
    ASSUME NEW h \in Chars
    PROVE  /\ <<";", "H", ":", h, ";", ";">> \in Text
           /\ <<";", "H", ":", h, ";", ";">>
              = ((<<";">> \o (<<"H", ":">> \o <<h>>)) \o (<<";">> \o <<>>)) \o (<<";">> \o <<>>)
<1>1. PICK kH, c, m : kH = "H" /\ c = ":" /\ m = ";"
  OBVIOUS
<1>2. kH \in Chars /\ c \in Chars /\ m \in Chars
  BY <1>1, CharsAssumption DEF Keywords
<1>3. PICK l, y, z : l = <<m, kH, c, h, m, m>> /\ y = <<m, kH, c>> /\ z = <<h, m, m>>
  OBVIOUS
<1>4. PICK hH, one, x, two, e : /\ hH = <<kH, c>> /\ one = <<m>> /\ x = <<h>> /\ two = <<m, m>>
                                /\ e = <<>>
  OBVIOUS
<1>5. l \in Text
  BY <1>2, <1>3 DEF Text
<1>6. y \in Text
  BY <1>2, <1>3 DEF Text
<1>7. z \in Text
  BY <1>2, <1>3 DEF Text
<1>8. hH \in Text
  BY <1>2, <1>4 DEF Text
<1>9. one \in Text
  BY <1>2, <1>4 DEF Text
<1>10. x \in Text
  BY <1>4 DEF Text
<1>11. two \in Text
  BY <1>2, <1>4 DEF Text
<1>12. l = y \o z
  <2>1. /\ Len(l) = 6 /\ Len(y) = 3 /\ Len(z) = 3
        /\ l[1] = m /\ l[2] = kH /\ l[3] = c /\ l[4] = h /\ l[5] = m /\ l[6] = m
        /\ y[1] = m /\ y[2] = kH /\ y[3] = c /\ z[1] = h /\ z[2] = m /\ z[3] = m
    BY <1>3
  <2>2. \A i \in 1..6 : i = 1 \/ i = 2 \/ i = 3 \/ i = 4 \/ i = 5 \/ i = 6
    OBVIOUS
  <2>3. \A i \in 1..Len(l) : l[i] = IF i <= Len(y) THEN y[i] ELSE z[i - Len(y)]
    BY <2>1, <2>2
  <2>4. Len(l) = Len(y) + Len(z)
    BY <2>1
  <2> QED
    BY <1>5, <1>6, <1>7, <2>3, <2>4, Spelled, Zenon
<1>13. y = one \o hH
  BY <1>2, <1>3, <1>4, LiteralThree
<1>14. z = x \o two
  BY <1>2, <1>3, <1>4, LiteralThree
<1>15. two = one \o one
  BY <1>2, <1>4, LiteralTwo
<1>16. PICK r : r = hH \o x
  OBVIOUS
<1>17. r \in Text
  BY <1>8, <1>10, <1>16, Sticks
<1>18. one \o e = one
  BY <1>4, <1>9, Sticks
<1>19. (one \o hH) \o z = one \o (hH \o z)
  BY <1>7, <1>8, <1>9, Regroup, Zenon
<1>20. (hH \o x) \o two = hH \o (x \o two)
  BY <1>8, <1>10, <1>11, Regroup, Zenon
<1>21. one \o (r \o two) = ((one \o r) \o one) \o one
  <2>1. PICK q : q = one \o r
    OBVIOUS
  <2>2. q \in Text
    BY <1>9, <1>17, <2>1, Sticks
  <2>3. (q \o one) \o one = q \o (one \o one)
    BY <1>9, <2>2, Regroup, Zenon
  <2>4. (one \o r) \o two = one \o (r \o two)
    BY <1>9, <1>11, <1>17, Regroup, Zenon
  <2> QED
    BY <1>15, <2>1, <2>3, <2>4
<1>22. l = ((one \o (hH \o x)) \o (one \o e)) \o (one \o e)
  BY <1>12, <1>13, <1>14, <1>16, <1>18, <1>19, <1>20, <1>21
<1> QED
  BY <1>1, <1>3, <1>4, <1>5, <1>22

\* The names are texts.
LEMMA WifiKeys ==
    /\ <<";">> \in Text /\ <<"WIFI", ":">> \in Text /\ <<"T", ":">> \in Text /\ <<"S", ":">> \in Text
    /\ <<"P", ":">> \in Text /\ <<"H", ":">> \in Text /\ <<";", "P", ":">> \in Text
    /\ <<";", "P", ":">> = <<";">> \o <<"P", ":">>
<1>1. PICK kW, kT, kS, kP, kH, c, m :
         kW = "WIFI" /\ kT = "T" /\ kS = "S" /\ kP = "P" /\ kH = "H" /\ c = ":" /\ m = ";"
  OBVIOUS
<1>2. /\ kW \in Chars /\ kT \in Chars /\ kS \in Chars /\ kP \in Chars /\ kH \in Chars
      /\ c \in Chars /\ m \in Chars
  BY <1>1, CharsAssumption DEF Keywords
<1>3. /\ <<m>> \in Text /\ <<kW, c>> \in Text /\ <<kT, c>> \in Text /\ <<kS, c>> \in Text
      /\ <<kP, c>> \in Text /\ <<kH, c>> \in Text /\ <<m, kP, c>> \in Text
  BY <1>2 DEF Text
<1>4. <<m, kP, c>> = <<m>> \o <<kP, c>>
  BY <1>2, LiteralThree
<1> QED
  BY <1>1, <1>3, <1>4

\* A wifi code's text, part by part.
LEMMA WifiParts ==
    ASSUME NEW a \in Chars, NEW s \in Text, NEW p \in Text, NEW h \in Chars
    PROVE  <<"WIFI", ":", "T", ":", a, ";", "S", ":">> \o s \o <<";", "P", ":">> \o p
               \o <<";", "H", ":", h, ";", ";">>
           = <<"WIFI", ":">> \o ((((((<<"T", ":">> \o <<a>>) \o (<<";">> \o (<<"S", ":">> \o s)))
                                 \o (<<";">> \o (<<"P", ":">> \o p))) \o (<<";">> \o (<<"H", ":">> \o <<h>>)))
                               \o (<<";">> \o <<>>)) \o (<<";">> \o <<>>))
<1>1. PICK l, w, i : /\ l = <<"WIFI", ":", "T", ":", a, ";", "S", ":">>
                     /\ w = <<";", "H", ":", h, ";", ";">> /\ i = <<";", "P", ":">>
  OBVIOUS
<1>2. PICK hW, hT, hS, hP, hH, one :
         /\ hW = <<"WIFI", ":">> /\ hT = <<"T", ":">> /\ hS = <<"S", ":">> /\ hP = <<"P", ":">>
         /\ hH = <<"H", ":">> /\ one = <<";">>
  OBVIOUS
<1>3. PICK v, x, e : v = <<a>> /\ x = <<h>> /\ e = <<>>
  OBVIOUS
<1>4. v \in Text
  BY <1>3 DEF Text
<1>5. x \in Text
  BY <1>3 DEF Text
<1>6. e \in Text
  BY <1>3 DEF Text
<1>7. hW \in Text
  BY <1>2, WifiKeys
<1>8. one \in Text
  BY <1>2, WifiKeys
<1>9. hP \in Text
  BY <1>2, WifiKeys
<1>10. i \in Text
  BY <1>1, WifiKeys
<1>11. PICK u, r, y, z : /\ u = (hT \o v) \o (one \o (hS \o s)) /\ r = one \o (hP \o p)
                         /\ y = one \o (hH \o x) /\ z = one \o e
  OBVIOUS
<1>12. u \in Text
  <2>1. hT \in Text
    BY <1>2, WifiKeys
  <2>2. hS \in Text
    BY <1>2, WifiKeys
  <2>3. PICK q, o : q = hT \o v /\ o = hS \o s
    OBVIOUS
  <2>4. q \in Text
    BY <1>4, <2>1, <2>3, Sticks
  <2>5. o \in Text
    BY <2>2, <2>3, Sticks
  <2>6. PICK j : j = one \o o
    OBVIOUS
  <2>7. j \in Text
    BY <1>8, <2>5, <2>6, Sticks
  <2>8. u = q \o j
    BY <1>11, <2>3, <2>6
  <2> QED
    BY <2>4, <2>7, <2>8, Sticks
<1>13. r \in Text
  <2>1. PICK q : q = hP \o p
    OBVIOUS
  <2>2. q \in Text
    BY <1>9, <2>1, Sticks
  <2>3. r = one \o q
    BY <1>11, <2>1
  <2> QED
    BY <1>8, <2>2, <2>3, Sticks
<1>14. y \in Text
  <2>1. hH \in Text
    BY <1>2, WifiKeys
  <2>2. PICK q : q = hH \o x
    OBVIOUS
  <2>3. q \in Text
    BY <1>5, <2>1, <2>2, Sticks
  <2>4. y = one \o q
    BY <1>11, <2>2
  <2> QED
    BY <1>8, <2>3, <2>4, Sticks
<1>15. z \in Text
  BY <1>6, <1>8, <1>11, Sticks
<1>16. l \o s = hW \o u
  BY <1>1, <1>2, <1>3, <1>11, WifiHead
<1>17. i \o p = r
  <2>1. i = one \o hP
    BY <1>1, <1>2, WifiKeys
  <2>2. (one \o hP) \o p = one \o (hP \o p)
    BY <1>8, <1>9, Regroup, Zenon
  <2> QED
    BY <1>11, <2>1, <2>2
<1>18. ((hW \o u) \o i) \o p = hW \o (u \o r)
  <2>1. PICK q : q = hW \o u
    OBVIOUS
  <2>2. q \in Text
    BY <1>7, <1>12, <2>1, Sticks
  <2>3. (q \o i) \o p = q \o (i \o p)
    BY <1>10, <2>2, Regroup, Zenon
  <2>4. (hW \o u) \o r = hW \o (u \o r)
    BY <1>7, <1>12, <1>13, Regroup, Zenon
  <2> QED
    BY <1>17, <2>1, <2>3, <2>4
<1>19. PICK o : o = u \o r
  OBVIOUS
<1>20. o \in Text
  BY <1>12, <1>13, <1>19, Sticks
<1>21. w \in Text
  BY <1>1, WifiTail
<1>22. w = (y \o z) \o z
  BY <1>1, <1>2, <1>3, <1>11, WifiTail
<1>23. (hW \o o) \o w = hW \o (o \o w)
  BY <1>7, <1>20, <1>21, Regroup, Zenon
<1>24. o \o ((y \o z) \o z) = ((o \o y) \o z) \o z
  <2>1. PICK q : q = y \o z
    OBVIOUS
  <2>2. q \in Text
    BY <1>14, <1>15, <2>1, Sticks
  <2>3. (o \o q) \o z = o \o (q \o z)
    BY <1>15, <1>20, <2>2, Regroup, Zenon
  <2>4. (o \o y) \o z = o \o (y \o z)
    BY <1>14, <1>15, <1>20, Regroup, Zenon
  <2> QED
    BY <2>1, <2>3, <2>4
<1>25. (((l \o s) \o i) \o p) \o w = hW \o ((((u \o r) \o y) \o z) \o z)
  BY <1>16, <1>18, <1>19, <1>22, <1>23, <1>24
<1> QED
  BY <1>1, <1>2, <1>3, <1>11, <1>25

\* A word that has the key.
Keyed(w, k, sign) == Len(w) > 1 /\ w[1] = k /\ w[2] = sign

\* ValueFound, of such words.
LEMMA ValueAmong ==
    ASSUME NEW words, NEW k \in Chars, NEW sign \in Chars, NEW v \in Text,
           <<k, sign>> \o v \in words,
           \A w \in words : w = <<k, sign>> \o v \/ ~Keyed(w, k, sign)
    PROVE  Value(words, k, sign) = v
  BY ValueFound DEF Keyed

\* ValueMissing, likewise.
LEMMA ValueNone ==
    ASSUME NEW words, NEW k, NEW sign, \A w \in words : ~Keyed(w, k, sign)
    PROVE  Value(words, k, sign) = <<>>
  BY ValueMissing DEF Keyed

\* A word has no key but its own.
LEMMA OtherKey ==
    ASSUME NEW k \in Chars, NEW sign \in Chars, NEW v \in Text, NEW other, NEW by, other # k
    PROVE  ~Keyed(<<k, sign>> \o v, other, by)
  BY Headed DEF Keyed

\* A word of one character, or of none, has no key.
LEMMA NoKey ==
    ASSUME NEW k, NEW sign, NEW c
    PROVE  ~Keyed(<<>>, k, sign) /\ ~Keyed(<<c>>, k, sign)
  BY DEF Keyed

\* The words of a wifi code.
WifiFields(words, a, s, p, h) ==
    /\ a \in Text /\ s \in Text /\ p \in Text /\ h \in Text
    /\ words = {<<"T", ":">> \o a, <<"S", ":">> \o s, <<"P", ":">> \o p, <<"H", ":">> \o h, <<>>}

\* What their keys stand for.
LEMMA WifiValues ==
    ASSUME NEW words, NEW a, NEW s, NEW p, NEW h, WifiFields(words, a, s, p, h)
    PROVE  /\ Value(words, "T", ":") = a /\ Value(words, "S", ":") = s
           /\ Value(words, "P", ":") = p /\ Value(words, "H", ":") = h
<1>1. PICK kT, kS, kP, kH, c : kT = "T" /\ kS = "S" /\ kP = "P" /\ kH = "H" /\ c = ":"
  OBVIOUS
<1>2. /\ kT \in Chars /\ kS \in Chars /\ kP \in Chars /\ kH \in Chars /\ c \in Chars
      /\ kT # kS /\ kT # kP /\ kT # kH /\ kS # kP /\ kS # kH /\ kP # kH
  BY <1>1, CharsAssumption DEF Keywords
<1>3. PICK wT, wS, wP, wH, e :
         /\ wT = <<kT, c>> \o a /\ wS = <<kS, c>> \o s /\ wP = <<kP, c>> \o p /\ wH = <<kH, c>> \o h
         /\ e = <<>>
  OBVIOUS
<1>4. words = {wT, wS, wP, wH, e}
  BY <1>1, <1>3 DEF WifiFields
<1>14. a \in Text /\ s \in Text /\ p \in Text /\ h \in Text
  BY DEF WifiFields
<1>5. \A k : k # kT => ~Keyed(wT, k, c)
  BY <1>2, <1>3, <1>14, OtherKey
<1>6. \A k : k # kS => ~Keyed(wS, k, c)
  BY <1>2, <1>3, <1>14, OtherKey
<1>7. \A k : k # kP => ~Keyed(wP, k, c)
  BY <1>2, <1>3, <1>14, OtherKey
<1>8. \A k : k # kH => ~Keyed(wH, k, c)
  BY <1>2, <1>3, <1>14, OtherKey
<1>9. \A k : ~Keyed(e, k, c)
  BY <1>3, NoKey
<1>10. Value(words, kT, c) = a
  <2>1. \A w \in words : w = wT \/ ~Keyed(w, kT, c)
    BY <1>2, <1>4, <1>6, <1>7, <1>8, <1>9
  <2> QED
    BY <1>2, <1>3, <1>4, <1>14, <2>1, ValueAmong
<1>11. Value(words, kS, c) = s
  <2>1. \A w \in words : w = wS \/ ~Keyed(w, kS, c)
    BY <1>2, <1>4, <1>5, <1>7, <1>8, <1>9
  <2> QED
    BY <1>2, <1>3, <1>4, <1>14, <2>1, ValueAmong
<1>12. Value(words, kP, c) = p
  <2>1. \A w \in words : w = wP \/ ~Keyed(w, kP, c)
    BY <1>2, <1>4, <1>5, <1>6, <1>8, <1>9
  <2> QED
    BY <1>2, <1>3, <1>4, <1>14, <2>1, ValueAmong
<1>13. Value(words, kH, c) = h
  <2>1. \A w \in words : w = wH \/ ~Keyed(w, kH, c)
    BY <1>2, <1>4, <1>5, <1>6, <1>7, <1>9
  <2> QED
    BY <1>2, <1>3, <1>4, <1>14, <2>1, ValueAmong
<1> QED
  BY <1>1, <1>10, <1>11, <1>12, <1>13

\* A phone reads every wifi code back, whatever separators and escapes its fields hold.
THEOREM WifiReads ==
    ASSUME NEW p \in PayloadOf("wifi")
    PROVE  Read("wifi", Encode(p)) = Meaning(p)
<1>1. /\ p \in [type : {"wifi"}, ssid : Text, password : Text,
                auth : {"WPA", "WEP", "nopass"}, hidden : BOOLEAN]
      /\ p.type = "wifi" /\ p.ssid \in Text /\ p.password \in Text
      /\ p.auth \in {"WPA", "WEP", "nopass"}
  BY DEF PayloadOf
<1>2. PICK auth, hidden, password :
         /\ auth = p.auth /\ hidden = IF p.hidden THEN "true" ELSE "false"
         /\ password = IF auth = "nopass" THEN <<>> ELSE p.password
  OBVIOUS
<1>3. auth \in Chars
  BY <1>1, <1>2, CharsAssumption DEF Keywords
<1>4. hidden \in Chars
  BY <1>2, CharsAssumption DEF Keywords
<1>5. auth # "\\" /\ auth # ";" /\ hidden # "\\" /\ hidden # ";"
  BY <1>1, <1>2
<1>6. PICK s, w : /\ s = WifiEscape(p.ssid)
                  /\ w = IF auth = "nopass" THEN <<>> ELSE WifiEscape(p.password)
  OBVIOUS
<1>7. Wifi.mark = "\\"
  BY DEF Wifi
<1>8. Says(s, p.ssid, Wifi, ";")
  BY <1>1, <1>6, SaysWifi
<1>9. Says(w, password, Wifi, ";")
  <2>1. CASE auth = "nopass"
    BY <1>2, <1>6, <2>1, SaysNothing
  <2>2. CASE auth # "nopass"
    BY <1>1, <1>2, <1>6, <2>2, SaysWifi
  <2> QED
    BY <2>1, <2>2
<1>10. Says(<<auth>>, <<auth>>, Wifi, ";") /\ Says(<<hidden>>, <<hidden>>, Wifi, ";")
  BY <1>3, <1>4, <1>5, <1>7, SaysPlain
<1>11. PICK tT, tS, tP, tH : /\ tT = <<"T", ":">> \o <<auth>> /\ tS = <<"S", ":">> \o s
                             /\ tP = <<"P", ":">> \o w /\ tH = <<"H", ":">> \o <<hidden>>
  OBVIOUS
<1>12. PICK uT, uS, uP, uH : /\ uT = <<"T", ":">> \o <<auth>> /\ uS = <<"S", ":">> \o p.ssid
                             /\ uP = <<"P", ":">> \o password /\ uH = <<"H", ":">> \o <<hidden>>
  OBVIOUS
<1>13. Says(tT, uT, Wifi, ";") /\ Says(tS, uS, Wifi, ";") /\ Says(tP, uP, Wifi, ";")
       /\ Says(tH, uH, Wifi, ";")
  <2>1. PICK kT, kS, kP, kH, c, m, b :
           /\ kT = "T" /\ kS = "S" /\ kP = "P" /\ kH = "H" /\ c = ":" /\ m = ";" /\ b = Wifi.mark
    OBVIOUS
  <2>2. /\ kT \in Chars /\ kS \in Chars /\ kP \in Chars /\ kH \in Chars /\ c \in Chars
        /\ kT # b /\ kS # b /\ kP # b /\ kH # b /\ c # b
        /\ kT # m /\ kS # m /\ kP # m /\ kH # m /\ c # m
    BY <1>7, <2>1, CharsAssumption DEF Keywords
  <2>3. Says(<<kT, c>> \o <<auth>>, <<kT, c>> \o <<auth>>, Wifi, m)
    BY <1>10, <2>1, <2>2, WordStart
  <2>4. Says(<<kS, c>> \o s, <<kS, c>> \o p.ssid, Wifi, m)
    BY <1>8, <2>1, <2>2, WordStart
  <2>5. Says(<<kP, c>> \o w, <<kP, c>> \o password, Wifi, m)
    BY <1>9, <2>1, <2>2, WordStart
  <2>6. Says(<<kH, c>> \o <<hidden>>, <<kH, c>> \o <<hidden>>, Wifi, m)
    BY <1>10, <2>1, <2>2, WordStart
  <2> QED
    BY <1>11, <1>12, <2>1, <2>3, <2>4, <2>5, <2>6
<1>14. PICK t : t = ((((tT \o (<<";">> \o tS)) \o (<<";">> \o tP)) \o (<<";">> \o tH))
                     \o (<<";">> \o <<>>)) \o (<<";">> \o <<>>)
  OBVIOUS
<1>15. t \in Text /\ Words(t, Wifi) = {uT, uS, uP, uH, <<>>}
  <2>1. WifiSays(t, tT, uT, tS, uS, tP, uP, tH, uH)
    BY <1>13, <1>14 DEF WifiSays
  <2> QED
    BY <2>1, WifiWords
<1>16. s \in Text /\ w \in Text
  BY <1>8, <1>9 DEF Says
<1>17. WifiText(p) = <<"WIFI", ":">> \o t
  <2>1. WifiText(p) = <<"WIFI", ":", "T", ":", auth, ";", "S", ":">> \o s \o <<";", "P", ":">> \o w
                      \o <<";", "H", ":", hidden, ";", ";">>
    BY <1>2, <1>6 DEF WifiText
  <2>2. <<"WIFI", ":", "T", ":", auth, ";", "S", ":">> \o s \o <<";", "P", ":">> \o w
            \o <<";", "H", ":", hidden, ";", ";">>
        = <<"WIFI", ":">> \o ((((((<<"T", ":">> \o <<auth>>) \o (<<";">> \o (<<"S", ":">> \o s)))
                              \o (<<";">> \o (<<"P", ":">> \o w))) \o (<<";">> \o (<<"H", ":">> \o <<hidden>>)))
                            \o (<<";">> \o <<>>)) \o (<<";">> \o <<>>))
    BY <1>3, <1>4, <1>16, WifiParts, Zenon
  <2> QED
    BY <1>11, <1>14, <2>1, <2>2
<1>18. PICK q : q = WifiText(p)
  OBVIOUS
<1>19. SubSeq(q, 3, Len(q)) = t
  <2>1. PICK kW, c : kW = "WIFI" /\ c = ":"
    OBVIOUS
  <2>2. kW \in Chars /\ c \in Chars
    BY <2>1, CharsAssumption DEF Keywords
  <2>3. q = <<kW, c>> \o t
    BY <1>17, <1>18, <2>1
  <2> QED
    BY <1>15, <2>2, <2>3, Headed
<1>20. PICK fields : fields = Words(t, Wifi)
  OBVIOUS
<1>21. password \in Text /\ <<auth>> \in Text /\ <<hidden>> \in Text
  BY <1>9, <1>10 DEF Says
<1>22. /\ Value(fields, "T", ":") = <<auth>> /\ Value(fields, "S", ":") = p.ssid
       /\ Value(fields, "P", ":") = password /\ Value(fields, "H", ":") = <<hidden>>
  <2>1. PICK a, h : a = <<auth>> /\ h = <<hidden>>
    OBVIOUS
  <2>2. fields = {<<"T", ":">> \o a, <<"S", ":">> \o p.ssid, <<"P", ":">> \o password,
                  <<"H", ":">> \o h, <<>>}
    BY <1>12, <1>15, <1>20, <2>1
  <2>3. a \in Text /\ h \in Text
    BY <1>21, <2>1
  <2>4. p.ssid \in Text
    BY <1>1
  <2>5. /\ Value(fields, "T", ":") = a /\ Value(fields, "S", ":") = p.ssid
        /\ Value(fields, "P", ":") = password /\ Value(fields, "H", ":") = h
    <3>1. WifiFields(fields, a, p.ssid, password, h)
      BY <1>21, <2>2, <2>3, <2>4 DEF WifiFields
    <3> QED
      BY <3>1, WifiValues
  <2> QED
    BY <2>1, <2>5
<1>23. ReadWifi(q) = [ssid |-> p.ssid, password |-> password, auth |-> <<auth>>, hidden |-> <<hidden>>]
  BY <1>19, <1>20, <1>22 DEF ReadWifi
<1>24. Read("wifi", Encode(p)) = ReadWifi(q)
  BY <1>1, <1>18 DEF Read, Encode
<1>25. Meaning(p) = [ssid |-> p.ssid, auth |-> <<auth>>, password |-> password, hidden |-> <<hidden>>]
  BY <1>1, <1>2 DEF Meaning
<1> QED
  BY <1>23, <1>24, <1>25

-----------------------------------------------------------------------------
(* A vcard *)

\* The names of a vcard's lines are texts.
LEMMA VcardKeys ==
    /\ <<"\n">> \in Text /\ <<"BEGIN">> \in Text /\ <<"VERSION">> \in Text /\ <<"END">> \in Text
    /\ <<"FN", ":">> \in Text /\ <<"ORG", ":">> \in Text
    /\ <<"\n", "END">> = <<"\n">> \o <<"END">>
    /\ <<"\n", "ORG", ":">> = <<"\n">> \o <<"ORG", ":">>
<1>1. PICK kB, kV, kE, kF, kO, c, m :
         kB = "BEGIN" /\ kV = "VERSION" /\ kE = "END" /\ kF = "FN" /\ kO = "ORG" /\ c = ":" /\ m = "\n"
  OBVIOUS
<1>2. /\ kB \in Chars /\ kV \in Chars /\ kE \in Chars /\ kF \in Chars /\ kO \in Chars
      /\ c \in Chars /\ m \in Chars
  BY <1>1, CharsAssumption DEF Keywords
<1>3. /\ <<m>> \in Text /\ <<kB>> \in Text /\ <<kV>> \in Text /\ <<kE>> \in Text
      /\ <<kF, c>> \in Text /\ <<kO, c>> \in Text
  BY <1>2 DEF Text
<1>4. <<m, kE>> = <<m>> \o <<kE>>
  BY <1>2, LiteralTwo
<1>5. <<m, kO, c>> = <<m>> \o <<kO, c>>
  BY <1>2, LiteralThree
<1> QED
  BY <1>1, <1>3, <1>4, <1>5

\* A vcard's first three lines.
LEMMA VcardHead ==
    ASSUME NEW n \in Text
    PROVE  <<"BEGIN", "\n", "VERSION", "\n", "FN", ":">> \o n
           = (<<"BEGIN">> \o (<<"\n">> \o <<"VERSION">>)) \o (<<"\n">> \o (<<"FN", ":">> \o n))
<1>1. PICK kB, kV, kF, c, m : kB = "BEGIN" /\ kV = "VERSION" /\ kF = "FN" /\ c = ":" /\ m = "\n"
  OBVIOUS
<1>2. kB \in Chars /\ kV \in Chars /\ kF \in Chars /\ c \in Chars /\ m \in Chars
  BY <1>1, CharsAssumption DEF Keywords
<1>3. PICK l, x, y : l = <<kB, m, kV, m, kF, c>> /\ x = <<kB, m, kV>> /\ y = <<m, kF, c>>
  OBVIOUS
<1>4. PICK one, hF, b, v : one = <<m>> /\ hF = <<kF, c>> /\ b = <<kB>> /\ v = <<kV>>
  OBVIOUS
<1>5. l \in Text
  BY <1>2, <1>3 DEF Text
<1>6. x \in Text
  BY <1>2, <1>3 DEF Text
<1>7. y \in Text
  BY <1>2, <1>3 DEF Text
<1>8. one \in Text
  BY <1>2, <1>4 DEF Text
<1>9. hF \in Text
  BY <1>2, <1>4 DEF Text
<1>10. l = x \o y
  <2>1. /\ Len(l) = 6 /\ Len(x) = 3 /\ Len(y) = 3
        /\ l[1] = kB /\ l[2] = m /\ l[3] = kV /\ l[4] = m /\ l[5] = kF /\ l[6] = c
        /\ x[1] = kB /\ x[2] = m /\ x[3] = kV /\ y[1] = m /\ y[2] = kF /\ y[3] = c
    BY <1>3
  <2>2. \A i \in 1..6 : i = 1 \/ i = 2 \/ i = 3 \/ i = 4 \/ i = 5 \/ i = 6
    OBVIOUS
  <2>3. \A i \in 1..Len(l) : l[i] = IF i <= Len(x) THEN x[i] ELSE y[i - Len(x)]
    BY <2>1, <2>2
  <2>4. Len(l) = Len(x) + Len(y)
    BY <2>1
  <2> QED
    BY <1>5, <1>6, <1>7, <2>3, <2>4, Spelled, Zenon
<1>11. x = b \o <<m, kV>>
  BY <1>2, <1>3, <1>4, LiteralThree
<1>12. <<m, kV>> = one \o v
  BY <1>2, <1>4, LiteralTwo
<1>13. y = one \o hF
  BY <1>2, <1>3, <1>4, LiteralThree
<1>14. (x \o y) \o n = x \o (y \o n)
  BY <1>6, <1>7, Regroup, Zenon
<1>15. (one \o hF) \o n = one \o (hF \o n)
  BY <1>8, <1>9, Regroup, Zenon
<1>16. l \o n = (b \o (one \o v)) \o (one \o (hF \o n))
  BY <1>10, <1>11, <1>12, <1>13, <1>14, <1>15
<1> QED
  BY <1>1, <1>3, <1>4, <1>16

\* What is read of a vcard's first three lines.
LEMMA VcardBegins ==
    ASSUME NEW n, NEW name, Says(n, name, Vcard, "\n")
    PROVE  Parsed((<<"BEGIN">> \o (<<"\n">> \o <<"VERSION">>)) \o (<<"\n">> \o (<<"FN", ":">> \o n)),
                  Vcard, <<"FN", ":">> \o name, {<<"BEGIN">>, <<"VERSION">>})
<1>1. PICK kB, kV, kF, c, m, f :
         kB = "BEGIN" /\ kV = "VERSION" /\ kF = "FN" /\ c = ":" /\ m = "\n" /\ f = Vcard
  OBVIOUS
<1>2. /\ kB \in Chars /\ kV \in Chars /\ kF \in Chars /\ c \in Chars /\ m \in Chars
      /\ f.mark = "\\" /\ f.first = m /\ f.next = m
  BY <1>1, CharsAssumption DEF Keywords, Vcard
<1>3. /\ m # f.mark /\ kB # f.mark /\ kV # f.mark /\ kF # f.mark /\ c # f.mark
      /\ kB # m /\ kV # m /\ kF # m /\ c # m
  BY <1>1, <1>2
<1>4. PICK b, v, w, u : b = <<kB>> /\ v = <<kV>> /\ w = <<kF, c>> \o n /\ u = <<kF, c>> \o name
  OBVIOUS
<1>5. Says(b, b, f, m)
  BY <1>2, <1>3, <1>4, SaysPlain
<1>6. Says(v, v, f, m)
  BY <1>2, <1>3, <1>4, SaysPlain
<1>7. Says(w, u, f, m)
  <2>1. Says(n, name, f, m)
    BY <1>1
  <2> QED
    BY <1>2, <1>3, <1>4, <2>1, WordStart
<1>8. Parsed(b, f, b, {})
  BY <1>2, <1>5, FirstParsed
<1>9. PICK t1 : t1 = b \o (<<m>> \o v)
  OBVIOUS
<1>10. Parsed(t1, f, v, {} \cup {b})
  BY <1>2, <1>3, <1>6, <1>8, <1>9, NextParsed
<1>11. Parsed(t1, f, v, {b}) /\ {b} # {}
  BY <1>10
<1>12. Parsed(t1 \o (<<m>> \o w), f, u, {b} \cup {v})
  BY <1>2, <1>3, <1>7, <1>11, NextParsed
<1>13. {b} \cup {v} = {b, v}
  OBVIOUS
<1> QED
  BY <1>1, <1>4, <1>9, <1>12, <1>13

\* One line more.
LEMMA VcardLine ==
    ASSUME NEW t, NEW word, NEW words, Parsed(t, Vcard, word, words),
           NEW w, NEW u, Says(w, u, Vcard, "\n")
    PROVE  Parsed(t \o (<<"\n">> \o w), Vcard, u, words \cup {word})
<1>1. PICK m, f : m = "\n" /\ f = Vcard
  OBVIOUS
<1>2. m \in Chars /\ f.mark = "\\" /\ f.first = m /\ f.next = m
  BY <1>1, CharsAssumption DEF Keywords, Vcard
<1>3. m # f.mark
  BY <1>1, <1>2
<1>4. Parsed(t, f, word, words) /\ Says(w, u, f, f.next)
  BY <1>1, <1>2
<1>5. Parsed(t \o (<<m>> \o w), f, u, words \cup {word})
  BY <1>2, <1>3, <1>4, NextParsed
<1> QED
  BY <1>1, <1>5

\* The last line, and the lines there are then.
LEMMA VcardEnds ==
    ASSUME NEW t, NEW word, NEW words, Parsed(t, Vcard, word, words)
    PROVE  Words(t \o (<<"\n">> \o <<"END">>), Vcard) = words \cup {word, <<"END">>}
<1>1. PICK kE, m : kE = "END" /\ m = "\n"
  OBVIOUS
<1>2. kE \in Chars /\ kE # Vcard.mark /\ kE # m
  BY <1>1, CharsAssumption DEF Keywords, Vcard
<1>3. Says(<<kE>>, <<kE>>, Vcard, m)
  BY <1>2, SaysPlain
<1>4. PICK w, r : w = <<"END">> /\ r = t \o (<<"\n">> \o <<"END">>)
  OBVIOUS
<1>5. Says(w, w, Vcard, "\n")
  BY <1>1, <1>3, <1>4
<1>6. Parsed(r, Vcard, w, words \cup {word})
  BY <1>4, <1>5, VcardLine
<1>7. PICK s : s = Scan(r, Vcard)
  OBVIOUS
<1>8. s = [open |-> FALSE, word |-> w, words |-> words \cup {word}]
  BY <1>6, <1>7 DEF Parsed
<1>9. s.word = w
  BY <1>8
<1>10. s.words = words \cup {word}
  BY <1>8
<1>11. Words(r, Vcard) = (words \cup {word}) \cup {w}
  BY <1>7, <1>9, <1>10 DEF Words
<1> QED
  BY <1>4, <1>11

\* A vcard's lines: four, or five with an organisation.
VcardLines(words, name, org, has) ==
    /\ name \in Text /\ org \in Text
    /\ words = {<<"BEGIN">>, <<"VERSION">>, <<"FN", ":">> \o name, <<"END">>}
               \cup IF has THEN {<<"ORG", ":">> \o org} ELSE {}

\* What its keys stand for.
LEMMA VcardValues ==
    ASSUME NEW words, NEW name, NEW org, NEW has \in BOOLEAN, VcardLines(words, name, org, has)
    PROVE  /\ Value(words, "FN", ":") = name
           /\ Value(words, "ORG", ":") = IF has THEN org ELSE <<>>
<1>1. PICK kF, kO, c : kF = "FN" /\ kO = "ORG" /\ c = ":"
  OBVIOUS
<1>2. kF \in Chars /\ kO \in Chars /\ c \in Chars /\ kF # kO
  BY <1>1, CharsAssumption DEF Keywords
<1>3. PICK wF, wO, b, v, e : /\ wF = <<kF, c>> \o name /\ wO = <<kO, c>> \o org
                             /\ b = <<"BEGIN">> /\ v = <<"VERSION">> /\ e = <<"END">>
  OBVIOUS
<1>4. name \in Text /\ org \in Text
  BY DEF VcardLines
<1>5. words = {b, v, wF, e} \cup IF has THEN {wO} ELSE {}
  BY <1>1, <1>3 DEF VcardLines
<1>6. \A k : k # kF => ~Keyed(wF, k, c)
  BY <1>2, <1>3, <1>4, OtherKey
<1>7. \A k : k # kO => ~Keyed(wO, k, c)
  BY <1>2, <1>3, <1>4, OtherKey
<1>8. \A k : ~Keyed(b, k, c) /\ ~Keyed(v, k, c) /\ ~Keyed(e, k, c)
  BY <1>3, NoKey
<1>9. Value(words, kF, c) = name
  <2>1. \A w \in words : w = wF \/ ~Keyed(w, kF, c)
    BY <1>2, <1>5, <1>7, <1>8
  <2>2. wF \in words
    BY <1>5
  <2> QED
    BY <1>2, <1>3, <1>4, <2>1, <2>2, ValueAmong
<1>10. ASSUME has
       PROVE  Value(words, kO, c) = org
  <2>1. \A w \in words : w = wO \/ ~Keyed(w, kO, c)
    BY <1>2, <1>5, <1>6, <1>8
  <2>2. wO \in words
    BY <1>5, <1>10
  <2> QED
    BY <1>2, <1>3, <1>4, <2>1, <2>2, ValueAmong
<1>11. ASSUME ~has
       PROVE  Value(words, kO, c) = <<>>
  <2>1. \A w \in words : ~Keyed(w, kO, c)
    BY <1>2, <1>5, <1>6, <1>8, <1>11
  <2> QED
    BY <2>1, ValueNone
<1> QED
  BY <1>1, <1>9, <1>10, <1>11

\* A phone reads every vcard back, whatever separators, escapes and line breaks its
\* fields hold.
THEOREM VcardReads ==
    ASSUME NEW p \in PayloadOf("vcard")
    PROVE  Read("vcard", Encode(p)) = Meaning(p)
<1>1. /\ p \in [type : {"vcard"}, name : Text, org : Text]
      /\ p.type = "vcard" /\ p.name \in Text /\ p.org \in Text
  BY DEF PayloadOf
<1>2. PICK has \in BOOLEAN : has = ~IsBlank(p.org)
  OBVIOUS
<1>3. PICK n, o, nl : n = VcardEscape(p.name) /\ o = VcardEscape(p.org) /\ nl = <<"\n">>
  OBVIOUS
<1>4. Says(n, p.name, Vcard, "\n")
  BY <1>1, <1>3, SaysVcard
<1>5. Says(o, p.org, Vcard, "\n")
  BY <1>1, <1>3, SaysVcard
<1>6. PICK t : t = (<<"BEGIN">> \o (nl \o <<"VERSION">>)) \o (nl \o (<<"FN", ":">> \o n))
  OBVIOUS
<1>7. PICK first : first = <<"FN", ":">> \o p.name
  OBVIOUS
<1>8. Parsed(t, Vcard, first, {<<"BEGIN">>, <<"VERSION">>})
  BY <1>3, <1>4, <1>6, <1>7, VcardBegins
<1>9. <<"BEGIN", "\n", "VERSION", "\n", "FN", ":">> \o n = t
  <2>1. n \in Text
    BY <1>4 DEF Says
  <2> QED
    BY <1>3, <1>6, <2>1, VcardHead
<1>10. <<"\n", "END">> = nl \o <<"END">>
  BY <1>3, VcardKeys
<1>11. PICK q : q = VcardText(p)
  OBVIOUS
<1>12. VcardLines(Words(q, Vcard), p.name, p.org, has)
  <2>1. CASE has
    <3>1. PICK w, second, r : /\ w = <<"ORG", ":">> \o o /\ second = <<"ORG", ":">> \o p.org
                              /\ r = t \o (nl \o w)
      OBVIOUS
    <3>2. Says(w, second, Vcard, "\n")
      <4>1. PICK kO, c, m : kO = "ORG" /\ c = ":" /\ m = "\n"
        OBVIOUS
      <4>2. /\ kO \in Chars /\ c \in Chars /\ kO # Vcard.mark /\ c # Vcard.mark
            /\ kO # m /\ c # m
        BY <4>1, CharsAssumption DEF Keywords, Vcard
      <4>3. Says(<<kO, c>> \o o, <<kO, c>> \o p.org, Vcard, m)
        BY <1>5, <4>1, <4>2, WordStart
      <4> QED
        BY <3>1, <4>1, <4>3
    <3>3. PICK before : before = {<<"BEGIN">>, <<"VERSION">>}
      OBVIOUS
    <3>4. Parsed(t, Vcard, first, before)
      BY <1>8, <3>3
    <3>5. Parsed(r, Vcard, second, before \cup {first})
      BY <1>3, <3>1, <3>2, <3>4, VcardLine
    <3>6. PICK between : between = before \cup {first}
      OBVIOUS
    <3>7. Parsed(r, Vcard, second, between)
      BY <3>5, <3>6
    <3>8. Words(r \o (<<"\n">> \o <<"END">>), Vcard) = between \cup {second, <<"END">>}
      BY <3>7, VcardEnds
    <3>9. <<"\n", "ORG", ":">> \o o = nl \o w
      <4>1. PICK h : h = <<"ORG", ":">>
        OBVIOUS
      <4>2. nl \in Text
        BY <1>3, VcardKeys
      <4>3. h \in Text
        BY <4>1, VcardKeys
      <4>4. o \in Text
        BY <1>5 DEF Says
      <4>5. (nl \o h) \o o = nl \o (h \o o)
        BY <4>2, <4>3, <4>4, Regroup, Zenon
      <4>6. <<"\n", "ORG", ":">> = nl \o h
        BY <1>3, <4>1, VcardKeys
      <4> QED
        BY <3>1, <4>1, <4>5, <4>6
    <3>10. q = <<"BEGIN", "\n", "VERSION", "\n", "FN", ":">> \o n
               \o (<<"\n", "ORG", ":">> \o o) \o <<"\n", "END">>
      BY <1>2, <1>3, <1>11, <2>1 DEF VcardText
    <3>11. q = r \o (<<"\n">> \o <<"END">>)
      BY <1>3, <1>9, <1>10, <3>1, <3>9, <3>10
    <3>12. Words(q, Vcard) = between \cup {second, <<"END">>}
      BY <3>8, <3>11
    <3> QED
      BY <1>1, <1>7, <2>1, <3>1, <3>3, <3>6, <3>12 DEF VcardLines
  <2>2. CASE ~has
    <3>1. PICK before : before = {<<"BEGIN">>, <<"VERSION">>}
      OBVIOUS
    <3>2. Parsed(t, Vcard, first, before)
      BY <1>8, <3>1
    <3>3. Words(t \o (<<"\n">> \o <<"END">>), Vcard) = before \cup {first, <<"END">>}
      BY <3>2, VcardEnds
    <3>4. q = <<"BEGIN", "\n", "VERSION", "\n", "FN", ":">> \o n \o <<>> \o <<"\n", "END">>
      BY <1>2, <1>3, <1>11, <2>2 DEF VcardText
    <3>5. t \o <<>> = t
      <4>1. t \in Text
        BY <1>8 DEF Parsed
      <4> QED
        BY <4>1, Sticks
    <3>6. q = t \o (<<"\n">> \o <<"END">>)
      BY <1>3, <1>9, <1>10, <3>4, <3>5
    <3>7. Words(q, Vcard) = before \cup {first, <<"END">>}
      BY <3>3, <3>6
    <3> QED
      BY <1>1, <1>7, <2>2, <3>1, <3>7 DEF VcardLines
  <2> QED
    BY <2>1, <2>2
<1>13. PICK lines : lines = Words(q, Vcard)
  OBVIOUS
<1>14. Value(lines, "FN", ":") = p.name /\ Value(lines, "ORG", ":") = IF has THEN p.org ELSE <<>>
  BY <1>12, <1>13, VcardValues
<1>15. ReadVcard(q) = [name |-> p.name, org |-> IF has THEN p.org ELSE <<>>]
  BY <1>13, <1>14 DEF ReadVcard
<1>16. Read("vcard", Encode(p)) = ReadVcard(q)
  BY <1>1, <1>11 DEF Read, Encode
<1>17. Meaning(p) = [name |-> p.name, org |-> IF has THEN p.org ELSE <<>>]
  BY <1>1, <1>2 DEF Meaning, NonBlank
<1> QED
  BY <1>15, <1>16, <1>17

-----------------------------------------------------------------------------
(* Blanks *)

\* The first and the last place of a text that is not blank.
LEMMA EdgesOf ==
    ASSUME NEW C, NEW t \in Seq(C), NEW S, S \subseteq DOMAIN t, S # {}
    PROVE  /\ Min(S) \in S /\ \A n \in S : Min(S) <= n
           /\ Max(S) \in S /\ \A n \in S : n <= Max(S)
<1>1. Len(t) \in Nat /\ S \subseteq 1..Len(t)
  OBVIOUS
<1>2. \E m \in S : \A n \in S : m <= n
  BY <1>1, LeastOf
<1>3. \E m \in S : \A n \in S : m >= n
  <2> DEFINE fromEnd == {Len(t) - n : n \in S}
  <2>1. fromEnd \subseteq Nat /\ fromEnd # {}
    BY <1>1
  <2>2. \E c \in fromEnd : \A d \in fromEnd : c <= d
    <3> HIDE DEF fromEnd
    <3> QED
      BY <2>1, LeastOf
  <2>3. PICK m \in S : \A d \in fromEnd : Len(t) - m <= d
    BY <2>2
  <2>4. \A n \in S : Len(t) - m <= Len(t) - n
    BY <2>3
  <2>5. \A n \in S : m >= n
    BY <1>1, <2>4
  <2> QED
    BY <2>5
<1>4. Min(S) \in S /\ \A n \in S : Min(S) <= n
  BY <1>2 DEF Min
<1>5. Max(S) \in S /\ \A n \in S : Max(S) >= n
  BY <1>3 DEF Max
<1> QED
  BY <1>1, <1>4, <1>5

\* A text whose edges are not blank is not trimmed.
LEMMA Tidy ==
    ASSUME NEW C, NEW t \in Seq(C), t # <<>>, t[1] \notin Blanks, t[Len(t)] \notin Blanks
    PROVE  Trim(t) = t
<1> DEFINE solid == {n \in DOMAIN t : t[n] \notin Blanks}
<1>1. Len(t) \in Nat \ {0} /\ DOMAIN t = 1..Len(t)
  OBVIOUS
<1>2. 1 \in solid /\ Len(t) \in solid
  BY <1>1
<1>3. Min(solid) = 1 /\ Max(solid) = Len(t)
  <2>1. /\ Min(solid) \in solid /\ \A n \in solid : Min(solid) <= n
        /\ Max(solid) \in solid /\ \A n \in solid : n <= Max(solid)
    <3>1. solid \subseteq DOMAIN t /\ solid # {}
      BY <1>2
    <3> HIDE DEF solid
    <3> QED
      BY <3>1, EdgesOf
  <2>2. solid \subseteq 1..Len(t)
    BY <1>1
  <2>3. PICK first, last : first = Min(solid) /\ last = Max(solid)
    OBVIOUS
  <2>4. first \in 1..Len(t) /\ last \in 1..Len(t) /\ first <= 1 /\ Len(t) <= last
    <3> HIDE DEF solid
    <3> QED
      BY <1>2, <2>1, <2>2, <2>3
  <2>5. Len(t) \in Nat
    OBVIOUS
  <2>6. first = 1 /\ last = Len(t)
    BY <2>4, <2>5
  <2> QED
    BY <2>3, <2>6
<1>4. SubSeq(t, 1, Len(t)) = t
  BY <1>1
<1> QED
  BY <1>2, <1>3, <1>4 DEF Trim

\* What is left of a text has no blank edges.
LEMMA Trimmed ==
    ASSUME NEW C, NEW t \in Seq(C)
    PROVE  /\ Trim(t) \in Seq(C) /\ Trim(Trim(t)) = Trim(t)
           /\ Trim(t) # <<>> => Trim(t)[Len(Trim(t))] \notin Blanks
<1> DEFINE solid == {n \in DOMAIN t : t[n] \notin Blanks}
<1>1. CASE solid = {}
  <2>1. Trim(t) = <<>>
    BY <1>1 DEF Trim
  <2>2. Trim(<<>>) = <<>>
    BY DEF Trim
  <2>3. <<>> \in Seq(C)
    OBVIOUS
  <2> QED
    BY <2>1, <2>2, <2>3
<1>2. CASE solid # {}
  <2>1. Min(solid) \in solid /\ Max(solid) \in solid /\ Min(solid) <= Max(solid)
    BY <1>2, EdgesOf
  <2>2. PICK i, j : i = Min(solid) /\ j = Max(solid)
    OBVIOUS
  <2>3. /\ i \in 1..Len(t) /\ j \in i..Len(t) /\ Len(t) \in Nat
        /\ t[i] \notin Blanks /\ t[j] \notin Blanks
    BY <2>1, <2>2
  <2>4. PICK u : u = SubSeq(t, i, j)
    OBVIOUS
  <2>5. u \in Seq(C) /\ Len(u) = j - i + 1 /\ \A n \in 1..Len(u) : u[n] = t[i + n - 1]
    BY <2>3, <2>4
  <2>6. u # <<>> /\ u[1] = t[i] /\ u[Len(u)] = t[j]
    BY <2>3, <2>5
  <2>7. Trim(t) = u
    BY <1>2, <2>2, <2>4 DEF Trim
  <2> QED
    BY <2>3, <2>5, <2>6, <2>7, Tidy
<1> QED
  BY <1>1, <1>2

\* What is in no place of a text is in no place of what is left of it.
LEMMA TrimFree ==
    ASSUME NEW t \in Text, NEW D, \A n \in DOMAIN t : t[n] \notin D
    PROVE  Trim(t) \in Text /\ \A n \in DOMAIN Trim(t) : Trim(t)[n] \notin D
<1>1. t \in Seq(Chars)
  BY DEF Text
<1> DEFINE solid == {n \in DOMAIN t : t[n] \notin Blanks}
<1>2. CASE solid = {}
  <2>1. Trim(t) = <<>>
    BY <1>2 DEF Trim
  <2> QED
    BY <2>1 DEF Text
<1>3. CASE solid # {}
  <2>1. Min(solid) \in solid /\ Max(solid) \in solid /\ Min(solid) <= Max(solid)
    BY <1>1, <1>3, EdgesOf
  <2>2. PICK i, j : i = Min(solid) /\ j = Max(solid)
    OBVIOUS
  <2>3. i \in 1..Len(t) /\ j \in i..Len(t) /\ Len(t) \in Nat
    BY <1>1, <2>1, <2>2
  <2>4. PICK u : u = SubSeq(t, i, j)
    OBVIOUS
  <2>5. u \in Seq(Chars) /\ Len(u) = j - i + 1 /\ \A n \in 1..Len(u) : u[n] = t[i + n - 1]
    BY <1>1, <2>3, <2>4
  <2>6. \A n \in 1..Len(u) : i + n - 1 \in 1..Len(t)
    BY <2>3, <2>5
  <2>7. \A n \in 1..Len(u) : u[n] \notin D
    BY <1>1, <2>5, <2>6
  <2>8. Trim(t) = u
    BY <1>3, <2>2, <2>4 DEF Trim
  <2> QED
    BY <2>5, <2>7, <2>8 DEF Text
<1> QED
  BY <1>2, <1>3

\* What becomes of a text with two characters before it.
LEMMA Joined ==
    ASSUME NEW C, NEW h \in Seq(C), NEW t \in Seq(C), Len(h) = 2, t # <<>>
    PROVE  /\ h \o t \in Seq(C) /\ Len(h \o t) = Len(t) + 2
           /\ (h \o t)[1] = h[1] /\ (h \o t)[2] = h[2]
           /\ (h \o t)[Len(t) + 2] = t[Len(t)]
<1>1. Len(t) \in Nat \ {0}
  OBVIOUS
<1>2. h \o t \in Seq(C) /\ Len(h \o t) = 2 + Len(t)
  <2>1. h \o t \in Seq(C)
    OBVIOUS
  <2>2. Len(h \o t) = Len(h) + Len(t)
    BY ConcatProperties
  <2> QED
    BY <2>1, <2>2
<1> QED
  BY <1>1, <1>2

\* The scheme that a url is completed with.
LEMMA Scheme ==
    /\ <<"https", "://">> \in Seq(Chars) /\ Len(<<"https", "://">>) = 2
    /\ <<"https", "://">>[1] = "https" /\ <<"https", "://">>[2] = "://"
<1>1. PICK k, c : k = "https" /\ c = "://"
  OBVIOUS
<1>2. k \in Chars /\ c \in Chars
  BY <1>1, CharsAssumption DEF Keywords
<1>3. <<k, c>> \in Seq(Chars) /\ Len(<<k, c>>) = 2 /\ <<k, c>>[1] = k /\ <<k, c>>[2] = c
  BY <1>2
<1> QED
  BY <1>1, <1>3

\* A url that was completed is complete.
LEMMA CompletedOnce ==
    ASSUME NEW t \in Text
    PROVE  /\ Trim(NormalizeUrl(t)) = NormalizeUrl(t)
           /\ NormalizeUrl(Trim(t)) = NormalizeUrl(t)
           /\ NormalizeUrl(NormalizeUrl(t)) = NormalizeUrl(t)
<1>1. PICK u : u = Trim(t)
  OBVIOUS
<1>2. u \in Seq(Chars) /\ Trim(u) = u /\ (u # <<>> => u[Len(u)] \notin Blanks)
  BY <1>1, Trimmed DEF Text
<1>3. CASE u = <<>> \/ HasScheme(u)
  <2>1. NormalizeUrl(t) = u /\ NormalizeUrl(u) = u
    BY <1>1, <1>2, <1>3 DEF NormalizeUrl
  <2> QED
    BY <1>1, <1>2, <2>1
<1>4. CASE ~(u = <<>> \/ HasScheme(u))
  <2>1. PICK n : n = <<"https", "://">> \o u
    OBVIOUS
  <2>2. NormalizeUrl(t) = n /\ NormalizeUrl(u) = n
    BY <1>1, <1>2, <1>4, <2>1 DEF NormalizeUrl
  <2>3. Len(u) \in Nat \ {0}
    BY <1>2, <1>4 DEF Text
  <2>4. /\ n \in Seq(Chars)
        /\ Len(n) = Len(u) + 2 /\ n[1] = "https" /\ n[2] = "://" /\ n[Len(n)] = u[Len(u)]
    <3>1. PICK head : head = <<"https", "://">>
      OBVIOUS
    <3>2. /\ head \in Seq(Chars)
          /\ Len(head) = 2 /\ head[1] = "https" /\ head[2] = "://"
      BY <3>1, Scheme
    <3>3. n = head \o u
      BY <2>1, <3>1
    <3>4. u # <<>>
      BY <1>4
    <3> QED
      BY <1>2, <3>2, <3>3, <3>4, Joined
  <2>5. HasScheme(n)
    BY <2>3, <2>4 DEF HasScheme, Letters
  <2>6. Trim(n) = n
    <3>1. n # <<>>
      BY <2>3, <2>4
    <3>2. n[1] \notin Blanks
      BY <2>4 DEF Blanks
    <3>3. n[Len(n)] \notin Blanks
      BY <1>2, <1>4, <2>4
    <3> QED
      BY <2>4, <3>1, <3>2, <3>3, Tidy
  <2>7. NormalizeUrl(n) = n
    BY <2>5, <2>6 DEF NormalizeUrl
  <2> QED
    BY <1>1, <2>2, <2>6, <2>7
<1> QED
  BY <1>3, <1>4

-----------------------------------------------------------------------------
(* An email *)

\* The names of an email's parts are texts.
LEMMA EmailKeys ==
    /\ <<"mailto", ":">> \in Text /\ <<"?">> \in Text /\ <<"&">> \in Text
    /\ <<"subject", "=">> \in Text /\ <<"body", "=">> \in Text
<1>1. PICK kM, kS, kB, c, q, a, e :
         /\ kM = "mailto" /\ kS = "subject" /\ kB = "body" /\ c = ":" /\ q = "?" /\ a = "&" /\ e = "="
  OBVIOUS
<1>2. /\ kM \in Chars /\ kS \in Chars /\ kB \in Chars /\ c \in Chars /\ q \in Chars
      /\ a \in Chars /\ e \in Chars
  BY <1>1, CharsAssumption DEF Keywords
<1>3. /\ <<kM, c>> \in Text /\ <<q>> \in Text /\ <<a>> \in Text
      /\ <<kS, e>> \in Text /\ <<kB, e>> \in Text
  BY <1>2 DEF Text
<1> QED
  BY <1>1, <1>3

\* The recipient, and what is read of it.
LEMMA EmailBegins ==
    ASSUME NEW to \in Text, \A n \in DOMAIN to : to[n] \notin {"?", "%"}
    PROVE  Parsed(<<"mailto", ":">> \o to, Email, <<"mailto", ":">> \o to, {})
<1>1. PICK kM, c, m, f : kM = "mailto" /\ c = ":" /\ m = "?" /\ f = Email
  OBVIOUS
<1>2. kM \in Chars /\ c \in Chars /\ f.mark = "%" /\ f.first = m
  BY <1>1, CharsAssumption DEF Keywords, Email
<1>3. kM # f.mark /\ c # f.mark /\ kM # m /\ c # m
  BY <1>1, <1>2
<1>4. \A n \in DOMAIN to : to[n] # f.mark /\ to[n] # m
  BY <1>1, <1>2
<1>5. Says(to, to, f, m)
  BY <1>4, SaysItself
<1>6. Says(<<kM, c>> \o to, <<kM, c>> \o to, f, f.first)
  BY <1>2, <1>3, <1>5, WordStart
<1>7. Parsed(<<kM, c>> \o to, f, <<kM, c>> \o to, {})
  BY <1>6, FirstParsed
<1> QED
  BY <1>1, <1>7

\* A header, and what it says.
LEMMA EmailHeader ==
    ASSUME NEW key \in {"subject", "body"}, NEW u \in Text
    PROVE  Says(<<key, "=">> \o EncodeComponent(u), <<key, "=">> \o u, Email, "&")
<1>1. PICK c, m, f, w : c = "=" /\ m = "&" /\ f = Email /\ w = EncodeComponent(u)
  OBVIOUS
<1>2. key \in Chars /\ c \in Chars /\ f.mark = "%"
  BY <1>1, CharsAssumption DEF Keywords, Email
<1>3. key # f.mark /\ c # f.mark /\ key # m /\ c # m
  BY <1>1, <1>2
<1>4. Says(w, u, f, m)
  BY <1>1, SaysEmail
<1>5. Says(<<key, c>> \o w, <<key, c>> \o u, f, m)
  BY <1>2, <1>3, <1>4, WordStart
<1> QED
  BY <1>1, <1>5

\* One header more.
LEMMA EmailMore ==
    ASSUME NEW t, NEW word, NEW words, Parsed(t, Email, word, words),
           NEW w, NEW u, Says(w, u, Email, "&"), NEW m, m = IF words = {} THEN "?" ELSE "&"
    PROVE  Parsed(t \o (<<m>> \o w), Email, u, words \cup {word})
<1>1. PICK f : f = Email
  OBVIOUS
<1>2. m \in Chars /\ f.mark = "%" /\ f.first = "?" /\ f.next = "&"
  BY <1>1, CharsAssumption DEF Keywords, Email
<1>3. m # f.mark /\ m = IF words = {} THEN f.first ELSE f.next
  BY <1>2
<1>4. Parsed(t, f, word, words) /\ Says(w, u, f, f.next)
  BY <1>1, <1>2
<1>5. Parsed(t \o (<<m>> \o w), f, u, words \cup {word})
  BY <1>2, <1>3, <1>4, NextParsed
<1> QED
  BY <1>1, <1>5

\* The words there are.
LEMMA EmailEnds ==
    ASSUME NEW t, NEW word, NEW words, Parsed(t, Email, word, words)
    PROVE  Words(t, Email) = words \cup {word}
<1>1. PICK s : s = Scan(t, Email)
  OBVIOUS
<1>2. s = [open |-> FALSE, word |-> word, words |-> words]
  BY <1>1 DEF Parsed
<1>3. s.word = word
  BY <1>2
<1>4. s.words = words
  BY <1>2
<1> QED
  BY <1>1, <1>3, <1>4 DEF Words

\* What there is of an email's parts.
EmailParts(words, to, subject, body, hasSubject, hasBody) ==
    /\ to \in Text /\ subject \in Text /\ body \in Text
    /\ words = {<<"mailto", ":">> \o to}
               \cup (IF hasSubject THEN {<<"subject", "=">> \o subject} ELSE {})
               \cup (IF hasBody THEN {<<"body", "=">> \o body} ELSE {})

\* What its keys stand for.
LEMMA EmailValues ==
    ASSUME NEW words, NEW to, NEW subject, NEW body, NEW hasSubject \in BOOLEAN, NEW hasBody \in BOOLEAN,
           EmailParts(words, to, subject, body, hasSubject, hasBody)
    PROVE  /\ Value(words, "mailto", ":") = to
           /\ Value(words, "subject", "=") = IF hasSubject THEN subject ELSE <<>>
           /\ Value(words, "body", "=") = IF hasBody THEN body ELSE <<>>
<1>1. PICK kM, kS, kB, c, e : kM = "mailto" /\ kS = "subject" /\ kB = "body" /\ c = ":" /\ e = "="
  OBVIOUS
<1>2. /\ kM \in Chars /\ kS \in Chars /\ kB \in Chars /\ c \in Chars /\ e \in Chars
      /\ kM # kS /\ kM # kB /\ kS # kB
  BY <1>1, CharsAssumption DEF Keywords
<1>3. PICK wM, wS, wB : wM = <<kM, c>> \o to /\ wS = <<kS, e>> \o subject /\ wB = <<kB, e>> \o body
  OBVIOUS
<1>4. to \in Text /\ subject \in Text /\ body \in Text
  BY DEF EmailParts
<1>5. words = {wM} \cup (IF hasSubject THEN {wS} ELSE {}) \cup (IF hasBody THEN {wB} ELSE {})
  BY <1>1, <1>3 DEF EmailParts
<1>6. \A k, sign : k # kM => ~Keyed(wM, k, sign)
  BY <1>2, <1>3, <1>4, OtherKey
<1>7. \A k, sign : k # kS => ~Keyed(wS, k, sign)
  BY <1>2, <1>3, <1>4, OtherKey
<1>8. \A k, sign : k # kB => ~Keyed(wB, k, sign)
  BY <1>2, <1>3, <1>4, OtherKey
<1>9. Value(words, kM, c) = to
  <2>1. \A w \in words : w = wM \/ ~Keyed(w, kM, c)
    BY <1>2, <1>5, <1>7, <1>8
  <2>2. wM \in words
    BY <1>5
  <2> QED
    BY <1>2, <1>3, <1>4, <2>1, <2>2, ValueAmong
<1>10. ASSUME hasSubject
       PROVE  Value(words, kS, e) = subject
  <2>1. \A w \in words : w = wS \/ ~Keyed(w, kS, e)
    BY <1>2, <1>5, <1>6, <1>8
  <2>2. wS \in words
    BY <1>5, <1>10
  <2> QED
    BY <1>2, <1>3, <1>4, <2>1, <2>2, ValueAmong
<1>11. ASSUME ~hasSubject
       PROVE  Value(words, kS, e) = <<>>
  <2>1. \A w \in words : ~Keyed(w, kS, e)
    BY <1>2, <1>5, <1>6, <1>8, <1>11
  <2> QED
    BY <2>1, ValueNone
<1>12. ASSUME hasBody
       PROVE  Value(words, kB, e) = body
  <2>1. \A w \in words : w = wB \/ ~Keyed(w, kB, e)
    BY <1>2, <1>5, <1>6, <1>7
  <2>2. wB \in words
    BY <1>5, <1>12
  <2> QED
    BY <1>2, <1>3, <1>4, <2>1, <2>2, ValueAmong
<1>13. ASSUME ~hasBody
       PROVE  Value(words, kB, e) = <<>>
  <2>1. \A w \in words : ~Keyed(w, kB, e)
    BY <1>2, <1>5, <1>6, <1>7, <1>13
  <2> QED
    BY <2>1, ValueNone
<1> QED
  BY <1>1, <1>9, <1>10, <1>11, <1>12, <1>13

\* A word with a key is not empty, whatever is put before or after it.
LEMMA NotEmpty ==
    ASSUME NEW k \in Chars, NEW sign \in Chars, NEW v \in Text, NEW u \in Text
    PROVE  /\ <<k, sign>> \o v # <<>>
           /\ (<<k, sign>> \o v) \o u # <<>>
           /\ u \o (<<k, sign>> \o v) # <<>>
<1>1. PICK w : w = <<k, sign>> \o v
  OBVIOUS
<1>2. w \in Text /\ Len(w) > 1
  BY <1>1, Headed
<1>3. w \in Seq(Chars) /\ u \in Seq(Chars)
  BY <1>2 DEF Text
<1>4. Len(w \o u) = Len(w) + Len(u) /\ Len(u \o w) = Len(u) + Len(w)
  BY <1>3, ConcatProperties
<1>5. Len(w) \in Nat /\ Len(u) \in Nat
  BY <1>3
<1>6. Len(w \o u) > 1 /\ Len(u \o w) > 1
  BY <1>2, <1>4, <1>5
<1> QED
  BY <1>1, <1>2, <1>6

\* A phone reads every email back, whatever separators and escapes its subject and body
\* hold, but for a "?", a "%" or a "#" in the recipient.
THEOREM EmailReads ==
    ASSUME NEW p \in PayloadOf("email"), ~Misread(p)
    PROVE  Read("email", Encode(p)) = Meaning(p)
<1>1. /\ p \in [type : {"email"}, to : Text, subject : Text, body : Text]
      /\ p.type = "email" /\ p.to \in Text /\ p.subject \in Text /\ p.body \in Text
  BY DEF PayloadOf
<1>2. PICK to : to = Trim(p.to)
  OBVIOUS
<1>3. to \in Text /\ \A n \in DOMAIN to : to[n] \notin {"?", "%"}
  <2>1. \A n \in DOMAIN p.to : p.to[n] \notin {"?", "%"}
    BY <1>1 DEF Misread
  <2> QED
    BY <1>1, <1>2, <2>1, TrimFree
<1>4. PICK hS \in BOOLEAN, hB \in BOOLEAN : hS = ~IsBlank(p.subject) /\ hB = ~IsBlank(p.body)
  OBVIOUS
<1>5. PICK eS, eB : eS = EncodeComponent(p.subject) /\ eB = EncodeComponent(p.body)
  OBVIOUS
<1>6. PICK s, b, uS, uB : /\ s = <<"subject", "=">> \o eS /\ b = <<"body", "=">> \o eB
                          /\ uS = <<"subject", "=">> \o p.subject /\ uB = <<"body", "=">> \o p.body
  OBVIOUS
<1>7. Says(s, uS, Email, "&")
  BY <1>1, <1>5, <1>6, EmailHeader
<1>8. Says(b, uB, Email, "&")
  BY <1>1, <1>5, <1>6, EmailHeader
<1>9. s \in Text /\ b \in Text /\ eS \in Text /\ eB \in Text
  <2>1. eS \in Text
    BY <1>1, <1>5, SaysEmail DEF Says
  <2>2. eB \in Text
    BY <1>1, <1>5, SaysEmail DEF Says
  <2> QED
    BY <1>7, <1>8, <2>1, <2>2 DEF Says
<1>10. s # <<>> /\ b # <<>> /\ s \o b # <<>> /\ s \o <<>> # <<>> /\ <<>> \o b # <<>>
  <2>1. PICK kS, kB, e, none : kS = "subject" /\ kB = "body" /\ e = "=" /\ none = <<>>
    OBVIOUS
  <2>2. kS \in Chars /\ kB \in Chars /\ e \in Chars /\ none \in Text
    <3>1. kS \in Chars /\ kB \in Chars /\ e \in Chars
      BY <2>1, CharsAssumption DEF Keywords
    <3>2. none \in Text
      BY <2>1 DEF Text
    <3> QED
      BY <3>1, <3>2
  <2>3. s = <<kS, e>> \o eS /\ b = <<kB, e>> \o eB
    BY <1>6, <2>1
  <2>4. s # <<>> /\ s \o b # <<>> /\ s \o none # <<>>
    BY <1>9, <2>2, <2>3, NotEmpty
  <2>5. b # <<>> /\ none \o b # <<>>
    BY <1>9, <2>2, <2>3, NotEmpty
  <2> QED
    BY <2>1, <2>4, <2>5
<1>11. PICK w, q, ask, amp : /\ w = <<"mailto", ":">> \o to /\ q = EmailText(p)
                             /\ ask = <<"?">> /\ amp = <<"&">>
  OBVIOUS
<1>12. Parsed(w, Email, w, {}) /\ w \in Text
  <2>1. Parsed(w, Email, w, {})
    BY <1>3, <1>11, EmailBegins
  <2> QED
    BY <2>1 DEF Parsed
<1>13. ask \in Text /\ amp \in Text
  BY <1>11, EmailKeys
<1>14. PICK e : e = <<>>
  OBVIOUS
<1>15. e \in Text
  BY <1>14 DEF Text
<1>16. /\ w \o e = w /\ (ask \o s) \o e = ask \o s /\ ask \o e = ask /\ e \o e = e
  <2>1. PICK x : x = ask \o s
    OBVIOUS
  <2>2. x \in Text
    BY <1>9, <1>13, <2>1, Sticks
  <2>3. x \o e = x
    BY <1>14, <2>2, Sticks
  <2>4. ask \o e = ask
    BY <1>13, <1>14, Sticks
  <2>5. w \o e = w
    BY <1>12, <1>14, Sticks
  <2>6. e \o e = e
    BY <1>14, <1>15, Sticks
  <2> QED
    BY <2>1, <2>3, <2>4, <2>5, <2>6
<1>17. PICK parts : parts = Words(q, Email)
  OBVIOUS
<1>18. parts = {w} \cup (IF hS THEN {uS} ELSE {}) \cup (IF hB THEN {uB} ELSE {})
  <2>1. CASE ~hS /\ ~hB
    <3>1. q = w \o e
      BY <1>1, <1>2, <1>4, <1>11, <1>14, <1>16, <2>1 DEF EmailText
    <3>2. Words(w, Email) = {} \cup {w}
      BY <1>12, EmailEnds
    <3> QED
      BY <1>16, <1>17, <2>1, <3>1, <3>2
  <2>2. CASE hS /\ ~hB
    <3>1. q = w \o (((ask \o s) \o e) \o e)
      BY <1>1, <1>2, <1>4, <1>5, <1>6, <1>10, <1>11, <1>14, <2>2 DEF EmailText
    <3>2. q = w \o (ask \o s)
      BY <1>16, <3>1
    <3>3. PICK m : m = "?"
      OBVIOUS
    <3>4. Parsed(w \o (<<m>> \o s), Email, uS, {} \cup {w})
      BY <1>7, <1>12, <3>3, EmailMore
    <3>5. Parsed(q, Email, uS, {w})
      BY <1>11, <3>2, <3>3, <3>4
    <3>6. Words(q, Email) = {w} \cup {uS}
      BY <3>5, EmailEnds
    <3> QED
      BY <1>17, <2>2, <3>6
  <2>3. CASE ~hS /\ hB
    <3>1. q = w \o (((ask \o e) \o e) \o b)
      BY <1>1, <1>2, <1>4, <1>5, <1>6, <1>10, <1>11, <1>14, <2>3 DEF EmailText
    <3>2. q = w \o (ask \o b)
      BY <1>16, <3>1
    <3>3. PICK m : m = "?"
      OBVIOUS
    <3>4. Parsed(w \o (<<m>> \o b), Email, uB, {} \cup {w})
      BY <1>8, <1>12, <3>3, EmailMore
    <3>5. Parsed(q, Email, uB, {w})
      BY <1>11, <3>2, <3>3, <3>4
    <3>6. Words(q, Email) = {w} \cup {uB}
      BY <3>5, EmailEnds
    <3> QED
      BY <1>17, <2>3, <3>6
  <2>4. CASE hS /\ hB
    <3>1. q = w \o (((ask \o s) \o amp) \o b)
      BY <1>1, <1>2, <1>4, <1>5, <1>6, <1>10, <1>11, <1>14, <2>4 DEF EmailText
    <3>2. PICK x, y, r : x = ask \o s /\ y = amp \o b /\ r = w \o x
      OBVIOUS
    <3>3. x \in Text
      BY <1>9, <1>13, <3>2, Sticks
    <3>4. y \in Text
      BY <1>9, <1>13, <3>2, Sticks
    <3>5. (x \o amp) \o b = x \o (amp \o b)
      <4>1. amp \in Text
        BY <1>13
      <4>2. b \in Text
        BY <1>9
      <4> QED
        BY <3>3, <4>1, <4>2, Regroup, Zenon
    <3>6. (w \o x) \o y = w \o (x \o y)
      <4>1. w \in Text
        BY <1>12
      <4> QED
        BY <3>3, <3>4, <4>1, Regroup, Zenon
    <3>7. q = r \o y
      BY <3>1, <3>2, <3>5, <3>6
    <3>8. PICK m, n : m = "?" /\ n = "&"
      OBVIOUS
    <3>9. Parsed(w \o (<<m>> \o s), Email, uS, {} \cup {w})
      BY <1>7, <1>12, <3>8, EmailMore
    <3>10. Parsed(r, Email, uS, {w})
      BY <1>11, <3>2, <3>8, <3>9
    <3>11. n = IF {w} = {} THEN "?" ELSE "&"
      BY <3>8
    <3>12. Parsed(r \o (<<n>> \o b), Email, uB, {w} \cup {uS})
      BY <1>8, <3>10, <3>11, EmailMore
    <3>13. Parsed(q, Email, uB, {w, uS})
      <4>1. {w} \cup {uS} = {w, uS}
        OBVIOUS
      <4> QED
        BY <1>11, <3>2, <3>7, <3>8, <3>12, <4>1
    <3>14. Words(q, Email) = {w, uS} \cup {uB}
      BY <3>13, EmailEnds
    <3> QED
      BY <1>17, <2>4, <3>14
  <2> QED
    BY <2>1, <2>2, <2>3, <2>4
<1>19. EmailParts(parts, to, p.subject, p.body, hS, hB)
  BY <1>1, <1>3, <1>6, <1>11, <1>18 DEF EmailParts
<1>20. /\ Value(parts, "mailto", ":") = to
       /\ Value(parts, "subject", "=") = IF hS THEN p.subject ELSE <<>>
       /\ Value(parts, "body", "=") = IF hB THEN p.body ELSE <<>>
  BY <1>19, EmailValues
<1>21. ReadEmail(q) = [to |-> to, subject |-> IF hS THEN p.subject ELSE <<>>,
                       body |-> IF hB THEN p.body ELSE <<>>]
  BY <1>17, <1>20 DEF ReadEmail
<1>22. Read("email", Encode(p)) = ReadEmail(q)
  BY <1>1, <1>11 DEF Read, Encode
<1>23. Meaning(p) = [to |-> to, subject |-> IF hS THEN p.subject ELSE <<>>,
                     body |-> IF hB THEN p.body ELSE <<>>]
  BY <1>1, <1>2, <1>4 DEF Meaning, NonBlank
<1> QED
  BY <1>21, <1>22, <1>23

-----------------------------------------------------------------------------
(* What a code reads as *)

\* A url's code reads as it was typed, completed, and a text's as it was typed.
THEOREM PlainReads ==
    ASSUME NEW p \in PayloadOf("url") \cup PayloadOf("text")
    PROVE  ReadsBack(p)
<1>1. CASE p \in PayloadOf("url")
  <2>1. p \in [type : {"url"}, url : Text]
    BY <1>1 DEF PayloadOf
  <2>2. PICK t \in Text : p = [type |-> "url", url |-> t]
    BY <2>1
  <2>3. PICK n : n = NormalizeUrl(t)
    OBVIOUS
  <2>4. Trim(n) = n /\ NormalizeUrl(Trim(t)) = n /\ NormalizeUrl(n) = n
    BY <2>3, CompletedOnce
  <2>5. ToJson(p) = [type |-> "url", url |-> n]
    BY <2>2, <2>3 DEF ToJson
  <2>6. FromJson([type |-> "url", url |-> n]) = [type |-> "url", url |-> n]
    BY <2>4 DEF FromJson
  <2>7. FromJson(p) = [type |-> "url", url |-> Trim(t)]
    BY <2>2 DEF FromJson
  <2>8. Encode([type |-> "url", url |-> n]) = n
    BY <2>4 DEF Encode
  <2>9. Meaning([type |-> "url", url |-> Trim(t)]) = n
    BY <2>4 DEF Meaning
  <2>10. Read(p.type, n) = n
    BY <2>2 DEF Read
  <2> QED
    BY <2>5, <2>6, <2>7, <2>8, <2>9, <2>10 DEF ReadsBack
<1>2. CASE p \in PayloadOf("text")
  <2>1. p \in [type : {"text"}, text : Text]
    BY <1>2 DEF PayloadOf
  <2>2. p.type = "text"
    BY <2>1
  <2>3. ToJson(p) = p /\ FromJson(p) = p /\ Encode(p) = p.text /\ Meaning(p) = p.text
        /\ Read(p.type, p.text) = p.text
    BY <2>2 DEF ToJson, FromJson, Encode, Meaning, Read
  <2> QED
    BY <2>3 DEF ReadsBack
<1> QED
  BY <1>1, <1>2

\* What is stored of a payload reads as it was typed, if what is typed reads as it is.
LEMMA StoredReads ==
    ASSUME NEW type \in {"wifi", "vcard", "email"}, NEW p \in PayloadOf(type), ~Misread(p)
    PROVE  ReadsBack(p)
<1>1. CASE type = "wifi"
  <2>1. /\ p \in [type : {"wifi"}, ssid : Text, password : Text,
                  auth : {"WPA", "WEP", "nopass"}, hidden : BOOLEAN]
        /\ p.type = "wifi"
    BY <1>1 DEF PayloadOf
  <2>2. PICK s \in Text, w \in Text, a \in {"WPA", "WEP", "nopass"}, h \in BOOLEAN :
           p = [type |-> "wifi", ssid |-> s, password |-> w, auth |-> a, hidden |-> h]
    BY <2>1
  <2>3. PICK v : v = IF a = "nopass" THEN <<>> ELSE w
    OBVIOUS
  <2>4. ToJson(p) = [type |-> "wifi", ssid |-> s, password |-> v, auth |-> a, hidden |-> h]
    BY <2>2, <2>3 DEF ToJson
  <2>5. PICK q : q = FromJson(ToJson(p))
    OBVIOUS
  <2>6. q = [type |-> "wifi", ssid |-> Trim(s), password |-> Trim(v), auth |-> a, hidden |-> h]
    BY <2>4, <2>5 DEF FromJson
  <2>7. FromJson(p) = [type |-> "wifi", ssid |-> Trim(s), password |-> Trim(w), auth |-> a, hidden |-> h]
    BY <2>2 DEF FromJson
  <2>8. Trim(s) \in Text /\ Trim(v) \in Text
    <3>1. v \in Text
      BY <2>3 DEF Text
    <3> QED
      BY <3>1, Trimmed DEF Text
  <2>9. q \in PayloadOf("wifi")
    BY <2>6, <2>8 DEF PayloadOf
  <2>10. Read("wifi", Encode(q)) = Meaning(q)
    BY <2>9, WifiReads
  <2>11. Meaning(q) = [ssid |-> Trim(s), auth |-> <<a>>,
                       password |-> IF a = "nopass" THEN <<>> ELSE Trim(v),
                       hidden |-> <<IF h THEN "true" ELSE "false">>]
    BY <2>6 DEF Meaning
  <2>12. Meaning(FromJson(p)) = [ssid |-> Trim(s), auth |-> <<a>>,
                                 password |-> IF a = "nopass" THEN <<>> ELSE Trim(w),
                                 hidden |-> <<IF h THEN "true" ELSE "false">>]
    BY <2>7 DEF Meaning
  <2>13. Meaning(q) = Meaning(FromJson(p))
    BY <2>3, <2>11, <2>12
  <2> QED
    BY <2>1, <2>5, <2>10, <2>13 DEF ReadsBack
<1>2. CASE type = "vcard"
  <2>1. p \in [type : {"vcard"}, name : Text, org : Text] /\ p.type = "vcard"
    BY <1>2 DEF PayloadOf
  <2>2. PICK n \in Text, o \in Text : p = [type |-> "vcard", name |-> n, org |-> o]
    BY <2>1
  <2>3. ToJson(p) = p
    BY <2>1 DEF ToJson
  <2>4. PICK q : q = FromJson(p)
    OBVIOUS
  <2>5. q = [type |-> "vcard", name |-> Trim(n), org |-> Trim(o)]
    BY <2>2, <2>4 DEF FromJson
  <2>6. Trim(n) \in Text /\ Trim(o) \in Text
    BY Trimmed DEF Text
  <2>7. q \in PayloadOf("vcard")
    BY <2>5, <2>6 DEF PayloadOf
  <2>8. Read("vcard", Encode(q)) = Meaning(q)
    BY <2>7, VcardReads
  <2> QED
    BY <2>1, <2>3, <2>4, <2>8 DEF ReadsBack
<1>3. CASE type = "email"
  <2>1. p \in [type : {"email"}, to : Text, subject : Text, body : Text] /\ p.type = "email"
    BY <1>3 DEF PayloadOf
  <2>2. PICK t \in Text, s \in Text, b \in Text :
           p = [type |-> "email", to |-> t, subject |-> s, body |-> b]
    BY <2>1
  <2>3. ToJson(p) = p
    BY <2>1 DEF ToJson
  <2>4. PICK q : q = FromJson(p)
    OBVIOUS
  <2>5. q = [type |-> "email", to |-> Trim(t), subject |-> Trim(s), body |-> Trim(b)]
    BY <2>2, <2>4 DEF FromJson
  <2>6. Trim(s) \in Text /\ Trim(b) \in Text
    BY Trimmed DEF Text
  <2>7. Trim(t) \in Text /\ \A n \in DOMAIN Trim(t) : Trim(t)[n] \notin {"?", "%", "#"}
    <3>1. \A n \in DOMAIN t : t[n] \notin {"?", "%", "#"}
      BY <2>1, <2>2 DEF Misread
    <3> QED
      BY <3>1, TrimFree
  <2>8. q \in PayloadOf("email") /\ ~Misread(q)
    BY <2>5, <2>6, <2>7 DEF PayloadOf, Misread
  <2>9. Read("email", Encode(q)) = Meaning(q)
    BY <2>8, EmailReads
  <2> QED
    BY <2>1, <2>3, <2>4, <2>9 DEF ReadsBack
<1> QED
  BY <1>1, <1>2, <1>3

\* Whatever its type, a payload reads as it was typed, and what is stored of it as it was
\* typed but for the edges' blanks.
LEMMA EveryTypeReads ==
    ASSUME NEW type \in CodeType, NEW p \in PayloadOf(type), ~Misread(p)
    PROVE  p.type = type /\ Read(p.type, Encode(p)) = Meaning(p) /\ ReadsBack(p)
<1>1. p.type = type
  BY DEF CodeType, PayloadOf
<1>2. CASE type = "url" \/ type = "text"
  <2>1. ReadsBack(p)
    BY <1>2, PlainReads
  <2>2. Read(p.type, Encode(p)) = Meaning(p)
    BY <1>1, <1>2 DEF Read, Encode, Meaning
  <2> QED
    BY <1>1, <2>1, <2>2
<1>3. CASE type \in {"wifi", "vcard", "email"}
  <2>1. ReadsBack(p)
    BY <1>3, StoredReads
  <2>2. Read(type, Encode(p)) = Meaning(p)
    BY <1>3, WifiReads, VcardReads, EmailReads
  <2> QED
    BY <1>1, <2>1, <2>2
<1> QED
  BY <1>2, <1>3 DEF CodeType

\* The server draws the urls that the app can save, and what it draws is what the app
\* would.
LEMMA NoneDiverges == Diverging = {}
<1> SUFFICES ASSUME NEW p \in Specimens
             PROVE  /\ p.type = "url" /\ IsValid(p) => ServerDraws(ToJson(p))
                    /\ ServerDraws(ToJson(p)) =>
                          ServerContent(ToJson(p)) = Encode(FromJson(ToJson(p)))
  BY DEF Diverging
<1>1. PICK t \in CodeType : p \in PayloadOf(t)
  BY GeneratorAssumption
<1>2. p.type = t /\ ToJson(p).type = t
  BY <1>1 DEF PayloadOf, ToJson, CodeType
<1>3. CASE t # "url"
  BY <1>2, <1>3 DEF ServerDraws
<1>4. CASE t = "url"
  <2>1. p \in [type : {"url"}, url : Text]
    BY <1>1, <1>4 DEF PayloadOf
  <2>2. PICK raw \in Text : p = [type |-> "url", url |-> raw]
    BY <2>1
  <2>3. PICK n : n = NormalizeUrl(raw)
    OBVIOUS
  <2>4. ToJson(p) = [type |-> "url", url |-> n]
    BY <2>2, <2>3 DEF ToJson
  <2>5. FromJson([type |-> "url", url |-> n]) = [type |-> "url", url |-> n]
        /\ Encode([type |-> "url", url |-> n]) = n
    BY <2>3, CompletedOnce DEF FromJson, Encode
  <2>6. IsValid(p) => n # <<>>
    <3> SUFFICES ASSUME IsValid(p)
                 PROVE  n # <<>>
      OBVIOUS
    <3>1. Trim(raw) # <<>>
      BY <2>2 DEF IsValid, IsBlank, Required
    <3>2. CASE HasScheme(Trim(raw))
      BY <2>3, <3>1, <3>2 DEF NormalizeUrl
    <3>3. CASE ~HasScheme(Trim(raw))
      <4>1. PICK head, u : head = <<"https", "://">> /\ u = Trim(raw)
        OBVIOUS
      <4>2. n = head \o u /\ u \in Seq(Chars) /\ u # <<>>
        BY <2>3, <3>1, <3>3, <4>1, Trimmed DEF NormalizeUrl, Text
      <4>3. head \in Seq(Chars) /\ Len(head) = 2
        BY <4>1, Scheme
      <4>4. Len(n) = Len(u) + 2 /\ Len(u) \in Nat
        BY <4>2, <4>3, Joined
      <4> QED
        BY <4>4
    <3> QED
      BY <3>2, <3>3
  <2> QED
    BY <2>4, <2>5, <2>6 DEF ServerDraws, ServerContent
<1> QED
  BY <1>3, <1>4

\* Every payload the encoder is tried on is read back, and the server draws what the app
\* would, whatever texts its fields hold, but for a recipient's "?", "%" and "#".
THEOREM CodecsTrue == Spec => []CodecsAgree
<1>1. Garbled = {}
  <2> SUFFICES ASSUME NEW p \in Specimens, ~Misread(p)
               PROVE  Read(p.type, Encode(p)) = Meaning(p) /\ ReadsBack(p)
    BY DEF Garbled
  <2>1. PICK type \in CodeType : p \in PayloadOf(type)
    BY GeneratorAssumption
  <2> QED
    BY <2>1, EveryTypeReads
<1>2. CodecsAgree
  BY <1>1, NoneDiverges DEF CodecsAgree
<1> QED
  BY <1>2, PTL

\* What is downloaded is what was on the form when Save was tapped, but for a recipient's
\* "?", "%" and "#".
THEOREM SheetsRead == Spec => []SheetReads
<1>1. Inv => SheetReads
  <2> SUFFICES ASSUME Inv, NEW k \in Saves, saves[k].pc = "sheet"
               PROVE  IF saves[k].dynamic THEN saves[k].sheet = Link
                      ELSE \/ Misread(saves[k].json)
                           \/ Read(saves[k].json.type, saves[k].sheet) = saves[k].meant
    BY DEF SheetReads
  <2>1. saves[k].sheet = QrContent(k)
    BY DEF Inv, SavesHold
  <2>2. PICK p \in Drafts : /\ saves[k].json = ToJson(p)
                            /\ saves[k].meant = Meaning(FromJson(p))
    BY DEF Inv, SavesHold
  <2>3. PICK t \in Types : p \in Forms[t]
    BY <2>2 DEF Drafts
  <2>4. t \in CodeType /\ p \in PayloadOf(t) /\ p.type = t /\ ToJson(p).type = t
    BY <2>3, FormsTyped, JsonTyped, GeneratorAssumption
  <2>5. Misread(p) => ToJson(p) = p
    BY DEF Misread, ToJson
  <2>6. ~Misread(p) => ReadsBack(p)
    BY <2>4, EveryTypeReads
  <2>7. saves[k].dynamic => saves[k].sheet = Link
    BY <2>1 DEF QrContent
  <2>8. ~saves[k].dynamic => saves[k].sheet = Encode(FromJson(ToJson(p)))
    BY <2>1, <2>2 DEF QrContent
  <2> QED
    BY <2>2, <2>4, <2>5, <2>6, <2>7, <2>8 DEF ReadsBack
<1> QED
  BY <1>1, GeneratorInvariance, PTL
=============================================================================
