---------------------------- MODULE ScanFlowProofs ----------------------------
(***************************************************************************)
(* Proofs about ScanFlow, for any URLs, blocklists, codes and checks, and  *)
(* any length of the list of recent scans.                                 *)
(***************************************************************************)
EXTENDS ScanFlow, TLAPS

-----------------------------------------------------------------------------
(* Why it holds: the inductive invariant *)

ScannerHolds ==
    /\ scanner.pc \in {"stopping", "sheet"} => scanner.raw \in Codes
    /\ scanner.pc = "sheet" => scanner.own \in Checks

\* An answer is about the URL that was asked.
ChecksHold ==
    \A k \in Checks : checks[k].pc \in {"set", "answered"}
        => checks[k].result # Absent /\ checks[k].result.url = checks[k].url

\* A sheet's check asks about the sheet's code; if no sheet was left early, no
\* other check is under way, and no value is left from one.
OwnHolds ==
    /\ scanner.pc = "sheet" /\ ~At(scanner.own, "idle")
           => checks[scanner.own].url = Trim[scanner.raw]
    /\ ~hasty => \A k \in Checks : At(k, "idle") \/ (scanner.pc = "sheet" /\ k = scanner.own)
    /\ ~hasty /\ scanner.pc # "sheet" => scan.value = Absent

Inv ==
    /\ TypeOK
    /\ ScannerHolds
    /\ ChecksHold
    /\ OwnHolds
    /\ PatientUserSeesOwnScan
    /\ VerdictsHold

-----------------------------------------------------------------------------

\* The checker always comes to one of the three verdicts.
LEMMA VerdictForType ==
    ASSUME NEW u, NEW b
    PROVE  VerdictFor(u, b) \in Verdicts
BY DEF VerdictFor, Verdicts

\* The list takes the newest scan and drops the oldest when it is full.
LEMMA RecordType ==
    ASSUME recents \in Seq(Result), Len(recents) <= MaxEntries, NEW r \in Result
    PROVE  /\ Record(r) \in Seq(Result)
           /\ Len(Record(r)) <= MaxEntries
           /\ \A i \in DOMAIN Record(r) :
                Record(r)[i] = r \/ \E j \in DOMAIN recents : Record(r)[i] = recents[j]
<1> DEFINE all == <<r>> \o recents
<1>1. /\ all \in Seq(Result) /\ Len(all) = Len(recents) + 1
      /\ \A i \in 1..Len(all) : all[i] = r \/ \E j \in DOMAIN recents : all[i] = recents[j]
  <2>1. all \in Seq(Result) /\ Len(all) = Len(recents) + 1
    OBVIOUS
  <2>2. ASSUME NEW i \in 1..Len(all)
        PROVE  all[i] = r \/ \E j \in DOMAIN recents : all[i] = recents[j]
    <3>1. CASE i = 1
      BY <3>1
    <3>2. CASE i # 1
      <4>1. i - 1 \in 1..Len(recents) /\ all[i] = recents[i - 1]
        BY <2>1, <3>2
      <4> QED
        BY <4>1
    <3> QED
      BY <3>1, <3>2
  <2> QED
    BY <2>1, <2>2
<1> HIDE DEF all
<1>2. CASE Len(all) > MaxEntries
  <2>1. Record(r) = SubSeq(all, 1, MaxEntries)
    BY <1>2 DEF Record, all
  <2>2. MaxEntries \in Nat /\ MaxEntries >= 1
    BY ScanAssumption
  <2>3. /\ Record(r) \in Seq(Result) /\ Len(Record(r)) = MaxEntries
        /\ \A i \in 1..MaxEntries : Record(r)[i] = all[i]
    BY <1>1, <1>2, <2>1, <2>2
  <2> QED
    BY <1>1, <1>2, <2>2, <2>3
<1>3. CASE ~(Len(all) > MaxEntries)
  <2>1. Record(r) = all
    BY <1>3 DEF Record, all
  <2>2. Len(all) <= MaxEntries /\ DOMAIN all = 1..Len(all)
    BY <1>1, <1>3, ScanAssumption
  <2> QED
    BY <1>1, <2>1, <2>2
<1> QED
  BY <1>2, <1>3

\* What the state of the scan and the list hold, in one formula.
LEMMA InvIs ==
    Inv <=> /\ SafetyTypeOK
            /\ scanner \in Scanner /\ scan \in Scan
            /\ recents \in Seq(Result) /\ Len(recents) <= MaxEntries
            /\ hasty \in BOOLEAN /\ first \in BOOLEAN
            /\ ScannerHolds /\ ChecksHold /\ OwnHolds /\ PatientUserSeesOwnScan /\ VerdictsHold
BY DEF Inv, TypeOK

\* A step of the screen that leaves the checks, the state and the list alone, and
\* neither opens nor closes a sheet.
LEMMA ScreenKeeps ==
    ASSUME Inv, scanner' \in Scanner,
           UNCHANGED <<blocklist, verdicts, checks, scan, recents, hasty, first>>,
           scanner.pc # "sheet", scanner'.pc # "sheet",
           scanner'.pc = "stopping" => scanner'.raw \in Codes
    PROVE  Inv'
<1> USE InvIs
<1>1. SafetyTypeOK' /\ ChecksHold' /\ VerdictsHold'
  BY DEF SafetyTypeOK, ChecksHold, VerdictsHold
<1>2. ScannerHolds' /\ OwnHolds'
  BY DEF ScannerHolds, OwnHolds, At
<1>3. PatientUserSeesOwnScan'
  BY DEF PatientUserSeesOwnScan, SheetIsOwn
<1> QED
  BY <1>1, <1>2, <1>3 DEF Inv, TypeOK

LEMMA ScreenStepInv ==
    ASSUME Inv, Enter \/ Leave \/ StopFails \/ Resume \/ \E c \in Codes : Detect(c)
    PROVE  Inv'
<1> DEFINE Shape ==
      /\ UNCHANGED <<blocklist, verdicts, checks, scan, recents, hasty, first>>
      /\ scanner.pc # "sheet" /\ scanner'.pc # "sheet"
      /\ scanner' \in Scanner
      /\ scanner'.pc = "stopping" => scanner'.raw \in Codes
<1>1. scanner \in Scanner
  BY DEF Inv, TypeOK
<1>2. ASSUME CameraStarts
      PROVE  /\ scanner' \in Scanner /\ scanner'.pc = "ready"
  <2>1. PICK b \in BOOLEAN : scanner' = Screen("ready", b)
    BY <1>2 DEF CameraStarts
  <2> QED
    BY <2>1 DEF Screen, Scanner
<1>3. ASSUME Enter
      PROVE  Shape
  BY <1>2, <1>3 DEF Enter
<1>4. ASSUME Leave
      PROVE  Shape
  <2>1. FALSE \in BOOLEAN
    OBVIOUS
  <2> QED
    BY <1>4, <2>1 DEF Leave, Screen, Scanner
<1>5. ASSUME StopFails
      PROVE  Shape
  BY <1>1, <1>5 DEF StopFails, Scanner
<1>6. ASSUME Resume
      PROVE  Shape
  BY <1>2, <1>6 DEF Resume
<1>7. ASSUME NEW c \in Codes, Detect(c)
      PROVE  Shape
  BY <1>1, <1>7 DEF Detect, Scanner
<1>8. Shape
  BY <1>3, <1>4, <1>5, <1>6, <1>7
<1> QED
  BY <1>8, ScreenKeeps

\* The sheet opens on a check of its own; a patient user finds no other under way.
LEMMA OpenSheetInv ==
    ASSUME Inv, NEW k \in Checks, OpenSheet(k)
    PROVE  Inv'
<1> USE InvIs
<1>1. /\ scanner.pc = "stopping" /\ scanner.raw \in Codes
      /\ scanner' = [scanner EXCEPT !.pc = "sheet", !.camera = FALSE, !.own = k]
      /\ At(k, "idle")
      /\ checks' = [checks EXCEPT ![k].pc = "sent", ![k].url = Trim[scanner.raw]]
      /\ scan' = Checking
      /\ UNCHANGED <<blocklist, verdicts, recents, hasty>> /\ first' = (scan.state = "unread")
  BY DEF OpenSheet, Send, ScannerHolds
<1>2. scanner' \in Scanner /\ scan' \in Scan /\ first' \in BOOLEAN
  BY <1>1 DEF Scanner, Scan, Checking
<1>3. scanner'.pc = "sheet" /\ scanner'.own = k /\ scanner'.raw = scanner.raw
  BY <1>1 DEF Scanner
<1>4. Trim[scanner.raw] \in Urls \cup {Absent}
  BY <1>1, ScanAssumption
<1>5. /\ checks' \in [Checks -> Check]
      /\ checks'[k].pc = "sent" /\ checks'[k].url = Trim[scanner.raw]
      /\ checks'[k].result = checks[k].result
      /\ \A j \in Checks : j # k => checks'[j] = checks[j]
  BY <1>1, <1>4 DEF SafetyTypeOK, Check
<1>6. SafetyTypeOK'
  BY <1>1, <1>5 DEF SafetyTypeOK
<1>7. ScannerHolds'
  BY <1>1, <1>3 DEF ScannerHolds
<1>8. ChecksHold'
  BY <1>5 DEF ChecksHold
<1>9. OwnHolds'
  <2>1. ~hasty => \A j \in Checks : checks'[j].pc = "idle" \/ j = k
    BY <1>1, <1>5 DEF OwnHolds, At
  <2>2. checks'[scanner'.own].url = Trim[scanner'.raw]
    BY <1>3, <1>5
  <2> QED
    BY <1>1, <1>3, <2>1, <2>2 DEF OwnHolds, At
<1>10. PatientUserSeesOwnScan'
  <2>1. ~hasty => scan' = [state |-> IF first' THEN "data" ELSE "loading", value |-> Absent]
    BY <1>1 DEF OwnHolds, Scan, Checking
  <2> QED
    BY <1>1, <1>3, <1>5, <2>1 DEF PatientUserSeesOwnScan, SheetIsOwn, At
<1>11. VerdictsHold'
  <2>1. scan'.value \in {scan.value, Absent}
    BY <1>1 DEF Scan, Checking
  <2>2. \A j \in Checks : checks'[j].result = checks[j].result
    BY <1>5
  <2> QED
    BY <1>1, <2>1, <2>2 DEF VerdictsHold
<1> QED
  BY <1>1, <1>2, <1>6, <1>7, <1>8, <1>9, <1>10, <1>11 DEF Inv, TypeOK

\* The sheet is dismissed: what it held is recorded, and nothing is left of it but
\* the checks under way.
LEMMA DismissInv ==
    ASSUME Inv, Dismiss
    PROVE  Inv'
<1> USE InvIs
<1>1. /\ UNCHANGED <<blocklist, verdicts, checks>>
      /\ scan' = [state |-> "data", value |-> Absent]
      /\ scanner' = [scanner EXCEPT !.pc = "starting", !.raw = Absent, !.own = Absent]
      /\ hasty' = (\E k \in Checks : ~At(k, "idle")) /\ first' = FALSE
      /\ recents' = IF scan.value = Absent THEN recents ELSE Record(scan.value)
  BY DEF Dismiss, safetyVars
<1>2. scanner' \in Scanner /\ scanner'.pc = "starting" /\ scan' \in Scan
      /\ hasty' \in BOOLEAN /\ first' \in BOOLEAN
  BY <1>1 DEF Scanner, Scan
<1>3. SafetyTypeOK' /\ ChecksHold'
  BY <1>1 DEF SafetyTypeOK, ChecksHold
<1>4. ScannerHolds' /\ OwnHolds' /\ PatientUserSeesOwnScan'
  BY <1>1, <1>2 DEF ScannerHolds, OwnHolds, At, PatientUserSeesOwnScan, SheetIsOwn
<1>5. recents' \in Seq(Result) /\ Len(recents') <= MaxEntries /\ VerdictsHold'
  <2>1. CASE scan.value = Absent
    BY <1>1, <2>1 DEF VerdictsHold
  <2>2. CASE scan.value # Absent
    <3>1. scan.value \in Result /\ Sound(scan.value.url, scan.value.verdict)
      BY <2>2 DEF Scan, VerdictsHold
    <3>2. /\ recents' \in Seq(Result) /\ Len(recents') <= MaxEntries
          /\ \A i \in DOMAIN recents' :
                recents'[i] = scan.value \/ \E j \in DOMAIN recents : recents'[i] = recents[j]
      BY <1>1, <2>2, <3>1, RecordType
    <3>3. \A i \in DOMAIN recents' : Sound(recents'[i].url, recents'[i].verdict)
      BY <3>1, <3>2 DEF VerdictsHold
    <3> QED
      BY <1>1, <3>2, <3>3 DEF VerdictsHold
  <2> QED
    BY <2>1, <2>2
<1> QED
  BY <1>2, <1>3, <1>4, <1>5 DEF Inv, TypeOK

LEMMA ClearInv ==
    ASSUME Inv, ClearRecents
    PROVE  Inv'
<1> USE InvIs
<1>1. /\ recents' = <<>>
      /\ UNCHANGED <<blocklist, verdicts, checks, scanner, scan, hasty, first>>
  BY DEF ClearRecents
<1>2. recents' \in Seq(Result) /\ Len(recents') <= MaxEntries /\ DOMAIN recents' = {}
  BY <1>1, ScanAssumption
<1>3. SafetyTypeOK' /\ ScannerHolds' /\ ChecksHold' /\ OwnHolds' /\ PatientUserSeesOwnScan'
  BY <1>1 DEF SafetyTypeOK, ScannerHolds, ChecksHold, OwnHolds, At, PatientUserSeesOwnScan, SheetIsOwn
<1>4. VerdictsHold'
  BY <1>1, <1>2 DEF VerdictsHold
<1> QED
  BY <1>1, <1>2, <1>3, <1>4 DEF Inv, TypeOK

\* What a step of the server does to request k.
ServerEffect(k) ==
    /\ checks' \in [Checks -> Check]
    /\ verdicts' \in [Urls -> Verdicts \cup {Absent}]
    /\ \A j \in Checks : j # k => checks'[j] = checks[j]
    /\ checks'[k].url = checks[k].url
    /\ checks[k].pc # "idle" /\ checks'[k].pc # "idle"
    /\ checks'[k].pc \in {"set", "answered"}
            => checks'[k].result # Absent /\ checks'[k].result.url = checks[k].url
    /\ checks'[k].result # Absent
            => Sound(checks'[k].result.url, checks'[k].result.verdict)
    /\ \A u \in Urls : verdicts'[u] # Absent => Sound(u, verdicts'[u])

\* A step of the server in request k: it keeps the URL, never makes an idle slot
\* busy or a busy one idle, and answers with a verdict some release stands for.
LEMMA ServerStepInv ==
    ASSUME Inv, NEW k \in Checks, ServerStep(k), UNCHANGED appVars
    PROVE  Inv'
<1> USE InvIs
<1>1. UNCHANGED <<blocklist, scanner, scan, recents, hasty, first>>
  BY DEF ServerStep, CacheHit, CacheMiss, SetVerdict, SetFails, Refused, appVars
<1>2. ServerEffect(k)
  <2>1. ASSUME NEW verdict \in Verdicts, NEW pc \in {"set", "answered"},
               At(k, "sent"), checks[k].url # Absent, Sound(checks[k].url, verdict),
               Reach(k, pc, verdict), UNCHANGED verdicts
        PROVE  ServerEffect(k)
    <3> DEFINE r == [url |-> checks[k].url, verdict |-> verdict]
    <3>1. r \in Result
      BY <2>1 DEF Result, SafetyTypeOK, Check
    <3>2. r # Absent
      BY <3>1, SafetyAssumption
    <3>3. r.url = checks[k].url /\ r.verdict = verdict
      OBVIOUS
    <3> HIDE DEF r
    <3>4. checks' = [checks EXCEPT ![k].pc = pc, ![k].result = r]
      BY <2>1 DEF Reach, r
    <3>5. /\ checks' \in [Checks -> Check]
          /\ \A j \in Checks : j # k => checks'[j] = checks[j]
          /\ checks'[k].url = checks[k].url /\ checks'[k].pc = pc /\ checks'[k].result = r
      BY <3>1, <3>4 DEF SafetyTypeOK, Check
    <3>6. verdicts' \in [Urls -> Verdicts \cup {Absent}]
          /\ \A u \in Urls : verdicts'[u] # Absent => Sound(u, verdicts'[u])
      BY <2>1 DEF SafetyTypeOK, VerdictsHold
    <3>7. checks[k].pc # "idle" /\ pc # "idle"
      BY <2>1 DEF At
    <3> QED
      BY <2>1, <3>2, <3>3, <3>5, <3>6, <3>7 DEF ServerEffect
  <2>2. ASSUME NEW pc \in {"answered", "lost"}, checks[k].pc # "idle",
               pc = "answered" => At(k, "set"),
               checks' = [checks EXCEPT ![k].pc = pc],
               \/ UNCHANGED verdicts
               \/ pc = "answered" /\ verdicts' = [verdicts EXCEPT ![checks[k].url] = checks[k].result.verdict]
        PROVE  ServerEffect(k)
    <3>1. /\ checks' \in [Checks -> Check]
          /\ \A j \in Checks : j # k => checks'[j] = checks[j]
          /\ checks'[k].url = checks[k].url /\ checks'[k].pc = pc
          /\ checks'[k].result = checks[k].result
      BY <2>2 DEF SafetyTypeOK, Check
    <3>2. pc = "answered" => /\ checks[k].result # Absent /\ checks[k].result \in Result
                             /\ checks[k].result.url = checks[k].url
                             /\ Sound(checks[k].url, checks[k].result.verdict)
      BY <2>2 DEF At, ChecksHold, SafetyTypeOK, Check, VerdictsHold
    <3>3. verdicts' \in [Urls -> Verdicts \cup {Absent}]
      BY <2>2, <3>2 DEF SafetyTypeOK, Result
    <3>4. \A u \in Urls : verdicts'[u] # Absent => Sound(u, verdicts'[u])
      BY <2>2, <3>2 DEF SafetyTypeOK, VerdictsHold, Result
    <3>5. checks[k].result # Absent => Sound(checks[k].result.url, checks[k].result.verdict)
      BY DEF VerdictsHold
    <3> QED
      BY <2>2, <3>1, <3>2, <3>3, <3>4, <3>5 DEF ServerEffect
  <2>3. CASE CacheHit(k)
    <3>1. checks[k].url \in Urls
      BY <2>3 DEF CacheHit, SafetyTypeOK, Check
    <3>2. verdicts[checks[k].url] \in Verdicts /\ Sound(checks[k].url, verdicts[checks[k].url])
      BY <2>3, <3>1 DEF CacheHit, SafetyTypeOK, VerdictsHold
    <3> QED
      BY <2>1, <2>3, <3>2 DEF CacheHit
  <2>4. CASE CacheMiss(k)
    <3>1. VerdictFor(checks[k].url, blocklist) \in Verdicts
      BY VerdictForType
    <3>2. Sound(checks[k].url, VerdictFor(checks[k].url, blocklist))
      BY DEF Sound, SafetyTypeOK
    <3> QED
      BY <2>1, <2>4, <3>1, <3>2 DEF CacheMiss
  <2>5. CASE SetVerdict(k)
    BY <2>2, <2>5 DEF SetVerdict, At
  <2>6. CASE SetFails(k)
    BY <2>2, <2>6 DEF SetFails, At
  <2>7. CASE Refused(k)
    BY <2>2, <2>7 DEF Refused, At
  <2> QED
    BY <2>3, <2>4, <2>5, <2>6, <2>7 DEF ServerStep
<1>3. SafetyTypeOK' /\ ScannerHolds' /\ ChecksHold'
  BY <1>1, <1>2 DEF ServerEffect, SafetyTypeOK, ScannerHolds, ChecksHold
<1>4. \A j \in Checks : checks'[j].pc = "idle" <=> checks[j].pc = "idle"
  BY <1>2 DEF ServerEffect
<1>5. \A j \in Checks : checks'[j].url = checks[j].url
  BY <1>2 DEF ServerEffect
<1>6. OwnHolds' /\ PatientUserSeesOwnScan'
  BY <1>1, <1>4, <1>5 DEF OwnHolds, At, PatientUserSeesOwnScan, SheetIsOwn, ScannerHolds
<1>7. VerdictsHold'
  BY <1>1, <1>2 DEF ServerEffect, VerdictsHold
<1> QED
  BY <1>1, <1>3, <1>6, <1>7 DEF Inv, TypeOK

\* The client takes an answer or an error: for a patient user, of its own check.
LEMMA DoneInv ==
    ASSUME Inv, NEW k \in Checks, Answered(k) \/ Failed(k)
    PROVE  Inv'
<1> USE InvIs
<1>1. /\ UNCHANGED <<blocklist, verdicts, scanner, recents, hasty, first>>
      /\ checks' = [checks EXCEPT ![k] = NoCheck]
      /\ checks[k].pc \in {"answered", "lost"}
  BY DEF Answered, Failed, Done, At
<1>2. /\ checks' \in [Checks -> Check]
      /\ checks'[k].pc = "idle" /\ checks'[k].result = Absent
      /\ \A j \in Checks : j # k => checks'[j] = checks[j]
  BY <1>1 DEF SafetyTypeOK, Check, NoCheck
<1>3. SafetyTypeOK' /\ ScannerHolds' /\ ChecksHold'
  BY <1>1, <1>2 DEF SafetyTypeOK, ScannerHolds, ChecksHold
<1>4. ~hasty => scanner.pc = "sheet" /\ scanner.own = k
  BY <1>1 DEF OwnHolds, At
<1>5. OwnHolds'
  BY <1>1, <1>2, <1>4 DEF OwnHolds, At
<1>6. CASE Answered(k)
  <2>1. checks[k].result \in Result /\ checks[k].result # Absent
        /\ checks[k].result.url = checks[k].url
    BY <1>6 DEF Answered, At, ChecksHold, SafetyTypeOK, Check
  <2>2. /\ scan' = [state |-> "data", value |-> checks[k].result]
        /\ scan' \in Scan
    BY <1>6, <2>1 DEF Answered, Scan
  <2>3. PatientUserSeesOwnScan'
    <3>1. ~hasty => checks[k].url = Trim[scanner.raw]
      BY <1>1, <1>4 DEF OwnHolds, At
    <3> QED
      BY <1>1, <1>2, <1>4, <2>1, <2>2, <3>1 DEF PatientUserSeesOwnScan, SheetIsOwn, At
  <2>4. VerdictsHold'
    <3>1. Sound(checks[k].result.url, checks[k].result.verdict)
      BY <2>1 DEF VerdictsHold
    <3> QED
      BY <1>1, <1>2, <2>2, <3>1 DEF VerdictsHold
  <2> QED
    BY <1>1, <1>3, <1>5, <2>2, <2>3, <2>4 DEF Inv, TypeOK
<1>7. CASE Failed(k)
  <2>1. scan' = [scan EXCEPT !.state = "error"] /\ scan' \in Scan /\ scan'.value = scan.value
    BY <1>7 DEF Failed, Scan
  <2>2. PatientUserSeesOwnScan'
    <3>1. ~hasty => scan.value = Absent
      BY <1>1, <1>4 DEF PatientUserSeesOwnScan, SheetIsOwn, At
    <3>2. ~hasty => scan' = [state |-> "error", value |-> Absent]
      BY <2>1, <3>1 DEF Scan
    <3> QED
      BY <1>1, <1>2, <1>4, <3>2 DEF PatientUserSeesOwnScan, SheetIsOwn, At
  <2>3. VerdictsHold'
    BY <1>1, <1>2, <2>1 DEF VerdictsHold
  <2> QED
    BY <1>1, <1>3, <1>5, <2>1, <2>2, <2>3 DEF Inv, TypeOK
<1> QED
  BY <1>6, <1>7

\* What such steps do.
OutsideEffect ==
    /\ SafetyTypeOK'
    /\ \A u \in Urls : verdicts'[u] \in {verdicts[u], Absent}
    /\ \A j \in Checks :
          /\ checks'[j].url = checks[j].url /\ checks'[j].result = checks[j].result
          /\ checks'[j].pc \in {checks[j].pc, "lost"}
          /\ checks'[j].pc = "idle" <=> checks[j].pc = "idle"

\* Redis drops a verdict, or another release takes over.
LEMMA OutsideInv ==
    ASSUME Inv, UNCHANGED appVars,
           \/ \E u \in Urls : ExpireVerdict(u)
           \/ \E b \in Blocklists : Deploy(b)
    PROVE  Inv'
<1> USE InvIs
<1>1. UNCHANGED <<scanner, scan, recents, hasty, first>>
  BY DEF appVars
<1>2. OutsideEffect
  <2>1. ASSUME NEW u \in Urls, ExpireVerdict(u)
        PROVE  OutsideEffect
    BY <2>1 DEF OutsideEffect, ExpireVerdict, SafetyTypeOK
  <2>2. ASSUME NEW b \in Blocklists, Deploy(b)
        PROVE  OutsideEffect
    <3>1. \A j \in Checks :
            checks'[j] = IF checks[j].pc \in {"sent", "set"} THEN [checks[j] EXCEPT !.pc = "lost"]
                                                             ELSE checks[j]
      BY <2>2 DEF Deploy
    <3>2. checks' \in [Checks -> Check]
      BY <2>2 DEF Deploy, SafetyTypeOK, Check
    <3> QED
      BY <2>2, <3>1, <3>2 DEF OutsideEffect, Deploy, SafetyTypeOK, Check
  <2> QED
    BY <2>1, <2>2
<1>3. ScannerHolds' /\ ChecksHold'
  BY <1>1, <1>2 DEF OutsideEffect, ScannerHolds, ChecksHold
<1>4. OwnHolds' /\ PatientUserSeesOwnScan'
  BY <1>1, <1>2 DEF OutsideEffect, OwnHolds, At, PatientUserSeesOwnScan, SheetIsOwn, ScannerHolds
<1>5. VerdictsHold'
  BY <1>1, <1>2 DEF OutsideEffect, VerdictsHold
<1> QED
  BY <1>1, <1>2, <1>3, <1>4, <1>5 DEF OutsideEffect, Inv, TypeOK

\* The inductive invariant of the scanner and the safety check
\* (scanner_screen.dart, scan_controller.dart, safety/service.go).
THEOREM ScanInvariance == Spec => []Inv
<1>1. Init => Inv
  <2> SUFFICES ASSUME Init
               PROVE  Inv
    OBVIOUS
  <2>1. TypeOK
    <3>1. recents \in Seq(Result) /\ Len(recents) <= MaxEntries
      BY ScanAssumption DEF Init
    <3> QED
      BY <3>1 DEF Init, TypeOK, SafetyInit, SafetyTypeOK, Check, NoCheck, Scanner, Screen, Scan
  <2>2. ScannerHolds /\ ChecksHold /\ OwnHolds
    BY DEF Init, SafetyInit, NoCheck, Screen, ScannerHolds, ChecksHold, OwnHolds, At
  <2>3. PatientUserSeesOwnScan
    BY DEF Init, Screen, PatientUserSeesOwnScan, SheetIsOwn
  <2>4. VerdictsHold
    BY DEF Init, SafetyInit, NoCheck, VerdictsHold
  <2> QED
    BY <2>1, <2>2, <2>3, <2>4 DEF Inv
<1>2. Inv /\ [Next]_vars => Inv'
  <2> SUFFICES ASSUME Inv, [Next]_vars
               PROVE  Inv'
    OBVIOUS
  <2>1. CASE UNCHANGED vars
    BY <2>1 DEF vars, Inv, TypeOK, SafetyTypeOK, ScannerHolds, ChecksHold, OwnHolds, At,
       PatientUserSeesOwnScan, SheetIsOwn, VerdictsHold
  <2>2. ASSUME NEW k \in Checks, CheckStep(k)
        PROVE  Inv'
    BY <2>2, ServerStepInv, DoneInv DEF CheckStep
  <2>3. CASE ScreenStep
    BY <2>3, OpenSheetInv, ScreenStepInv DEF ScreenStep
  <2> QED
    BY <2>1, <2>2, <2>3, ScreenStepInv, DismissInv, ClearInv, OutsideInv DEF Next
<1> QED
  BY <1>1, <1>2, PTL DEF Spec

\* A user who waits for each answer sees, on each sheet, the progress and the
\* verdict of the code it was opened for, and that scan is recorded.
THEOREM PatientUser == Spec => []PatientUserSeesOwnScan
<1>1. Inv => PatientUserSeesOwnScan
  BY DEF Inv
<1> QED
  BY <1>1, ScanInvariance, PTL

\* Wherever a result is, its verdict is one that some release gives its own URL.
THEOREM VerdictsSound == Spec => []VerdictsHold
<1>1. Inv => VerdictsHold
  BY DEF Inv
<1> QED
  BY <1>1, ScanInvariance, PTL

\* The recent scans never exceed _maxEntries (recent_scans_controller.dart).
THEOREM ScanTypes == Spec => []TypeOK
<1>1. Inv => TypeOK
  BY DEF Inv
<1> QED
  BY <1>1, ScanInvariance, PTL
=============================================================================
