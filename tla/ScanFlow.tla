------------------------------- MODULE ScanFlow -------------------------------
(***************************************************************************)
(* The scanner of the app (lib/features/scan): a code is detected, its URL *)
(* is checked by the server (SafetyService), a sheet shows the verdict,    *)
(* and the scan is recorded when the sheet is dismissed.                   *)
(*                                                                         *)
(* The check is not awaited: it goes on when the sheet is gone, and its    *)
(* answer sets the one state that every sheet shows.                       *)
(***************************************************************************)
EXTENDS SafetyService, Naturals, Sequences

CONSTANTS
    Codes,      \* the contents of QR codes
    Trim,       \* Trim[c]: the contents without the blanks around, or Absent
    MaxEntries  \* _maxEntries

ASSUME ScanAssumption ==
    /\ Trim \in [Codes -> Urls \cup {Absent}]
    /\ Absent \notin Codes \cup Checks
    /\ MaxEntries \in Nat \ {0}

VARIABLES
    scanner,    \* the ScannerScreen and its _onDetect
    scan,       \* the ScanController's state
    recents,    \* the RecentScansController's list, newest first
    hasty,      \* history: a check was under way when a sheet was last dismissed
    first       \* history: the sheet is the first one since the app was launched

vars == <<blocklist, verdicts, checks, scanner, scan, recents, hasty, first>>

\* pc: "away" when the screen is not open, "ready" when _handling is false, then
\* what _onDetect awaits: the camera's stop, the sheet, the camera's start.
\* "wedged": it has died, and _handling stays true.  own: the sheet's check.
Scanner == [pc : {"away", "ready", "stopping", "sheet", "starting", "wedged"},
            camera : BOOLEAN, raw : Codes \cup {Absent}, own : Checks \cup {Absent}]

\* Riverpod carries the previous value along when the state is loading or an
\* error; valueOrNull reads it.  "unread": nobody has read the provider yet.
Scan == [state : {"unread", "loading", "data", "error"}, value : Result \cup {Absent}]

TypeOK ==
    /\ SafetyTypeOK
    /\ scanner \in Scanner
    /\ scan \in Scan
    /\ recents \in Seq(Result) /\ Len(recents) <= MaxEntries
    /\ hasty \in BOOLEAN /\ first \in BOOLEAN

Screen(pc, camera) == [pc |-> pc, camera |-> camera, raw |-> Absent, own |-> Absent]

Init ==
    /\ SafetyInit
    /\ scanner = Screen("away", FALSE)
    /\ scan = [state |-> "unread", value |-> Absent]
    /\ recents = <<>>
    /\ hasty = FALSE /\ first = FALSE

-----------------------------------------------------------------------------
(* The screen *)

\* The screen is ready; its camera runs, or did not start.
CameraStarts ==
    \/ scanner' = Screen("ready", TRUE)
    \/ "start" \in Faults /\ scanner' = Screen("ready", FALSE)

\* The screen opens and its camera starts, or fails to.
Enter ==
    /\ scanner.pc = "away"
    /\ CameraStarts
    /\ UNCHANGED <<blocklist, verdicts, checks, scan, recents, hasty, first>>

\* The screen closes, which it cannot under a sheet.  An _onDetect under way
\* finds it unmounted and does nothing more.
Leave ==
    /\ scanner.pc \notin {"away", "sheet"}
    /\ scanner' = Screen("away", FALSE)
    /\ UNCHANGED <<blocklist, verdicts, checks, scan, recents, hasty, first>>

\* _onDetect, up to its first await.  Bound: there is a slot for the check.
Detect(c) ==
    /\ scanner.pc = "ready" /\ scanner.camera
    /\ \E k \in Checks : At(k, "idle")
    /\ scanner' = [scanner EXCEPT !.pc = "stopping", !.raw = c]
    /\ UNCHANGED <<blocklist, verdicts, checks, scan, recents, hasty, first>>

\* check sets the loading state.  The first time it is what starts build, whose null
\* then comes, as a microtask, before the sheet's first frame and any answer.
Checking ==
    IF scan.state = "unread" THEN [state |-> "data", value |-> Absent]
                             ELSE [scan EXCEPT !.state = "loading"]

\* The camera has stopped: check is called, and the sheet opens.
OpenSheet(k) ==
    /\ scanner.pc = "stopping"
    /\ scanner' = [scanner EXCEPT !.pc = "sheet", !.camera = FALSE, !.own = k]
    /\ Send(k, Trim[scanner.raw])
    /\ scan' = Checking
    /\ first' = (scan.state = "unread")
    /\ UNCHANGED <<blocklist, verdicts, recents, hasty>>

\* The camera refuses to stop: nothing clears _handling.
StopFails ==
    /\ "stop" \in Faults
    /\ scanner.pc = "stopping"
    /\ scanner' = [scanner EXCEPT !.pc = "wedged"]
    /\ UNCHANGED <<blocklist, verdicts, checks, scan, recents, hasty, first>>

\* Mutation: _maxEntries is not looked at.
Prepend(r) == <<r>> \o recents

\* RecentScansController.add.
Record(r) ==
    LET all == <<r>> \o recents IN
    IF Len(all) > MaxEntries THEN SubSeq(all, 1, MaxEntries) ELSE all

\* Mutation: the state is not reset.
KeepShown ==
    /\ scanner.pc = "sheet"
    /\ recents' = IF scan.value = Absent THEN recents ELSE Record(scan.value)
    /\ scanner' = [scanner EXCEPT !.pc = "starting", !.raw = Absent, !.own = Absent]
    /\ hasty' = (\E k \in Checks : ~At(k, "idle")) /\ first' = FALSE
    /\ UNCHANGED safetyVars /\ UNCHANGED scan

\* The sheet is dismissed: the scan is recorded and the state reset, whatever the
\* check is doing.
Dismiss ==
    /\ scanner.pc = "sheet"
    /\ recents' = IF scan.value = Absent THEN recents ELSE Record(scan.value)
    /\ scan' = [state |-> "data", value |-> Absent]
    /\ scanner' = [scanner EXCEPT !.pc = "starting", !.raw = Absent, !.own = Absent]
    /\ hasty' = (\E k \in Checks : ~At(k, "idle")) /\ first' = FALSE
    /\ UNCHANGED safetyVars

\* The camera starts again, or fails to.
Resume ==
    /\ scanner.pc = "starting"
    /\ CameraStarts
    /\ UNCHANGED <<blocklist, verdicts, checks, scan, recents, hasty, first>>

\* The settings' "Clear local data".
ClearRecents ==
    /\ scanner.pc = "away"
    /\ recents' = <<>>
    /\ UNCHANGED <<blocklist, verdicts, checks, scanner, scan, hasty, first>>

-----------------------------------------------------------------------------
(* The check *)

\* check: the answer becomes the state.
Answered(k) ==
    /\ At(k, "answered")
    /\ Done(k)
    /\ scan' = [state |-> "data", value |-> checks[k].result]
    /\ UNCHANGED <<blocklist, verdicts, scanner, recents, hasty, first>>

\* Mutation: Dio has no timeouts.
HangsWhenLost(k) == FALSE /\ UNCHANGED vars

\* check: so does an error; the value it had stays with it.
Failed(k) ==
    /\ At(k, "lost")
    /\ Done(k)
    /\ scan' = [scan EXCEPT !.state = "error"]
    /\ UNCHANGED <<blocklist, verdicts, scanner, recents, hasty, first>>

-----------------------------------------------------------------------------

appVars == <<scanner, scan, recents, hasty, first>>

CheckStep(k) ==
    \/ ServerStep(k) /\ UNCHANGED appVars
    \/ Answered(k)
    \/ Failed(k)

ScreenStep == (\E k \in Checks : OpenSheet(k)) \/ StopFails \/ Resume

Next ==
    \/ Enter \/ Leave \/ ScreenStep \/ Dismiss \/ ClearRecents
    \/ \E c \in Codes : Detect(c)
    \/ \E k \in Checks : CheckStep(k)
    \/ \E u \in Urls : ExpireVerdict(u) /\ UNCHANGED appVars
    \/ \E b \in Blocklists \ {blocklist} : Deploy(b) /\ UNCHANGED appVars

Spec == Init /\ [][Next]_vars

(***************************************************************************)
(* A check ends: Dio times out, and the server's calls do.  The camera     *)
(* answers.  Redis removes what has expired.                               *)
(***************************************************************************)
FairSpec ==
    /\ Spec
    /\ WF_vars(ScreenStep)
    /\ \A k \in Checks : WF_vars(CheckStep(k))
    /\ \A u \in Urls : WF_vars(ExpireVerdict(u) /\ UNCHANGED appVars)

-----------------------------------------------------------------------------
(* Properties *)

\* "loading -> spinner, data -> verdict, error -> error message"
\* (scan/application/scan_controller.dart), and each of them of the code the
\* sheet was opened for; but the first sheet shows nothing while it waits.
SheetIsOwn ==
    scanner.pc = "sheet" =>
        IF ~At(scanner.own, "idle")
          THEN scan = [state |-> IF first THEN "data" ELSE "loading", value |-> Absent]
          ELSE \/ scan = [state |-> "error", value |-> Absent]
               \/ scan.state = "data" /\ scan.value # Absent
                  /\ scan.value.url = Trim[scanner.raw]

\* The sheet shows the progress (the first one: nothing) and the verdict of its own
\* code, and records this very scan, unless an earlier sheet was dismissed before its
\* answer came.
PatientUserSeesOwnScan == ~hasty => SheetIsOwn

\* A result is what some release makes of its very URL, wherever it has got to:
\* the verdict cache, an answer, the sheet or the list.
Sound(u, verdict) == \E b \in Blocklists : verdict = VerdictFor(u, b)

VerdictsHold ==
    /\ \A u \in Urls : verdicts[u] # Absent => Sound(u, verdicts[u])
    /\ \A k \in Checks : checks[k].result # Absent
           => Sound(checks[k].result.url, checks[k].result.verdict)
    /\ scan.value # Absent => Sound(scan.value.url, scan.value.verdict)
    /\ \A i \in DOMAIN recents : Sound(recents[i].url, recents[i].verdict)

\* A sheet with a spinner, or with nothing on it.
Waiting ==
    scanner.pc = "sheet" /\ (scan.state = "loading" \/ scan = [state |-> "data", value |-> Absent])

\* The spinner stops, and the first sheet does not stay empty, though the answer be
\* lost or come late.
SpinnerStops == Waiting ~> ~Waiting

\* "a TTL lets blocklist/heuristic changes take effect" (internal/safety/service.go):
\* once releases stop, the cache comes to agree with the last.
BlocklistTakesEffect ==
    <>[][UNCHANGED blocklist]_vars
        => <>[](\A u \in Urls : verdicts[u] \in {VerdictFor(u, blocklist), Absent})

-----------------------------------------------------------------------------
(* What the repository says and the code does not do *)

\* "On detecting a code it pauses scanning, runs the safety check, shows
\* [ScanResultSheet]" (scan/presentation/scanner_screen.dart): the verdict on the
\* sheet is that of the code it was opened for.
SheetShowsItsCode ==
    scanner.pc = "sheet" /\ scan.state = "data" /\ scan.value # Absent
        => scan.value.url = Trim[scanner.raw]
=============================================================================
