---------------------------- MODULE SlugDirectory ----------------------------
(***************************************************************************)
(* What GET /r/{slug} promises, without tables, caches or requests: a slug *)
(* leads to at most one target.  A visitor is sent to that target or, for  *)
(* a while, to one the slug led to before.  A former target can only fade: *)
(* once no visitor can be sent there, none ever is, unless the slug is     *)
(* linked to it anew.                                                      *)
(***************************************************************************)
CONSTANTS
    Slugs, Targets, Visits,
    Absent      \* no target, or no redirect

VARIABLES
    link,       \* link[s]: where slug s leads, or Absent
    fading,     \* fading[s]: the former targets a visitor of s may be sent to
    sent        \* sent[v]: the redirect visit v was answered with, or Absent

vars == <<link, fading, sent>>

TypeOK ==
    /\ link \in [Slugs -> Targets \cup {Absent}]
    /\ fading \in [Slugs -> SUBSET Targets]
    /\ sent \in [Visits -> [slug : Slugs, target : Targets] \cup {Absent}]

Init ==
    /\ link = [s \in Slugs |-> Absent]
    /\ fading = [s \in Slugs |-> {}]
    /\ sent = [v \in Visits |-> Absent]

\* Former targets disappear, at any time and in any number.
Fade == \A s \in Slugs : fading'[s] \subseteq fading[s]

\* The owner links s to t, or to nothing; what it led to may linger.
Relink(s, t) ==
    /\ link' = [link EXCEPT ![s] = t]
    /\ fading'[s] \subseteq fading[s] \cup ({link[s]} \ {Absent})
    /\ \A x \in Slugs \ {s} : fading'[x] \subseteq fading[x]
    /\ UNCHANGED sent

\* Visit v asks for s and is redirected to t.
Send(v, s, t) ==
    /\ sent[v] = Absent
    /\ t \in fading[s] \cup {link[s]}
    /\ sent' = [sent EXCEPT ![v] = [slug |-> s, target |-> t]]
    /\ Fade
    /\ UNCHANGED link

\* Visits end.
Leave ==
    /\ \A v \in Visits : sent'[v] \in {sent[v], Absent}
    /\ Fade
    /\ UNCHANGED link

Next ==
    /\ \/ Leave
       \/ \E v \in Visits, s \in Slugs, t \in Targets : Send(v, s, t)
       \/ \E s \in Slugs, t \in Targets \cup {Absent} : Relink(s, t)
    /\ TypeOK'

Spec == Init /\ [][Next]_vars
=============================================================================
