---------------------------- MODULE MCScanAnalytics ----------------------------
(***************************************************************************)
(* A small instance of ScanAnalytics.                                      *)
(***************************************************************************)
EXTENDS ScanAnalytics

\* One address with two user agents, and a visitor who gives neither.
MCClients == {[ip |-> 1, agent |-> 1], [ip |-> 1, agent |-> 2], [ip |-> 0, agent |-> 0]}
=============================================================================
