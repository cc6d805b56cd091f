------------------------------ MODULE MCScanFlow ------------------------------
(***************************************************************************)
(* Two links, of which the second is on the blocklist of one of two        *)
(* releases, and a code of blanks.                                         *)
(***************************************************************************)
EXTENDS ScanFlow, TLC

CONSTANTS
    link, trap, blanks      \* codes

Web(domain, signals) ==
    [parses |-> TRUE, scheme |-> "web", domains |-> {domain}, signals |-> signals]

MCTrim ==
    (link :> Web("shop", {})) @@ (trap :> Web("evil", {"punycode_host"})) @@ (blanks :> Absent)

MCUrls == {MCTrim[link], MCTrim[trap]}

MCBlocklists == {{}, {"evil"}}
=============================================================================
