----------------------------- MODULE MCGenerator -----------------------------
(***************************************************************************)
(* Generator with a few payloads to type into two of the forms, and the    *)
(* encoder tried on every short text over each format's separators.        *)
(***************************************************************************)
EXTENDS Generator

MCChars == Keywords \cup {"a", "1", " "}

MCSamples ==
    [url   |-> {[type |-> "url", url |-> <<"a">>], [type |-> "url", url |-> <<" ">>]},
     wifi  |-> {[type |-> "wifi", ssid |-> <<";">>, password |-> <<" ", ":">>,
                 auth |-> auth, hidden |-> FALSE] : auth \in {"WPA", "nopass"}},
     vcard |-> {}, email |-> {}, text |-> {}]

UrlTexts == BoundedSeq({"a", "1", " ", "://"}, 4)
WifiTexts == BoundedSeq({"a", " ", "\\", ";", ":"}, 2)
VcardTexts == BoundedSeq({"n", " ", "\\", ";", "\n"}, 3)
EmailTexts == BoundedSeq({"a", " ", "?", "%", "&"}, 2)
Recipients == {<<>>, <<" ", "a">>, <<"a", "&">>, <<"?">>, <<"%">>}

MCSpecimens ==
    {[type |-> "url", url |-> t] : t \in UrlTexts}
    \cup {[type |-> "wifi", ssid |-> t, password |-> u, auth |-> auth, hidden |-> t = u] :
             t \in WifiTexts, u \in WifiTexts, auth \in {"WPA", "nopass"}}
    \cup {[type |-> "vcard", name |-> t, org |-> u] :
             t \in VcardTexts, u \in BoundedSeq({"n", "\\", "\n"}, 1)}
    \cup {[type |-> "email", to |-> r, subject |-> t, body |-> u] :
             r \in Recipients, t \in EmailTexts, u \in BoundedSeq({"a", "%", "&"}, 1)}
    \cup {[type |-> "text", text |-> t] : t \in UrlTexts}
=============================================================================
