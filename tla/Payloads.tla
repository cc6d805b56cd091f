------------------------------ MODULE Payloads ------------------------------
(***************************************************************************)
(* What a code holds and what its QR says: the payloads of the app and     *)
(* their JSON (code_payload.dart), the app's encoder (payload_encoder.dart)*)
(* and the server's (internal/qr), with readers of the three formats to    *)
(* hold the encoder against.                                               *)
(*                                                                         *)
(* A text is a sequence of characters; "https", "://", a key such as "FN"  *)
(* and a keyword of a format count as one.  A payload, and its JSON, is a record *)
(* of its type and its fields.  The vCard's org stands for all four        *)
(* optional fields, which are treated alike.  Lengths are left out.        *)
(***************************************************************************)
EXTENDS Naturals, FiniteSets, SequencesExt

CONSTANT Chars      \* the characters, the formats' keywords among them

Keywords ==
    {"https", "://", "\n", "n", "\\", "%", ":", ";", ",", "=", "?", "&", "WIFI", "T", "S", "P", "H",
     "WPA", "WEP", "nopass", "true", "false", "BEGIN", "VERSION", "FN", "ORG", "END",
     "mailto", "subject", "body"}

ASSUME CharsAssumption == Keywords \subseteq Chars

Blanks == {" ", "\n"}
Letters == {"a", "n", "https"}
SchemeChars == Letters \cup {"1"}

Trim(t) ==
    LET solid == {n \in DOMAIN t : t[n] \notin Blanks} IN
    IF solid = {} THEN <<>> ELSE SubSeq(t, Min(solid), Max(solid))

IsBlank(t) == Trim(t) = <<>>

\* A letter, more scheme characters, "://".
HasScheme(t) ==
    \E n \in DOMAIN t :
        /\ t[n] = "://" /\ n > 1 /\ t[1] \in Letters
        /\ \A m \in 2..n - 1 : t[m] \in SchemeChars

NormalizeUrl(raw) ==
    LET t == Trim(raw) IN
    IF t = <<>> \/ HasScheme(t) THEN t ELSE <<"https", "://">> \o t

CodeType == {"url", "wifi", "vcard", "email", "text"}

SupportsDynamic(type) == type = "url"

Text == Seq(Chars)

\* The payloads of a type.
PayloadOf(type) ==
    CASE type = "url"   -> [type : {type}, url : Text]
      [] type = "wifi"  -> [type : {type}, ssid : Text, password : Text,
                            auth : {"WPA", "WEP", "nopass"}, hidden : BOOLEAN]
      [] type = "vcard" -> [type : {type}, name : Text, org : Text]
      [] type = "email" -> [type : {type}, to : Text, subject : Text, body : Text]
      [] type = "text"  -> [type : {type}, text : Text]

Empty(type) ==
    CASE type = "url"   -> [type |-> type, url |-> <<>>]
      [] type = "wifi"  -> [type |-> type, ssid |-> <<>>, password |-> <<>>,
                            auth |-> "WPA", hidden |-> FALSE]
      [] type = "vcard" -> [type |-> type, name |-> <<>>, org |-> <<>>]
      [] type = "email" -> [type |-> type, to |-> <<>>, subject |-> <<>>, body |-> <<>>]
      [] type = "text"  -> [type |-> type, text |-> <<>>]

\* The field that must not be blank.
Required == [url |-> "url", wifi |-> "ssid", vcard |-> "name", email |-> "to", text |-> "text"]

IsValid(p) == ~IsBlank(p[Required[p.type]])

\* Mutation: the url as it was typed.
RawToJson(p) ==
    CASE p.type = "wifi" /\ p.auth = "nopass" -> [p EXCEPT !.password = <<>>]
      [] OTHER -> p

ToJson(p) ==
    CASE p.type = "url" -> [p EXCEPT !.url = NormalizeUrl(@)]
      [] p.type = "wifi" /\ p.auth = "nopass" -> [p EXCEPT !.password = <<>>]
      [] OTHER -> p

\* Every text is trimmed, but that of a text code.
FromJson(json) ==
    IF json.type = "text" THEN json
    ELSE [f \in DOMAIN json |->
             IF f \in {"type", "auth", "hidden"} THEN json[f] ELSE Trim(json[f])]

-----------------------------------------------------------------------------
(* PayloadEncoder *)

\* Each character c in turn becomes the text image[c].
MapChars(t, image) ==
    LET mapped[n \in 0..Len(t)] == IF n = 0 THEN <<>> ELSE mapped[n - 1] \o image[t[n]]
    IN  mapped[Len(t)]

WifiEscape(s) ==
    MapChars(s, [c \in Chars |-> IF c \in {"\\", ";", ",", ":", "\""} THEN <<"\\", c>> ELSE <<c>>])

WifiText(p) ==
    <<"WIFI", ":", "T", ":", p.auth, ";", "S", ":">> \o WifiEscape(p.ssid)
    \o <<";", "P", ":">> \o (IF p.auth = "nopass" THEN <<>> ELSE WifiEscape(p.password))
    \o <<";", "H", ":", IF p.hidden THEN "true" ELSE "false", ";", ";">>

Replace(s, c, by) == MapChars(s, [d \in Chars |-> IF d = c THEN by ELSE <<d>>])

\* Mutation: the backslash last.
VcardEscapeLate(s) ==
    Replace(Replace(Replace(Replace(s, ",", <<"\\", ",">>), ";", <<"\\", ";">>),
                    "\n", <<"\\", "n">>), "\\", <<"\\", "\\">>)

\* One character after the other, the backslash first.
VcardEscape(s) ==
    Replace(Replace(Replace(Replace(s, "\\", <<"\\", "\\">>), ",", <<"\\", ",">>),
                    ";", <<"\\", ";">>), "\n", <<"\\", "n">>)

VcardText(p) ==
    <<"BEGIN", "\n", "VERSION", "\n", "FN", ":">> \o VcardEscape(p.name)
    \o (IF IsBlank(p.org) THEN <<>> ELSE <<"\n", "ORG", ":">> \o VcardEscape(p.org))
    \o <<"\n", "END">>

\* Uri.encodeComponent: a "%" and the character's code, which counts as one.
EncodeComponent(s) ==
    MapChars(s, [c \in Chars |-> IF c \in SchemeChars THEN <<c>> ELSE <<"%", c>>])

\* The recipient is trimmed and not encoded.
EmailText(p) ==
    LET subject == IF IsBlank(p.subject) THEN <<>> ELSE <<"subject", "=">> \o EncodeComponent(p.subject)
        body    == IF IsBlank(p.body) THEN <<>> ELSE <<"body", "=">> \o EncodeComponent(p.body)
        both    == IF subject # <<>> /\ body # <<>> THEN <<"&">> ELSE <<>>
    IN  <<"mailto", ":">> \o Trim(p.to)
        \o (IF subject \o body = <<>> THEN <<>> ELSE <<"?">> \o subject \o both \o body)

Encode(p) ==
    CASE p.type = "url"   -> NormalizeUrl(p.url)
      [] p.type = "wifi"  -> WifiText(p)
      [] p.type = "vcard" -> VcardText(p)
      [] p.type = "email" -> EmailText(p)
      [] p.type = "text"  -> p.text

\* qr.Content, of the JSON sent to POST /api/v1/qr: it draws urls only.
ServerDraws(json) == json.type = "url" /\ json.url # <<>>
ServerContent(json) == json.url

-----------------------------------------------------------------------------
(* What a phone reads (external: the three formats) *)

\* A format's words are parted by first, and from then on by next.  What follows a mark
\* stands for itself, or for a line break if it is an "n" and the format breaks lines.
Wifi  == [mark |-> "\\", first |-> ";", next |-> ";", breaks |-> FALSE]
Vcard == [mark |-> "\\", first |-> "\n", next |-> "\n", breaks |-> TRUE]
Email == [mark |-> "%", first |-> "?", next |-> "&", breaks |-> FALSE]

\* One more character, after the words and the part of a word read so far.
Step(s, c, format) ==
    IF s.open
    THEN [s EXCEPT !.open = FALSE,
                   !.word = Append(@, IF c = "n" /\ format.breaks THEN "\n" ELSE c)]
    ELSE IF c = format.mark THEN [s EXCEPT !.open = TRUE]
    ELSE IF c = (IF s.words = {} THEN format.first ELSE format.next)
    THEN [s EXCEPT !.word = <<>>, !.words = @ \cup {s.word}]
    ELSE [s EXCEPT !.word = Append(@, c)]

\* open: a mark was read.
Start == [open |-> FALSE, word |-> <<>>, words |-> {}]

Scan(q, format) ==
    LET at[n \in 0..Len(q)] == IF n = 0 THEN Start ELSE Step(at[n - 1], q[n], format)
    IN  at[Len(q)]

Words(q, format) == Scan(q, format).words \cup {Scan(q, format).word}

\* What follows the key in a word that has it, or nothing.
Value(words, key, sign) ==
    LET found == {w \in words : Len(w) > 1 /\ w[1] = key /\ w[2] = sign}
        word  == CHOOSE w \in found : TRUE
    IN  IF found = {} THEN <<>> ELSE SubSeq(word, 3, Len(word))

ReadWifi(q) ==
    LET fields == Words(SubSeq(q, 3, Len(q)), Wifi) IN
    [ssid |-> Value(fields, "S", ":"), password |-> Value(fields, "P", ":"),
     auth |-> Value(fields, "T", ":"), hidden |-> Value(fields, "H", ":")]

ReadVcard(q) ==
    LET lines == Words(q, Vcard) IN
    [name |-> Value(lines, "FN", ":"), org |-> Value(lines, "ORG", ":")]

ReadEmail(q) ==
    LET parts == Words(q, Email) IN
    [to |-> Value(parts, "mailto", ":"), subject |-> Value(parts, "subject", "="),
     body |-> Value(parts, "body", "=")]

Read(type, q) ==
    CASE type = "wifi"  -> ReadWifi(q)
      [] type = "vcard" -> ReadVcard(q)
      [] type = "email" -> ReadEmail(q)
      [] OTHER -> q

NonBlank(t) == IF IsBlank(t) THEN <<>> ELSE t

\* What its owner means by a payload.
Meaning(p) ==
    CASE p.type = "url"   -> NormalizeUrl(p.url)
      [] p.type = "wifi"  -> [ssid |-> p.ssid, auth |-> <<p.auth>>,
                              password |-> IF p.auth = "nopass" THEN <<>> ELSE p.password,
                              hidden |-> <<IF p.hidden THEN "true" ELSE "false">>]
      [] p.type = "vcard" -> [name |-> p.name, org |-> NonBlank(p.org)]
      [] p.type = "email" -> [to |-> Trim(p.to), subject |-> NonBlank(p.subject),
                              body |-> NonBlank(p.body)]
      [] p.type = "text"  -> p.text
=============================================================================
