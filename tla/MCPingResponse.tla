-------------------------- MODULE MCPingResponse --------------------------
(* Answers to a ping for TLC: every short MOTD, version or favicon over a  *)
(* few characters, one of the three at a time.                             *)
EXTENDS PingResponse

CONSTANTS MaxMotd, MaxVersionSent, MaxFavicon

Texts(chars, max) == UNION {[1..n -> chars] : n \in 0..max}

MotdChars == {"section", "c", "l", "x", "&", "newline"}

(* "iVBO" is how the base64 of a PNG begins; it decodes to 137, 80, 78. *)
FaviconChars == {34, 21, 1, 14, Pad, Foreign}

Favicons ==
    Texts(FaviconChars, MaxFavicon)
    \cup {<<34, 21, 1, 14>> \o s : s \in Texts(FaviconChars, MaxFavicon - 1)}

(* In UTF-8 the two bytes of a character belong together. *)
VersionTexts ==
    {s \in Texts({"1", "&", "<", "head", "tail"}, MaxVersionSent) :
        /\ \A p \in DOMAIN s : s[p] = "head" => p < Len(s) /\ s[p + 1] = "tail"
        /\ \A p \in DOMAIN s : s[p] = "tail" => p > 1 /\ s[p - 1] = "head"}

ResponsesValue ==
    [motd : Texts(MotdChars, MaxMotd), version : {<<>>}, favicon : {<<>>}]
    \cup [motd : {<<"x">>}, version : VersionTexts, favicon : {<<>>}]
    \cup [motd : {<<"x">>}, version : {<<>>},
          favicon : Favicons \cup {<<PngUri>> \o s : s \in Favicons}
              \cup {<<PngUri, DataUri, 34>>, <<DataUri, 34, 21, 1, 14>>}]

HostValue == {<<"m">>, <<"m", "&">>}

PicturesValue == {<<137, 80, 78>>}
=============================================================================
