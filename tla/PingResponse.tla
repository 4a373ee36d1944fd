---------------------------- MODULE PingResponse ----------------------------
(***************************************************************************)
(* What becomes of the answer to a ping: the second half of queryServer,   *)
(* saveFavicon and decodeBase64 (internal/service/server.go), and the      *)
(* texts of a banner (internal/service/banner.go).                         *)
(*                                                                         *)
(* MOTD and version are sequences of characters, the favicon is one of     *)
(* base64 digits (a digit stands for its index in the alphabet) behind the *)
(* prefix of a data URI.  Layout, colours and padding are left out.        *)
(***************************************************************************)
EXTENDS Integers, Sequences, FiniteSetsExt

CONSTANTS
    Responses,   \* what a ping may bring: motd, version, favicon
    Host,        \* what clients write for {ip}: status.IP, and status.Host too
    Section,     \* the character that starts a formatting code
    Codes,       \* the characters [0-9a-fk-or] that may follow it
    LeadByte, TrailByte, \* the bytes of a character of two bytes
    PngUri,      \* the prefix "data:image/png;base64,"
    DataUri,     \* the prefix "data:" of any other data URI
    Pad,         \* "="
    Foreign,     \* a character that is not in the base64 alphabet
    Pictures,    \* the byte sequences that png.Decode takes
    Word,        \* the number of values of an int (2^64 in the code)
    MaxVersion,  \* bytes of a version that a banner shows (40 in the code)
    None

Digit == 0..63

(* Further on, a prefix is written as the characters that it is made of. *)
PrefixesInFront(favicon) ==
    \A k \in DOMAIN favicon :
        favicon[k] \in {PngUri, DataUri} => k = 1 \/ (k = 2 /\ favicon[1] = PngUri)

ASSUME ResponseAssumption ==
    /\ Responses \subseteq [motd : Seq(STRING), version : Seq(STRING),
                            favicon : Seq(Digit \cup {PngUri, DataUri, Pad, Foreign})]
    /\ {PngUri, DataUri, Pad, Foreign} \cap Digit = {}
    /\ \A res \in Responses : PrefixesInFront(res.favicon)
    /\ Word \in Nat \ {0} /\ Word % 4096 = 0
    /\ MaxVersion \in Nat

(* The two bytes of a character stay together. *)
Whole(s) == \A p \in DOMAIN s : s[p] = LeadByte => p < Len(s) /\ s[p + 1] = TrailByte

(* The answer is JSON, which encoding/json reads as valid UTF-8; an ip is  *)
(* a piece of a URL, which is ASCII and whose escapes fiber leaves be.  An *)
(* ampersand needs no escape there.                                        *)
ASSUME TextAssumption ==
    /\ Host \subseteq Seq(STRING) /\ Section \notin Codes
    /\ {LeadByte, TrailByte} \cap (Codes \cup {Section, "&", "<", ">", "quote", "newline"}) = {}
    /\ LeadByte \notin {"amp;", "lt;", "gt;", "quot;", " ", "..."}
    /\ \A h \in Host : Whole(h)
    /\ \A res \in Responses : Whole(res.motd) /\ Whole(res.version)

VARIABLES
    pc,
    response, status,    \* mcping.PingResponse and types.ServerStatus
    banner,              \* the texts that GenerateBanner has written
    text, i, buffer, bits, decoded, outIdx   \* decodeBase64; i characters are read

loopVars == <<text, i, buffer, bits, decoded, outIdx>>
vars == <<pc, response, status, banner, loopVars>>

-----------------------------------------------------------------------------
(* ReplaceAll of a regexp or of a character: the text is read from the     *)
(* left, and the characters from p to end[p] become by[p].                 *)
ReplaceFrom(s, end, by) ==
    LET rest[p \in 1..(Len(s) + 1)] ==
            IF p > Len(s) THEN <<>> ELSE by[p] \o rest[end[p] + 1]
    IN rest

ReplaceAll(s, end, by) == ReplaceFrom(s, end, by)[1]

-----------------------------------------------------------------------------
(* The MOTD.                                                               *)

(* Both regular expressions begin a match at a section sign and a code. *)
IsCode(s, p) == p < Len(s) /\ s[p] = Section /\ s[p + 1] \in Codes

(* colorCodeRegex: every code is dropped. *)
StripColorCodes(s) ==
    ReplaceAll(s, [p \in DOMAIN s |-> IF IsCode(s, p) THEN p + 1 ELSE p],
                  [p \in DOMAIN s |-> IF IsCode(s, p) THEN <<>> ELSE <<s[p]>>])

(* Mutant: the pattern asks for text behind a code. *)
SpanAtText(s, p) == IsCode(s, p) /\ p + 2 <= Len(s) /\ s[p + 2] # Section

(* Group 2 of colorFormatRegex may be empty. *)
SpanAt(s, p) == IsCode(s, p)

(* The text behind a code goes on to the next section sign. *)
SpanEnd(s, p) ==
    LET signs == {q \in (p + 2)..Len(s) : s[q] = Section}
    IN IF signs = {} THEN Len(s) ELSE Min(signs) - 1

(* Every match becomes a span with the style of its code; what lies        *)
(* between matches stays.  A span is its characters, each with its style.  *)
FormatMOTDHTML(s) ==
    ReplaceAll(s, [p \in DOMAIN s |-> IF SpanAt(s, p) THEN SpanEnd(s, p) ELSE p],
                  [p \in DOMAIN s |-> IF SpanAt(s, p)
                                      THEN [k \in 1..(SpanEnd(s, p) - p - 1) |->
                                               <<s[p + 1], s[p + 1 + k]>>]
                                      ELSE <<<<None, s[p]>>>>])

-----------------------------------------------------------------------------
(* The texts of a banner.                                                  *)

ReplaceEach(s, c, by) ==
    ReplaceAll(s, [p \in DOMAIN s |-> p], [p \in DOMAIN s |-> IF s[p] = c THEN by ELSE <<s[p]>>])

(* Mutant: the ampersand comes last. *)
EscapeXMLAmpLast(s) ==
    ReplaceEach(ReplaceEach(ReplaceEach(ReplaceEach(s,
        "<", <<"&", "lt;">>), ">", <<"&", "gt;">>), "quote", <<"&", "quot;">>), "&", <<"&", "amp;">>)

EscapeXML(s) ==
    ReplaceEach(ReplaceEach(ReplaceEach(ReplaceEach(s,
        "&", <<"&", "amp;">>), "<", <<"&", "lt;">>), ">", <<"&", "gt;">>), "quote", <<"&", "quot;">>)

BannerMotd(st) ==
    EscapeXML(ReplaceEach(IF st.clean = <<>> THEN st.host ELSE st.clean, "newline", <<" ">>))

(* Mutant: cut after escaping. *)
BannerVersionEscapedFirst(version) ==
    LET s == EscapeXML(version)
    IN IF Len(s) > MaxVersion THEN SubSeq(s, 1, MaxVersion) \o <<"...">> ELSE s

(* The version is cut at a byte. *)
BannerVersion(version) ==
    EscapeXML(IF Len(version) > MaxVersion
              THEN SubSeq(version, 1, MaxVersion) \o <<"...">> ELSE version)

(* bgHost, without the "bg: " before it and the port behind it: the ip is  *)
(* not escaped.                                                            *)
BannerAddress(st) == st.host

-----------------------------------------------------------------------------
(* Host and IP are one text in every status: an SRV target, which has its  *)
(* port with it, cannot be dialled (see PingAnswered of StatusRequests).   *)
Offline(host) ==
    [online |-> FALSE, host |-> host, clean |-> <<>>, html |-> <<>>, version |-> <<>>, icon |-> FALSE]

Init ==
    /\ pc = "ping"
    /\ response = None
    /\ \E host \in Host : status = Offline(host)
    /\ banner = None
    /\ text = <<>> /\ i = 0 /\ buffer = 0 /\ bits = 0 /\ decoded = <<>> /\ outIdx = 0

PingFails ==
    /\ pc = "ping"
    /\ pc' = "banner"
    /\ UNCHANGED <<response, status, banner, loopVars>>

PingAnswered ==
    /\ pc = "ping"
    /\ \E res \in Responses :
          /\ response' = res
          /\ status' = [online |-> TRUE, host |-> status.host,
                        clean |-> StripColorCodes(res.motd), html |-> FormatMOTDHTML(res.motd),
                        version |-> res.version, icon |-> FALSE]
          /\ pc' = IF res.favicon = <<>> THEN "banner" ELSE "favicon"
    /\ UNCHANGED <<banner, loopVars>>

StartsWith(s, prefixes) == s # <<>> /\ s[1] \in prefixes

(* TrimPrefix of the PNG data URI; another data URI, or one inside it, is  *)
(* refused.                                                                *)
Trimmed(favicon) == IF StartsWith(favicon, {PngUri}) THEN Tail(favicon) ELSE favicon

FaviconRefused ==
    /\ pc = "favicon"
    /\ StartsWith(Trimmed(response.favicon), {PngUri, DataUri})
    /\ pc' = "banner"
    /\ UNCHANGED <<response, status, banner, loopVars>>

(* Mutant: room as for a text that is padded to groups of four. *)
DecodedLenOfGroups(s) == (Len(s) \div 4) * 3

DecodedLen(s) == (Len(s) * 6) \div 8

DecodeBegin ==
    /\ pc = "favicon"
    /\ LET s == Trimmed(response.favicon)
       IN /\ ~ StartsWith(s, {PngUri, DataUri})
          /\ text' = s
          /\ decoded' = [k \in 1..DecodedLen(s) |-> 0]
    /\ i' = 0 /\ buffer' = 0 /\ bits' = 0 /\ outIdx' = 0
    /\ pc' = "decode"
    /\ UNCHANGED <<response, status, banner>>

(* The search through the alphabet leaves 0 for any other character. *)
Value(c) == IF c \in Digit THEN c ELSE 0

(* Mutant: buffer is a byte. *)
ShiftedByte(c) == (buffer * 64 + Value(c)) % 256

(* buffer is an int: what is shifted out of its word is lost. *)
Shifted(c) == (buffer * 64 + Value(c)) % Word

ReadDigit ==
    /\ pc = "decode"
    /\ i < Len(text)
    /\ text[i + 1] # Pad
    /\ buffer' = Shifted(text[i + 1])
    /\ i' = i + 1

(* 2^b, for the shifts that occur. *)
Scale(b) == CASE b = 0 -> 1 [] b = 2 -> 4 [] OTHER -> 16

(* Not yet eight bits. *)
Collect ==
    /\ ReadDigit
    /\ bits + 6 < 8
    /\ bits' = bits + 6
    /\ UNCHANGED <<pc, response, status, banner, text, decoded, outIdx>>

(* Mutant: the bits of the byte are not taken off. *)
EmitKeepsBits ==
    /\ ReadDigit
    /\ bits + 6 >= 8
    /\ bits' = bits + 6
    /\ IF outIdx < Len(decoded)
       THEN /\ decoded' = [decoded EXCEPT ![outIdx + 1] = (buffer' \div Scale(bits - 2)) % 256]
            /\ outIdx' = outIdx + 1
            /\ UNCHANGED pc
       ELSE pc' = "panicked" /\ UNCHANGED <<decoded, outIdx>>
    /\ UNCHANGED <<response, status, banner, text>>

(* Eight bits: a byte is written.  Behind the slice the write panics, and  *)
(* the recover middleware ends the request.                                *)
Emit ==
    /\ ReadDigit
    /\ bits + 6 >= 8
    /\ bits' = bits - 2
    /\ IF outIdx < Len(decoded)
       THEN /\ decoded' = [decoded EXCEPT ![outIdx + 1] = (buffer' \div Scale(bits - 2)) % 256]
            /\ outIdx' = outIdx + 1
            /\ UNCHANGED pc
       ELSE pc' = "panicked" /\ UNCHANGED <<decoded, outIdx>>
    /\ UNCHANGED <<response, status, banner, text>>

Bytes == SubSeq(decoded, 1, outIdx)

(* The end of the text or its first "=": decoded[:outIdx] goes to          *)
(* png.Decode, and a picture is saved unless its file cannot be created.   *)
DecodeEnd ==
    /\ pc = "decode"
    /\ i < Len(text) => text[i + 1] = Pad
    /\ \E icon \in {FALSE, (Bytes \in Pictures)} : status' = [status EXCEPT !.icon = icon]
    /\ pc' = "banner"
    /\ UNCHANGED <<response, banner, loopVars>>

GenerateBanner ==
    /\ pc = "banner"
    /\ banner' = [motd |-> BannerMotd(status), version |-> BannerVersion(status.version),
                  address |-> BannerAddress(status)]
    /\ pc' = "done"
    /\ UNCHANGED <<response, status, loopVars>>

Next ==
    \/ PingFails \/ PingAnswered
    \/ FaviconRefused \/ DecodeBegin
    \/ Collect \/ Emit \/ DecodeEnd
    \/ GenerateBanner

Spec == Init /\ [][Next]_vars

-----------------------------------------------------------------------------
TypeOK ==
    /\ pc \in {"ping", "favicon", "decode", "panicked", "banner", "done"}
    /\ response \in Responses \cup {None}
    /\ status.online \in BOOLEAN /\ status.icon \in BOOLEAN
    /\ i \in 0..Len(text) /\ outIdx \in 0..Len(decoded)
    /\ bits \in {0, 2, 4, 6}
    /\ buffer \in 0..(Word - 1)
    /\ \A k \in DOMAIN decoded : decoded[k] \in 0..255

(* Whatever a server sends for a favicon, decodeBase64 never writes behind *)
(* its slice, which would cost the client the whole status.                *)
DecodeInBounds == pc # "panicked"

(* RFC 4648: four digits are a group of 24 bits, and a group is three bytes, *)
(* the last ones as far as their bits go.  A text counts up to its padding. *)
DigitCount(s) ==
    CHOOSE n \in 0..Len(s) : /\ \A k \in 1..n : s[k] # Pad
                             /\ n < Len(s) => s[n + 1] = Pad

DigitAt(s, k) == IF k <= Len(s) /\ s[k] \in Digit THEN s[k] ELSE 0

Group(s, g) ==
    262144 * DigitAt(s, 4 * g + 1) + 4096 * DigitAt(s, 4 * g + 2)
        + 64 * DigitAt(s, 4 * g + 3) + DigitAt(s, 4 * g + 4)

ByteOf(group, place) ==
    CASE place = 0 -> group \div 65536
      [] place = 1 -> (group \div 256) % 256
      [] place = 2 -> group % 256

(* Byte m of a text, counted from 0. *)
ByteAt(s, m) == ByteOf(Group(s, m \div 3), m % 3)

ReferenceDecode(s) == [m \in 1..((DigitCount(s) * 6) \div 8) |-> ByteAt(s, m - 1)]

(* What the search through the alphabet makes of a text. *)
AsDigits(s) == [k \in DOMAIN s |-> IF s[k] \in Digit \cup {Pad} THEN s[k] ELSE 0]

(* Whatever a server sends, the bytes that decodeBase64 has written so far *)
(* are those that RFC 4648 has for the text, padded or not, although the   *)
(* buffer overflows on the way.  A character that is not in the alphabet,  *)
(* such as a newline between lines of base64, makes RFC 4648 refuse the    *)
(* text: decodeBase64 goes on, and it counts as the digit 0 ("A").  An     *)
(* icon is linked only if those bytes are a picture and the favicon was    *)
(* not another data URI.                                                   *)
DecodesEveryFavicon ==
    /\ LET sent == ReferenceDecode(AsDigits(text))
       IN outIdx <= Len(sent) /\ \A m \in 1..outIdx : decoded[m] = sent[m]
    /\ status.icon =>
          LET s == Trimmed(response.favicon)
          IN ~ StartsWith(s, {PngUri, DataUri}) /\ ReferenceDecode(AsDigits(s)) \in Pictures

(* The positions of a MOTD that are no part of a code, and the code that   *)
(* the last section sign before one of them belongs to.                    *)
Kept(s) == {p \in DOMAIN s : ~ IsCode(s, p) /\ ~ (p > 1 /\ IsCode(s, p - 1))}

LastSign(s, q, p) == s[q] = Section /\ \A m \in (q + 1)..p : s[m] # Section

StyleAt(s, p) ==
    IF \E q \in 1..p : LastSign(s, q, p) /\ IsCode(s, q)
    THEN s[(CHOOSE q \in 1..p : LastSign(s, q, p)) + 1]
    ELSE None

(* A text tells each of these positions once and in order. *)
TellsInOrder(told, positions, tale) ==
    \E at \in [DOMAIN told -> positions] :
        /\ \A j, k \in DOMAIN told : j < k => at[j] < at[k]
        /\ \A p \in positions : \E k \in DOMAIN told : at[k] = p
        /\ \A k \in DOMAIN told : told[k] = tale[at[k]]

(* Clean and HTML tell the same text: every character that is no part of a *)
(* code, once and in order; in HTML it has the style of the last section   *)
(* sign before it, however the codes follow one another.                   *)
MotdToldTwice ==
    status.online =>
        LET s == response.motd
        IN /\ TellsInOrder(status.clean, Kept(s), s)
           /\ TellsInOrder(status.html, Kept(s), [p \in DOMAIN s |-> <<StyleAt(s, p), s[p]>>])

(* What a reader of XML makes of an escaped text: None if it is no text. *)
Entity == [e \in {"amp;", "lt;", "gt;", "quot;"} |->
              CASE e = "amp;" -> "&" [] e = "lt;" -> "<" [] e = "gt;" -> ">" [] OTHER -> "quote"]

WellFormed(s) ==
    /\ Whole(s)
    /\ \A p \in DOMAIN s : /\ s[p] \notin {"<", ">", "quote"}
                           /\ s[p] = "&" => p < Len(s) /\ s[p + 1] \in DOMAIN Entity

IsEntity(s, p) == p < Len(s) /\ s[p] = "&" /\ s[p + 1] \in DOMAIN Entity

ReadXML(s) ==
    ReplaceAll(s, [p \in DOMAIN s |-> IF IsEntity(s, p) THEN p + 1 ELSE p],
                  [p \in DOMAIN s |-> IF IsEntity(s, p) THEN <<Entity[s[p + 1]]>> ELSE <<s[p]>>])

HasMarkup(s) == \E p \in DOMAIN s : s[p] \in {"&", "<", ">", "quote"}

(* The texts of a banner are well formed and read as they were sent: the   *)
(* MOTD on one line, or the host in its place, the version, cut short, and *)
(* the address.  There are two ways to a banner that is no XML, although   *)
(* it goes out as image/svg+xml (handler/banner.go:52): a version cut in   *)
(* the middle of a character, and markup in the ip, which is not escaped   *)
(* where the address is written (service/banner.go:111).                   *)
BannerReadsBack ==
    banner # None =>
        /\ WellFormed(banner.motd)
        /\ \/ WellFormed(banner.version)
           \/ Len(status.version) > MaxVersion /\ status.version[MaxVersion] = LeadByte
        /\ ReadXML(banner.motd) =
              LET shown == IF status.clean = <<>> THEN status.host ELSE status.clean
              IN [k \in DOMAIN shown |-> IF shown[k] = "newline" THEN " " ELSE shown[k]]
        /\ ReadXML(banner.version) =
              IF Len(status.version) <= MaxVersion THEN status.version
              ELSE SubSeq(status.version, 1, MaxVersion) \o <<"...">>
        /\ \/ WellFormed(banner.address) /\ ReadXML(banner.address) = status.host
           \/ HasMarkup(status.host)
=============================================================================
