--------------------------- MODULE StatusRequests ---------------------------
(***************************************************************************)
(* The status, bulk and banner routes (internal/handler/status.go and      *)
(* banner.go) down to queryServer and saveFavicon of                       *)
(* internal/service/server.go: which server a request means, under which   *)
(* key its status is cached, which address is asked, and which icon file   *)
(* is written and shown.                                                   *)
(*                                                                         *)
(* The cache is what StatusCache shows it to be: under each key a status   *)
(* that may be found or have expired, its files included.  Of a status     *)
(* only the server it names, the host that was asked and the icon count.   *)
(***************************************************************************)
EXTENDS Naturals, Sequences

CONSTANTS
    Request,   \* HTTP requests (goroutines), one-shot
    Text,      \* what clients write for a server: a name, and what follows a colon
    PathPort,  \* what clients write for {port} in a path
    Dotted,    \* the names with a dot in them
    Target,    \* what an SRV record may name: a text with a port
    Underscored, \* of a host with a colon, its text with "_" for the colon
    MaxBulk,   \* bound on the servers of a bulk request
    DiskFails, \* whether creating or writing an icon file may fail
    None,      \* no port, no icon, no file, no status
    Junk,      \* a port that is no number
    Torn       \* an icon file cut off, or mixed from two

DefaultPort == 25565

Name == {t.name : t \in Text \cup Target}

Plain(n) == [name |-> n, port |-> None]

(* Host strings: a bare name, or one with a port or junk behind a colon. *)
Host == Text \cup Target \cup {Plain(n) : n \in Name}

Port == {DefaultPort} \cup (({t.port : t \in Text} \cup PathPort) \cap Nat)

ASSUME RequestAssumption ==
    /\ \A t \in Text : t = [name |-> t.name, port |-> t.port]
    /\ \A t \in Text : t.port \in Nat \cup {None, Junk}
    /\ \A t \in Target : t = [name |-> t.name, port |-> t.port] /\ t.port \in Nat
    /\ PathPort \subseteq Nat \cup {None, Junk}
    /\ None \notin Nat /\ Junk \notin Nat /\ None # Junk
    /\ {None, Torn} \cap Request = {} /\ None # Torn
    /\ MaxBulk \in Nat \ {0} /\ DiskFails \in BOOLEAN

(* A server is the ip and the port that GetStatus is called with. *)
Server == Host \X Port

VARIABLES
    cached,    \* CacheService: the status under each key
    file,      \* the icon files: nothing, whose favicon, being written, torn
    pc, ask, todo, status, answers,
               \* requests: where they are, what was asked, the <<text, server>>
               \* pairs left, the status in hand, the <<text, status>> pairs answered
    shown,     \* what GenerateBanner has read for the request's banner
    answered,  \* history: the addresses that have answered a ping
    spoiled    \* history: icon files whose last saves crossed, failed or were killed

requestVars == <<pc, ask, todo, status, answers, shown>>
vars == <<cached, file, requestVars, answered, spoiled>>

(* mcping takes a uint16: an address is a name and a 16-bit port. *)
Address(host, port) == <<host.name, port % 65536>>

Addresses == {Address(h, p) : h \in Host, p \in Port}

-----------------------------------------------------------------------------
(* Strings made of a host and a port.                                      *)

Printed(host, port) ==
    (IF host.port = None THEN <<host.name>> ELSE <<host.name, host.port>>) \o <<port>>

(* Mutant: the key leaves the port out. *)
CacheKeyOfIP(ip, port) == Printed(ip, DefaultPort)

CacheKey(ip, port) == Printed(ip, port)

(* sanitizeFilename writes "_" for every separator, so that another host's *)
(* name may come out.  Names hold no separator themselves: one with a slash*)
(* is never dialled, and an IPv6 address in brackets is left out.          *)
Sanitized(host) == IF host.port = None THEN host.name ELSE Underscored[host]

(* Mutant: one icon per host. *)
IconNameOfHost(host, port) == <<Sanitized(host), DefaultPort>>

(* GetIconPath and GetIconURL. *)
IconName(host, port) == <<Sanitized(host), port>>

CacheKeys == {CacheKey(s[1], s[2]) : s \in Server}
IconNames == {IconName(s[1], s[2]) : s \in Server}

Status == [online : BOOLEAN, host : Host, server : Server, icon : IconNames \cup {None}]

OfflineStatus(server) ==
    [online |-> FALSE, host |-> server[1], server |-> server, icon |-> None]

(* parseHostPort: cut at the colon; Sscanf leaves the default if it finds  *)
(* no number.                                                              *)
ParseHostPort(t) == <<Plain(t.name), IF t.port \in Nat THEN t.port ELSE DefaultPort>>

(* Mutant: a text with a port is taken for a name. *)
ParseServerWhole(t) == <<t, DefaultPort>>

(* parseServer is the same code again. *)
ParseServer(t) == <<Plain(t.name), IF t.port \in Nat THEN t.port ELSE DefaultPort>>

(* The banner handler takes the whole {ip} for the ip. *)
BannerServer(t, p) == <<t, IF p \in Nat THEN p ELSE DefaultPort>>

-----------------------------------------------------------------------------
Routes == {"status", "bulk", "banner"}

Question == [route : Routes, port : PathPort \cup {None}, texts : SUBSET Text]

(* What is nothing or a file is no address, icon, status or question. *)
ASSUME DataAssumption ==
    /\ Addresses \cap (Request \cup {None, Torn}) = {}
    /\ None \notin IconNames \cup Status \cup Question

RequestPc == {"idle", "next", "query", "favicon", "encode", "store", "done"}

TypeOK ==
    /\ cached \in [CacheKeys -> Status \cup {None}]
    /\ file \in [IconNames -> Addresses \cup Request \cup {None, Torn}]
    /\ pc \in [Request -> RequestPc]
    /\ \A r \in Request :
          /\ ask[r] = None \/ ask[r] \in Question
          /\ \A i \in DOMAIN todo[r] : todo[r][i] \in Text \X Server
    /\ status \in [Request -> Status \cup {None}]
    /\ answers \in [Request -> SUBSET (Text \X Status)]
    /\ shown \in [Request -> Addresses \cup Request \cup {None, Torn}]
    /\ answered \in SUBSET Addresses
    /\ spoiled \in SUBSET IconNames

Init ==
    /\ cached = [k \in CacheKeys |-> None]
    /\ file = [f \in IconNames |-> None]
    /\ pc = [r \in Request |-> "idle"]
    /\ ask = [r \in Request |-> None]
    /\ todo = [r \in Request |-> <<>>]
    /\ status = [r \in Request |-> None]
    /\ answers = [r \in Request |-> {}]
    /\ shown = [r \in Request |-> None]
    /\ answered = {}
    /\ spoiled = {}

-----------------------------------------------------------------------------
(* The handlers.  A bulk request without any server is refused at once.    *)

Begin(r, route, p, servers) ==
    /\ pc[r] = "idle"
    /\ pc' = [pc EXCEPT ![r] = "next"]
    /\ ask' = [ask EXCEPT ![r] = [route |-> route, port |-> p,
                                  texts |-> {servers[i][1] : i \in DOMAIN servers}]]
    /\ todo' = [todo EXCEPT ![r] = servers]
    /\ UNCHANGED <<cached, file, status, answers, shown, answered, spoiled>>

(* GetStatus reads {ip} only, on the route with a {port} too. *)
AskStatus(r) ==
    \E t \in Text, p \in PathPort : Begin(r, "status", p, <<<<t, ParseHostPort(t)>>>>)

AskBulk(r) ==
    \E n \in 1..MaxBulk : \E texts \in [1..n -> Text] :
        Begin(r, "bulk", None, [i \in 1..n |-> <<texts[i], ParseServer(texts[i])>>])

AskBanner(r) ==
    \E t \in Text, p \in PathPort : Begin(r, "banner", p, <<<<t, BannerServer(t, p)>>>>)

-----------------------------------------------------------------------------
(* ServerService.GetStatus for the first server left.                      *)

Current(r) == Head(todo[r])[2]

KeyOf(r) == CacheKey(Current(r)[1], Current(r)[2])

(* The answer replaces that of an earlier mention of the same text. *)
Answer(r, st) ==
    LET text == Head(todo[r])[1]
    IN /\ answers' = [answers EXCEPT ![r] = {a \in @ : a[1] # text} \cup {<<text, st>>}]
       /\ todo' = [todo EXCEPT ![r] = Tail(@)]
       /\ pc' = [pc EXCEPT ![r] = "next"]

CacheHit(r) ==
    /\ pc[r] = "next"
    /\ todo[r] # <<>>
    /\ cached[KeyOf(r)] # None
    /\ Answer(r, cached[KeyOf(r)])
    /\ UNCHANGED <<cached, file, ask, status, shown, answered, spoiled>>

(* Nothing there, or nothing fresh. *)
CacheMiss(r) ==
    /\ pc[r] = "next"
    /\ todo[r] # <<>>
    /\ pc' = [pc EXCEPT ![r] = "query"]
    /\ UNCHANGED <<cached, file, ask, todo, status, answers, shown, answered, spoiled>>

IsHostname(ip) == ip.port = None /\ ip.name \in Dotted

(* A text with a colon is no name that DNS knows. *)
LookupSRV(ip) == IF ip.port = None THEN Target ELSE {}

(* The hosts that may be pinged: the SRV record of an ip is only looked up *)
(* if it has no dot or is no host name.                                    *)
Resolved(ip) ==
    IF ip.name \notin Dotted \/ ~ IsHostname(ip) THEN {ip} \cup LookupSRV(ip) ELSE {ip}

(* Mutant: the error gives no status at all. *)
PingFailsEmpty(r) ==
    /\ pc[r] = "query"
    /\ pc' = [pc EXCEPT ![r] = "store"]
    /\ UNCHANGED <<cached, file, ask, todo, status, answers, shown, answered, spoiled>>

(* queryServer turns the error into an offline status. *)
PingFails(r) ==
    /\ pc[r] = "query"
    /\ status' = [status EXCEPT ![r] = OfflineStatus(Current(r))]
    /\ pc' = [pc EXCEPT ![r] = "store"]
    /\ UNCHANGED <<cached, file, ask, todo, answers, shown, answered, spoiled>>

(* A host that has a port already cannot be dialled with another one.  The *)
(* answer has a favicon that decodes, or none.                             *)
PingAnswered(r) ==
    /\ pc[r] = "query"
    /\ \E host \in Resolved(Current(r)[1]) :
          /\ host.port = None
          /\ status' = [status EXCEPT ![r] =
                [online |-> TRUE, host |-> host, server |-> Current(r), icon |-> None]]
          /\ answered' = answered \cup {Address(host, Current(r)[2])}
    /\ pc' \in {[pc EXCEPT ![r] = next] : next \in {"favicon", "store"}}
    /\ UNCHANGED <<cached, file, ask, todo, answers, shown, spoiled>>

-----------------------------------------------------------------------------
(* saveFavicon: os.Create truncates the file that is being served, and     *)
(* png.Encode fills it; nothing keeps two requests from doing so at once.  *)

IconOf(r) == IconName(status[r].host, status[r].server[2])

(* The others that are filling the same file. *)
Crossing(r) == {q \in Request \ {r} : pc[q] = "encode" /\ IconOf(q) = IconOf(r)}

CreateIcon(r) ==
    /\ pc[r] = "favicon"
    /\ file' = [file EXCEPT ![IconOf(r)] = r]
    /\ spoiled' = IF Crossing(r) = {} THEN spoiled ELSE spoiled \cup {IconOf(r)}
    /\ pc' = [pc EXCEPT ![r] = "encode"]
    /\ UNCHANGED <<cached, ask, todo, status, answers, shown, answered>>

(* Mutant: the link is given out although there is no file. *)
CreateIconFailsUnseen(r) ==
    /\ DiskFails
    /\ pc[r] = "favicon"
    /\ status' = [status EXCEPT ![r].icon = IconOf(r)]
    /\ pc' = [pc EXCEPT ![r] = "store"]
    /\ UNCHANGED <<cached, file, ask, todo, answers, shown, answered, spoiled>>

CreateIconFails(r) ==
    /\ DiskFails
    /\ pc[r] = "favicon"
    /\ pc' = [pc EXCEPT ![r] = "store"]
    /\ UNCHANGED <<cached, file, ask, todo, status, answers, shown, answered, spoiled>>

EncodeEnds(r, content) ==
    /\ file' = [file EXCEPT ![IconOf(r)] = content]
    /\ status' = [status EXCEPT ![r].icon = IconOf(r)]
    /\ pc' = [pc EXCEPT ![r] = "store"]
    /\ UNCHANGED <<cached, ask, todo, answers, shown, answered>>

(* What is in the file when png.Encode returns: another Create or another  *)
(* Encode in between leaves this picture, or a mixture.                    *)
Uncrossed(r) == file[IconOf(r)] = r /\ Crossing(r) = {}

Picture(r) == Address(status[r].host, status[r].server[2])

(* Mutant: the picture is not flushed before the link is given out. *)
EncodeIconLate(r) ==
    /\ pc[r] = "encode"
    /\ \E content \in {Picture(r), Torn} : EncodeEnds(r, content)
    /\ spoiled' = IF Uncrossed(r) THEN spoiled \ {IconOf(r)} ELSE spoiled \cup {IconOf(r)}

EncodeIcon(r) ==
    /\ pc[r] = "encode"
    /\ \/ /\ Uncrossed(r)
          /\ EncodeEnds(r, Picture(r))
          /\ spoiled' = spoiled \ {IconOf(r)}
       \/ /\ ~ Uncrossed(r)
          /\ \E content \in {Picture(r), Torn} : EncodeEnds(r, content)
          /\ spoiled' = spoiled \cup {IconOf(r)}

(* The error of png.Encode is ignored. *)
EncodeFails(r) ==
    /\ DiskFails
    /\ pc[r] = "encode"
    /\ EncodeEnds(r, Torn)
    /\ spoiled' = spoiled \cup {IconOf(r)}

-----------------------------------------------------------------------------
Store(r) ==
    /\ pc[r] = "store"
    /\ cached' = [cached EXCEPT ![KeyOf(r)] = status[r]]
    /\ Answer(r, status[r])
    /\ status' = [status EXCEPT ![r] = None]
    /\ UNCHANGED <<file, ask, shown, answered, spoiled>>

Respond(r) ==
    /\ pc[r] = "next"
    /\ todo[r] = <<>>
    /\ ask[r].route # "banner"
    /\ pc' = [pc EXCEPT ![r] = "done"]
    /\ UNCHANGED <<cached, file, ask, todo, status, answers, shown, answered, spoiled>>

(* GenerateBanner embeds the icon file as it is at this moment. *)
DrawBanner(r) ==
    /\ pc[r] = "next"
    /\ todo[r] = <<>>
    /\ ask[r].route = "banner"
    /\ \E a \in answers[r] :
          shown' = [shown EXCEPT ![r] = IF a[2].icon = None THEN None ELSE file[a[2].icon]]
    /\ pc' = [pc EXCEPT ![r] = "done"]
    /\ UNCHANGED <<cached, file, ask, todo, status, answers, answered, spoiled>>

(* The program ends and starts again: the requests are lost, the files of  *)
(* the cache and of the icons stay, cut off or mixed if they were written. *)
Restart ==
    /\ \E r \in Request : pc[r] \notin {"idle", "done"}
    /\ pc' = [r \in Request |-> IF pc[r] = "idle" THEN "idle" ELSE "done"]
    /\ todo' = [r \in Request |-> <<>>]
    /\ status' = [r \in Request |-> None]
    /\ answers' = [r \in Request |-> IF pc[r] = "done" THEN answers[r] ELSE {}]
    /\ LET started == {f \in IconNames : file[f] \in Request}
           open == {IconOf(r) : r \in {q \in Request : pc[q] = "encode"}}
       IN /\ \E cut \in {started, started \cup open} :
                file' = [f \in IconNames |-> IF f \in cut THEN Torn ELSE file[f]]
          /\ spoiled' = spoiled \cup open
    /\ UNCHANGED <<cached, ask, shown, answered>>

RequestStep(r) ==
    \/ AskStatus(r) \/ AskBulk(r) \/ AskBanner(r)
    \/ CacheHit(r) \/ CacheMiss(r)
    \/ PingFails(r) \/ PingAnswered(r)
    \/ CreateIcon(r) \/ CreateIconFails(r) \/ EncodeIcon(r) \/ EncodeFails(r)
    \/ Store(r) \/ Respond(r) \/ DrawBanner(r)

Next == Restart \/ \E r \in Request : RequestStep(r)

Spec == Init /\ [][Next]_vars

-----------------------------------------------------------------------------
(* Safety.                                                                 *)

PortOr(p) == IF p \in Nat THEN p ELSE DefaultPort

(* A port that is left out, or one that there may be. *)
ProperPort(p) == p = None \/ p \in 0..65535

(* Each text of a request is answered once.  If its port is proper, the    *)
(* status is that of the server that it names, whoever asked and put it    *)
(* into the cache.  In any case it is online only if the address that was  *)
(* asked, which has that name, has answered.  The banner routes take a     *)
(* colon for part of the name.  task.md:88 and 866 want 400 for a bad port:*)
(* the code answers for the default port, or for the lower 16 bits.        *)
AnswerFitsQuestion ==
    \A r \in Request :
        /\ \A a, b \in answers[r] : a[1] = b[1] => a = b
        /\ pc[r] = "next" /\ todo[r] = <<>> => {a[1] : a \in answers[r]} = ask[r].texts
        /\ \A a \in answers[r] : LET t == a[1] st == a[2] IN
              /\ IF ask[r].route = "banner"
                 THEN ProperPort(ask[r].port) => st.server = <<t, PortOr(ask[r].port)>>
                 ELSE ProperPort(t.port) => st.server = <<Plain(t.name), PortOr(t.port)>>
              /\ st.online => /\ st.host.name = t.name
                              /\ Address(st.host, st.server[2]) \in answered

Linked == {st \in {cached[k] : k \in CacheKeys} \cup {a[2] : a \in UNION {answers[r] : r \in Request}} :
             st # None /\ st.icon # None}

(* An icon link that is cached or has been given to a client leads to a    *)
(* file, also after failed saves and restarts.                             *)
IconLinkResolves == \A st \in Linked : file[st.icon] # None

(* The file behind a link is the whole icon of that very server whenever   *)
(* nobody is saving it, unless its last saves crossed, failed or were      *)
(* killed.                                                                 *)
IconsWhole ==
    \A st \in Linked :
        \/ st.icon \in spoiled
        \/ \E r \in Request : pc[r] = "encode" /\ IconOf(r) = st.icon
        \/ file[st.icon] = Address(st.host, st.server[2])

(* A banner that shows an icon shows the one of the server it is about,    *)
(* although the file is read some time after the status was cached.        *)
BannerShowsOwnIcon ==
    \A r \in Request : shown[r] \in Addresses =>
        \A a \in answers[r] : shown[r] = Address(a[2].host, a[2].server[2])

(* The status of a server at a given port is that of the port in the path. *)
PortInPathAnswered ==
    \A r \in Request : ask[r] # None /\ ask[r].route = "status" /\ ask[r].port \in Nat =>
        \A a \in answers[r] : a[2].server[2] = ask[r].port
=============================================================================
