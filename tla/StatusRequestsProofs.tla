------------------------ MODULE StatusRequestsProofs ------------------------
(* Whose status a client is given and whose icon it is shown, for any      *)
(* requests, texts, ports and SRV records.                                 *)
EXTENDS StatusRequests, Integers, SequenceTheorems, TLAPS

Types ==
    /\ cached \in [CacheKeys -> Status \cup {None}]
    /\ file \in [IconNames -> Addresses \cup Request \cup {None, Torn}]
    /\ pc \in [Request -> RequestPc]
    /\ ask \in [Request -> Question \cup {None}]
    /\ todo \in [Request -> Seq(Text \X Server)]
    /\ status \in [Request -> Status \cup {None}]
    /\ answers \in [Request -> SUBSET (Text \X Status)]
    /\ shown \in [Request -> Addresses \cup Request \cup {None, Torn}]
    /\ answered \in SUBSET Addresses
    /\ spoiled \in SUBSET IconNames

(* The server that a text of a question means. *)
Meant(q, t) ==
    IF q.route = "banner" THEN <<t, PortOr(q.port)>> ELSE <<Plain(t.name), PortOr(t.port)>>

(* Hosts that can be dialled: no port follows them. *)
Dialled == {h \in Host : h.port = None}

(* A status is of its own server, online only if that has answered, and    *)
(* its icon is that server's, of a host that was dialled, and is there.    *)
StatusInv(st) ==
    /\ st.host = st.server[1]
    /\ st.online => Address(st.host, st.server[2]) \in answered
    /\ st.icon # None =>
          st.host \in Dialled /\ st.icon = IconName(st.host, st.server[2]) /\ file[st.icon] # None

(* Under a key there is the status of the one server that has this key. *)
CacheInv ==
    \A k \in CacheKeys : cached[k] # None =>
        StatusInv(cached[k]) /\ CacheKey(cached[k].server[1], cached[k].server[2]) = k

(* The file of an icon has no other server's picture, and is whole unless  *)
(* it is spoiled or just being written.                                    *)
FileInv(h, p) ==
    LET f == IconName(h, p)
    IN /\ file[f] \in Addresses => file[f] = Address(h, p)
       /\ \/ file[f] \in {None, Address(h, p)}
          \/ f \in spoiled
          \/ \E r \in Request : pc[r] = "encode" /\ IconOf(r) = f

TodoTexts(r) == {todo[r][i][1] : i \in DOMAIN todo[r]}

(* A request has a status of the server at the head of its list in hand. *)
HandInv(r) ==
    /\ pc[r] \in {"query", "favicon", "encode", "store"} => todo[r] # <<>>
    /\ pc[r] \in {"favicon", "encode", "store"} =>
          status[r] # None /\ status[r].server = Current(r) /\ StatusInv(status[r])
    /\ pc[r] \in {"favicon", "encode"} => status[r].host \in Dialled
    /\ pc[r] = "encode" => file[IconOf(r)] # None
    /\ \A i \in DOMAIN todo[r] : todo[r][i][2] = Meant(ask[r], todo[r][i][1])

(* What it has answered and what is left make up what was asked. *)
AnswersInv(r) ==
    /\ pc[r] = "idle" => todo[r] = <<>> /\ answers[r] = {}
    /\ ask[r] = None => todo[r] = <<>> /\ answers[r] = {}
    /\ pc[r] \notin {"idle", "done"} =>
          ask[r] # None /\ {a[1] : a \in answers[r]} \cup TodoTexts(r) = ask[r].texts
    /\ \A a \in answers[r] : a[2].server = Meant(ask[r], a[1]) /\ StatusInv(a[2])
    /\ \A a, b \in answers[r] : a[1] = b[1] => a = b

(* A banner is about one server, whose icon it shows. *)
BannerInv(r) ==
    /\ ask[r] # None /\ ask[r].route = "banner" =>
          /\ \A s, t \in ask[r].texts : s = t
          /\ \A a, b \in answers[r] : a = b
    /\ pc[r] # "done" => shown[r] = None
    /\ shown[r] \in Addresses =>
          \A a \in answers[r] : shown[r] = Address(a[2].host, a[2].server[2])

RequestInv(r) == HandInv(r) /\ AnswersInv(r) /\ BannerInv(r)

IndInv ==
    /\ Types
    /\ CacheInv
    /\ \A h \in Dialled, p \in Port : FileInv(h, p)
    /\ \A r \in Request : RequestInv(r)

-----------------------------------------------------------------------------
(* Keys and icon names.                                                    *)

LEMMA HostShape ==
  ASSUME NEW h \in Host
  PROVE  h = [name |-> h.name, port |-> h.port] /\ h.name \in Name /\ h.port \in Nat \cup {None, Junk}
<1>1. CASE h \in Text
  BY <1>1, RequestAssumption DEF Name
<1>2. CASE h \in Target
  BY <1>2, RequestAssumption DEF Name
<1>3. CASE h \in {Plain(n) : n \in Name}
  BY <1>3 DEF Plain
<1> QED
  BY <1>1, <1>2, <1>3 DEF Host

LEMMA PairOf == ASSUME NEW a, NEW b PROVE <<a>> \o <<b>> = <<a, b>>
<1> DEFINE S == {a, b}
<1>1. <<a>> \in Seq(S) /\ <<b>> \in Seq(S) /\ <<a, b>> \in Seq(S)
  OBVIOUS
<1>2. PICK s \in Seq(S) : s = <<a>> \o <<b>>
  BY <1>1, ConcatProperties
<1>3. Len(s) = 2 /\ s[1] = a /\ s[2] = b
  BY <1>1, <1>2, ConcatProperties
<1>4. Len(<<a, b>>) = 2 /\ \A i \in 1..Len(s) : s[i] = <<a, b>>[i]
  BY <1>3
<1>5. s = <<a, b>>
  BY <1>1, <1>3, <1>4, SeqEqual
<1> QED
  BY <1>2, <1>5

LEMMA TripleOf == ASSUME NEW a, NEW b, NEW c PROVE <<a, b>> \o <<c>> = <<a, b, c>>
<1> DEFINE S == {a, b, c}
<1>1. <<a, b>> \in Seq(S) /\ <<c>> \in Seq(S) /\ <<a, b, c>> \in Seq(S)
  OBVIOUS
<1>2. PICK s \in Seq(S) : s = <<a, b>> \o <<c>>
  BY <1>1, ConcatProperties
<1>3. Len(s) = 3 /\ s[1] = a /\ s[2] = b /\ s[3] = c
  BY <1>1, <1>2, ConcatProperties
<1>4. Len(<<a, b, c>>) = 3 /\ \A i \in 1..Len(s) : s[i] = <<a, b, c>>[i]
  BY <1>3
<1>5. s = <<a, b, c>>
  BY <1>1, <1>3, <1>4, SeqEqual
<1> QED
  BY <1>2, <1>5

LEMMA PrintedShape ==
  ASSUME NEW h, NEW p
  PROVE  Printed(h, p) = IF h.port = None THEN <<h.name, p>> ELSE <<h.name, h.port, p>>
  BY PairOf, TripleOf DEF Printed

(* What is printed determines the host and the port. *)
LEMMA PrintedInjective ==
  ASSUME NEW h \in Host, NEW k \in Host, NEW p \in Port, NEW q \in Port, Printed(h, p) = Printed(k, q)
  PROVE  h = k /\ p = q
<1>1. CASE h.port = None /\ k.port = None
  <2>1. <<h.name, p>> = <<k.name, q>>
    BY <1>1, PrintedShape
  <2>2. h.name = k.name /\ p = q
    BY <2>1
  <2> QED
    BY <1>1, <2>2, HostShape
<1>2. CASE h.port # None /\ k.port # None
  <2>1. <<h.name, h.port, p>> = <<k.name, k.port, q>>
    BY <1>2, PrintedShape
  <2>2. h.name = k.name /\ h.port = k.port /\ p = q
    BY <2>1
  <2> QED
    BY <2>2, HostShape
<1>3. CASE h.port = None /\ k.port # None
  <2>1. <<h.name, p>> = <<k.name, k.port, q>>
    BY <1>3, PrintedShape
  <2>2. Len(<<h.name, p>>) = 2 /\ Len(<<k.name, k.port, q>>) = 3
    OBVIOUS
  <2> QED
    BY <2>1, <2>2
<1>4. CASE h.port # None /\ k.port = None
  <2>1. <<h.name, h.port, p>> = <<k.name, q>>
    BY <1>4, PrintedShape
  <2>2. Len(<<h.name, h.port, p>>) = 3 /\ Len(<<k.name, q>>) = 2
    OBVIOUS
  <2> QED
    BY <2>1, <2>2
<1> QED
  BY <1>1, <1>2, <1>3, <1>4

LEMMA ServerParts == ASSUME NEW s \in Server PROVE s[1] \in Host /\ s[2] \in Port /\ s = <<s[1], s[2]>>
  BY DEF Server

LEMMA PortsAreNaturals == Port \subseteq Nat
  BY DEF Port, DefaultPort

LEMMA KeysAndNames ==
  ASSUME NEW h \in Host, NEW p \in Port
  PROVE  CacheKey(h, p) \in CacheKeys /\ IconName(h, p) \in IconNames /\ Address(h, p) \in Addresses
<1>1. <<h, p>> \in Server
  BY DEF Server
<1> QED
  BY <1>1 DEF CacheKeys, IconNames, Addresses

(* Of the hosts that can be dialled: another host may share a file name    *)
(* with one of them, but never has an icon.                                *)
LEMMA IconNameInjective ==
  ASSUME NEW h \in Dialled, NEW k \in Dialled, NEW p \in Port, NEW q \in Port, IconName(h, p) = IconName(k, q)
  PROVE  h = k /\ p = q
<1>1. h \in Host /\ k \in Host /\ h.port = None /\ k.port = None
  BY DEF Dialled
<1>2. <<h.name, p>> = <<k.name, q>>
  BY <1>1 DEF IconName, Sanitized
<1>3. h.name = k.name /\ p = q
  BY <1>2
<1> QED
  BY <1>1, <1>3, HostShape

LEMMA CacheKeyInjective ==
  ASSUME NEW s \in Server, NEW t \in Server, CacheKey(s[1], s[2]) = CacheKey(t[1], t[2])
  PROVE  s = t
  BY PrintedInjective, ServerParts DEF CacheKey

(* What the handlers make of a text is a server. *)
LEMMA MeantServer ==
  ASSUME NEW q \in Question, NEW t \in Text
  PROVE  Meant(q, t) \in Server
<1>1. t \in Host /\ Plain(t.name) \in Host
  BY DEF Host, Name
<1>2. PortOr(q.port) \in Port
  <2>1. q.port \in PathPort \cup {None}
    BY DEF Question
  <2>2. None \notin Nat
    BY RequestAssumption
  <2> QED
    BY <2>1, <2>2 DEF PortOr, Port
<1>3. PortOr(t.port) \in Port
  BY DEF PortOr, Port
<1> QED
  BY <1>1, <1>2, <1>3 DEF Meant, Server

-----------------------------------------------------------------------------
(* What a step leaves of the others.                                       *)

Same(u) ==
    /\ pc'[u] = pc[u] /\ ask'[u] = ask[u] /\ todo'[u] = todo[u]
    /\ status'[u] = status[u] /\ answers'[u] = answers[u] /\ shown'[u] = shown[u]

(* Servers that have answered are remembered and icon files stay. *)
Grows ==
    /\ answered \subseteq answered'
    /\ \A f \in IconNames : file[f] # None => file'[f] # None

LEMMA NoneIsNothing ==
    /\ None \notin IconNames /\ None \notin Status /\ None \notin Question
    /\ None \notin Addresses /\ None \notin Request /\ Torn \notin Addresses /\ None # Torn
    /\ Addresses \cap Request = {}
  BY DataAssumption, RequestAssumption

LEMMA StatusParts ==
  ASSUME NEW st \in Status
  PROVE  /\ st.host \in Host /\ st.server \in Server /\ st.server[1] \in Host /\ st.server[2] \in Port
         /\ st.icon \in IconNames \cup {None} /\ st.online \in BOOLEAN
<1>1. st.host \in Host /\ st.server \in Server /\ st.icon \in IconNames \cup {None} /\ st.online \in BOOLEAN
  BY DEF Status
<1> QED
  BY <1>1, ServerParts

LEMMA StatusLater ==
  ASSUME Grows, NEW st \in Status, StatusInv(st)
  PROVE  StatusInv(st)'
<1>1. st.icon \in IconNames \cup {None}
  BY StatusParts
<1> QED
  BY <1>1 DEF StatusInv, Grows

LEMMA LaterRequest ==
  ASSUME Types, Grows, NEW u \in Request, RequestInv(u), Same(u)
  PROVE  RequestInv(u)'
<1>1. HandInv(u)'
  <2>1. CASE pc[u] \in {"favicon", "encode", "store"}
    <3>1. PICK st \in Status : st = status[u]
      BY <2>1 DEF Types, RequestInv, HandInv
    <3>2. StatusInv(st)'
      BY <2>1, <3>1, StatusLater DEF RequestInv, HandInv
    <3>3. StatusInv(status[u])'
      BY <3>1, <3>2 DEF StatusInv, Same
    <3>4. IconName(st.host, st.server[2]) \in IconNames
      BY KeysAndNames, StatusParts
    <3>5. pc[u] = "encode" => file'[IconOf(u)] # None /\ IconOf(u)' = IconOf(u)
      BY <3>1, <3>4 DEF RequestInv, HandInv, Grows, IconOf, Same
    <3> QED
      BY <2>1, <3>3, <3>5 DEF RequestInv, HandInv, Same, Current
  <2>2. CASE pc[u] \notin {"favicon", "encode", "store"}
    BY <2>2 DEF RequestInv, HandInv, Same
  <2> QED
    BY <2>1, <2>2
<1>2. AnswersInv(u)'
  <2>1. ASSUME NEW a \in answers[u] PROVE (a[2].server = Meant(ask[u], a[1]) /\ StatusInv(a[2]))'
    <3>1. a[2] \in Status
      BY DEF Types
    <3>2. PICK st \in Status : st = a[2]
      BY <3>1
    <3>3. StatusInv(st)'
      BY <3>2, StatusLater DEF RequestInv, AnswersInv
    <3> QED
      BY <3>2, <3>3 DEF RequestInv, AnswersInv, StatusInv, Same
  <2> QED
    BY <2>1 DEF RequestInv, AnswersInv, Same, TodoTexts
<1>3. BannerInv(u)'
  BY DEF RequestInv, BannerInv, Same
<1> QED
  BY <1>1, <1>2, <1>3 DEF RequestInv

LEMMA LaterCache ==
  ASSUME Types, Grows, CacheInv, UNCHANGED cached
  PROVE  CacheInv'
<1> SUFFICES ASSUME NEW k \in CacheKeys, cached[k] # None
             PROVE  (StatusInv(cached[k]) /\ CacheKey(cached[k].server[1], cached[k].server[2]) = k)'
  BY DEF CacheInv
<1>1. PICK st \in Status : st = cached[k]
  BY DEF Types
<1>2. StatusInv(st)'
  BY <1>1, StatusLater DEF CacheInv
<1> QED
  BY <1>1, <1>2 DEF CacheInv, StatusInv

(* Icon files that are left alone. *)
LEMMA LaterFile ==
  ASSUME Types, NEW h \in Dialled, NEW p \in Port, FileInv(h, p),
         file'[IconName(h, p)] = file[IconName(h, p)],
         IconName(h, p) \in spoiled => IconName(h, p) \in spoiled',
         \A u \in Request : pc[u] = "encode" /\ IconOf(u) = IconName(h, p) =>
             pc'[u] = "encode" /\ status'[u] = status[u]
  PROVE  FileInv(h, p)'
  BY DEF FileInv, IconOf

-----------------------------------------------------------------------------
(* The questions.                                                          *)

AskStep(r) == AskStatus(r) \/ AskBulk(r) \/ AskBanner(r)

Asked(r, q, servers) ==
    /\ pc[r] = "idle" /\ pc' = [pc EXCEPT ![r] = "next"]
    /\ ask' = [ask EXCEPT ![r] = q]
    /\ todo' = [todo EXCEPT ![r] = servers]
    /\ q.texts = {servers[i][1] : i \in DOMAIN servers}
    /\ \A i \in DOMAIN servers : servers[i][2] = Meant(q, servers[i][1])
    /\ q.route = "banner" => \A s, t \in q.texts : s = t
    /\ UNCHANGED <<cached, file, status, answers, shown, answered, spoiled>>

LEMMA OneServer ==
  ASSUME NEW t \in Text, NEW s \in Server
  PROVE  /\ <<<<t, s>>>> \in Seq(Text \X Server)
         /\ {<<<<t, s>>>>[i][1] : i \in DOMAIN <<<<t, s>>>>} = {t}
         /\ \A i \in DOMAIN <<<<t, s>>>> : <<<<t, s>>>>[i] = <<t, s>>
<1>1. <<<<t, s>>>> \in Seq(Text \X Server) /\ DOMAIN <<<<t, s>>>> = {1} /\ <<<<t, s>>>>[1] = <<t, s>>
  OBVIOUS
<1> QED
  BY <1>1

LEMMA AskedOne ==
  ASSUME NEW r \in Request, NEW route \in Routes, NEW p \in PathPort \cup {None}, NEW t \in Text, NEW s \in Server,
         Begin(r, route, p, <<<<t, s>>>>),
         s = Meant([route |-> route, port |-> p, texts |-> {t}], t)
  PROVE  \E q \in Question, servers \in Seq(Text \X Server) : Asked(r, q, servers)
<1> DEFINE q == [route |-> route, port |-> p, texts |-> {t}]
           servers == <<<<t, s>>>>
<1>1. q \in Question /\ q.texts = {t}
  BY DEF Question
<1>2. servers \in Seq(Text \X Server) /\ {servers[i][1] : i \in DOMAIN servers} = {t}
      /\ \A i \in DOMAIN servers : servers[i] = <<t, s>>
  BY OneServer
<1>3. ask' = [ask EXCEPT ![r] = q]
  BY <1>2 DEF Begin
<1>4. \A i \in DOMAIN servers : servers[i][2] = Meant(q, servers[i][1])
  BY <1>2
<1>5. Asked(r, q, servers)
  <2> HIDE DEF q, servers
  <2> QED
    BY <1>1, <1>2, <1>3, <1>4 DEF Asked, Begin, servers
<1> QED
  BY <1>1, <1>2, <1>5

LEMMA AskShape ==
  ASSUME NEW r \in Request, AskStep(r)
  PROVE  \E q \in Question, servers \in Seq(Text \X Server) : Asked(r, q, servers)
<1>1. CASE AskStatus(r)
  <2>1. PICK t \in Text, p \in PathPort : Begin(r, "status", p, <<<<t, ParseHostPort(t)>>>>)
    BY <1>1 DEF AskStatus
  <2>2. ParseHostPort(t) = Meant([route |-> "status", port |-> p, texts |-> {t}], t)
    BY DEF ParseHostPort, Meant, PortOr
  <2>3. ParseHostPort(t) \in Server
    BY <2>2, MeantServer DEF Question, Routes
  <2> QED
    BY <2>1, <2>2, <2>3, AskedOne DEF Routes
<1>2. CASE AskBanner(r)
  <2>1. PICK t \in Text, p \in PathPort : Begin(r, "banner", p, <<<<t, BannerServer(t, p)>>>>)
    BY <1>2 DEF AskBanner
  <2>2. BannerServer(t, p) = Meant([route |-> "banner", port |-> p, texts |-> {t}], t)
    BY DEF BannerServer, Meant, PortOr
  <2>3. BannerServer(t, p) \in Server
    BY <2>2, MeantServer DEF Question, Routes
  <2> QED
    BY <2>1, <2>2, <2>3, AskedOne DEF Routes
<1>3. CASE AskBulk(r)
  <2>1. PICK n \in 1..MaxBulk : \E texts \in [1..n -> Text] :
            Begin(r, "bulk", None, [i \in 1..n |-> <<texts[i], ParseServer(texts[i])>>])
    BY <1>3 DEF AskBulk
  <2>2. PICK texts \in [1..n -> Text] : Begin(r, "bulk", None, [i \in 1..n |-> <<texts[i], ParseServer(texts[i])>>])
    BY <2>1
  <2> DEFINE servers == [i \in 1..n |-> <<texts[i], ParseServer(texts[i])>>]
             q == [route |-> "bulk", port |-> None, texts |-> {servers[i][1] : i \in DOMAIN servers}]
  <2>3. \A i \in 1..n : texts[i] \in Text
    OBVIOUS
  <2>4. \A t \in Text : ParseServer(t) = Meant(q, t)
    BY DEF ParseServer, Meant, PortOr
  <2>5. \A t \in Text : ParseServer(t) \in Server
    <3> SUFFICES ASSUME NEW t \in Text PROVE ParseServer(t) \in Server
      OBVIOUS
    <3>1. Plain(t.name) \in Host /\ PortOr(t.port) \in Port
      BY DEF Host, Name, PortOr, Port
    <3> QED
      BY <3>1 DEF ParseServer, PortOr, Server
  <2>6. servers \in [1..n -> Text \X Server] /\ n \in Nat
    BY <2>3, <2>5
  <2>7. servers \in Seq(Text \X Server) /\ DOMAIN servers = 1..n
    BY <2>6
  <2>8. q \in Question
    <3>1. {servers[i][1] : i \in DOMAIN servers} \subseteq Text
      BY <2>3
    <3> QED
      BY <3>1 DEF Question, Routes
  <2>9. \A i \in DOMAIN servers : servers[i][2] = Meant(q, servers[i][1])
    BY <2>3, <2>4
  <2>10. q.route # "banner" /\ q.texts = {servers[i][1] : i \in DOMAIN servers}
    OBVIOUS
  <2>11. Begin(r, "bulk", None, servers)
    BY <2>2
  <2>12. ask' = [ask EXCEPT ![r] = q]
    BY <2>11 DEF Begin
  <2>13. Asked(r, q, servers)
    <3> HIDE DEF q, servers
    <3> QED
      BY <2>9, <2>10, <2>11, <2>12 DEF Asked, Begin
  <2> QED
    BY <2>7, <2>8, <2>13
<1> QED
  BY <1>1, <1>2, <1>3 DEF AskStep

LEMMA OwnAsk ==
  ASSUME Types, NEW r \in Request, RequestInv(r), AskStep(r)
  PROVE  Types' /\ RequestInv(r)' /\ Grows /\ UNCHANGED <<cached, file, status, answered, spoiled>>
         /\ pc[r] # "encode" /\ pc'[r] # "encode"
<1>1. PICK q \in Question, servers \in Seq(Text \X Server) : Asked(r, q, servers)
  BY AskShape
<1>2. Types'
  BY <1>1 DEF Types, Asked, RequestPc
<1>3. pc[r] = "idle" /\ pc'[r] = "next" /\ ask'[r] = q /\ todo'[r] = servers /\ answers[r] = {} /\ shown[r] = None
      /\ UNCHANGED <<cached, file, status, answers, shown, answered, spoiled>>
  BY <1>1 DEF Types, Asked, RequestInv, AnswersInv, BannerInv
<1>4. HandInv(r)'
  BY <1>1, <1>3 DEF HandInv, Asked
<1>5. AnswersInv(r)'
  BY <1>1, <1>3, NoneIsNothing DEF AnswersInv, TodoTexts, Asked
<1>6. BannerInv(r)'
  BY <1>1, <1>3, NoneIsNothing DEF BannerInv, Asked
<1> QED
  BY <1>2, <1>3, <1>4, <1>5, <1>6 DEF RequestInv, Grows

-----------------------------------------------------------------------------
(* What a step of one request comes to.                                    *)

LEMMA OthersSame ==
  ASSUME Types, NEW r \in Request, RequestStep(r), NEW u \in Request \ {r}
  PROVE  Same(u)
<1>1. CASE AskStep(r)
  BY <1>1, AskShape DEF Asked, Types, Same
<1>2. CASE CacheHit(r) \/ Store(r)
  BY <1>2 DEF CacheHit, Store, Answer, Types, Same
<1>3. CASE CacheMiss(r) \/ PingFails(r) \/ CreateIcon(r) \/ CreateIconFails(r) \/ Respond(r)
  BY <1>3 DEF CacheMiss, PingFails, CreateIcon, CreateIconFails, Respond, Types, Same
<1>4. CASE PingAnswered(r)
  BY <1>4 DEF PingAnswered, Types, Same
<1>5. CASE EncodeIcon(r) \/ EncodeFails(r)
  BY <1>5 DEF EncodeIcon, EncodeFails, EncodeEnds, Types, Same
<1>6. CASE DrawBanner(r)
  BY <1>6 DEF DrawBanner, Types, Same
<1> QED
  BY <1>1, <1>2, <1>3, <1>4, <1>5, <1>6 DEF RequestStep, AskStep

Others(r) == \A u \in Request \ {r} : Same(u)

LEMMA OtherRequests ==
  ASSUME IndInv, NEW r \in Request, Others(r), Grows, RequestInv(r)'
  PROVE  (\A u \in Request : RequestInv(u))'
<1> SUFFICES ASSUME NEW u \in Request PROVE RequestInv(u)'
  OBVIOUS
<1>1. Types /\ RequestInv(u)
  BY DEF IndInv
<1>2. CASE u # r
  BY <1>1, <1>2, LaterRequest DEF Others
<1> QED
  BY <1>2

(* A step that touches neither the cache nor an icon file. *)
LEMMA QuietStep ==
  ASSUME IndInv, NEW r \in Request, Others(r), Grows, Types', RequestInv(r)', pc[r] # "encode",
         UNCHANGED <<cached, file, spoiled>>
  PROVE  IndInv'
<1>1. Types /\ CacheInv /\ \A h \in Dialled, p \in Port : FileInv(h, p)
  BY DEF IndInv
<1>2. CacheInv'
  BY <1>1, LaterCache
<1>3. ASSUME NEW h \in Dialled, NEW p \in Port PROVE FileInv(h, p)'
  <2>1. \A u \in Request : pc[u] = "encode" => pc'[u] = "encode" /\ status'[u] = status[u]
    BY DEF Others, Same
  <2> QED
    BY <1>1, <2>1, LaterFile
<1>4. (\A h \in Dialled, p \in Port : FileInv(h, p))'
  BY <1>3
<1> QED
  BY <1>2, <1>4, OtherRequests DEF IndInv

LEMMA CurrentServer ==
  ASSUME Types, NEW r \in Request, todo[r] # <<>>
  PROVE  /\ Head(todo[r]) \in Text \X Server /\ Head(todo[r]) = todo[r][1] /\ 1 \in DOMAIN todo[r]
         /\ Current(r) \in Server /\ KeyOf(r) \in CacheKeys
<1>1. todo[r] \in Seq(Text \X Server)
  BY DEF Types
<1>2. Head(todo[r]) \in Text \X Server /\ Head(todo[r]) = todo[r][1] /\ 1 \in DOMAIN todo[r]
  BY <1>1, HeadTailProperties
<1>3. Current(r) \in Server
  BY <1>2 DEF Current
<1>4. KeyOf(r) \in CacheKeys
  BY <1>3, ServerParts, KeysAndNames DEF KeyOf
<1> QED
  BY <1>2, <1>3, <1>4

(* The text at the head of the list gets its answer. *)
LEMMA Answering ==
  ASSUME Types, NEW r \in Request, RequestInv(r), pc[r] \notin {"idle", "done"}, todo[r] # <<>>,
         NEW st \in Status, st.server = Current(r), StatusInv(st), Answer(r, st),
         UNCHANGED <<file, ask, shown, answered>>
  PROVE  RequestInv(r)' /\ pc' \in [Request -> RequestPc] /\ todo' \in [Request -> Seq(Text \X Server)]
         /\ answers' \in [Request -> SUBSET (Text \X Status)]
<1>1. PICK s \in Seq(Text \X Server) : s = todo[r]
  BY DEF Types
<1>2. PICK text \in Text : text = Head(s)[1] /\ s[1] = <<text, st.server>>
  BY <1>1, CurrentServer DEF Current
<1>3. Tail(s) \in Seq(Text \X Server) /\ \A i \in DOMAIN Tail(s) : i + 1 \in DOMAIN s /\ Tail(s)[i] = s[i + 1]
  BY <1>1, HeadTailProperties
<1>4. \A i \in DOMAIN s : i # 1 => i - 1 \in DOMAIN Tail(s) /\ Tail(s)[i - 1] = s[i]
  BY <1>1, HeadTailProperties
<1>5. PICK A \in SUBSET (Text \X Status) : A = {a \in answers[r] : a[1] # text} \cup {<<text, st>>}
  <2>1. answers[r] \in SUBSET (Text \X Status)
    BY DEF Types
  <2>2. {a \in answers[r] : a[1] # text} \cup {<<text, st>>} \in SUBSET (Text \X Status)
    BY <2>1
  <2> QED
    BY <2>2
<1>6. answers'[r] = A /\ todo'[r] = Tail(s) /\ pc'[r] = "next" /\ ask'[r] = ask[r] /\ shown'[r] = shown[r]
  BY <1>1, <1>2, <1>5 DEF Types, Answer
<1>7. HandInv(r)'
  <2>1. \A i \in DOMAIN Tail(s) : Tail(s)[i][2] = Meant(ask[r], Tail(s)[i][1])
    BY <1>1, <1>3 DEF RequestInv, HandInv
  <2> QED
    BY <1>6, <2>1 DEF HandInv
<1>8. st.server = Meant(ask[r], text)
  BY <1>1, <1>2, CurrentServer DEF RequestInv, HandInv
<1>9. AnswersInv(r)'
  <2>1. ask[r] # None /\ {a[1] : a \in answers[r]} \cup {s[i][1] : i \in DOMAIN s} = ask[r].texts
    BY <1>1 DEF RequestInv, AnswersInv, TodoTexts
  <2>2. {s[i][1] : i \in DOMAIN s} = {text} \cup {Tail(s)[i][1] : i \in DOMAIN Tail(s)}
    <3>1. 1 \in DOMAIN s /\ s[1][1] = text
      BY <1>1, <1>2, CurrentServer
    <3>2. ASSUME NEW i \in DOMAIN s PROVE s[i][1] \in {text} \cup {Tail(s)[j][1] : j \in DOMAIN Tail(s)}
      BY <1>4, <3>1
    <3>3. ASSUME NEW i \in DOMAIN Tail(s) PROVE Tail(s)[i][1] \in {s[j][1] : j \in DOMAIN s}
      BY <1>3
    <3> QED
      BY <3>1, <3>2, <3>3
  <2>3. {a[1] : a \in A} = {a[1] : a \in answers[r]} \cup {text}
    <3>1. <<text, st>> \in A /\ <<text, st>>[1] = text
      BY <1>5
    <3>2. ASSUME NEW a \in A PROVE a[1] \in {b[1] : b \in answers[r]} \cup {text}
      BY <1>5
    <3>3. ASSUME NEW a \in answers[r], a[1] # text PROVE a \in A
      BY <3>3, <1>5
    <3> QED
      BY <3>1, <3>2, <3>3
  <2>4. {a[1] : a \in A} \cup {Tail(s)[i][1] : i \in DOMAIN Tail(s)} = ask[r].texts
    BY <2>1, <2>2, <2>3
  <2>5. \A a \in A : a[2].server = Meant(ask[r], a[1]) /\ StatusInv(a[2])
    BY <1>5, <1>8 DEF RequestInv, AnswersInv
  <2>6. \A a, b \in A : a[1] = b[1] => a = b
    BY <1>5 DEF RequestInv, AnswersInv
  <2>7. \A a \in A : StatusInv(a[2])'
    BY <2>5 DEF StatusInv
  <2> QED
    BY <1>6, <2>1, <2>4, <2>5, <2>6, <2>7 DEF AnswersInv, TodoTexts
<1>10. BannerInv(r)'
  <2>1. shown'[r] = None
    BY <1>6 DEF RequestInv, BannerInv
  <2>2. \A a \in answers'[r] : a[1] \in ask[r].texts
    BY <1>6, <1>9 DEF AnswersInv
  <2>3. \A a, b \in answers'[r] : a[1] = b[1] => a = b
    BY <1>9 DEF AnswersInv
  <2> QED
    BY <1>6, <2>1, <2>2, <2>3, NoneIsNothing DEF RequestInv, BannerInv
<1> QED
  BY <1>1, <1>2, <1>3, <1>5, <1>7, <1>9, <1>10 DEF RequestInv, Types, Answer, RequestPc

-----------------------------------------------------------------------------
(* One step lemma per group of actions.                                    *)

LEMMA StepAsk ==
  ASSUME IndInv, NEW r \in Request, Others(r), AskStep(r)
  PROVE  IndInv'
<1>1. Types /\ RequestInv(r)
  BY DEF IndInv
<1> QED
  BY <1>1, OwnAsk, QuietStep

LEMMA StepCacheHit ==
  ASSUME IndInv, NEW r \in Request, Others(r), CacheHit(r)
  PROVE  IndInv'
<1>1. Types /\ RequestInv(r) /\ CacheInv
  BY DEF IndInv
<1>2. Current(r) \in Server /\ KeyOf(r) \in CacheKeys
  BY <1>1, CurrentServer DEF CacheHit
<1>3. PICK st \in Status : st = cached[KeyOf(r)]
  BY <1>1, <1>2 DEF CacheHit, Types
<1>4. StatusInv(st) /\ CacheKey(st.server[1], st.server[2]) = KeyOf(r)
  BY <1>1, <1>2, <1>3 DEF CacheHit, CacheInv
<1>5. st.server = Current(r)
  BY <1>2, <1>4, CacheKeyInjective, StatusParts DEF KeyOf
<1>6. RequestInv(r)' /\ pc' \in [Request -> RequestPc] /\ todo' \in [Request -> Seq(Text \X Server)]
      /\ answers' \in [Request -> SUBSET (Text \X Status)]
  <2>1. pc[r] = "next" /\ todo[r] # <<>> /\ Answer(r, st) /\ UNCHANGED <<file, ask, shown, answered>>
    BY <1>3 DEF CacheHit
  <2> QED
    BY <1>1, <1>4, <1>5, <2>1, Answering
<1>7. Types' /\ Grows
  BY <1>1, <1>6 DEF Types, Grows, CacheHit
<1> QED
  BY <1>6, <1>7, QuietStep DEF CacheHit

LEMMA StepCacheMiss ==
  ASSUME IndInv, NEW r \in Request, Others(r), CacheMiss(r)
  PROVE  IndInv'
<1>1. Types /\ RequestInv(r)
  BY DEF IndInv
<1>2. Types' /\ Grows
  BY <1>1 DEF Types, RequestPc, CacheMiss, Grows
<1>3. pc'[r] = "query" /\ pc[r] = "next" /\ todo[r] # <<>> /\ UNCHANGED <<cached, file, ask, todo, status, answers, shown, answered, spoiled>>
  BY <1>1 DEF Types, CacheMiss
<1>4. HandInv(r)'
  BY <1>1, <1>3 DEF RequestInv, HandInv
<1>5. AnswersInv(r)'
  BY <1>1, <1>3 DEF RequestInv, AnswersInv, TodoTexts, StatusInv
<1>6. BannerInv(r)'
  BY <1>1, <1>3 DEF RequestInv, BannerInv
<1> QED
  BY <1>2, <1>3, <1>4, <1>5, <1>6, QuietStep DEF RequestInv

(* A query has ended, with a status of the current server. *)
LEMMA Queried ==
  ASSUME IndInv, NEW r \in Request, Others(r), pc[r] = "query",
         NEW st \in Status, st.server = Current(r), st.host = st.server[1], st.icon = None,
         NEW A \in SUBSET Addresses, answered' = A, answered \subseteq A,
         st.online => Address(st.host, st.server[2]) \in A,
         NEW next \in {"favicon", "store"}, pc' = [pc EXCEPT ![r] = next],
         next = "favicon" => st.host \in Dialled,
         status' = [status EXCEPT ![r] = st],
         UNCHANGED <<cached, file, ask, todo, answers, shown, spoiled>>
  PROVE  IndInv'
<1>1. Types /\ RequestInv(r)
  BY DEF IndInv
<1>2. Types' /\ Grows
  BY <1>1 DEF Types, RequestPc, Grows
<1>3. pc'[r] = next /\ status'[r] = st
  BY <1>1 DEF Types
<1>4. StatusInv(st)'
  BY DEF StatusInv
<1>5. HandInv(r)'
  <2>1. StatusInv(status[r])'
    BY <1>3, <1>4 DEF StatusInv
  <2>2. st # None
    BY NoneIsNothing
  <2> QED
    BY <1>1, <1>3, <2>1, <2>2 DEF RequestInv, HandInv, Current
<1>6. AnswersInv(r)'
  <2>1. \A a \in answers[r] : StatusInv(a[2])'
    BY <1>1 DEF RequestInv, AnswersInv, StatusInv
  <2> QED
    BY <1>1, <1>3, <2>1 DEF RequestInv, AnswersInv, TodoTexts
<1>7. BannerInv(r)'
  BY <1>1, <1>3 DEF RequestInv, BannerInv
<1> QED
  BY <1>2, <1>5, <1>6, <1>7, QuietStep DEF RequestInv

LEMMA StepPing ==
  ASSUME IndInv, NEW r \in Request, Others(r), PingFails(r) \/ PingAnswered(r)
  PROVE  IndInv'
<1>1. Types /\ pc[r] = "query" /\ todo[r] # <<>>
  BY DEF IndInv, RequestInv, HandInv, PingFails, PingAnswered
<1>2. PICK s \in Server : s = Current(r)
  BY <1>1, CurrentServer
<1>3. s[1] \in Host /\ s[2] \in Port
  BY ServerParts
<1>4. CASE PingFails(r)
  <2>1. PICK st : st = OfflineStatus(s)
    OBVIOUS
  <2>2. st \in Status /\ st.server = s /\ st.host = s[1] /\ st.icon = None /\ st.online = FALSE
    BY <1>3, <2>1 DEF OfflineStatus, Status
  <2>3. answered \in SUBSET Addresses
    BY <1>1 DEF Types
  <2>4. pc' = [pc EXCEPT ![r] = "store"] /\ status' = [status EXCEPT ![r] = st] /\ answered' = answered
        /\ UNCHANGED <<cached, file, ask, todo, answers, shown, spoiled>>
    BY <1>2, <1>4, <2>1 DEF PingFails
  <2> QED
    BY <1>1, <1>2, <2>2, <2>3, <2>4, Queried
<1>5. CASE PingAnswered(r)
  <2>1. PICK host \in Resolved(s[1]) :
          /\ host.port = None
          /\ status' = [status EXCEPT ![r] = [online |-> TRUE, host |-> host, server |-> s, icon |-> None]]
          /\ answered' = answered \cup {Address(host, s[2])}
    BY <1>2, <1>5 DEF PingAnswered
  <2>2. host = s[1]
    BY <2>1, RequestAssumption DEF Resolved, LookupSRV
  <2>3. PICK st : st = [online |-> TRUE, host |-> host, server |-> s, icon |-> None]
    OBVIOUS
  <2>4. st \in Status /\ st.server = s /\ st.host = s[1] /\ st.icon = None /\ st.host \in Dialled
    BY <1>3, <2>1, <2>2, <2>3 DEF Status, Dialled
  <2>5. PICK A : A = answered \cup {Address(host, s[2])}
    OBVIOUS
  <2>6. A \in SUBSET Addresses /\ answered \subseteq A /\ Address(st.host, st.server[2]) \in A
    BY <1>1, <1>3, <2>2, <2>4, <2>5, KeysAndNames DEF Types
  <2>7. PICK next \in {"favicon", "store"} : pc' = [pc EXCEPT ![r] = next]
    BY <1>5 DEF PingAnswered
  <2>8. status' = [status EXCEPT ![r] = st] /\ answered' = A
        /\ UNCHANGED <<cached, file, ask, todo, answers, shown, spoiled>>
    BY <1>5, <2>1, <2>3, <2>5 DEF PingAnswered
  <2> QED
    BY <1>1, <1>2, <2>4, <2>6, <2>7, <2>8, Queried
<1> QED
  BY <1>4, <1>5

LEMMA StepRespond ==
  ASSUME IndInv, NEW r \in Request, Others(r), Respond(r) \/ DrawBanner(r)
  PROVE  IndInv'
<1>1. Types /\ RequestInv(r)
  BY DEF IndInv
<1>2. pc[r] = "next" /\ pc'[r] = "done" /\ pc' \in [Request -> RequestPc]
      /\ UNCHANGED <<cached, file, ask, todo, status, answers, answered, spoiled>>
  BY <1>1 DEF Types, RequestPc, Respond, DrawBanner
<1>3. shown' \in [Request -> Addresses \cup Request \cup {None, Torn}]
      /\ (shown'[r] \in Addresses => \A a \in answers[r] : shown'[r] = Address(a[2].host, a[2].server[2]))
  <2>1. CASE Respond(r)
    BY <1>1, <2>1 DEF Respond, Types, RequestInv, BannerInv
  <2>2. CASE DrawBanner(r)
    <3>1. PICK a \in answers[r] :
             shown' = [shown EXCEPT ![r] = IF a[2].icon = None THEN None ELSE file[a[2].icon]]
      BY <2>2 DEF DrawBanner
    <3>2. PICK st \in Status : st = a[2]
      BY <1>1 DEF Types
    <3>3. st.host \in Host /\ st.server[2] \in Port /\ st.icon \in IconNames \cup {None}
      BY StatusParts
    <3>4. StatusInv(st)
      BY <1>1, <3>2 DEF RequestInv, AnswersInv
    <3>5. st.icon # None => FileInv(st.host, st.server[2])
      BY <3>3, <3>4 DEF IndInv, StatusInv
    <3>6. st.icon # None /\ file[st.icon] \in Addresses => file[st.icon] = Address(st.host, st.server[2])
      BY <3>4, <3>5 DEF FileInv, StatusInv
    <3>7. shown' = [shown EXCEPT ![r] = IF st.icon = None THEN None ELSE file[st.icon]]
      BY <3>1, <3>2
    <3>8. shown'[r] \in Addresses => shown'[r] = Address(st.host, st.server[2])
      BY <1>1, <3>6, <3>7, NoneIsNothing DEF Types
    <3>9. \A b \in answers[r] : b = a
      <4>1. ask[r] # None /\ ask[r].route = "banner"
        BY <1>1, <2>2 DEF DrawBanner, RequestInv, AnswersInv
      <4> QED
        BY <1>1, <4>1 DEF RequestInv, BannerInv
    <3>10. (IF st.icon = None THEN None ELSE file[st.icon]) \in Addresses \cup Request \cup {None, Torn}
      BY <1>1, <3>3 DEF Types
    <3>11. shown' \in [Request -> Addresses \cup Request \cup {None, Torn}]
      BY <1>1, <3>7, <3>10 DEF Types
    <3> QED
      BY <3>2, <3>8, <3>9, <3>11
  <2> QED
    BY <2>1, <2>2
<1>4. Types' /\ Grows
  BY <1>1, <1>2, <1>3 DEF Types, Grows
<1>5. HandInv(r)'
  BY <1>1, <1>2 DEF RequestInv, HandInv
<1>6. AnswersInv(r)'
  BY <1>1, <1>2 DEF RequestInv, AnswersInv, StatusInv
<1>7. BannerInv(r)'
  BY <1>1, <1>2, <1>3 DEF RequestInv, BannerInv
<1> QED
  BY <1>2, <1>4, <1>5, <1>6, <1>7, QuietStep DEF RequestInv

LEMMA StepCreateIconFails ==
  ASSUME IndInv, NEW r \in Request, Others(r), CreateIconFails(r)
  PROVE  IndInv'
<1>1. Types /\ RequestInv(r)
  BY DEF IndInv
<1>2. pc[r] = "favicon" /\ pc'[r] = "store" /\ UNCHANGED <<cached, file, ask, todo, status, answers, shown, answered, spoiled>>
  BY <1>1 DEF Types, CreateIconFails
<1>3. Types' /\ Grows
  BY <1>1 DEF Types, RequestPc, CreateIconFails, Grows
<1>4. HandInv(r)'
  BY <1>1, <1>2 DEF RequestInv, HandInv, StatusInv, Current
<1>5. AnswersInv(r)'
  BY <1>1, <1>2 DEF RequestInv, AnswersInv, TodoTexts, StatusInv
<1>6. BannerInv(r)'
  BY <1>1, <1>2 DEF RequestInv, BannerInv
<1> QED
  BY <1>2, <1>3, <1>4, <1>5, <1>6, QuietStep DEF RequestInv

(* The file whose icon a request is saving. *)
LEMMA SavedIcon ==
  ASSUME IndInv, NEW r \in Request, pc[r] \in {"favicon", "encode"}
  PROVE  \E st \in Status :
            /\ status[r] = st /\ StatusInv(st)
            /\ IconOf(r) = IconName(st.host, st.server[2]) /\ IconOf(r) \in IconNames
            /\ st.host \in Dialled /\ st.server[2] \in Port
            /\ Picture(r) = Address(st.host, st.server[2]) /\ Picture(r) \in Addresses
<1>1. Types /\ RequestInv(r)
  BY DEF IndInv
<1>2. PICK st \in Status : st = status[r] /\ StatusInv(st)
  BY <1>1 DEF Types, RequestInv, HandInv
<1> QED
  BY <1>1, <1>2, StatusParts, KeysAndNames DEF IconOf, Picture, RequestInv, HandInv

(* A step that writes an icon file and leaves the other files as they are. *)
LEMMA IconStep ==
  ASSUME IndInv, NEW r \in Request, Others(r), Types', RequestInv(r)',
         NEW h \in Dialled, NEW p \in Port, NEW f \in IconNames, f = IconName(h, p),
         NEW content \in Addresses \cup Request \cup {Torn},
         pc[r] = "favicon" \/ (pc[r] = "encode" /\ IconOf(r) = f),
         file' = [file EXCEPT ![f] = content],
         FileInv(h, p)',
         \A g \in IconNames \ {f} : g \in spoiled => g \in spoiled',
         UNCHANGED <<cached, answered>>
  PROVE  IndInv'
<1>1. Types /\ CacheInv /\ \A k \in Dialled, q \in Port : FileInv(k, q)
  BY DEF IndInv
<1>2. Grows
  BY <1>1, NoneIsNothing, RequestAssumption DEF Types, Grows
<1>3. CacheInv'
  BY <1>1, <1>2, LaterCache
<1>4. ASSUME NEW k \in Dialled, NEW q \in Port PROVE FileInv(k, q)'
  <2>1. CASE IconName(k, q) = f
    <3>1. k = h /\ q = p
      BY <2>1, IconNameInjective
    <3> QED
      BY <3>1
  <2>2. CASE IconName(k, q) # f
    <3>1. IconName(k, q) \in IconNames \ {f}
      BY <2>2, KeysAndNames DEF Dialled
    <3>2. file'[IconName(k, q)] = file[IconName(k, q)]
      BY <1>1, <3>1 DEF Types
    <3>3. \A u \in Request : pc[u] = "encode" /\ IconOf(u) = IconName(k, q) => pc'[u] = "encode" /\ status'[u] = status[u]
      BY <2>2 DEF Others, Same
    <3>4. FileInv(k, q)
      BY <1>1
    <3>5. IconName(k, q) \in spoiled => IconName(k, q) \in spoiled'
      BY <3>1
    <3> QED
      BY <1>1, <3>2, <3>3, <3>4, <3>5, LaterFile
  <2> QED
    BY <2>1, <2>2
<1>5. (\A k \in Dialled, q \in Port : FileInv(k, q))'
  BY <1>4
<1> QED
  BY <1>2, <1>3, <1>5, OtherRequests DEF IndInv

LEMMA StepCreateIcon ==
  ASSUME IndInv, NEW r \in Request, Others(r), CreateIcon(r)
  PROVE  IndInv'
<1>1. Types /\ RequestInv(r) /\ pc[r] = "favicon"
  BY DEF IndInv, CreateIcon
<1>2. PICK st \in Status :
        /\ status[r] = st /\ StatusInv(st)
        /\ IconOf(r) = IconName(st.host, st.server[2]) /\ IconOf(r) \in IconNames
        /\ st.host \in Dialled /\ st.server[2] \in Port
  BY <1>1, SavedIcon
<1>3. PICK f \in IconNames : f = IconOf(r)
  BY <1>2
<1>4. file' = [file EXCEPT ![f] = r] /\ pc'[r] = "encode" /\ spoiled \subseteq spoiled' /\ spoiled' \subseteq spoiled \cup {f}
      /\ UNCHANGED <<cached, ask, todo, status, answers, shown, answered>>
  BY <1>1, <1>3 DEF CreateIcon, Types
<1>5. file'[f] = r /\ \A g \in IconNames : file[g] # None => file'[g] # None
  BY <1>1, <1>4, NoneIsNothing DEF Types
<1>6. Types' /\ Grows
  BY <1>1, <1>3, <1>4, <1>5 DEF Types, RequestPc, CreateIcon, Grows
<1>7. StatusInv(st)'
  BY <1>2, <1>6, StatusLater
<1>8. IconOf(r)' = f
  BY <1>3, <1>4 DEF IconOf
<1>9. HandInv(r)'
  <2>1. StatusInv(status[r])'
    BY <1>2, <1>4, <1>7 DEF StatusInv
  <2>2. file'[IconOf(r)'] # None
    BY <1>5, <1>8, NoneIsNothing
  <2> QED
    BY <1>1, <1>4, <2>1, <2>2 DEF RequestInv, HandInv, Current
<1>10. AnswersInv(r)'
  <2>1. ASSUME NEW a \in answers[r] PROVE StatusInv(a[2])'
    <3>1. PICK t \in Status : t = a[2] /\ StatusInv(t)
      BY <1>1 DEF Types, RequestInv, AnswersInv
    <3>2. StatusInv(t)'
      BY <1>6, <3>1, StatusLater
    <3> QED
      BY <3>1, <3>2 DEF StatusInv
  <2> QED
    BY <1>1, <1>4, <2>1 DEF RequestInv, AnswersInv, TodoTexts
<1>11. BannerInv(r)'
  BY <1>1, <1>4 DEF RequestInv, BannerInv
<1>12. FileInv(st.host, st.server[2])'
  BY <1>2, <1>3, <1>4, <1>5, <1>8, NoneIsNothing DEF FileInv
<1>13. \A g \in IconNames \ {f} : g \in spoiled => g \in spoiled'
  BY <1>4
<1>14. RequestInv(r)'
  BY <1>9, <1>10, <1>11 DEF RequestInv
<1> QED
  BY <1>1, <1>2, <1>3, <1>4, <1>6, <1>12, <1>13, <1>14, IconStep

LEMMA StepEncode ==
  ASSUME IndInv, NEW r \in Request, Others(r), EncodeIcon(r) \/ EncodeFails(r)
  PROVE  IndInv'
<1>1. Types /\ RequestInv(r) /\ pc[r] = "encode"
  BY DEF IndInv, EncodeIcon, EncodeFails
<1>2. PICK st \in Status :
        /\ status[r] = st /\ StatusInv(st)
        /\ IconOf(r) = IconName(st.host, st.server[2]) /\ IconOf(r) \in IconNames
        /\ st.host \in Dialled /\ st.server[2] \in Port
        /\ Picture(r) = Address(st.host, st.server[2]) /\ Picture(r) \in Addresses
  BY <1>1, SavedIcon
<1>3. PICK f \in IconNames : f = IconOf(r)
  BY <1>2
<1>4. PICK picture \in Addresses : picture = Picture(r)
  BY <1>2
<1>5. PICK content \in {picture, Torn} :
        /\ EncodeEnds(r, content)
        /\ spoiled' \in {spoiled \ {f}, spoiled \cup {f}}
        /\ content = picture \/ f \in spoiled'
  <2>1. CASE EncodeFails(r)
    BY <1>3, <2>1 DEF EncodeFails
  <2>2. CASE EncodeIcon(r) /\ Uncrossed(r) /\ EncodeEnds(r, picture) /\ spoiled' = spoiled \ {f}
    BY <2>2
  <2>3. CASE EncodeIcon(r) /\ (\E content \in {picture, Torn} : EncodeEnds(r, content)) /\ spoiled' = spoiled \cup {f}
    BY <2>3
  <2>4. EncodeIcon(r) => \/ Uncrossed(r) /\ EncodeEnds(r, picture) /\ spoiled' = spoiled \ {f}
                         \/ (\E content \in {picture, Torn} : EncodeEnds(r, content)) /\ spoiled' = spoiled \cup {f}
    BY <1>3, <1>4 DEF EncodeIcon
  <2> QED
    BY <2>1, <2>2, <2>3, <2>4
<1>6. file' = [file EXCEPT ![f] = content] /\ status' = [status EXCEPT ![r].icon = f] /\ pc' = [pc EXCEPT ![r] = "store"]
      /\ UNCHANGED <<cached, ask, todo, answers, shown, answered>>
  BY <1>3, <1>5 DEF EncodeEnds
<1>7. PICK su \in Status : su = [st EXCEPT !.icon = f] /\ su.host = st.host /\ su.server = st.server
                            /\ su.online = st.online /\ su.icon = f
  <2>1. [st EXCEPT !.icon = f] = [online |-> st.online, host |-> st.host, server |-> st.server, icon |-> f]
    BY DEF Status
  <2>2. [online |-> st.online, host |-> st.host, server |-> st.server, icon |-> f] \in Status
    BY StatusParts DEF Status
  <2> QED
    BY <2>1, <2>2
<1>8. status'[r] = su /\ status' \in [Request -> Status \cup {None}]
  BY <1>1, <1>2, <1>6, <1>7 DEF Types
<1>9. pc'[r] = "store" /\ pc' \in [Request -> RequestPc]
  BY <1>1, <1>6 DEF Types, RequestPc
<1>10. file'[f] = content /\ content # None /\ \A g \in IconNames : file[g] # None => file'[g] # None
  BY <1>1, <1>6, NoneIsNothing DEF Types
<1>11. file' \in [IconNames -> Addresses \cup Request \cup {None, Torn}] /\ spoiled' \in SUBSET IconNames
  BY <1>1, <1>5, <1>6 DEF Types
<1>12. Types' /\ Grows
  BY <1>1, <1>6, <1>8, <1>9, <1>10, <1>11 DEF Types, Grows
<1>13. StatusInv(su)'
  BY <1>2, <1>3, <1>6, <1>7, <1>10 DEF StatusInv
<1>14. HandInv(r)'
  <2>1. StatusInv(status[r])'
    BY <1>8, <1>13 DEF StatusInv
  <2>2. status'[r].server = st.server /\ st.server = Current(r) /\ Current(r)' = Current(r)
    BY <1>1, <1>2, <1>6, <1>7, <1>8 DEF RequestInv, HandInv, Current
  <2> QED
    BY <1>1, <1>6, <1>8, <1>9, <2>1, <2>2, NoneIsNothing DEF RequestInv, HandInv
<1>15. AnswersInv(r)'
  <2>1. ASSUME NEW a \in answers[r] PROVE StatusInv(a[2])'
    <3>1. PICK t \in Status : t = a[2] /\ StatusInv(t)
      BY <1>1 DEF Types, RequestInv, AnswersInv
    <3>2. StatusInv(t)'
      BY <1>12, <3>1, StatusLater
    <3> QED
      BY <3>1, <3>2 DEF StatusInv
  <2> QED
    BY <1>1, <1>6, <1>9, <2>1 DEF RequestInv, AnswersInv, TodoTexts
<1>16. BannerInv(r)'
  BY <1>1, <1>6, <1>9 DEF RequestInv, BannerInv
<1>17. FileInv(st.host, st.server[2])'
  <2>1. content \in Addresses => content = picture
    BY <1>5, NoneIsNothing
  <2> QED
    BY <1>2, <1>3, <1>4, <1>5, <1>10, <2>1 DEF FileInv
<1>18. \A g \in IconNames \ {f} : g \in spoiled => g \in spoiled'
  BY <1>5
<1>19. RequestInv(r)'
  BY <1>14, <1>15, <1>16 DEF RequestInv
<1>20. UNCHANGED <<cached, answered>>
  BY <1>6
<1> QED
  BY <1>1, <1>2, <1>3, <1>6, <1>12, <1>17, <1>18, <1>19, <1>20, IconStep

LEMMA StepStore ==
  ASSUME IndInv, NEW r \in Request, Others(r), Store(r)
  PROVE  IndInv'
<1>1. Types /\ RequestInv(r) /\ CacheInv /\ pc[r] = "store" /\ todo[r] # <<>>
  BY DEF IndInv, Store, RequestInv, HandInv
<1>2. Current(r) \in Server /\ KeyOf(r) \in CacheKeys
  BY <1>1, CurrentServer
<1>3. PICK st \in Status : st = status[r] /\ st.server = Current(r) /\ StatusInv(st)
  BY <1>1 DEF Types, RequestInv, HandInv
<1>4. PICK key \in CacheKeys : key = KeyOf(r)
  BY <1>2
<1>5. Answer(r, st) /\ cached' = [cached EXCEPT ![key] = st] /\ status' = [status EXCEPT ![r] = None]
      /\ UNCHANGED <<file, ask, shown, answered, spoiled>>
  BY <1>3, <1>4 DEF Store
<1>6. RequestInv(r)' /\ pc' \in [Request -> RequestPc] /\ todo' \in [Request -> Seq(Text \X Server)]
      /\ answers' \in [Request -> SUBSET (Text \X Status)]
  BY <1>1, <1>3, <1>5, Answering
<1>7. Types' /\ Grows
  BY <1>1, <1>5, <1>6 DEF Types, Grows
<1>8. CacheKey(st.server[1], st.server[2]) = key /\ st # None
  BY <1>3, <1>4, NoneIsNothing DEF KeyOf
<1>9. CacheInv'
  <2> SUFFICES ASSUME NEW k \in CacheKeys, cached'[k] # None
               PROVE  (StatusInv(cached[k]) /\ CacheKey(cached[k].server[1], cached[k].server[2]) = k)'
    BY DEF CacheInv
  <2>1. CASE k = key
    <3>1. cached'[k] = st
      BY <1>1, <1>5, <2>1 DEF Types
    <3>2. StatusInv(st)'
      BY <1>3, <1>7, StatusLater
    <3> QED
      BY <1>8, <2>1, <3>1, <3>2 DEF StatusInv
  <2>2. CASE k # key
    <3>1. PICK t \in Status : t = cached[k] /\ cached'[k] = t
      BY <1>1, <1>5, <2>2 DEF Types
    <3>2. StatusInv(t) /\ CacheKey(t.server[1], t.server[2]) = k
      BY <1>1, <3>1, NoneIsNothing DEF CacheInv
    <3>3. StatusInv(t)'
      BY <1>7, <3>2, StatusLater
    <3> QED
      BY <3>1, <3>2, <3>3 DEF StatusInv
  <2> QED
    BY <2>1, <2>2
<1>10. ASSUME NEW h \in Dialled, NEW p \in Port PROVE FileInv(h, p)'
  <2>1. \A u \in Request : pc[u] = "encode" => pc'[u] = "encode" /\ status'[u] = status[u]
    BY <1>1 DEF Others, Same
  <2>2. FileInv(h, p)
    BY DEF IndInv
  <2> QED
    BY <1>1, <1>5, <2>1, <2>2, LaterFile
<1>11. (\A h \in Dialled, p \in Port : FileInv(h, p))'
  BY <1>10
<1> QED
  BY <1>6, <1>7, <1>9, <1>11, OtherRequests DEF IndInv

(* The requests are lost, what they were saving is torn or old, and said to be spoiled. *)
LEMMA StepRestart ==
  ASSUME IndInv, Restart
  PROVE  IndInv'
<1> DEFINE started == {f \in IconNames : file[f] \in Request}
           open == {IconOf(r) : r \in {q \in Request : pc[q] = "encode"}}
<1>1. Types /\ CacheInv /\ (\A h \in Dialled, p \in Port : FileInv(h, p)) /\ \A r \in Request : RequestInv(r)
  BY DEF IndInv
<1>2. PICK opened : opened = open
  OBVIOUS
<1>3. PICK cut : (cut = started \/ cut = started \cup opened) /\ file' = [f \in IconNames |-> IF f \in cut THEN Torn ELSE file[f]]
  BY <1>2 DEF Restart
<1>4. spoiled' = spoiled \cup opened /\ UNCHANGED <<cached, ask, shown, answered>>
  BY <1>2 DEF Restart
<1>5. opened \subseteq IconNames
  BY <1>2, SavedIcon
<1>6. \A u \in Request :
         /\ pc'[u] = (IF pc[u] = "idle" THEN "idle" ELSE "done") /\ todo'[u] = <<>> /\ status'[u] = None
         /\ answers'[u] = IF pc[u] = "done" THEN answers[u] ELSE {}
  BY DEF Restart
<1>7. Grows
  BY <1>3, <1>4, NoneIsNothing DEF Grows
<1>8. Types'
  <2>1. file' \in [IconNames -> Addresses \cup Request \cup {None, Torn}]
    BY <1>1, <1>3 DEF Types
  <2>2. spoiled' \in SUBSET IconNames
    BY <1>1, <1>4, <1>5 DEF Types
  <2>3. pc' \in [Request -> RequestPc] /\ todo' \in [Request -> Seq(Text \X Server)] /\ status' \in [Request -> Status \cup {None}]
    BY DEF Restart, RequestPc
  <2>4. answers' \in [Request -> SUBSET (Text \X Status)]
    BY <1>1 DEF Restart, Types
  <2> QED
    BY <1>1, <1>4, <2>1, <2>2, <2>3, <2>4 DEF Types
<1>9. CacheInv'
  BY <1>1, <1>4, <1>7, LaterCache
<1>10. ASSUME NEW h \in Dialled, NEW p \in Port PROVE FileInv(h, p)'
  <2>1. PICK f \in IconNames : f = IconName(h, p)
    BY KeysAndNames DEF Dialled
  <2>2. file'[f] = IF f \in cut THEN Torn ELSE file[f]
    BY <1>3
  <2>3. FileInv(h, p)
    BY <1>1
  <2>4. file'[f] \in Addresses => file'[f] = Address(h, p)
    BY <2>1, <2>2, <2>3, NoneIsNothing DEF FileInv
  <2>5. f \in spoiled' \/ file'[f] \in {None, Address(h, p)}
    <3>1. CASE f \in spoiled \/ f \in opened
      BY <1>4, <3>1
    <3>2. CASE f \notin spoiled /\ f \notin opened
      <4>1. \A r \in Request : ~ (pc[r] = "encode" /\ IconOf(r) = f)
        BY <1>2, <3>2
      <4>2. file[f] \in {None, Address(h, p)}
        BY <2>1, <2>3, <3>2, <4>1 DEF FileInv
      <4>3. f \notin started
        BY <4>2, KeysAndNames, NoneIsNothing DEF Dialled
      <4>4. f \notin cut
        BY <1>3, <3>2, <4>3
      <4> QED
        BY <2>2, <4>2, <4>4
    <3> QED
      BY <3>1, <3>2
  <2> QED
    BY <2>1, <2>4, <2>5 DEF FileInv
<1>11. ASSUME NEW u \in Request PROVE RequestInv(u)'
  <2>1. HandInv(u)'
    BY <1>6 DEF HandInv
  <2>2. ASSUME NEW a \in answers[u] PROVE a[2].server = Meant(ask[u], a[1]) /\ StatusInv(a[2])'
    <3>1. PICK t \in Status : t = a[2] /\ StatusInv(t) /\ a[2].server = Meant(ask[u], a[1])
      BY <1>1 DEF Types, RequestInv, AnswersInv
    <3>2. StatusInv(t)'
      BY <1>7, <3>1, StatusLater
    <3> QED
      BY <3>1, <3>2 DEF StatusInv
  <2>3. answers'[u] \subseteq answers[u] /\ ask'[u] = ask[u] /\ shown'[u] = shown[u]
    BY <1>4, <1>6
  <2>4. AnswersInv(u)'
    <3>1. pc'[u] = "idle" => answers'[u] = {}
      BY <1>6
    <3>2. ask'[u] = None => answers'[u] = {}
      BY <1>1, <2>3 DEF RequestInv, AnswersInv
    <3>3. \A a \in answers'[u] : a[2].server = Meant(ask'[u], a[1]) /\ StatusInv(a[2])'
      BY <2>2, <2>3
    <3>4. \A a, b \in answers'[u] : a[1] = b[1] => a = b
      BY <1>1, <2>3 DEF RequestInv, AnswersInv
    <3> QED
      BY <1>6, <3>1, <3>2, <3>3, <3>4 DEF AnswersInv
  <2>5. BannerInv(u)'
    BY <1>1, <1>6, <2>3 DEF RequestInv, BannerInv
  <2> QED
    BY <2>1, <2>4, <2>5 DEF RequestInv
<1>12. (\A h \in Dialled, p \in Port : FileInv(h, p))' /\ (\A u \in Request : RequestInv(u))'
  BY <1>10, <1>11
<1> QED
  BY <1>8, <1>9, <1>12 DEF IndInv

LEMMA InitInv == Init => IndInv
<1> SUFFICES ASSUME Init PROVE IndInv
  OBVIOUS
<1>1. Types
  BY DEF Init, Types, RequestPc
<1>2. CacheInv
  BY DEF Init, CacheInv
<1>3. \A h \in Dialled, p \in Port : FileInv(h, p)
  BY KeysAndNames, NoneIsNothing DEF Init, FileInv, Dialled
<1>4. ASSUME NEW r \in Request PROVE RequestInv(r)
  BY NoneIsNothing DEF Init, RequestInv, HandInv, AnswersInv, BannerInv
<1> QED
  BY <1>1, <1>2, <1>3, <1>4 DEF IndInv

LEMMA StutterInv ==
  ASSUME IndInv, UNCHANGED vars
  PROVE  IndInv'
<1>1. Types /\ CacheInv /\ (\A h \in Dialled, p \in Port : FileInv(h, p)) /\ \A r \in Request : RequestInv(r)
  BY DEF IndInv
<1>2. UNCHANGED <<cached, file, pc, ask, todo, status, answers, shown, answered, spoiled>>
  BY DEF vars, requestVars
<1>3. Types' /\ Grows /\ \A r \in Request : Same(r)
  BY <1>1, <1>2 DEF Types, Grows, Same
<1>4. CacheInv'
  BY <1>1, <1>2, <1>3, LaterCache
<1>5. ASSUME NEW h \in Dialled, NEW p \in Port PROVE FileInv(h, p)'
  BY <1>1, <1>2, LaterFile
<1>6. ASSUME NEW r \in Request PROVE RequestInv(r)'
  BY <1>1, <1>3, LaterRequest
<1>7. (\A h \in Dialled, p \in Port : FileInv(h, p))' /\ (\A u \in Request : RequestInv(u))'
  BY <1>5, <1>6
<1> QED
  BY <1>3, <1>4, <1>7 DEF IndInv

LEMMA NextInv == IndInv /\ [Next]_vars => IndInv'
<1> SUFFICES ASSUME IndInv, [Next]_vars PROVE IndInv'
  OBVIOUS
<1>1. CASE UNCHANGED vars
  BY <1>1, StutterInv
<1>2. CASE Restart
  BY <1>2, StepRestart
<1>3. ASSUME NEW r \in Request, RequestStep(r) PROVE IndInv'
  <2>1. Others(r)
    BY <1>3, OthersSame DEF IndInv, Others
  <2>2. CASE AskStatus(r) \/ AskBulk(r) \/ AskBanner(r)
    BY <2>1, <2>2, StepAsk DEF AskStep
  <2>3. CASE CacheHit(r)
    BY <2>1, <2>3, StepCacheHit
  <2>4. CASE CacheMiss(r)
    BY <2>1, <2>4, StepCacheMiss
  <2>5. CASE PingFails(r) \/ PingAnswered(r)
    BY <2>1, <2>5, StepPing
  <2>6. CASE CreateIcon(r)
    BY <2>1, <2>6, StepCreateIcon
  <2>7. CASE CreateIconFails(r)
    BY <2>1, <2>7, StepCreateIconFails
  <2>8. CASE EncodeIcon(r) \/ EncodeFails(r)
    BY <2>1, <2>8, StepEncode
  <2>9. CASE Store(r)
    BY <2>1, <2>9, StepStore
  <2>10. CASE Respond(r) \/ DrawBanner(r)
    BY <2>1, <2>10, StepRespond
  <2> QED
    BY <1>3, <2>2, <2>3, <2>4, <2>5, <2>6, <2>7, <2>8, <2>9, <2>10 DEF RequestStep
<1> QED
  BY <1>1, <1>2, <1>3 DEF Next

-----------------------------------------------------------------------------
(* The theorems.                                                           *)

(* The inductive invariant holds in every state of the requests (status.go, *)
(* banner.go, server.go).                                                   *)
THEOREM StatusInvariant == Spec => []IndInv
<1>1. Init => IndInv
  BY InitInv
<1>2. IndInv /\ [Next]_vars => IndInv'
  BY NextInv
<1> QED
  BY <1>1, <1>2, PTL DEF Spec

(* Every variable of the requests, the cache and the icon files stays in   *)
(* its type.                                                               *)
THEOREM StatusTypes == Spec => []TypeOK
<1>1. IndInv => TypeOK
  <2> SUFFICES ASSUME IndInv PROVE TypeOK
    OBVIOUS
  <2>1. Types
    BY DEF IndInv
  <2>2. ASSUME NEW r \in Request, NEW i \in DOMAIN todo[r] PROVE todo[r][i] \in Text \X Server
    BY <2>1 DEF Types
  <2> QED
    BY <2>1, <2>2 DEF Types, TypeOK
<1> QED
  BY <1>1, StatusInvariant, PTL

(* A client whose port is proper or left out is told of the server that    *)
(* its text means, and any client that a server is online only if the one  *)
(* that was asked has answered, whoever cached the status (GetStatus,      *)
(* server.go:32).                                                          *)
THEOREM AnswersFit == Spec => []AnswerFitsQuestion
<1>1. IndInv => AnswerFitsQuestion
  <2> SUFFICES ASSUME IndInv, NEW r \in Request
               PROVE  /\ \A a, b \in answers[r] : a[1] = b[1] => a = b
                      /\ pc[r] = "next" /\ todo[r] = <<>> => {a[1] : a \in answers[r]} = ask[r].texts
                      /\ \A a \in answers[r] :
                            /\ IF ask[r].route = "banner"
                               THEN ProperPort(ask[r].port) => a[2].server = <<a[1], PortOr(ask[r].port)>>
                               ELSE ProperPort(a[1].port) => a[2].server = <<Plain(a[1].name), PortOr(a[1].port)>>
                            /\ a[2].online => /\ a[2].host.name = a[1].name
                                              /\ Address(a[2].host, a[2].server[2]) \in answered
    BY DEF AnswerFitsQuestion
  <2>1. Types /\ AnswersInv(r)
    BY DEF IndInv, RequestInv
  <2>2. ASSUME pc[r] = "next", todo[r] = <<>> PROVE {a[1] : a \in answers[r]} = ask[r].texts
    <3>1. TodoTexts(r) = {}
      BY <2>2 DEF TodoTexts
    <3> QED
      BY <2>1, <2>2, <3>1 DEF AnswersInv
  <2>3. ASSUME NEW a \in answers[r]
        PROVE  /\ a[2].server = Meant(ask[r], a[1])
               /\ a[2].online => a[2].host.name = a[1].name /\ Address(a[2].host, a[2].server[2]) \in answered
    <3>1. a[2].server = Meant(ask[r], a[1]) /\ StatusInv(a[2])
      BY <2>1 DEF AnswersInv
    <3>2. Meant(ask[r], a[1])[1].name = a[1].name
      BY DEF Meant, Plain
    <3> QED
      BY <3>1, <3>2 DEF StatusInv
  <2> QED
    BY <2>1, <2>2, <2>3 DEF AnswersInv, Meant
<1> QED
  BY <1>1, StatusInvariant, PTL

(* What is cached or has been answered is a status as it should be.        *)
LEMMA LinkedStatus ==
  ASSUME IndInv, NEW st \in Linked
  PROVE  st \in Status /\ st.icon # None /\ StatusInv(st)
<1>1. Types /\ CacheInv /\ \A r \in Request : RequestInv(r)
  BY DEF IndInv
<1>2. st # None /\ st.icon # None
  BY DEF Linked
<1>3. CASE \E k \in CacheKeys : st = cached[k]
  BY <1>1, <1>2, <1>3 DEF Types, CacheInv
<1>4. CASE \E r \in Request : \E a \in answers[r] : st = a[2]
  BY <1>1, <1>2, <1>4 DEF Types, RequestInv, AnswersInv
<1> QED
  BY <1>2, <1>3, <1>4 DEF Linked

(* An icon link leads to a file (saveFavicon, server.go:132).              *)
THEOREM LinksResolve == Spec => []IconLinkResolves
<1>1. IndInv => IconLinkResolves
  BY LinkedStatus DEF IconLinkResolves, StatusInv
<1> QED
  BY <1>1, StatusInvariant, PTL

(* That file is the whole icon of that server, unless it is being written  *)
(* or its last saves crossed, failed or were killed (server.go:142).       *)
THEOREM IconsAreWhole == Spec => []IconsWhole
<1>1. IndInv => IconsWhole
  <2> SUFFICES ASSUME IndInv, NEW st \in Linked
               PROVE  \/ st.icon \in spoiled
                      \/ \E r \in Request : pc[r] = "encode" /\ IconOf(r) = st.icon
                      \/ file[st.icon] = Address(st.host, st.server[2])
    BY DEF IconsWhole
  <2>1. st \in Status /\ st.host \in Dialled /\ st.icon = IconName(st.host, st.server[2]) /\ file[st.icon] # None
    BY LinkedStatus DEF StatusInv
  <2>2. FileInv(st.host, st.server[2])
    BY <2>1, StatusParts DEF IndInv
  <2> QED
    BY <2>1, <2>2 DEF FileInv
<1> QED
  BY <1>1, StatusInvariant, PTL

(* A banner shows the icon of the server it is about (GenerateBanner,      *)
(* service/banner.go:57), although it reads the file later than the status.*)
THEOREM BannersShowTheirIcon == Spec => []BannerShowsOwnIcon
<1>1. IndInv => BannerShowsOwnIcon
  BY DEF IndInv, RequestInv, BannerInv, BannerShowsOwnIcon
<1> QED
  BY <1>1, StatusInvariant, PTL
=============================================================================
