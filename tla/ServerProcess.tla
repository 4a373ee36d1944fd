---------------------------- MODULE ServerProcess ----------------------------
(***************************************************************************)
(* The life of the process (cmd/server/main.go) and what it tells about    *)
(* itself: internal/middleware, internal/stats, the health cache of        *)
(* internal/handler/health.go and the scrape of metrics.go.                *)
(*                                                                         *)
(* A request is its route; the routes that other modules are about are a   *)
(* vote, which may never return, and a WebSocket, whose connection the     *)
(* HTTP server gives away.  Of a health answer only the request count and  *)
(* when it was measured count here; memory is sequentially consistent.     *)
(***************************************************************************)
EXTENDS Naturals

CONSTANTS
    Request,   \* HTTP requests, one-shot
    Asks,      \* the routes that each of them may ask for
    Hanging,   \* the requests that never return if they are votes
    TTL,       \* healthCacheTTL
    MaxTime,   \* bound on the clock
    None       \* no cache entry, nothing seen

Route == {"options", "health", "metrics", "vote", "socket"}

Figures == [requests : Nat, votes : Nat \cup {None}, at : 0..MaxTime]

Entry == [timestamp : 0..MaxTime, data : Figures]

ASSUME ProcessAssumption ==
    /\ Asks \in [Request -> SUBSET Route]
    /\ Hanging \subseteq Request
    /\ TTL \in Nat /\ MaxTime \in Nat
    /\ None \notin Nat \cup Route \cup Entry \cup Figures

VARIABLES
    main, listener, quit,      \* the main goroutine, that of Listen, the channel of signals
    requestCount, votesTotal,  \* the atomic counters of stats
    healthCache,               \* the pointer: an entry or None
    now,                       \* time.Now
    pc, route, start, found, seen,
               \* requests: where they are; which route; their now; the entry
               \* they judged; the figures they are to send
    before,    \* history: the requests that had been answered when this one was accepted
    overlapped,\* history: refreshes of the health cache have overlapped
    early      \* history: a signal came before signal.Notify

processVars == <<main, listener, quit, early>>
counterVars == <<requestCount, votesTotal>>
requestVars == <<pc, route, start, found, seen, before>>
vars == <<processVars, counterVars, healthCache, now, requestVars, overlapped>>

Running == main \notin {"stopped", "exited", "killed"}

(* Mutant: WebSockets count too. *)
OpenWithSockets == {r \in Request : pc[r] \notin {"off", "done"}}

(* The requests that app.Shutdown waits for. *)
Open == {r \in Request : pc[r] \notin {"off", "socket", "done"}}

RequestPc == {"off", "cors", "count", "health", "cached", "measure", "publish",
              "requests", "votes", "vote", "socket", "done"}

TypeOK ==
    /\ main \in {"boot", "notify", "wait", "drain", "stopped", "exited", "killed"}
    /\ listener \in {"off", "start", "open", "closed"}
    /\ quit \in BOOLEAN /\ early \in BOOLEAN /\ overlapped \in BOOLEAN
    /\ requestCount \in Nat /\ votesTotal \in 0..requestCount
    /\ healthCache \in Entry \cup {None}
    /\ now \in 0..MaxTime
    /\ pc \in [Request -> RequestPc]
    /\ route \in [Request -> Route \cup {None}]
    /\ start \in [Request -> 0..MaxTime]
    /\ found \in [Request -> Entry \cup {None}]
    /\ seen \in [Request -> Figures \cup {None}]
    /\ before \in [Request -> SUBSET Request]

Init ==
    /\ main = "boot" /\ listener = "off" /\ quit = FALSE /\ early = FALSE
    /\ requestCount = 0 /\ votesTotal = 0
    /\ healthCache = None /\ overlapped = FALSE
    /\ now = 0
    /\ pc = [r \in Request |-> "off"]
    /\ route = [r \in Request |-> None]
    /\ start = [r \in Request |-> 0]
    /\ found = [r \in Request |-> None]
    /\ seen = [r \in Request |-> None]
    /\ before = [r \in Request |-> {}]

Tick ==
    /\ now < MaxTime
    /\ now' = now + 1
    /\ UNCHANGED <<processVars, counterVars, healthCache, requestVars, overlapped>>

-----------------------------------------------------------------------------
(* main: everything is set up, the hub and the listener get a goroutine    *)
(* each, "server started" is logged, and only then signals are caught.     *)

ProcessStep == UNCHANGED <<counterVars, healthCache, now, requestVars, overlapped>>

Boot ==
    /\ main = "boot"
    /\ main' = "notify"
    /\ listener' = "start"
    /\ UNCHANGED <<quit, early>>
    /\ ProcessStep

Listen ==
    /\ Running
    /\ listener = "start"
    /\ listener' = "open"
    /\ UNCHANGED <<main, quit, early>>
    /\ ProcessStep

(* log.Fatal ends the process, also after "server started". *)
ListenFails ==
    /\ Running
    /\ listener = "start"
    /\ listener' = "closed"
    /\ main' = "exited"
    /\ UNCHANGED <<quit, early>>
    /\ ProcessStep

Notify ==
    /\ main = "notify"
    /\ main' = "wait"
    /\ UNCHANGED <<listener, quit, early>>
    /\ ProcessStep

(* SIGINT or SIGTERM: before Notify it kills, later it is put into the     *)
(* channel, where a second one finds no room and a third no reader.        *)
Signal ==
    /\ Running
    /\ IF main \in {"boot", "notify"}
       THEN main' = "killed" /\ early' = TRUE /\ UNCHANGED quit
       ELSE quit' = TRUE /\ UNCHANGED <<main, early>>
    /\ UNCHANGED listener
    /\ ProcessStep

(* app.Shutdown closes the listener at once. *)
ShutdownBegins ==
    /\ main = "wait"
    /\ quit
    /\ quit' = FALSE
    /\ main' = "drain"
    /\ listener' = "closed"
    /\ UNCHANGED early
    /\ ProcessStep

(* Mutant: the process does not wait for the requests it has accepted. *)
ShutdownEndsAtOnce ==
    /\ main = "drain"
    /\ main' = "stopped"
    /\ UNCHANGED <<listener, quit, early>>
    /\ ProcessStep

(* It returns when the last open request has; there is no time limit. *)
ShutdownEnds ==
    /\ main = "drain"
    /\ Open = {}
    /\ main' = "stopped"
    /\ UNCHANGED <<listener, quit, early>>
    /\ ProcessStep

-----------------------------------------------------------------------------
(* The requests.                                                           *)

Goes(r, from, to) ==
    /\ Running
    /\ pc[r] = from
    /\ pc' = [pc EXCEPT ![r] = to]

Accept(r) ==
    /\ listener = "open"
    /\ Goes(r, "off", "cors")
    /\ \E path \in Asks[r] : route' = [route EXCEPT ![r] = path]
    /\ before' = [before EXCEPT ![r] = {q \in Request : pc[q] = "done"}]
    /\ UNCHANGED <<processVars, counterVars, healthCache, now, start, found, seen, overlapped>>

(* CORS answers OPTIONS itself, in front of the counter. *)
Cors(r) ==
    /\ Goes(r, "cors", IF route[r] = "options" THEN "done" ELSE "count")
    /\ UNCHANGED <<processVars, counterVars, healthCache, now, route, start, found, seen, before, overlapped>>

First == [health |-> "health", metrics |-> "requests", vote |-> "vote", socket |-> "socket"]

(* atomic.AddInt64 *)
CountRequest(r) ==
    /\ Goes(r, "count", First[route[r]])
    /\ requestCount' = requestCount + 1
    /\ UNCHANGED <<processVars, votesTotal, healthCache, now, route, start, found, seen, before, overlapped>>

(* Mutant: the counter counts the requests in flight. *)
VoteReturnsCountsDown(r) ==
    /\ Goes(r, "vote", "done")
    /\ r \notin Hanging
    /\ requestCount' = requestCount - 1
    /\ votesTotal' \in {votesTotal, votesTotal + 1}
    /\ UNCHANGED <<processVars, healthCache, now, route, start, found, seen, before, overlapped>>

(* A vote that was sent is counted; see VoteForwarding. *)
VoteReturns(r) ==
    /\ Goes(r, "vote", "done")
    /\ r \notin Hanging
    /\ votesTotal' \in {votesTotal, votesTotal + 1}
    /\ UNCHANGED <<processVars, requestCount, healthCache, now, route, start, found, seen, before, overlapped>>

SocketCloses(r) ==
    /\ Goes(r, "socket", "done")
    /\ UNCHANGED <<processVars, counterVars, healthCache, now, route, start, found, seen, before, overlapped>>

(* Mutant: a scrape starts the counter again. *)
LoadRequestsResets(r) ==
    /\ Goes(r, "requests", "votes")
    /\ seen' = [seen EXCEPT ![r] = [requests |-> requestCount, votes |-> None, at |-> now]]
    /\ requestCount' = 0
    /\ UNCHANGED <<processVars, votesTotal, healthCache, now, route, start, found, before, overlapped>>

(* Metrics loads the counters one after the other, the votes last. *)
LoadRequests(r) ==
    /\ Goes(r, "requests", "votes")
    /\ seen' = [seen EXCEPT ![r] = [requests |-> requestCount, votes |-> None, at |-> now]]
    /\ UNCHANGED <<processVars, counterVars, healthCache, now, route, start, found, before, overlapped>>

LoadVotes(r) ==
    /\ Goes(r, "votes", "done")
    /\ seen' = [seen EXCEPT ![r].votes = votesTotal]
    /\ UNCHANGED <<processVars, counterVars, healthCache, now, route, start, found, before, overlapped>>

-----------------------------------------------------------------------------
(* Health: the pointer is read, judged, and read again.                    *)

Fresh(entry, time) == entry # None /\ time - entry.timestamp < TTL

HealthBegins(r) ==
    /\ Goes(r, "health", "cached")
    /\ start' = [start EXCEPT ![r] = now]
    /\ UNCHANGED <<processVars, counterVars, healthCache, now, route, found, seen, before, overlapped>>

HealthJudged(r) ==
    /\ pc[r] = "cached"
    /\ found[r] = None
    /\ found' = [found EXCEPT ![r] = healthCache]
    /\ Goes(r, "cached", IF Fresh(healthCache, start[r]) THEN "cached" ELSE "measure")
    /\ UNCHANGED <<processVars, counterVars, healthCache, now, route, start, seen, before, overlapped>>

(* The entry that is sent need not be the one that was judged. *)
HealthCached(r) ==
    /\ found[r] # None
    /\ Goes(r, "cached", "done")
    /\ seen' = [seen EXCEPT ![r] = healthCache.data]
    /\ UNCHANGED <<processVars, counterVars, healthCache, now, route, start, found, before, overlapped>>

(* getSystemMetrics walks through the cache directory before it. *)
HealthMeasured(r) ==
    /\ Goes(r, "measure", "publish")
    /\ seen' = [seen EXCEPT ![r] = [requests |-> requestCount, votes |-> None, at |-> now]]
    /\ UNCHANGED <<processVars, counterVars, healthCache, now, route, start, found, before, overlapped>>

(* Mutant: the entry is stamped when it is stored. *)
HealthPublishedLate(r) ==
    /\ Goes(r, "publish", "done")
    /\ healthCache' = [timestamp |-> now, data |-> seen[r]]
    /\ overlapped' = (overlapped \/ healthCache # found[r])
    /\ UNCHANGED <<processVars, counterVars, now, route, start, found, seen, before>>

(* The entry is stamped with the time at which the request began. *)
HealthPublished(r) ==
    /\ Goes(r, "publish", "done")
    /\ healthCache' = [timestamp |-> start[r], data |-> seen[r]]
    /\ overlapped' = (overlapped \/ healthCache # found[r])
    /\ UNCHANGED <<processVars, counterVars, now, route, start, found, seen, before>>

-----------------------------------------------------------------------------
MainRuns == Boot \/ Notify \/ ShutdownBegins \/ ShutdownEnds

ListenerRuns == Listen \/ ListenFails

Handles(r) ==
    \/ Cors(r) \/ CountRequest(r) \/ VoteReturns(r)
    \/ LoadRequests(r) \/ LoadVotes(r)
    \/ HealthBegins(r) \/ HealthJudged(r) \/ HealthCached(r)
    \/ HealthMeasured(r) \/ HealthPublished(r)

Next ==
    \/ MainRuns \/ ListenerRuns \/ Signal \/ Tick
    \/ \E r \in Request : Accept(r) \/ Handles(r) \/ SocketCloses(r)

Spec == Init /\ [][Next]_vars

(* The goroutines that can run do.  Nothing is fair about signals, about   *)
(* the arrival of requests and about sockets.                              *)
FairSpec ==
    /\ Spec
    /\ WF_vars(MainRuns)
    /\ WF_vars(ListenerRuns)
    /\ \A r \in Request : WF_vars(Handles(r))

-----------------------------------------------------------------------------
(* A process that has ended has answered every HTTP request it accepted,   *)
(* unless the signal came between the first accept and signal.Notify.      *)
AcceptedAreAnswered == ~ Running /\ ~ early => Open = {}

(* The entry that r judged was replaced before r read it. *)
Swapped(r) == found[r] # None /\ found[r].data # seen[r]

(* A health answer was measured less than a TTL before the question, or    *)
(* after it, although entries are replaced between the two reads by        *)
(* requests as slow as they like, unless that happened.                    *)
HealthIsRecent ==
    \A r \in Request : pc[r] = "done" /\ route[r] = "health" =>
        \/ seen[r].at >= start[r]
        \/ start[r] - seen[r].at < TTL
        \/ Swapped(r)

(* Who asks after an answer was given is told no smaller figures, be it by *)
(* a scrape or, unless refreshes have overlapped, by the health cache.     *)
FiguresGrow ==
    \A r \in Request : \A q \in before[r] :
        /\ {pc[q], pc[r]} = {"done"} /\ seen[q] # None /\ seen[r] # None
        /\ route[r] = "metrics" \/ (route[q] = "health" /\ ~ overlapped)
        => /\ seen[q].requests <= seen[r].requests
           /\ route[q] = "metrics" => seen[q].votes <= seen[r].votes

(* A signal that is caught ends the process, however many follow it: only  *)
(* a request that never returns can keep Shutdown waiting, and then keeps  *)
(* it for ever.                                                            *)
SignalEndsProcess ==
    quit ~> ~ Running \/ \E r \in Hanging : pc[r] = "vote"
=============================================================================
