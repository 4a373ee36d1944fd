------------------------ MODULE ServerProcessProofs ------------------------
(* What a shutdown leaves unanswered and what the figures say of each      *)
(* other, for any number of requests, any TTL and any clock.               *)
EXTENDS ServerProcess, Integers, FiniteSetTheorems, TLAPS

(* A vote is counted behind the request that brings it. *)
Voting == {r \in Request : pc[r] = "vote"}

VotesInv == IsFiniteSet(Voting) /\ votesTotal + Cardinality(Voting) <= requestCount

(* The types, but for the bound of the votes, which is VotesInv. *)
BasicTypes ==
    /\ main \in {"boot", "notify", "wait", "drain", "stopped", "exited", "killed"}
    /\ listener \in {"off", "start", "open", "closed"}
    /\ quit \in BOOLEAN /\ early \in BOOLEAN /\ overlapped \in BOOLEAN
    /\ requestCount \in Nat /\ votesTotal \in Nat
    /\ healthCache \in Entry \cup {None}
    /\ now \in 0..MaxTime
    /\ pc \in [Request -> RequestPc]
    /\ route \in [Request -> Route \cup {None}]
    /\ start \in [Request -> 0..MaxTime]
    /\ found \in [Request -> Entry \cup {None}]
    /\ seen \in [Request -> Figures \cup {None}]
    /\ before \in [Request -> SUBSET Request]

(* Nobody is served before there is a listener, and the process ends of    *)
(* its own accord only when nobody is being served.                        *)
MainInv ==
    /\ main = "boot" => listener = "off"
    /\ listener \in {"off", "start"} => \A r \in Request : pc[r] = "off"
    /\ main = "killed" => early
    /\ main \in {"stopped", "exited"} => Open = {}

(* Figures are of the past. *)
FiguresInv(f) ==
    /\ f.requests <= requestCount
    /\ f.votes # None => f.votes <= votesTotal
    /\ f.at <= now

EntryInv(entry) == entry # None => FiguresInv(entry.data) /\ entry.timestamp <= entry.data.at

CacheInv == EntryInv(healthCache)

(* Where a request is tells what it has read. *)
PlaceInv(r) ==
    /\ pc[r] # "off" => route[r] \in Route
    /\ pc[r] = "count" => route[r] # "options"
    /\ pc[r] \in {"health", "cached", "measure", "publish"} => route[r] = "health"
    /\ pc[r] \in {"requests", "votes"} => route[r] = "metrics"
    /\ pc[r] = "vote" => route[r] = "vote"
    /\ pc[r] = "socket" => route[r] = "socket"
    /\ pc[r] \in {"off", "cors", "count", "health"} => found[r] = None
    /\ pc[r] \notin {"votes", "publish", "done"} => seen[r] = None
    /\ pc[r] \in {"votes", "publish"} => seen[r] # None
    /\ pc[r] = "done" /\ route[r] \in {"health", "metrics"} => seen[r] # None
    /\ pc[r] = "done" /\ route[r] = "metrics" => seen[r].votes # None
    /\ seen[r] # None => route[r] \in {"health", "metrics"}

(* What it has read is of the past, and what it judged was fresh. *)
ReadInv(r) ==
    /\ start[r] <= now
    /\ seen[r] # None => FiguresInv(seen[r])
    /\ EntryInv(found[r])
    /\ found[r] # None => healthCache # None
    /\ pc[r] = "cached" /\ found[r] # None => start[r] - found[r].timestamp < TTL
    /\ pc[r] = "publish" => seen[r].at >= start[r]
    /\ pc[r] = "publish" /\ found[r] # None => found[r].data.requests <= seen[r].requests
    /\ pc[r] = "done" /\ route[r] = "health" =>
          seen[r].at >= start[r] \/ start[r] - seen[r].at < TTL \/ Swapped(r)

(* While no refreshes overlap, the cache holds the latest that was told. *)
ToldInv(q) ==
    ~ overlapped /\ pc[q] = "done" /\ route[q] = "health" =>
        healthCache # None /\ seen[q].requests <= healthCache.data.requests

(* Who was answered before r was accepted has been told no more than r. *)
OrderInv(r, q) ==
    q \in before[r] =>
        /\ pc[q] = "done"
        /\ seen[q] # None /\ pc[r] \in {"votes", "done"} /\ route[r] = "metrics" =>
              /\ seen[q].requests <= seen[r].requests
              /\ pc[r] = "done" /\ route[q] = "metrics" => seen[q].votes <= seen[r].votes
        /\ ~ overlapped /\ route[q] = "health" /\ pc[r] = "done" /\ route[r] = "health" =>
              seen[q].requests <= seen[r].requests

IndInv ==
    /\ BasicTypes /\ VotesInv /\ MainInv /\ CacheInv
    /\ \A r \in Request : PlaceInv(r) /\ ReadInv(r) /\ ToldInv(r)
    /\ \A r, q \in Request : OrderInv(r, q)

-----------------------------------------------------------------------------
(* The steps of the process and of a request.                              *)
ProcessStepOf == Boot \/ Listen \/ ListenFails \/ Notify \/ Signal \/ ShutdownBegins \/ ShutdownEnds \/ Tick

RequestStepOf(r) == Accept(r) \/ Handles(r) \/ SocketCloses(r)

LEMMA NoneIsNothing ==
    /\ None \notin Nat /\ None \notin Route /\ None \notin Entry /\ None \notin Figures
  BY ProcessAssumption

(* What the step of another request leaves of u. *)
Same(u) ==
    /\ pc'[u] = pc[u] /\ route'[u] = route[u] /\ start'[u] = start[u]
    /\ found'[u] = found[u] /\ seen'[u] = seen[u] /\ before'[u] = before[u]

(* What time and counters do. *)
Later ==
    /\ now' >= now /\ requestCount' >= requestCount /\ votesTotal' >= votesTotal
    /\ healthCache # None => healthCache' # None
    /\ overlapped => overlapped'

LEMMA ProcessFrame == ASSUME BasicTypes, ProcessStepOf PROVE Later /\ BasicTypes' /\ UNCHANGED <<counterVars, healthCache, requestVars, overlapped>>
<1> USE ProcessAssumption DEF BasicTypes, Later, ProcessStep, processVars, counterVars, requestVars
<1>1. CASE Boot
  BY <1>1 DEF Boot
<1>2. CASE Listen
  BY <1>2 DEF Listen
<1>3. CASE ListenFails
  BY <1>3 DEF ListenFails
<1>4. CASE Notify
  BY <1>4 DEF Notify
<1>5. CASE Signal
  <2>1. quit' \in BOOLEAN /\ early' \in BOOLEAN /\ UNCHANGED overlapped
    BY <1>5, Zenon DEF Signal
  <2> QED
    BY <1>5, <2>1 DEF Signal
<1>6. CASE ShutdownBegins
  <2>1. quit' \in BOOLEAN /\ early' \in BOOLEAN /\ UNCHANGED overlapped
    BY <1>6, Zenon DEF ShutdownBegins
  <2> QED
    BY <1>6, <2>1 DEF ShutdownBegins
<1>7. CASE ShutdownEnds
  BY <1>7 DEF ShutdownEnds
<1>8. CASE Tick
  BY <1>8 DEF Tick
<1> QED
  BY <1>1, <1>2, <1>3, <1>4, <1>5, <1>6, <1>7, <1>8 DEF ProcessStepOf

LEMMA OthersSame == ASSUME BasicTypes, NEW r \in Request, RequestStepOf(r), NEW u \in Request \ {r} PROVE Same(u)
<1> USE DEF BasicTypes, Same, Goes, processVars, counterVars, requestVars
<1>1. CASE Accept(r)
  BY <1>1 DEF Accept
<1>2. CASE Cors(r)
  BY <1>2 DEF Cors
<1>3. CASE CountRequest(r)
  BY <1>3 DEF CountRequest
<1>4. CASE VoteReturns(r)
  BY <1>4 DEF VoteReturns
<1>5. CASE SocketCloses(r)
  BY <1>5 DEF SocketCloses
<1>6. CASE LoadRequests(r)
  BY <1>6 DEF LoadRequests
<1>7. CASE LoadVotes(r)
  BY <1>7 DEF LoadVotes
<1>8. CASE HealthBegins(r)
  BY <1>8 DEF HealthBegins
<1>9. CASE HealthJudged(r)
  BY <1>9 DEF HealthJudged
<1>10. CASE HealthCached(r)
  BY <1>10 DEF HealthCached
<1>11. CASE HealthMeasured(r)
  BY <1>11 DEF HealthMeasured
<1>12. CASE HealthPublished(r)
  BY <1>12 DEF HealthPublished
<1> QED
  BY <1>1, <1>2, <1>3, <1>4, <1>5, <1>6, <1>7, <1>8, <1>9, <1>10, <1>11, <1>12 DEF RequestStepOf, Handles

LEMMA PublishedType ==
  ASSUME BasicTypes, NEW r \in Request, PlaceInv(r), HealthPublished(r)
  PROVE  healthCache' \in Entry /\ healthCache' # None
<1>1. seen[r] \in Figures /\ start[r] \in 0..MaxTime
  BY DEF BasicTypes, PlaceInv, HealthPublished, Goes
<1>2. healthCache' \in Entry
  BY <1>1 DEF HealthPublished, Entry
<1> QED
  BY <1>2, NoneIsNothing

LEMMA RequestLater == ASSUME BasicTypes, NEW r \in Request, PlaceInv(r), RequestStepOf(r) PROVE Later /\ UNCHANGED processVars
<1> USE NoneIsNothing DEF BasicTypes, Later, Goes, processVars, counterVars, requestVars
<1>1. CASE Accept(r)
  BY <1>1 DEF Accept
<1>2. CASE Cors(r)
  BY <1>2 DEF Cors
<1>3. CASE CountRequest(r)
  BY <1>3 DEF CountRequest
<1>4. CASE VoteReturns(r)
  BY <1>4 DEF VoteReturns
<1>5. CASE SocketCloses(r)
  BY <1>5 DEF SocketCloses
<1>6. CASE LoadRequests(r)
  BY <1>6 DEF LoadRequests
<1>7. CASE LoadVotes(r)
  BY <1>7 DEF LoadVotes
<1>8. CASE HealthBegins(r)
  BY <1>8 DEF HealthBegins
<1>9. CASE HealthJudged(r)
  BY <1>9 DEF HealthJudged
<1>10. CASE HealthCached(r)
  BY <1>10 DEF HealthCached
<1>11. CASE HealthMeasured(r)
  BY <1>11 DEF HealthMeasured
<1>12. CASE HealthPublished(r)
  <2>1. healthCache' # None
    BY <1>12, PublishedType DEF HealthPublished
  <2> QED
    BY <1>12, <2>1 DEF HealthPublished
<1> QED
  BY <1>1, <1>2, <1>3, <1>4, <1>5, <1>6, <1>7, <1>8, <1>9, <1>10, <1>11, <1>12 DEF RequestStepOf, Handles

LEMMA OwnTypes ==
  ASSUME BasicTypes, NEW r \in Request, PlaceInv(r), ReadInv(r), RequestStepOf(r)
  PROVE BasicTypes'
<1> USE NoneIsNothing, ProcessAssumption DEF BasicTypes, PlaceInv, Goes, RequestPc, Route, processVars, counterVars, requestVars
<1>1. CASE Accept(r)
  BY <1>1 DEF Accept
<1>2. CASE Cors(r)
  BY <1>2 DEF Cors
<1>3. CASE CountRequest(r)
  BY <1>3 DEF CountRequest, First
<1>4. CASE VoteReturns(r)
  BY <1>4 DEF VoteReturns
<1>5. CASE SocketCloses(r)
  BY <1>5 DEF SocketCloses
<1>6. CASE LoadRequests(r)
  BY <1>6 DEF LoadRequests, Figures
<1>7. CASE LoadVotes(r)
  BY <1>7 DEF LoadVotes, Figures
<1>8. CASE HealthBegins(r)
  BY <1>8 DEF HealthBegins
<1>9. CASE HealthJudged(r)
  BY <1>9 DEF HealthJudged
<1>10. CASE HealthCached(r)
  <2>1. healthCache.data \in Figures
    BY <1>10 DEF HealthCached, ReadInv, Entry
  <2> QED
    BY <1>10, <2>1 DEF HealthCached
<1>11. CASE HealthMeasured(r)
  BY <1>11 DEF HealthMeasured, Figures
<1>12. CASE HealthPublished(r)
  BY <1>12, PublishedType DEF HealthPublished
<1> QED
  BY <1>1, <1>2, <1>3, <1>4, <1>5, <1>6, <1>7, <1>8, <1>9, <1>10, <1>11, <1>12 DEF RequestStepOf, Handles

LEMMA OwnPlace ==
  ASSUME BasicTypes, NEW r \in Request, PlaceInv(r), ReadInv(r), RequestStepOf(r)
  PROVE PlaceInv(r)'
<1> USE NoneIsNothing, ProcessAssumption DEF BasicTypes, PlaceInv, Goes, Route, processVars, counterVars, requestVars
<1>1. CASE Accept(r)
  BY <1>1 DEF Accept
<1>2. CASE Cors(r)
  BY <1>2 DEF Cors
<1>3. CASE CountRequest(r)
  BY <1>3 DEF CountRequest, First
<1>4. CASE VoteReturns(r)
  BY <1>4 DEF VoteReturns
<1>5. CASE SocketCloses(r)
  BY <1>5 DEF SocketCloses
<1>6. CASE LoadRequests(r)
  BY <1>6 DEF LoadRequests, Figures
<1>7. CASE LoadVotes(r)
  BY <1>7 DEF LoadVotes, Figures
<1>8. CASE HealthBegins(r)
  BY <1>8 DEF HealthBegins
<1>9. CASE HealthJudged(r)
  BY <1>9 DEF HealthJudged
<1>10. CASE HealthCached(r)
  <2>1. healthCache.data \in Figures
    BY <1>10 DEF HealthCached, ReadInv, Entry
  <2> QED
    BY <1>10, <2>1 DEF HealthCached
<1>11. CASE HealthMeasured(r)
  BY <1>11 DEF HealthMeasured, Figures
<1>12. CASE HealthPublished(r)
  BY <1>12 DEF HealthPublished
<1> QED
  BY <1>1, <1>2, <1>3, <1>4, <1>5, <1>6, <1>7, <1>8, <1>9, <1>10, <1>11, <1>12 DEF RequestStepOf, Handles

(* What is of the past stays so. *)
LEMMA LaterFigures ==
  ASSUME BasicTypes, BasicTypes', Later, NEW f \in Figures, FiguresInv(f)
  PROVE  f.requests <= requestCount' /\ (f.votes # None => f.votes <= votesTotal') /\ f.at <= now'
<1>1. f.requests \in Nat /\ f.votes \in Nat \cup {None} /\ f.at \in Nat
  BY DEF Figures
<1> QED
  BY <1>1 DEF BasicTypes, Later, FiguresInv

LEMMA LaterRead ==
  ASSUME BasicTypes, BasicTypes', Later, NEW u \in Request, ReadInv(u), Same(u)
  PROVE  ReadInv(u)'
<1>1. start'[u] <= now'
  BY DEF BasicTypes, Later, ReadInv, Same
<1>2. seen'[u] # None => FiguresInv(seen[u])'
  BY LaterFigures DEF BasicTypes, ReadInv, Same, FiguresInv
<1>3. EntryInv(found[u])'
  <2>1. CASE found[u] # None
    <3>1. found[u].data \in Figures /\ FiguresInv(found[u].data) /\ found[u].timestamp <= found[u].data.at
      BY <2>1 DEF BasicTypes, ReadInv, EntryInv, Entry
    <3> QED
      BY <3>1, LaterFigures DEF Same, EntryInv, FiguresInv
  <2> QED
    BY <2>1 DEF Same, EntryInv
<1>4. (found[u] # None => healthCache # None)'
  BY DEF ReadInv, Same, Later
<1> QED
  BY <1>1, <1>2, <1>3, <1>4 DEF ReadInv, Same, Swapped

LEMMA LaterCache == ASSUME BasicTypes, BasicTypes', Later, CacheInv, UNCHANGED healthCache PROVE CacheInv'
<1>1. CASE healthCache # None
  <2>1. healthCache.data \in Figures /\ FiguresInv(healthCache.data) /\ healthCache.timestamp <= healthCache.data.at
    BY <1>1 DEF BasicTypes, CacheInv, EntryInv, Entry
  <2> QED
    BY <2>1, LaterFigures DEF CacheInv, EntryInv, FiguresInv
<1> QED
  BY <1>1 DEF CacheInv, EntryInv

(* What is read now. *)
LEMMA NowRead ==
  ASSUME BasicTypes, NEW f, f = [requests |-> requestCount, votes |-> None, at |-> now]
  PROVE  f \in Figures /\ f # None /\ FiguresInv(f)
<1>1. f \in Figures
  BY DEF BasicTypes, Figures
<1> QED
  BY <1>1, NoneIsNothing DEF BasicTypes, FiguresInv

LEMMA OwnRead ==
  ASSUME BasicTypes, BasicTypes', CacheInv, NEW r \in Request, PlaceInv(r), ReadInv(r), RequestStepOf(r)
  PROVE  ReadInv(r)'
<1> USE DEF Goes, processVars, counterVars, requestVars
<1>0. Later /\ now' = now
  BY RequestLater DEF processVars, RequestStepOf, Handles, Accept, Cors, CountRequest, VoteReturns, SocketCloses,
     LoadRequests, LoadVotes, HealthBegins, HealthJudged, HealthCached, HealthMeasured, HealthPublished
<1>1. CASE Accept(r) \/ Cors(r) \/ CountRequest(r) \/ VoteReturns(r) \/ SocketCloses(r)
  <2>1. UNCHANGED <<healthCache, now, start, found, seen>> /\ pc'[r] \notin {"cached", "publish"}
        /\ (pc'[r] = "done" => route'[r] # "health")
    BY <1>1 DEF BasicTypes, PlaceInv, First, Route, Accept, Cors, CountRequest, VoteReturns, SocketCloses
  <2>2. (seen[r] # None => FiguresInv(seen[r])') /\ EntryInv(found[r])'
    BY <1>0, <2>1, LaterFigures DEF BasicTypes, ReadInv, EntryInv, Entry, FiguresInv
  <2> QED
    BY <2>1, <2>2 DEF ReadInv
<1>2. CASE LoadRequests(r)
  <2>1. seen'[r] = [requests |-> requestCount, votes |-> None, at |-> now] /\ pc'[r] = "votes"
        /\ UNCHANGED <<healthCache, now, start, found, counterVars>>
    BY <1>2 DEF BasicTypes, LoadRequests
  <2>2. FiguresInv(seen'[r])
    BY <2>1, NowRead
  <2>3. FiguresInv(seen[r])'
    BY <2>1, <2>2 DEF FiguresInv
  <2> QED
    BY <2>1, <2>3 DEF ReadInv, EntryInv, FiguresInv
<1>3. CASE LoadVotes(r)
  <2>1. seen'[r] = [seen[r] EXCEPT !.votes = votesTotal] /\ pc'[r] = "done" /\ route'[r] = "metrics"
        /\ seen[r] \in Figures /\ seen[r] # None /\ UNCHANGED <<healthCache, now, start, found, counterVars>>
    BY <1>3 DEF BasicTypes, LoadVotes, PlaceInv
  <2>2. FiguresInv(seen[r])'
    BY <2>1 DEF ReadInv, FiguresInv, Figures, BasicTypes
  <2> QED
    BY <2>1, <2>2 DEF ReadInv, EntryInv, FiguresInv
<1>4. CASE HealthBegins(r)
  <2>1. start'[r] = now /\ pc'[r] = "cached" /\ seen[r] = None /\ found[r] = None
        /\ UNCHANGED <<healthCache, now, found, seen, counterVars>>
    BY <1>4 DEF BasicTypes, PlaceInv, HealthBegins
  <2> QED
    BY <2>1 DEF ReadInv, EntryInv, BasicTypes
<1>5. CASE HealthJudged(r)
  <2>1. found'[r] = healthCache /\ pc'[r] \in {"cached", "measure"} /\ seen[r] = None
        /\ (pc'[r] = "cached" => Fresh(healthCache, start[r]))
        /\ UNCHANGED <<healthCache, now, start, seen, counterVars>>
    BY <1>5 DEF BasicTypes, PlaceInv, HealthJudged
  <2> QED
    BY <2>1 DEF ReadInv, CacheInv, EntryInv, FiguresInv, Fresh
<1>6. CASE HealthCached(r)
  <2>1. seen'[r] = healthCache.data /\ found[r] # None /\ healthCache # None /\ pc[r] = "cached" /\ pc'[r] = "done"
        /\ UNCHANGED <<healthCache, now, start, found, counterVars>>
    BY <1>6 DEF BasicTypes, ReadInv, HealthCached
  <2>2. FiguresInv(seen[r])'
    BY <2>1 DEF CacheInv, EntryInv, FiguresInv
  <2>3. EntryInv(found[r])'
    BY <2>1 DEF ReadInv, EntryInv, FiguresInv
  <2>4. seen'[r] = found[r].data => start[r] - seen'[r].at < TTL
    <3>1. found[r].timestamp \in Nat /\ found[r].data.at \in Nat /\ start[r] \in Nat
      BY <2>1 DEF BasicTypes, Entry, Figures
    <3>2. found[r].timestamp <= found[r].data.at /\ start[r] - found[r].timestamp < TTL
      BY <2>1 DEF ReadInv, EntryInv
    <3> QED
      BY <3>1, <3>2, ProcessAssumption
  <2> QED
    BY <2>1, <2>2, <2>3, <2>4 DEF ReadInv, Swapped
<1>7. CASE HealthMeasured(r)
  <2>1. seen'[r] = [requests |-> requestCount, votes |-> None, at |-> now] /\ pc'[r] = "publish"
        /\ UNCHANGED <<healthCache, now, start, found, counterVars>>
    BY <1>7 DEF BasicTypes, HealthMeasured
  <2>2. FiguresInv(seen'[r])
    BY <2>1, NowRead
  <2>3. FiguresInv(seen[r])'
    BY <2>1, <2>2 DEF FiguresInv
  <2>4. found[r] # None => found[r].data.requests <= seen'[r].requests
    BY <2>1 DEF ReadInv, EntryInv, FiguresInv
  <2> QED
    BY <2>1, <2>3, <2>4 DEF ReadInv, EntryInv, FiguresInv
<1>8. CASE HealthPublished(r)
  <2>1. pc[r] = "publish" /\ pc'[r] = "done" /\ UNCHANGED <<now, start, found, seen, counterVars>>
    BY <1>8 DEF BasicTypes, HealthPublished
  <2>2. healthCache' # None
    BY <1>8, PublishedType
  <2> QED
    BY <2>1, <2>2 DEF ReadInv, EntryInv, FiguresInv
<1> QED
  BY <1>1, <1>2, <1>3, <1>4, <1>5, <1>6, <1>7, <1>8 DEF RequestStepOf, Handles

LEMMA CacheStep ==
  ASSUME BasicTypes, BasicTypes', CacheInv, NEW r \in Request, PlaceInv(r), ReadInv(r), RequestStepOf(r)
  PROVE  CacheInv'
<1>1. CASE HealthPublished(r)
  <2>1. healthCache'.data = seen[r] /\ healthCache'.timestamp = start[r] /\ seen[r] # None
        /\ pc[r] = "publish" /\ UNCHANGED <<now, counterVars>>
    BY <1>1 DEF HealthPublished, PlaceInv, Goes
  <2>2. seen[r].at >= start[r] /\ seen[r].at \in Nat /\ start[r] \in Nat
    BY <2>1 DEF ReadInv, BasicTypes, Figures
  <2> QED
    BY <2>1, <2>2 DEF ReadInv, CacheInv, EntryInv, FiguresInv, counterVars
<1>2. CASE ~ HealthPublished(r)
  <2>1. UNCHANGED healthCache
    BY <1>2 DEF RequestStepOf, Handles, Accept, Cors, CountRequest, VoteReturns, SocketCloses, LoadRequests,
       LoadVotes, HealthBegins, HealthJudged, HealthCached, HealthMeasured
  <2> QED
    BY <2>1, RequestLater, LaterCache
<1> QED
  BY <1>1, <1>2

-----------------------------------------------------------------------------
(* Every figure that can be told is a number. *)
LEMMA ToldTypes ==
  ASSUME BasicTypes
  PROVE  /\ \A u \in Request : seen[u] # None => seen[u].requests \in Nat
         /\ \A u \in Request : found[u] # None => found[u].data.requests \in Nat
         /\ healthCache # None => healthCache.data.requests \in Nat
  BY DEF BasicTypes, Entry, Figures

(* Only an answer tells something, and only a refresh changes the entry. *)
LEMMA WhoTells ==
  ASSUME BasicTypes, NEW r \in Request, PlaceInv(r), RequestStepOf(r), ~ HealthPublished(r)
  PROVE  /\ UNCHANGED <<healthCache, overlapped>>
         /\ ~ HealthCached(r) => ~ (pc'[r] = "done" /\ route'[r] = "health")
<1> USE DEF BasicTypes, PlaceInv, Goes, First, Route
<1>1. CASE Accept(r)
  BY <1>1 DEF Accept
<1>2. CASE Cors(r)
  BY <1>2 DEF Cors
<1>3. CASE CountRequest(r)
  BY <1>3 DEF CountRequest
<1>4. CASE VoteReturns(r)
  BY <1>4 DEF VoteReturns
<1>5. CASE SocketCloses(r)
  BY <1>5 DEF SocketCloses
<1>6. CASE LoadRequests(r)
  BY <1>6 DEF LoadRequests
<1>7. CASE LoadVotes(r)
  BY <1>7 DEF LoadVotes
<1>8. CASE HealthBegins(r)
  BY <1>8 DEF HealthBegins
<1>9. CASE HealthJudged(r)
  BY <1>9 DEF HealthJudged
<1>10. CASE HealthCached(r)
  BY <1>10 DEF HealthCached
<1>11. CASE HealthMeasured(r)
  BY <1>11 DEF HealthMeasured
<1> QED
  BY <1>1, <1>2, <1>3, <1>4, <1>5, <1>6, <1>7, <1>8, <1>9, <1>10, <1>11 DEF RequestStepOf, Handles

LEMMA ToldStep ==
  ASSUME BasicTypes, BasicTypes', NEW r \in Request, PlaceInv(r), PlaceInv(r)', ReadInv(r), RequestStepOf(r),
         NEW q \in Request, PlaceInv(q), ToldInv(q)
  PROVE  ToldInv(q)'
<1>1. CASE HealthPublished(r)
  <2>1. healthCache'.data = seen[r] /\ seen'[r] = seen[r] /\ seen[r] # None /\ pc[r] = "publish"
        /\ (~ overlapped' => ~ overlapped /\ healthCache = found[r])
    BY <1>1 DEF HealthPublished, PlaceInv, Goes
  <2>2. healthCache' # None
    BY <1>1, PublishedType
  <2>3. CASE q = r
    BY <2>1, <2>2, <2>3, ToldTypes DEF ToldInv
  <2>4. CASE q # r
    <3>1. Same(q)
      BY <2>4, OthersSame
    <3>2. ASSUME ~ overlapped', pc[q] = "done", route[q] = "health" PROVE seen[q].requests <= seen[r].requests
      <4>1. found[r] # None /\ seen[q].requests <= found[r].data.requests
        BY <2>1, <3>2 DEF ToldInv
      <4>2. found[r].data.requests <= seen[r].requests
        BY <2>1, <4>1 DEF ReadInv
      <4>3. seen[q] # None
        BY <3>2 DEF PlaceInv
      <4> QED
        BY <2>1, <4>1, <4>2, <4>3, ToldTypes
    <3> QED
      BY <2>1, <2>2, <3>1, <3>2 DEF ToldInv, Same
  <2> QED
    BY <2>3, <2>4
<1>2. CASE HealthCached(r)
  <2>1. healthCache' = healthCache /\ overlapped' = overlapped /\ seen'[r] = healthCache.data /\ healthCache # None
    BY <1>2 DEF HealthCached, ReadInv, BasicTypes, Goes
  <2>2. CASE q = r
    BY <2>1, <2>2, ToldTypes DEF ToldInv
  <2>3. CASE q # r
    BY <2>1, <2>3, OthersSame DEF Same, ToldInv
  <2> QED
    BY <2>2, <2>3
<1>3. CASE ~ HealthPublished(r) /\ ~ HealthCached(r)
  <2>1. UNCHANGED <<healthCache, overlapped>> /\ ~ (pc'[r] = "done" /\ route'[r] = "health")
    BY <1>3, WhoTells
  <2>2. CASE q = r
    BY <2>1, <2>2 DEF ToldInv
  <2>3. CASE q # r
    BY <2>1, <2>3, OthersSame DEF Same, ToldInv
  <2> QED
    BY <2>2, <2>3
<1> QED
  BY <1>1, <1>2, <1>3

(* A request that takes a step has not been answered. *)
LEMMA NotDone == ASSUME NEW r \in Request, RequestStepOf(r) PROVE pc[r] # "done"
  BY DEF RequestStepOf, Handles, Goes, Accept, Cors, CountRequest, VoteReturns, SocketCloses, LoadRequests, LoadVotes,
       HealthBegins, HealthJudged, HealthCached, HealthMeasured, HealthPublished

LEMMA OrderStep ==
  ASSUME BasicTypes, BasicTypes', NEW r \in Request, PlaceInv(r), PlaceInv(r)', ReadInv(r), RequestStepOf(r),
         NEW q \in Request, PlaceInv(q), ReadInv(q), ToldInv(q), OrderInv(r, q)
  PROVE  OrderInv(r, q)'
<1>0. pc[r] # "done"
  BY NotDone
<1>1. CASE Accept(r)
  <2>1. pc'[r] = "cors" /\ before'[r] = {u \in Request : pc[u] = "done"}
    BY <1>1 DEF Accept, Goes, BasicTypes
  <2>2. q \in before'[r] => pc'[q] = "done"
    BY <1>0, <2>1, OthersSame DEF Same
  <2> QED
    BY <2>1, <2>2 DEF OrderInv
<1>2. CASE ~ Accept(r)
  <2>1. before'[r] = before[r] /\ route'[r] = route[r]
    BY <1>2 DEF RequestStepOf, Handles, requestVars, Accept, Cors, CountRequest, VoteReturns, SocketCloses, LoadRequests, LoadVotes,
       HealthBegins, HealthJudged, HealthCached, HealthMeasured, HealthPublished
  <2> SUFFICES ASSUME q \in before[r] PROVE OrderInv(r, q)'
    BY <2>1 DEF OrderInv
  <2>2. pc[q] = "done" /\ q # r
    BY <1>0 DEF OrderInv
  <2>3. Same(q)
    BY <2>2, OthersSame
  <2>4. ASSUME ~ overlapped', route[q] = "health", pc'[r] = "done", route[r] = "health"
        PROVE  seen[q].requests <= seen'[r].requests
    <3>1. ToldInv(q)'
      BY ToldStep
    <3>2. seen[q].requests <= healthCache'.data.requests
      BY <2>2, <2>3, <2>4, <3>1 DEF ToldInv, Same
    <3>3. healthCache'.data = seen'[r]
      <4>1. CASE HealthPublished(r)
        BY <4>1 DEF HealthPublished
      <4>2. CASE ~ HealthPublished(r)
        <5>1. HealthCached(r)
          BY <2>1, <2>4, <4>2, WhoTells
        <5> QED
          BY <5>1 DEF HealthCached, BasicTypes
      <4> QED
        BY <4>1, <4>2
    <3> QED
      BY <3>2, <3>3
  <2>5. ASSUME seen[q] # None, pc'[r] \in {"votes", "done"}, route[r] = "metrics"
        PROVE  seen[q].requests <= seen'[r].requests
               /\ (pc'[r] = "done" /\ route[q] = "metrics" => seen[q].votes <= seen'[r].votes)
    <3>1. LoadRequests(r) \/ LoadVotes(r)
      BY <1>2, <2>1, <2>5 DEF RequestStepOf, Handles, PlaceInv, BasicTypes, Goes, First, Accept, Cors, CountRequest, VoteReturns, SocketCloses, LoadRequests, LoadVotes,
       HealthBegins, HealthJudged, HealthCached, HealthMeasured, HealthPublished
    <3>2. CASE LoadRequests(r)
      <4>1. seen'[r].requests = requestCount /\ pc'[r] = "votes"
        BY <3>2 DEF LoadRequests, BasicTypes, Goes
      <4> QED
        BY <2>5, <4>1 DEF ReadInv, FiguresInv
    <3>3. CASE LoadVotes(r)
      <4>1. seen[r] \in Figures /\ pc[r] = "votes" /\ seen'[r] = [seen[r] EXCEPT !.votes = votesTotal]
        BY <3>3 DEF LoadVotes, BasicTypes, PlaceInv, Goes
      <4>2. seen'[r].requests = seen[r].requests /\ seen'[r].votes = votesTotal
        BY <4>1 DEF Figures
      <4>3. seen[q].requests <= seen[r].requests
        BY <2>5, <4>1 DEF OrderInv
      <4>4. route[q] = "metrics" => seen[q].votes <= votesTotal
        BY <2>2, <2>5 DEF PlaceInv, ReadInv, FiguresInv
      <4> QED
        BY <4>2, <4>3, <4>4
    <3> QED
      BY <3>1, <3>2, <3>3
  <2> QED
    BY <2>1, <2>2, <2>3, <2>4, <2>5 DEF OrderInv, Same
<1> QED
  BY <1>1, <1>2

-----------------------------------------------------------------------------
LEMMA MainStep == ASSUME BasicTypes, MainInv, ProcessStepOf PROVE MainInv'
<1> USE DEF MainInv, ProcessStep, processVars, requestVars, Open
<1>1. CASE Boot
  BY <1>1 DEF Boot
<1>2. CASE Listen
  BY <1>2 DEF Listen
<1>3. CASE ListenFails
  BY <1>3 DEF ListenFails, Running
<1>4. CASE Notify
  BY <1>4 DEF Notify
<1>5. CASE Signal
  BY <1>5 DEF Signal, Running
<1>6. CASE ShutdownBegins
  BY <1>6 DEF ShutdownBegins
<1>7. CASE ShutdownEnds
  BY <1>7 DEF ShutdownEnds
<1>8. CASE Tick
  BY <1>8 DEF Tick
<1> QED
  BY <1>1, <1>2, <1>3, <1>4, <1>5, <1>6, <1>7, <1>8 DEF ProcessStepOf

LEMMA MainServes ==
  ASSUME BasicTypes, MainInv, NEW r \in Request, PlaceInv(r), RequestStepOf(r)
  PROVE  MainInv'
<1>1. Running /\ UNCHANGED <<main, listener, quit, early>>
  BY RequestLater DEF RequestStepOf, Handles, Goes, processVars, Accept, Cors, CountRequest, VoteReturns, SocketCloses, LoadRequests, LoadVotes,
       HealthBegins, HealthJudged, HealthCached, HealthMeasured, HealthPublished
<1>2. listener \notin {"off", "start"}
  <2>1. Accept(r) => listener = "open"
    BY DEF Accept
  <2>2. ~ Accept(r) => pc[r] # "off"
    BY DEF RequestStepOf, Handles, Goes, Accept, Cors, CountRequest, VoteReturns, SocketCloses, LoadRequests, LoadVotes,
       HealthBegins, HealthJudged, HealthCached, HealthMeasured, HealthPublished
  <2> QED
    BY <2>1, <2>2 DEF MainInv
<1> QED
  BY <1>1, <1>2 DEF MainInv, Running

LEMMA VotesServe ==
  ASSUME BasicTypes, BasicTypes', VotesInv, NEW r \in Request, PlaceInv(r), RequestStepOf(r)
  PROVE  VotesInv'
<1>0. \A u \in Request \ {r} : pc'[u] = pc[u]
  BY OthersSame DEF Same
<1>n. Cardinality(Voting) \in Nat
  BY FS_CardinalityType DEF VotesInv
<1>1. CASE CountRequest(r) /\ route[r] = "vote"
  <2>1. pc[r] = "count" /\ pc'[r] = "vote" /\ requestCount' = requestCount + 1 /\ votesTotal' = votesTotal
    BY <1>1 DEF CountRequest, Goes, First, BasicTypes, counterVars
  <2>2. Voting' = Voting \cup {r} /\ r \notin Voting
    BY <1>0, <2>1 DEF Voting
  <2>3. IsFiniteSet(Voting') /\ Cardinality(Voting') = Cardinality(Voting) + 1
    BY <2>2, FS_AddElement DEF VotesInv
  <2> QED
    BY <1>n, <2>1, <2>3 DEF VotesInv, BasicTypes
<1>2. CASE VoteReturns(r)
  <2>1. pc[r] = "vote" /\ pc'[r] = "done" /\ requestCount' = requestCount /\ votesTotal' \in {votesTotal, votesTotal + 1}
    BY <1>2 DEF VoteReturns, Goes, BasicTypes
  <2>2. Voting' = Voting \ {r} /\ r \in Voting
    BY <1>0, <2>1 DEF Voting
  <2>3. IsFiniteSet(Voting') /\ Cardinality(Voting') = Cardinality(Voting) - 1
    BY <2>2, FS_RemoveElement DEF VotesInv
  <2> QED
    BY <1>n, <2>1, <2>3 DEF VotesInv, BasicTypes
<1>3. CASE ~ VoteReturns(r) /\ ~ (CountRequest(r) /\ route[r] = "vote")
  <2>1. votesTotal' = votesTotal /\ requestCount' >= requestCount
    BY <1>3, RequestLater DEF Later, RequestStepOf, Handles, counterVars, Accept, Cors, CountRequest, VoteReturns, SocketCloses, LoadRequests, LoadVotes,
       HealthBegins, HealthJudged, HealthCached, HealthMeasured, HealthPublished
  <2>2. (pc'[r] = "vote") = (pc[r] = "vote")
    <3>1. CASE CountRequest(r)
      BY <1>3, <3>1 DEF CountRequest, Goes, First, PlaceInv, Route, BasicTypes
    <3>2. CASE ~ CountRequest(r)
      BY <1>3, <3>2 DEF RequestStepOf, Handles, Goes, BasicTypes, Accept, Cors, CountRequest, VoteReturns, SocketCloses, LoadRequests, LoadVotes,
       HealthBegins, HealthJudged, HealthCached, HealthMeasured, HealthPublished
    <3> QED
      BY <3>1, <3>2
  <2>3. Voting' = Voting
    BY <1>0, <2>2 DEF Voting
  <2> QED
    BY <1>n, <2>1, <2>3 DEF VotesInv, BasicTypes
<1> QED
  BY <1>1, <1>2, <1>3

-----------------------------------------------------------------------------
LEMMA InitInv == Init => IndInv
<1> SUFFICES ASSUME Init PROVE IndInv
  OBVIOUS
<1> USE NoneIsNothing, ProcessAssumption DEF Init
<1>1. BasicTypes
  <2>1. 0 \in 0..MaxTime
    OBVIOUS
  <2>2. quit \in BOOLEAN /\ early \in BOOLEAN /\ overlapped \in BOOLEAN
    BY Zenon
  <2> QED
    BY <2>1, <2>2 DEF BasicTypes, RequestPc
<1>2. VotesInv
  <2>1. Voting = {}
    BY DEF Voting
  <2> QED
    BY <2>1, FS_EmptySet DEF VotesInv
<1>3. MainInv
  BY DEF MainInv, Open
<1>4. CacheInv
  BY DEF CacheInv, EntryInv
<1>5. ASSUME NEW r \in Request PROVE PlaceInv(r) /\ ReadInv(r) /\ ToldInv(r)
  <2>1. pc[r] = "off" /\ found[r] = None /\ seen[r] = None /\ start[r] = 0 /\ route[r] = None
    OBVIOUS
  <2> QED
    BY <2>1 DEF PlaceInv, ReadInv, ToldInv, EntryInv
<1>6. \A r, q \in Request : OrderInv(r, q)
  BY DEF OrderInv
<1> QED
  BY <1>1, <1>2, <1>3, <1>4, <1>5, <1>6 DEF IndInv

LEMMA ProcessInv == ASSUME IndInv, ProcessStepOf PROVE IndInv'
<1> USE DEF IndInv
<1>1. Later /\ BasicTypes' /\ UNCHANGED <<counterVars, healthCache, requestVars, overlapped>>
  BY ProcessFrame
<1>2. MainInv'
  BY MainStep
<1>3. CacheInv'
  BY <1>1, LaterCache
<1>4. VotesInv'
  BY <1>1 DEF VotesInv, Voting, counterVars, requestVars
<1>5. ASSUME NEW r \in Request PROVE PlaceInv(r)' /\ ReadInv(r)' /\ ToldInv(r)'
  <2>1. Same(r)
    BY <1>1 DEF Same, requestVars
  <2>2. ReadInv(r)'
    BY <1>1, <2>1, LaterRead
  <2> QED
    BY <1>1, <2>1, <2>2 DEF Same, PlaceInv, ToldInv
<1>6. \A r, q \in Request : OrderInv(r, q)'
  BY <1>1 DEF OrderInv, requestVars
<1> QED
  BY <1>1, <1>2, <1>3, <1>4, <1>5, <1>6

LEMMA RequestInv == ASSUME IndInv, NEW r \in Request, RequestStepOf(r) PROVE IndInv'
<1>0. BasicTypes /\ VotesInv /\ MainInv /\ CacheInv
      /\ (\A u \in Request : PlaceInv(u) /\ ReadInv(u) /\ ToldInv(u))
      /\ (\A u, q \in Request : OrderInv(u, q))
  BY DEF IndInv
<1>1. Later
  BY <1>0, RequestLater
<1>2. BasicTypes'
  BY <1>0, OwnTypes
<1>3. VotesInv'
  BY <1>0, <1>2, VotesServe
<1>4. MainInv'
  BY <1>0, MainServes
<1>5. CacheInv'
  BY <1>0, <1>2, CacheStep
<1>6. PlaceInv(r)' /\ ReadInv(r)'
  BY <1>0, <1>2, OwnPlace, OwnRead
<1>7. ASSUME NEW u \in Request PROVE PlaceInv(u)' /\ ReadInv(u)'
  <2>1. CASE u = r
    BY <1>6, <2>1
  <2>2. CASE u # r
    <3>1. Same(u)
      BY <1>0, <2>2, OthersSame
    <3>2. ReadInv(u)'
      BY <1>0, <1>1, <1>2, <3>1, LaterRead
    <3> QED
      BY <1>0, <3>1, <3>2 DEF Same, PlaceInv
  <2> QED
    BY <2>1, <2>2
<1>8. ASSUME NEW u \in Request PROVE ToldInv(u)'
  BY <1>0, <1>2, <1>6, ToldStep
<1>9. ASSUME NEW u \in Request, NEW q \in Request PROVE OrderInv(u, q)'
  <2>1. CASE u = r
    BY <1>0, <1>2, <1>6, <2>1, OrderStep
  <2>2. CASE u # r /\ q = r
    <3>1. Same(u) /\ pc[r] # "done"
      BY <1>0, <2>2, OthersSame, NotDone
    <3>2. q \notin before'[u]
      BY <1>0, <2>2, <3>1 DEF Same, OrderInv
    <3> QED
      BY <3>2 DEF OrderInv
  <2>3. CASE u # r /\ q # r
    <3>1. Same(u) /\ Same(q)
      BY <1>0, <2>3, OthersSame
    <3>2. OrderInv(u, q)
      BY <1>0
    <3> QED
      BY <1>1, <3>1, <3>2 DEF Same, OrderInv, Later
  <2> QED
    BY <2>1, <2>2, <2>3
<1> QED
  BY <1>2, <1>3, <1>4, <1>5, <1>7, <1>8, <1>9 DEF IndInv

LEMMA NextInv == IndInv /\ [Next]_vars => IndInv'
<1> SUFFICES ASSUME IndInv, [Next]_vars PROVE IndInv'
  OBVIOUS
<1>1. CASE ProcessStepOf
  BY <1>1, ProcessInv
<1>2. ASSUME NEW r \in Request, RequestStepOf(r) PROVE IndInv'
  BY <1>2, RequestInv
<1>3. CASE UNCHANGED vars
  BY <1>3 DEF vars, processVars, counterVars, requestVars, IndInv, BasicTypes, VotesInv, Voting, MainInv, Open,
     CacheInv, EntryInv, FiguresInv, PlaceInv, ReadInv, Swapped, ToldInv, OrderInv
<1> QED
  BY <1>1, <1>2, <1>3 DEF Next, ProcessStepOf, RequestStepOf, MainRuns, ListenerRuns

(* The inductive invariant holds in every state. *)
THEOREM ProcessInvariant == Spec => []IndInv
  BY InitInv, NextInv, PTL DEF Spec

(* Type correctness; no more votes are counted than requests. *)
THEOREM ProcessTypes == Spec => []TypeOK
<1>1. IndInv => TypeOK
  <2> SUFFICES ASSUME IndInv PROVE TypeOK
    OBVIOUS
  <2>1. BasicTypes /\ VotesInv
    BY DEF IndInv
  <2>2. Cardinality(Voting) \in Nat
    BY <2>1, FS_CardinalityType DEF VotesInv
  <2>3. votesTotal \in 0..requestCount
    BY <2>1, <2>2 DEF BasicTypes, VotesInv
  <2> QED
    BY <2>1, <2>3 DEF BasicTypes, TypeOK
<1> QED
  BY <1>1, ProcessInvariant, PTL

(* A process that has ended has answered what it accepted, unless a signal *)
(* came before it was caught.                                              *)
THEOREM ShutdownAnswers == Spec => []AcceptedAreAnswered
<1>1. IndInv => AcceptedAreAnswered
  BY DEF IndInv, MainInv, AcceptedAreAnswered, Running, BasicTypes
<1> QED
  BY <1>1, ProcessInvariant, PTL

(* A health answer is as recent as the TTL says, however slow the requests *)
(* that fill the cache are, unless the entry was replaced under the reader.*)
THEOREM HealthRecent == Spec => []HealthIsRecent
<1>1. IndInv => HealthIsRecent
  BY DEF IndInv, ReadInv, HealthIsRecent
<1> QED
  BY <1>1, ProcessInvariant, PTL

(* No answer tells less than one that was given before it was asked for.   *)
THEOREM FiguresNeverFall == Spec => []FiguresGrow
<1>1. IndInv => FiguresGrow
  <2> SUFFICES ASSUME IndInv, NEW r \in Request, NEW q \in before[r],
                      pc[q] = "done", pc[r] = "done", seen[q] # None, seen[r] # None,
                      route[r] = "metrics" \/ (route[q] = "health" /\ ~ overlapped)
               PROVE  seen[q].requests <= seen[r].requests
                      /\ (route[q] = "metrics" => seen[q].votes <= seen[r].votes)
    BY DEF FiguresGrow
  <2>1. q \in Request /\ OrderInv(r, q) /\ PlaceInv(r)
    BY DEF IndInv, BasicTypes
  <2>2. CASE route[r] = "metrics"
    BY <2>1, <2>2 DEF OrderInv
  <2>3. CASE route[r] # "metrics"
    <3>1. route[r] = "health"
      BY <2>1, <2>3 DEF PlaceInv
    <3> QED
      BY <2>1, <2>3, <3>1 DEF OrderInv
  <2> QED
    BY <2>2, <2>3
<1> QED
  BY <1>1, ProcessInvariant, PTL
=============================================================================
