# TLA+ verification of the MineNepal backend

The modules here specify the Go program of this repository (`cmd/`,
`internal/`, `pkg/`): its WebSocket hub, its status cache, its forwarding of
votes, the status and banner requests, what it makes of an answer to a ping,
and the life of the process with the figures it tells about itself. TLC checks
them on small instances, and TLAPS proves nearly all their safety properties
for every value of the constants. `PROJECT.json` lists the components, the
runs, the mutants that show each property can fail, the source lines behind
every definition, the findings, the hazards and the theorems.

## 1. The system

| component | state | operations | talks to |
|---|---|---|---|
| WebSocket hub, `internal/websocket/hub.go` | `clients`, `serverHub` (both under `h.mu`), the channels `register`, `unregister`, `broadcast` | `Run` (one goroutine), `Register`, `Unregister`, `Subscribe`, `Unsubscribe`, `broadcastToServer` | the handlers and vote requests, by channel, lock and direct call; the peers, by `WriteMessage` |
| WebSocket handler, `internal/handler/websocket.go` | one goroutine per connection; `Client.Subscriptions` under `client.mu` | `Handle`, `handleMessage`, `sendAck`, `sendError` | the hub |
| Vote handler, `internal/handler/vote.go` and `internal/service/votifier.go` | one goroutine and one TCP connection per vote; `stats.VotesTotal` | `SendVote`, `sendV1`, `sendV2` | the Votifier plugin of a game server; the hub |
| Status cache, `internal/service/cache.go` | `memory` under `c.mu`; one JSON file per key without any lock | `Get`, `Set` (`Delete` and `Cleanup` have no caller) | the disk |
| Server status, `internal/service/server.go` and `internal/handler/status.go` | none of its own; an icon file per server | `GetStatus`, `GetStatusBulk`, `queryServer`, `saveFavicon`, `decodeBase64`, the two forms of a MOTD | the cache, the game servers, DNS |
| Banners, `internal/handler/banner.go` and `internal/service/banner.go` | reads the icon files | `GetBanner`, `GenerateBanner` | server status |
| Health, metrics, statistics | `healthCache` (a pointer without a lock), atomic counters, a ring of response times under a mutex | `Health`, `Metrics`, `Increment*` | `/cache` on disk |
| Start-up, shutdown, middleware, `cmd/server/main.go` | the main goroutine, the listener, the channel of signals | `main`, CORS, the request counter, `Shutdown` | every handler |
| Configuration, `internal/config/config.go` | constant after start | `Load` | everything |
| `minenepal.js` | the Node predecessor | - | nothing in the Go program |

What is hard in this code:

* **The hub.** One goroutine owns the registration channels, every goroutine
  shares one `sync.RWMutex`, and broadcasts hold its read lock while they write
  to sockets *and* while they send to the goroutine that needs the write lock.
  A pending writer of an `RWMutex` keeps new readers out. The subscriptions
  exist twice (the client's map, the hub's lists) and are changed in two steps.
  Writes have no deadline, and the WebSocket library panics on overlapping
  writes to one connection.
* **The cache.** Map and file are two copies changed in two steps under
  different protection (a lock, none). `Get` reads the file outside the lock
  and stores what it read. Requests that miss together all query and all store.
  Files survive a crash at any point, `os.WriteFile` truncates first, and its
  error is ignored.
* **Votes.** A foreign program decides, may credit a vote and never say so, or
  say nothing at all; only the dial has a timeout. The outcome is told three
  times (subscribers, counter, submitter) with a hub call in between that may
  block or panic.
* **Status requests.** Five routes turn texts into servers in three different
  ways; the key of a status, the address that is asked and the name of its icon
  are each made from a host and a port again. Icon files are truncated and
  filled in place by any request that has just queried, while banners read them
  and cached statuses link to them for longer than any request lives.

* **Answers to pings.** Texts of a foreign server go through two regular
  expressions that must agree, a hand-written base64 loop that indexes a slice
  and lets its buffer overflow, a chain of replacements for XML, and a cut by
  bytes; a panic in any of them costs the client the status.
* **The process.** The listener runs before signals are caught; `Shutdown` has
  no time limit, does not know of the WebSockets and happens once. The health
  cache is a pointer without a lock that a request reads twice and replaces
  after a slow walk through the cache directory, and no two of the counters are
  read at one instant.

What makes each component correct:

* hub: the two copies of the subscriptions agree; a broadcast reaches exactly
  the clients subscribed at one instant, once, whatever the others do; a client
  that is there is known, and one that is gone stays listed for two known reasons
  only; it stops only by the four known orders of locks, writes and channels;
* cache: what a client is given was observed of the very server it asked for,
  not longer ago than promised; a stored status spares the game server for its
  TTL, also across restarts; map and file do not drift apart;
* votes: a reported success is a credited vote; one request credits once; what
  a failure says about the vote is known; everyone is told the same;
* status requests: each text with a proper port, or none, is answered with a
  status of the server it means, whoever cached it; an icon link leads to the icon of that server;
* answers to pings: a favicon never panics and decodes as RFC 4648 says (where
  the RFC refuses a character, as if a digit 0 stood there); the two forms of a
  MOTD tell the same text; the texts of a banner are XML and read as they were
  sent, unless a version is cut inside a character or the ip holds markup;
* the process: a shutdown answers what was accepted, a signal is not lost, and
  what the process says of itself is recent and does not go backwards.

## 2. Modules

| module | what it is |
|---|---|
| `PubSub` | what the hub promises: a subscription table, and broadcasts addressed once to the clients of one instant |
| `WebSocketHub` | hub, handlers and broadcasting requests; implements `PubSub` |
| `WebSocketHubProofs` | the theorems about the hub |
| `FreshStatus` | what the status endpoints promise: answers that were observed, recently or for the client itself |
| `StatusCache` | the cache and the requests around it; implements `FreshStatus` |
| `StatusCacheProofs` | the theorems about the cache |
| `VoteVerdict` | what `POST /api/vote` promises: a verdict that is true of the vote, and told unchanged |
| `VoteForwarding` | the vote handler, both Votifier protocols, and the plugin; implements `VoteVerdict` |
| `VoteForwardingProofs` | the theorems about votes |
| `VoteNews` | `VoteVerdict` and `PubSub` together: the vote handler calls the hub |
| `VoteNewsProofs` | the theorems about what subscribers are told of votes |
| `StatusRequests` | the status, bulk and banner routes: addresses, keys, pings and icon files |
| `StatusRequestsProofs` | the theorems about status requests |
| `PingResponse` | what becomes of an answer to a ping: MOTD, version, favicon, and the texts of a banner |
| `PingResponseProofs` | the theorems about `decodeBase64` |
| `PingTextProofs` | the theorems about the MOTD and the texts of a banner |
| `ServerProcess` | start-up, shutdown, CORS, the counters, health and metrics |
| `ServerProcessProofs` | the theorems about the process |
| `MC...` | each of the seven for TLC: symmetry sets, the texts that clients and servers write, the routes that requests ask for |

### WebSocketHub

A goroutine is a program counter: `hubPc` for `Run`, `pc[c]` for the handler of
client `c`, `rpc[r]` for a request that broadcasts. An action is what one
goroutine does between two points where another can get in: asking for the
lock, the critical section, a rendezvous on an unbuffered channel, the begin and
the end of a `WriteMessage`.

* `writer` is the goroutine that holds *or has asked for* the write lock. While
  it is set nobody else gets either lock (`LockFree`), and its critical section
  waits for `readers` to be empty (`Exclusive`). Asking and entering are two
  actions, so that a broadcast with a read lock can keep `Run` waiting.
* A send on `h.register` or `h.unregister` needs `hubPc = "select"` and moves
  both goroutines in one step.
* `serverHub[s][c]` is how often `c` occurs in the slice of `s`. The order
  inside a slice decides nothing but the order of writes, so that a broadcast
  goes through its copy (`left[r]`) in any order. `clients[s]` read under the
  first `RLock` is that copy: `removeSubscription` builds a new slice and
  `append` never changes the elements a copy sees.
* `RunUnregister` goes to `removeSubscription` with the lock still held when
  the client has a subscription: `Run` then waits in `RunLock` for itself.
* `conn[c]` is the connection: open, stalled (the peer does not read: a write
  does not return), dead (the peer is gone: a write fails, or lands in a
  buffer), closed (by this side). `Leavers`, `Stallers` and `Subscribers` say
  which peers may do what, `OverlapPanics` whether the library notices
  overlapping writes.
* History variables: `received` counts the copies of a broadcast a client was
  sent; `due` and `barred` are the clients that were idle, and subscribed or
  not, when the broadcast read its list; `dropped` are the clients that `Run`
  has removed, at the word of a broadcast, while their handlers still ran;
  `overlapped` are the clients on whose connection two writes have met and the
  library has panicked.

A peer that has gone may have left messages behind, which its handler still
receives before it reads the error (`CanReceive`). A handler that is inside
`Subscribe` when `Run` removes its client adds it to a list once more, and `Run`
finds nothing to do when the handler unregisters it. A subscribed client that
leaves in the ordinary way stays in its lists too, because `Run` locks itself
out over it. `GoneFromLists` says that a client whose handler has returned is
listed for one of these two reasons or because `Run` is just about to look at
it. `DroppedOnlyIfBroken` says that `Run`, which reads the client's map without
`client.mu` (hub.go:55), does so only when the handler has ended or the
connection has broken.

`client.mu` is left out: only the client's own handler goroutine takes it.

### StatusCache

A request's `pc` walks through `Get`, the query and `Set`. A status is its time
stamp: the time its query ended, which is the `Timestamp` that `Set` gives it,
because `GetStatus` calls `Set` at once. Online and offline answers are cached
alike, so that a query always ends with a status. `file[k]` is a time stamp,
`None` (no file), `Empty` (truncated) or `Garbage` (a torn or overlapping
write). `Restart` forgets the map and all requests and keeps the files, also
between `Truncate` and `WriteEntry`.

`Restarts`, `Prompt` and `DiskFails` choose the environment: when the program
may be restarted; whether everything but a query is instantaneous on the clock
(which keeps larger instances small; without it a request may be delayed at any
point for any time); and whether writing may fail.

History variables: `observed` are all queries; `stored[k]` the last `Set` that
returned; `promised[r]` what was stored when `r` turned to its server; `alone`,
`disturbed` and `calm` record which requests have been crossed on the slow path
(past the map), because two crossing `Set`s leave map and file in any order.

### VoteForwarding

One request per vote: `Accept` (or `RejectInvalid`), `Dial`, the greeting, the
write, for v2 the answer, then `Announce` (the call of `BroadcastVote`), its
return or its panic, `Count` and `Reply`. `Return` is the return of the service
together with its deferred `Close`. The plugin is external: it greets with a v1
or v2 line or one without a challenge, credits a packet only if it is whole and
genuine, may refuse any, answers v2, and may go away after any step. Two
promises of the plugin are assumed (`PluginAnswers`): it says "ok" only of a vote
that it has credited, and of one that it has credited it never says anything
else that can be read. An answer that is malformed, or none at all, may follow in
either case. `VerdictSpec` rests on both: on the first where a reported success is
a credited vote, on the second where a refusal is none. The announcement is two
steps here; what the hub does between them is in `VoteNews`.

`VoteVerdict` is what is left of it without connections and errors. A vote is
pending until the request comes to a verdict: `credited` (the plugin has said
so), `sent` (v1, which nobody confirms), `refused` (not credited, and never will
be) or `unknown` (the answer was lost or unreadable). `VerdictOf` reads the
verdict off the protocol and the error, `StageOf` how far the request is off
its `pc`.

The length field of a v2 packet has 16 bits (`LengthField`).

### VoteNews

The handler and the hub, each by what it promises: a step is one of
`VoteVerdict`, of `PubSub`, or of both. `Announce` is the call of
`BroadcastVote`, `Publish` the moment in which the hub reads its list, and
`AnnounceReturns` and `AnnouncePanics` need the broadcast to be over.
`ServerKey` is the key the handler makes of the submitted ip and port, with
25565 for a port that is not given (vote.go:81). A subscription is a text of the
client (websocket.go:63), the documented `ip:port` (task.md:323) or one without a
port; `Concerns` says which of them mean the game server of a vote, without the
function: a client that has written the ip alone hears of no vote. History:
`due[v]` are the clients that were subscribed to the game server when the
outcome was announced, less those that left before the list was read or whose
connection failed; `before[v]` are the votes that had been replied to when `v`
was submitted.

### StatusRequests

What a client writes for a server is a record: a name and what follows a colon
(`None`, a number, or `Junk`). `ParseHostPort`, `ParseServer` and
`BannerServer` are the three ways to make an ip and a port of it: the banner
handler takes the whole text for the ip and the `{port}` of its path for the
port, the status handler cuts the text and ignores the path. A cache key is the
parts of what is printed (`Printed`), an address a name and a port of 16 bits. An
icon name is a port and what `sanitizeFilename` makes of the host: its separators
become `_`, so that a host with a port behind it may share a file name with
another host (`Underscored`; the instance has such a pair).

A request works through the servers it was asked for: `CacheHit` or
`CacheMiss`, a ping, the icon, `Store`. The cache is taken from `StatusCache`:
under each key there may be a status, it may be found or have expired, and its
files outlive a restart. `file[f]` is the address whose favicon the icon file
holds, `Torn`, or the request that has truncated it and is filling it. Two
requests that fill one file at once leave either picture or a mixture.
`DrawBanner` reads the file as it is.

`mcping` is external: a ping is answered or fails, and a host that has a port
already, which is what `lookupSRV` returns, cannot be dialled. History
variables: `answered`, the addresses that have answered; `spoiled`, the icon
files whose last saves crossed, failed or were killed. A bulk request without
servers is refused without touching any state, and left out.

### PingResponse

One answer to a ping, from the second half of `queryServer` to the texts of a
banner. MOTD and version are sequences of characters, the favicon one of base64
digits (a digit stands for its index in the alphabet) that may begin with the
prefix of a data URI and hold padding and foreign characters. `StripColorCodes`
and `FormatMOTDHTML` translate the two expressions and how a match
consumes the text; `EscapeXML` is the chain of replacements on one text; a
version is cut by bytes, of which a character may have two. All of them are
`ReplaceAll`: a text is read from the left, and the characters from `p` to
`end[p]` become `by[p]`. `decodeBase64` is
one step per character, with `buffer` in a word of `Word` values and a slice of
`DecodedLen` bytes; a write behind it is the state `panicked`. A character that is
not in the alphabet is no reason to stop: it counts as the digit 0. Which byte
sequences are a picture (`png.Decode`) is a constant.

The ip of a status is a text of its own, a raw piece of the path on the banner
route. It stands in for an empty MOTD, escaped, and it is written with the port
into the last text of the banner, unescaped (`BannerAddress`, banner.go:111-112).

### ServerProcess

`main` is a program counter of its own, next to the goroutine of the listener
and one per request. `Boot` starts the listener, and only `Notify` catches
signals: one that comes before kills the process. A caught signal sets `quit`
(the channel holds one, a second finds no room), `ShutdownBegins` closes the
listener, and `ShutdownEnds` waits for the requests the HTTP server knows, of
which a WebSocket is none once it has been handed over.

A request passes CORS, where a preflight ends, and the counter, and goes to its
route. `Health` reads the pointer and judges the entry, then reads it again for
the answer, or measures and publishes. A scrape loads the counters one after
the other. A vote may add to `votesTotal` when it returns, which the members of
`Hanging` do not; a WebSocket stays until it closes. History: `before[r]` are the
requests that had been answered when `r` was accepted; `overlapped` and `early`
record that refreshes of the health cache overlapped and that a signal came
before `Notify`.

## 3. What is checked

Runs that pass:

| run | instance | what it shows |
|---|---|---|
| `hub_locks` | 2 clients that subscribe, leave and stall; 1 server; 1 broadcast; panics | types; the two copies of the subscriptions agree (`SubscriptionsMatch`); who is due is served (`SubscribersServed`); known clients (`OpenMeansRegistered`); who may be dropped (`DroppedOnlyIfBroken`) and for which three reasons the gone stay listed (`GoneFromLists`); the server stops only for the four known reasons (`StuckOnlyForKnownReasons`); the self-lock is final (`SelfLockIsFinal`); refinement of `PubSub` |
| `hub_liveness` | 2 clients, the one that leaves does not subscribe, none stalls; 1 broadcast; panics | unless a panic has stopped the hub (`PanicStopsHub`): `BroadcastsEnd`, `MessagesAnswered`, `DepartedForgotten`, `VoteReachesSubscribers` |
| `cache_requests` | 2 servers, 2 requests for any of them, restarts at any point, disk errors, any delays, a clock with two instants | types, `MemoryAgreesWithFile`, `CachedForTTL`, refinement of `FreshStatus` |
| `vote_outcomes` | 2 votes, lengths 100 and 65636, a key for 245 bytes, hub panics | types, `CreditedOnce`, `FailedMeansNotCredited`, `VotesEnd`, refinement of `VoteVerdict` |
| `vote_news` | 2 votes for one game server, one of them without its port; 2 clients that come and go; 2 subscription keys, with the port and without | `NewsIsTrue`, `NewsBeforeReply`, `NewsInOrder` |
| `status_requests` | 2 one-shot requests, a host with a dot in its name and one without, texts with and without a port and with junk, ports 25565, 25566 and 91101, bulks of up to 2, a host whose icon name is another's, disk errors, restarts | types, `AnswerFitsQuestion`, `IconLinkResolves`, `IconsWhole`, `BannerShowsOwnIcon` |
| `ping_response` | every MOTD and version of up to 4 characters, every favicon of up to 4 digits, padding and foreign characters; an ip with markup and one without | types, `DecodeInBounds`, `DecodesEveryFavicon`, `MotdToldTwice`, `BannerReadsBack` |
| `server_process` | 3 requests for every route, one of them a vote that never returns or a health check; signals at any moment, a clock of two instants, a TTL of 1 | types, `AcceptedAreAnswered`, `HealthIsRecent`, `FiguresGrow`, `SignalEndsProcess` |

Runs that end in a counterexample, each against a sentence of the repository's
documents (quoted under "findings" in `PROJECT.json`):

| run | what the code does |
|---|---|
| `hub_subscriber_leaves` | a subscribed client leaves; `Run` locks `h.mu` (hub.go:50) and calls `removeSubscription` (56), which locks it again (117): the hub is dead, and a vote does not reach the subscribers that stay. Two clients that fail lead there another way: the broadcast holds its read lock and sends on `h.unregister` (175) while `Run` waits for the write lock |
| `cache_lost_update` | after a restart a request stores the old file over an entry that is newer (cache.go:68) |
| `vote_silent_plugin` | a plugin accepts and says nothing: the read has no deadline (votifier.go:67, 116, 174) |
| `status_port_in_path` | `/status/{ip}/{port}` answers with the default port: the handler reads `{ip}` only (status.go:29) |

The first is about the same hub that keeps all its safety properties: what goes
wrong is that it stops. `StuckOnlyForKnownReasons` names the four ways: the
self-lock; the send with the read lock held; a peer that does not read, so that
`WriteMessage` (hub.go:173) blocks with the read lock held; and the read lock
that a panicking broadcast leaves behind.

Where the documents and the code differ without a run of its own, the comment
of the property says so; these are all that were met:

| documents | code |
|---|---|
| the vote flow of task.md:235-247 returns 200 before the broadcast, and has none beside a failure's 500 | vote.go:67-88 broadcasts either outcome and then replies (`NewsBeforeReply`) |
| a bad ip or port gets 400 (task.md:88, 866) | the status routes take junk for the default port, and cut a number to 16 bits for the query (`AnswerFitsQuestion`) |
| a bulk answer has a key `ip:port` for each server (API_DOCS.md:117-147) | the key is the text of the client as it stands, with a port or without (server.go:54-67) |
| a banner is `image/svg+xml` (task.md:449) | the address in it is not escaped (service/banner.go:111), and the version is cut by bytes (106): either may leave a text that is no XML (`BannerReadsBack`) |
| 500 means "server refused packet" (task.md:869) | the vote may have been credited and its answer lost (`FailedMeansNotCredited`) |

**Bounds.** Two clients are enough for every conflict between clients: one is
written to, replied to, dropped or unregistered while another is, and one
broadcast is enough to be between them. Two overlapping broadcasts and two
servers are no instance of a run: what they could break (a second copy, an
overlap on one connection, a client missed, a loop that goes round twice) is
covered by the theorems of section 5, which hold for any number of them. Only
the first half of `StuckOnlyForKnownReasons` rests on one broadcast and one
server.

Two votes are one that is being told while another ends, and for an order of
news; the keys are those with the default port and without a port, so that a
client may have subscribed to the documented key or to one under which nothing is
announced, and a vote announced as it came would reach the wrong one. Two clients are one
that is due and one that comes, leaves or fails meanwhile.

In the cache two requests are a reader and a setter, or two setters, of one
file, and a third request that finds what they left is one of the two starting
again. Two servers are enough to be given the wrong one. The TTL is 0, which is
what `DISABLE_CACHE` sets, and the clock 0 or 1: an entry is fresh in its
instant and expired in the next, so that old and new entries, requests that
sleep through an expiry and answers at the very limit of the TTL all occur;
what larger times add is only more of them, and the theorems hold for any.

Status requests meet in the cache and in the icon files: one stores what the
other finds, one saves the icon the other saves, links to or draws, and a bulk
request is two requests of one client. 91101 is 25565 to a 16-bit port.

Four characters hold a code, the text behind it and the beginning of the next;
codes in a row; a section sign without a code; and a code around a code, which
one pass leaves behind. Four digits are a whole group of base64, and with a
prefix the bytes of a picture. `Word` is 2^16, so that the buffer overflows
within four digits as that of an `int` does within eleven, and `MaxVersion` is
3, so that versions are cut, in the middle of a character too.

Three requests are two that refresh the health cache while a third reads it, or
a request that hangs, one that ends and one that begins behind it. With a TTL of
1 an entry is fresh in its instant and expired in the next.

Messages of a client, restarts and cache requests are not bounded: the state spaces
are finite because the state is. The votes share nothing but the counter and,
in `vote_news`, the subscribers.

**Deadlock** is not checked where the instance may stop: a hub that has stopped,
in `hub_liveness` by a panic, is what `StuckOnlyForKnownReasons` is about, the clock of the cache has an end,
and votes are one-shot.

**Symmetry** is used for clients, requests, keys and votes wherever the
configuration treats them alike and no liveness is checked.

## 4. Fairness

`WebSocketHub!FairSpec` has strong fairness per goroutine. It stands for what
the Go runtime guarantees and weak fairness does not: a goroutine waiting on an
`RWMutex` or on a channel is queued, and no later arrival overtakes it for
ever. Panics happen in both liveness runs, and are excluded from the fair steps
only (nothing makes them happen); nothing is fair about the peers: none must
connect, send, read or leave. In `hub_liveness` no peer stalls, because a stalled
one blocks the program, and no subscriber leaves (`hub_subscriber_leaves` shows
what that does). Even so a reply and a broadcast may write to one connection at
once (websocket.go:91 and 103, hub.go:173), and the panic may leave the read
lock of the broadcast behind or end the handler of a subscriber. Each of the four
promises therefore has the escape `PanicStopsHub`: two writes have overlapped,
and the hub is in one of the three states in which a panic stops it. Without an
overlap the promises hold as they stand, and an overlap that does not stop the
hub is no excuse.

`VoteForwarding!FairSpec` is weakly fair to each request: a step of its own is
not disabled by anyone else. That the broadcast returns is assumed there and is
`BroadcastsEnd` of the hub. `ResponsiveSpec` adds a plugin that goes on until it
answers or closes; `vote_silent_plugin` shows that this is needed.

`ServerProcess!FairSpec` is weakly fair to the main goroutine, the listener and
each request that the program itself can move. Nothing is fair about signals,
the arrival of requests and WebSockets; a vote in `Hanging` never returns.

## 5. What is proved

TLAPS checks every theorem below from the specification alone. Assumptions on
the constants are the named ones in the modules (distinct values; a TTL and a
clock bound that are naturals; texts that are valid UTF-8, which `encoding/json`
sees to); sets of clients, servers, requests, votes, texts
and keys are arbitrary, infinite ones included. `IndInv` of each module was
checked by TLC on the instance of the module's run before it was proved.

**The hub** (`WebSocketHubProofs`). `IndInv` is inductive (`HubInvariant`). Its
parts: who holds a lock is in the code that the lock protects
(`LocksHeldInCode`); what a goroutine works on is there (`WorkAtHand`); no
client is twice in a list (`NoDuplicates`); the subscriptions match; and each
broadcast is accounted for (`BroadcastsAccounted`): the copies a client has got,
is being written and is still to be written add up to at most one, to exactly
one if it was due and its connection is up, and to none if it was barred. The
last is what `AtMostOnce`, `SubscribersServed` and `NotSubscribedNotServed` need
to be inductive, since they speak of `received` only. `NoDuplicates` is needed
for the sum when a list is copied, and `SubscriptionsMatch` for "due means in
the list". From it follow `HubTypes`, `SubscriptionsAgree`,
`ReadersAreRegistered`, `OneCopy` (`AtMostOnce`), `DueAreServed`,
`BarredAreNotServed` (`NotSubscribedNotServed`); the action property
`SelfLockForEver`; the refinement `HubImplementsPubSub`; and
`OnlyKnownReasonsStop`: a state in which none of `Run`, the handlers and the
broadcasts is `Ready` is at rest or one of the four that
`StuckOnlyForKnownReasons` names. What is left of `BroadcastsEnd` without
fairness is `BroadcastsOnlyGoOn`: with n clients listed a broadcast takes no
more than 3n + 2 steps of its own, because each of them leaves a copy of the
list that is shorter, or brings the broadcast nearer to the end of its turn
(`BroadcastGoesOn`).

**The cache** (`StatusCacheProofs`). `IndInv` (`CacheInvariant`) says that
whatever is in the map, in a readable file or in a request's hands was observed
for that key (`EntriesObserved`); that crossings on the slow path are recorded
(`CrossingsSeen`); that a `Set` nobody crosses finds map and file as it left
them (`SetsUncrossed`); that the file of an undisturbed key is what was last
stored and the map the same or nothing (`UndisturbedInOrder`); and that nothing
older than promised comes the way of a calm request (`PromisesKept`). It gives
`CacheTypes`, `MapAndFileAgree`, `PromiseOfTTL` and, with one step lemma,
`CacheImplementsFreshStatus`. What that buys a client is `NoStaleAnswer`, proved
of the abstract specification (`FreshStatusMeans`) and carried over by the
refinement: whatever it is given was not older than the TTL when it asked.

**Who is dropped, and who stays listed** (`OnlyBrokenAreDropped`,
`WhyTheGoneAreListed`, in the proofs of the hub) rest on two more inductive
invariants: a failed broadcast names a client whose connection has broken
(`DropsExplained`), and `Run` knows a client from its registration until it
removes it, which is after the handler's end or puts it into `dropped`; when a
client's handler has ended and it is still listed, `Run` has it in hand, before
its look or locked out, or has dropped it (`KnownUnlessDropped`). Steps of others
cannot disturb that: only a handler that still runs adds to a list
(`KnownByTheLists`).

**Votes** (`VoteForwardingProofs`). `IndInv` (`VoteInvariant`) ties the wire to
the outcome: nothing is credited before a packet is sent, nothing twice, and
what the plugin answers is so (`WireInv`); an error names the step that failed,
and so what was on the wire by then (`ConnectionInv`, `WireInv`, `OutcomeInv`);
what is announced is counted and replied unchanged (`ToldInv`, `CountInv`). From
it `VoteTypes`, `SuccessMeansCredited`, `OneCredit`, `FailureMeansNotCredited`,
`EveryoneToldTheSame`, and the refinement `VotesKeepTheirWord`: what the plugin
does is `Credit` or a stutter, the steps inside the service are not to be seen
(`Hidden`), its return decides (`Decides`), and everything after that keeps the
verdict (`Keeps`). It needs of `OutcomeInv` what each error says of the plugin:
when a v2 request has failed behind its packet, the plugin has gone or answered,
and credits nothing any more. Two theorems are what is left of `VotesEnd` without
fairness: every step takes one vote further, of at most fourteen
(`VotesOnlyGoOn`), and a request that reads from the plugin waits for one that
has something to say or has gone (`NeverWaitForEachOther`).

**News** (`VoteNewsProofs`). Every step of the composition is a step of
`VoteVerdict` or stutters, and the same for `PubSub` (`StepOfBoth`,
`NewsKeepBothPromises`), so that nothing is assumed of either part that its
implementation has not been proved to do. `IndInv` (`NewsInvariant`): a verdict
is true of the vote and what is announced and replied is that verdict
(`VerdictInv`); a broadcast is idle until its outcome is announced, and over
when the request goes on, and who is due and has not been written to is still
to be written to (`BroadcastInv`); who has been replied to before is past its
broadcast (`OrderInv`). `KeyFits` says that the key of the handler is the one
subscription that concerns the vote, the documented `ip:port` also of a vote that
came without its port. From it
`SubscribersAreToldTheTruth`, `SubscribersHearFirst` and `NewsComeInOrder`, for
any votes, clients, hosts and ports. They hold of the Go program through
`HubImplementsPubSub` and `VotesKeepTheirWord`.

**Status requests** (`StatusRequestsProofs`). What is printed of a host and a
port determines both (`PrintedInjective`), so that a key is the key of one
server (`CacheKeyInjective`). Icon names are not injective, since `sanitizeFilename` may
make one of two; they are among the hosts that can be dialled, which have no port
behind them (`Dialled`, `IconNameInjective`), and only such a host ever has an
icon (`StatusInv`). `IndInv` (`StatusInvariant`) then says that under a key is
the status of that server (`CacheInv`); that a status is online only if its
server has answered, and its icon that server's and there (`StatusInv`); that an
icon file holds no other server's picture, and is whole unless it is spoiled or
being written (`FileInv`); and that what a request has answered and what is left
make up what it was asked (`AnswersInv`). From it `StatusTypes`, `AnswersFit`,
`LinksResolve`, `IconsAreWhole`, `BannersShowTheirIcon`. `AnswersFit` says which
server a text means only if its port is one that there may be, or left out: the
documents have 400 for the others.

**Favicons** (`PingResponseProofs`). `DecodeInvariant`: the bytes written and the
bits in hand make up the digits read (`8 * outIdx + bits = 6 * i`), so that the
slice has room for them (`DecodeNeverPanics`, `PingTypes`); the last digit read
is at the end of the buffer, whatever the buffer has lost, because a word is a
whole number of twelve bits; and so each byte written is that of its group of
four digits. From it `FaviconsDecode`, for favicons of any length and content: what
is compared with the RFC is the text with a digit 0 in place of each character
that the RFC refuses (`AsDigits`, `ReadAsDigits`), so that for a text of digits
and padding it is the RFC, and for one broken into lines it says which other
bytes come out, and that an icon is linked only if those are a picture.

**Texts** (`PingTextProofs`). `ReplaceAll` is a recursive function on positions,
defined from the end of the text. `ReplaceExists` shows that there is such a
function and `ReplaceUnfold` unfolds it; both, and every fact about what it
computes, go backwards over the positions (`FromTheEnd`) or along a text
character by character (`ByConsing`), by the least element of a set of naturals.
`MotdTold`: what `StripColorCodes` and `FormatMOTDHTML` make of the text from a
position on tells the kept characters from there on (`StripTells`, `HtmlTells`),
the HTML in the style of the last section sign. `BannersRead`: `EscapeXML` puts
`&` and an entity for each of four characters and leaves every other
(`EscapeSpecial`, `EscapeOther`), `ReadXML` undoes both (`EscapedReads`), and no
step parts the two bytes of a character but the cut of the version. The address
is no exception for an ip without markup (`PlainEscapes`, `PlainReads`: escaping
would have changed nothing); for an ip with markup nothing is claimed, because the
code writes it as it came.

**The process** (`ServerProcessProofs`). `IndInv` (`ProcessInvariant`): what has
been read or is cached is of the past (`FiguresInv`, `EntryInv`); what was told
is not ahead of the cache unless refreshes overlapped (`ToldInv`); who was
answered before has been told no more (`OrderInv`); votes in hand are among the
requests counted (`VotesInv`). From it `ProcessTypes`, `ShutdownAnswers`,
`HealthRecent`, `FiguresNeverFall`.

**Only model-checked**: every liveness property, which rests on fairness, and
the first half of `StuckOnlyForKnownReasons`, that the guards in `Ready` are
what `ENABLED` says, neither of which the prover handles.

`FailedMeansNotCredited` names the two errors that can hide a credited vote: the
answer of the plugin is lost or unreadable (votifier.go:174, 180). The table of
task.md (869) has 500 mean "server refused packet", which is not so for these.

## 6. What is not modelled

* Code without a caller in the repository: `BroadcastToAll`,
  `BroadcastStatusUpdate`, `ClientCount` and `Run`'s broadcast case (hub.go:68);
  `Cleanup` and `Delete` of the cache; `GetBanner` of the banner service,
  `GetBannerSVG` and `GetBannerByQuery`; the ping codecs of `server.go`;
  `RequestLogger`, `RecordResponseTime` with its ring, `IncrementCacheHit` and
  `IncrementCacheMiss`, so that these figures stay zero.
* `config.Load` and `parseDuration`: what they read is a constant of the models.
  `queryTimeout` (server.go:22) is configured and never read: a ping takes as
  long as `mcping` lets it, and in the models any time.
* The data race itself of `Run` with a handler that writes `client.Subscriptions`
  (hub.go:55), for which the Go runtime ends the process: `DroppedOnlyIfBroken`
  says when it can come to that. The reuse of a connection object by the
  WebSocket library after `Handle` has returned, while `Run` still closes it.
* Weak memory: the health cache is published without a barrier, and a processor
  with weak ordering may show an entry half-filled; the model is sequentially
  consistent.
* HTTP codes: the handlers reply 404 for an offline status and 200 for an online
  one, and refuse an empty parameter with 400 before anything else happens; no
  other ip or port is refused, although task.md:88 and 866 say so.
* Texts beyond those of `PingResponse`: the colours, layout and padding of a
  banner, JSON, log lines, `resizeImage`, and the numbers of a status (players,
  latency).
* `minenepal.js`, the Node predecessor, which nothing uses.

## 7. Plan

Done: 1. `PubSub`, `WebSocketHub` and its proofs; 2. `FreshStatus`,
`StatusCache` and its proofs; 3. `VoteForwarding`, `StatusRequests`,
`PingResponse` and `ServerProcess`, each with its proofs; 4. `VoteVerdict`,
its refinement by `VoteForwarding`, and its composition with `PubSub` in
`VoteNews`, with the proofs.

What is left: the response times and the cache counters, once something calls
them; and the first half of `StuckOnlyForKnownReasons` for two broadcasts at
once, of which an instance like `hub_locks` has tens of millions of states.
