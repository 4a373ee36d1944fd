---------------------------- MODULE WebSocketHub ----------------------------
(***************************************************************************)
(* internal/websocket/hub.go, internal/handler/websocket.go and the        *)
(* broadcast of internal/handler/vote.go: the goroutine of Hub.Run, one    *)
(* handler goroutine per WebSocket client, and one goroutine per HTTP      *)
(* request that broadcasts.                                                *)
(*                                                                         *)
(* An action is what one goroutine does between two points where another   *)
(* can get in: asking for h.mu, the critical section, a rendezvous on the  *)
(* unbuffered channels register and unregister, the start and the end of   *)
(* a WriteMessage.  client.mu is left out: only the client's own handler   *)
(* goroutine ever takes it.  The order inside a slice of h.serverHub is    *)
(* abstracted to how often each client occurs in it.                       *)
(***************************************************************************)
EXTENDS Naturals, FiniteSets

CONSTANTS
    Client,        \* WebSocket connections, each with its handler goroutine
    Server,        \* "ip:port" subscription keys
    Request,       \* HTTP requests that broadcast: one broadcast each
    Run,           \* the goroutine of Hub.Run
    None,          \* no owner, no client, no server
    Subscribers,   \* the clients that send subscribe messages
    Leavers,       \* the clients whose peer may go away
    Stallers,      \* the clients whose peer may stop reading its socket
    OverlapPanics  \* whether the library panics on overlapping WriteMessages

ASSUME ProcessAssumption == Run \notin Client /\ None \notin Client \cup Server \cup {Run}

ASSUME EnvironmentAssumption ==
    /\ Subscribers \subseteq Client
    /\ Leavers \subseteq Client
    /\ Stallers \subseteq Client
    /\ OverlapPanics \in BOOLEAN

VARIABLES
    clients,    \* Hub.clients
    serverHub,  \* Hub.serverHub: how often a client is in a server's slice
    subs,       \* Client.Subscriptions
    writer,     \* h.mu: who holds or waits for the write lock (Lock blocks new readers)
    readers,    \* h.mu: the requests that hold a read lock
    hubPc, hubClient,    \* Run: where it is, and the client it works for
    pc, todo, cur,       \* handlers: where they are, the servers left in the loop, the current one
    conn,                \* the connections
    rpc, left, to, \* requests: where they are, the clients left in the loop, the current one
    received,   \* history: copies of each broadcast a client was sent
    due,        \* history: clients idle and subscribed when the broadcast read its list
    barred,     \* history: clients idle and not subscribed then
    dropped,    \* history: clients that Run removed while their handlers still ran
    overlapped  \* history: clients on whose connection overlapping writes panicked

hubVars  == <<clients, serverHub, subs>>
lockVars == <<writer, readers>>
runVars  == <<hubPc, hubClient>>
handlerVars == <<pc, todo, cur>>
requestVars == <<rpc, left, to>>
historyVars == <<received, due, barred, dropped, overlapped>>
vars == <<hubVars, lockVars, runVars, handlerVars, conn, requestVars, historyVars>>

-----------------------------------------------------------------------------
(* The types. *)

RunPc == {"select", "register", "unregister", "removeSubscription"}

HandlerPc == {"off", "register", "read", "subscribe", "lockAdd", "unsubscribe",
              "lockRemove", "write", "unregister", "done"}

ConnState == {"none", "open", "stalled", "dead", "closed"}

RequestPc == {"idle", "snapshot", "loop", "write", "unregister", "done", "panicked"}

TypeOK ==
    /\ clients \in SUBSET Client
    /\ serverHub \in [Server -> [Client -> Nat]]
    /\ subs \in [Client -> SUBSET Server]
    /\ writer \in Client \cup {Run, None}
    /\ readers \in SUBSET Request
    /\ hubPc \in RunPc
    /\ hubClient \in Client \cup {None}
    /\ pc \in [Client -> HandlerPc]
    /\ todo \in [Client -> SUBSET Server]
    /\ cur \in [Client -> Server \cup {None}]
    /\ conn \in [Client -> ConnState]
    /\ rpc \in [Request -> RequestPc]
    /\ left \in [Request -> [Client -> Nat]]
    /\ to \in [Request -> Client \cup {None}]
    /\ received \in [Client -> [Request -> Nat]]
    /\ due \in [Request -> SUBSET Client]
    /\ barred \in [Request -> SUBSET Client]
    /\ dropped \in SUBSET Client
    /\ overlapped \in SUBSET Client

NoClients == [c \in Client |-> 0]

Init ==
    /\ clients = {}
    /\ serverHub = [s \in Server |-> NoClients]
    /\ subs = [c \in Client |-> {}]
    /\ writer = None
    /\ readers = {}
    /\ hubPc = "select"
    /\ hubClient = None
    /\ pc = [c \in Client |-> "off"]
    /\ todo = [c \in Client |-> {}]
    /\ cur = [c \in Client |-> None]
    /\ conn = [c \in Client |-> "none"]
    /\ rpc = [r \in Request |-> "idle"]
    /\ left = [r \in Request |-> NoClients]
    /\ to = [r \in Request |-> None]
    /\ received = [c \in Client |-> [r \in Request |-> 0]]
    /\ due = [r \in Request |-> {}]
    /\ barred = [r \in Request |-> {}]
    /\ dropped = {}
    /\ overlapped = {}

(* A goroutine is in a WriteMessage on c's connection. *)
HandlerWrites(c) == pc[c] = "write"
RequestWrites(r, c) == rpc[r] = "write" /\ to[r] = c

-----------------------------------------------------------------------------
(* sync.RWMutex: Lock keeps new readers out from the moment it is called   *)
(* and returns when the last reader has left; nobody may lock it twice.    *)

LockFree == writer = None

Exclusive(p) == writer = p /\ readers = {}

-----------------------------------------------------------------------------
(* The peers and the network.                                              *)

(* A peer upgrades to a WebSocket: Handle starts and sends on h.register. *)
Connect(c) ==
    /\ pc[c] = "off"
    /\ pc' = [pc EXCEPT ![c] = "register"]
    /\ conn' = [conn EXCEPT ![c] = "open"]
    /\ UNCHANGED <<hubVars, lockVars, runVars, todo, cur, requestVars, historyVars>>

Leave(c) ==
    /\ c \in Leavers
    /\ conn[c] \in {"open", "stalled"}
    /\ conn' = [conn EXCEPT ![c] = "dead"]
    /\ UNCHANGED <<hubVars, lockVars, runVars, handlerVars, requestVars, historyVars>>

(* The peer stops reading for good: nothing can be written to it.  A peer  *)
(* that only pauses is a write that takes longer.                          *)
Stall(c) ==
    /\ c \in Stallers
    /\ conn[c] = "open"
    /\ conn' = [conn EXCEPT ![c] = "stalled"]
    /\ UNCHANGED <<hubVars, lockVars, runVars, handlerVars, requestVars, historyVars>>

-----------------------------------------------------------------------------
(* The handler goroutine of a client: Handle and handleMessage.            *)

(* Hub.Register: the send on h.register meets Run's select.  The handler   *)
(* goes on to read although Run has not entered the client yet.            *)
Register(c) ==
    /\ pc[c] = "register"
    /\ hubPc = "select"
    /\ hubPc' = "register"
    /\ hubClient' = c
    /\ pc' = [pc EXCEPT ![c] = "read"]
    /\ UNCHANGED <<hubVars, lockVars, todo, cur, conn, requestVars, historyVars>>

(* What came before the connection broke, or before Run closed it, may     *)
(* still be in the reader's buffer: ReadMessage returns that first.        *)
CanReceive(c) == pc[c] = "read"

(* handleMessage: which loop a message starts, and over which servers. *)
HandleMessage(c, next, servers) ==
    /\ CanReceive(c)
    /\ pc' = [pc EXCEPT ![c] = next]
    /\ todo' = [todo EXCEPT ![c] = servers]
    /\ UNCHANGED <<hubVars, lockVars, runVars, cur, conn, requestVars, historyVars>>

ReceiveSubscribe(c) ==
    /\ c \in Subscribers
    /\ \E servers \in (SUBSET Server) \ {{}} : HandleMessage(c, "subscribe", servers)

ReceiveUnsubscribe(c) ==
    \E servers \in (SUBSET Server) \ {{}} : HandleMessage(c, "unsubscribe", servers)

(* No servers named: all of GetSubscriptions. *)
ReceiveUnsubscribeAll(c) == HandleMessage(c, "unsubscribe", subs[c])

(* Malformed, unknown action, or subscribe without servers: sendError. *)
ReceiveInvalid(c) == HandleMessage(c, "write", {})

(* Hub.Subscribe, one round of the loop: the client's own map first. *)
SubscribeNext(c) ==
    /\ pc[c] = "subscribe"
    /\ \E s \in todo[c] :
          /\ todo' = [todo EXCEPT ![c] = @ \ {s}]
          /\ subs' = [subs EXCEPT ![c] = @ \cup {s}]
          /\ cur' = [cur EXCEPT ![c] = s]
          /\ pc' = [pc EXCEPT ![c] = "lockAdd"]
    /\ UNCHANGED <<clients, serverHub, lockVars, runVars, conn, requestVars, historyVars>>

(* Mutant: Unsubscribe forgets the client's own map. *)
UnsubscribeKeepsMap(c) ==
    /\ pc[c] = "unsubscribe"
    /\ \E s \in todo[c] :
          /\ todo' = [todo EXCEPT ![c] = @ \ {s}]
          /\ cur' = [cur EXCEPT ![c] = s]
          /\ pc' = [pc EXCEPT ![c] = "lockRemove"]
    /\ UNCHANGED <<hubVars, lockVars, runVars, conn, requestVars, historyVars>>

UnsubscribeNext(c) ==
    /\ pc[c] = "unsubscribe"
    /\ \E s \in todo[c] :
          /\ todo' = [todo EXCEPT ![c] = @ \ {s}]
          /\ subs' = [subs EXCEPT ![c] = @ \ {s}]
          /\ cur' = [cur EXCEPT ![c] = s]
          /\ pc' = [pc EXCEPT ![c] = "lockRemove"]
    /\ UNCHANGED <<clients, serverHub, lockVars, runVars, conn, requestVars, historyVars>>

(* The loop is over: the handler enters WriteMessage in sendAck. *)
LoopDone(c) ==
    /\ pc[c] \in {"subscribe", "unsubscribe"}
    /\ todo[c] = {}
    /\ pc' = [pc EXCEPT ![c] = "write"]
    /\ UNCHANGED <<hubVars, lockVars, runVars, todo, cur, conn, requestVars, historyVars>>

HandlerLock(c) ==
    /\ pc[c] \in {"lockAdd", "lockRemove"}
    /\ LockFree
    /\ writer' = c
    /\ UNCHANGED <<hubVars, readers, runVars, handlerVars, conn, requestVars, historyVars>>

(* Mutants: append without looking, remove one element. *)
AppendedAlways(slice, c) == [slice EXCEPT ![c] = @ + 1]
WithoutLooking(slice, c) == [slice EXCEPT ![c] = @ - 1]

(* addSubscription appends a client that is not in the slice yet. *)
Appended(slice, c) == IF slice[c] > 0 THEN slice ELSE [slice EXCEPT ![c] = @ + 1]

(* removeSubscription copies every element but c. *)
Without(slice, c) == [slice EXCEPT ![c] = 0]

(* Mutant: the early return for a client that is listed keeps h.mu. *)
AddSubscriptionKeepsLock(c) ==
    /\ pc[c] = "lockAdd"
    /\ Exclusive(c)
    /\ serverHub' = [serverHub EXCEPT ![cur[c]] = Appended(@, c)]
    /\ writer' = IF serverHub[cur[c]][c] > 0 THEN c ELSE None
    /\ pc' = [pc EXCEPT ![c] = "subscribe"]
    /\ cur' = [cur EXCEPT ![c] = None]
    /\ UNCHANGED <<clients, subs, readers, runVars, todo, conn, requestVars, historyVars>>

AddSubscription(c) ==
    /\ pc[c] = "lockAdd"
    /\ Exclusive(c)
    /\ serverHub' = [serverHub EXCEPT ![cur[c]] = Appended(@, c)]
    /\ writer' = None
    /\ pc' = [pc EXCEPT ![c] = "subscribe"]
    /\ cur' = [cur EXCEPT ![c] = None]
    /\ UNCHANGED <<clients, subs, readers, runVars, todo, conn, requestVars, historyVars>>

RemoveSubscription(c) ==
    /\ pc[c] = "lockRemove"
    /\ Exclusive(c)
    /\ serverHub' = [serverHub EXCEPT ![cur[c]] = Without(@, c)]
    /\ writer' = None
    /\ pc' = [pc EXCEPT ![c] = "unsubscribe"]
    /\ cur' = [cur EXCEPT ![c] = None]
    /\ UNCHANGED <<clients, subs, readers, runVars, todo, conn, requestVars, historyVars>>

(* sendAck and sendError write without any lock and ignore the error. *)
ReplyEnd(c) ==
    /\ HandlerWrites(c)
    /\ conn[c] # "stalled"
    /\ pc' = [pc EXCEPT ![c] = "read"]
    /\ UNCHANGED <<hubVars, lockVars, runVars, todo, cur, conn, requestVars, historyVars>>

(* The library panics when it notices another WriteMessage on the same     *)
(* connection; the deferred Unregister runs while the stack unwinds.       *)
ReplyPanic(c) ==
    /\ OverlapPanics
    /\ HandlerWrites(c)
    /\ \E r \in Request : RequestWrites(r, c)
    /\ pc' = [pc EXCEPT ![c] = "unregister"]
    /\ overlapped' = overlapped \cup {c}
    /\ UNCHANGED <<hubVars, lockVars, runVars, todo, cur, conn, requestVars, received, due, barred, dropped>>

ReadError(c) ==
    /\ pc[c] = "read"
    /\ conn[c] \in {"dead", "closed"}
    /\ pc' = [pc EXCEPT ![c] = "unregister"]
    /\ UNCHANGED <<hubVars, lockVars, runVars, todo, cur, conn, requestVars, historyVars>>

(* The deferred Hub.Unregister; Handle returns, which closes the socket. *)
Unregister(c) ==
    /\ pc[c] = "unregister"
    /\ hubPc = "select"
    /\ hubPc' = "unregister"
    /\ hubClient' = c
    /\ pc' = [pc EXCEPT ![c] = "done"]
    /\ conn' = [conn EXCEPT ![c] = "closed"]
    /\ UNCHANGED <<hubVars, lockVars, todo, cur, requestVars, historyVars>>

-----------------------------------------------------------------------------
(* The goroutine of Hub.Run.                                               *)

(* h.mu.Lock of the two select cases, and the one inside                   *)
(* removeSubscription, which Run calls while it holds the write lock.      *)
RunLock ==
    /\ hubPc \in {"register", "unregister", "removeSubscription"}
    /\ LockFree
    /\ writer' = Run
    /\ UNCHANGED <<hubVars, readers, runVars, handlerVars, conn, requestVars, historyVars>>

RunRegister ==
    /\ hubPc = "register"
    /\ Exclusive(Run)
    /\ clients' = clients \cup {hubClient}
    /\ writer' = None
    /\ hubPc' = "select"
    /\ hubClient' = None
    /\ UNCHANGED <<serverHub, subs, readers, handlerVars, conn, requestVars, historyVars>>

(* A client that is already gone: nothing to do. *)
RunUnregisterUnknown ==
    /\ hubPc = "unregister"
    /\ Exclusive(Run)
    /\ hubClient \notin clients
    /\ writer' = None
    /\ hubPc' = "select"
    /\ hubClient' = None
    /\ UNCHANGED <<hubVars, readers, handlerVars, conn, requestVars, historyVars>>

(* The handlers that Run has removed too early: they are not done yet. *)
Outlived == dropped \cup {c \in {hubClient} : pc[c] # "done"}

(* Mutant: the socket of the removed client stays open. *)
RunUnregisterKeepsSocket ==
    /\ hubPc = "unregister"
    /\ Exclusive(Run)
    /\ hubClient \in clients
    /\ clients' = clients \ {hubClient}
    /\ dropped' = Outlived
    /\ IF subs[hubClient] = {}
       THEN writer' = None /\ hubPc' = "select" /\ hubClient' = None
       ELSE hubPc' = "removeSubscription" /\ UNCHANGED <<writer, hubClient>>
    /\ UNCHANGED <<serverHub, subs, conn, readers, handlerVars, requestVars, received, due, barred, overlapped>>

(* Mutant: h.mu is released before the subscriptions are removed. *)
RunUnregisterUnlocks ==
    /\ hubPc = "unregister"
    /\ Exclusive(Run)
    /\ hubClient \in clients
    /\ clients' = clients \ {hubClient}
    /\ dropped' = Outlived
    /\ conn' = [conn EXCEPT ![hubClient] = "closed"]
    /\ writer' = None
    /\ IF subs[hubClient] = {}
       THEN hubPc' = "select" /\ hubClient' = None
       ELSE hubPc' = "removeSubscription" /\ UNCHANGED hubClient
    /\ UNCHANGED <<serverHub, subs, readers, handlerVars, requestVars, received, due, barred, overlapped>>

(* Mutant: Run removes the client and leaves its subscriptions in the lists. *)
RunUnregisterKeepsLists ==
    /\ hubPc = "unregister"
    /\ Exclusive(Run)
    /\ hubClient \in clients
    /\ clients' = clients \ {hubClient}
    /\ dropped' = Outlived
    /\ conn' = [conn EXCEPT ![hubClient] = "closed"]
    /\ writer' = None
    /\ hubPc' = "select"
    /\ hubClient' = None
    /\ UNCHANGED <<serverHub, subs, readers, handlerVars, requestVars, received, due, barred, overlapped>>

(* Delete, close, and range over client.Subscriptions (without client.mu): *)
(* for a first server removeSubscription is called with h.mu still held.   *)
RunUnregister ==
    /\ hubPc = "unregister"
    /\ Exclusive(Run)
    /\ hubClient \in clients
    /\ clients' = clients \ {hubClient}
    /\ dropped' = Outlived
    /\ conn' = [conn EXCEPT ![hubClient] = "closed"]
    /\ IF subs[hubClient] = {}
       THEN /\ writer' = None
            /\ hubPc' = "select"
            /\ hubClient' = None
       ELSE /\ hubPc' = "removeSubscription"
            /\ UNCHANGED <<writer, hubClient>>
    /\ UNCHANGED <<serverHub, subs, readers, handlerVars, requestVars, received, due, barred, overlapped>>

-----------------------------------------------------------------------------
(* A request goroutine: BroadcastVote, hence broadcastToServer.            *)

(* The first RLock section; an empty list ends the broadcast. *)
Snapshot(r, s) ==
    /\ rpc[r] = "idle"
    /\ LockFree
    /\ left' = [left EXCEPT ![r] = serverHub[s]]
    /\ rpc' = [rpc EXCEPT ![r] = IF serverHub[s] = NoClients THEN "done" ELSE "snapshot"]
    /\ due' = [due EXCEPT ![r] = {c \in Client : pc[c] = "read" /\ s \in subs[c]}]
    /\ barred' = [barred EXCEPT ![r] = {c \in Client : pc[c] = "read" /\ s \notin subs[c]}]
    /\ UNCHANGED <<hubVars, lockVars, runVars, handlerVars, conn, to, received, dropped, overlapped>>

(* The second RLock section begins. *)
RequestRLock(r) ==
    /\ rpc[r] = "snapshot"
    /\ LockFree
    /\ readers' = readers \cup {r}
    /\ rpc' = [rpc EXCEPT ![r] = "loop"]
    /\ UNCHANGED <<hubVars, writer, runVars, handlerVars, conn, left, to, historyVars>>

WriteBegin(r, c) ==
    /\ rpc[r] = "loop"
    /\ left[r][c] > 0
    /\ left' = [left EXCEPT ![r][c] = @ - 1]
    /\ to' = [to EXCEPT ![r] = c]
    /\ rpc' = [rpc EXCEPT ![r] = "write"]
    /\ UNCHANGED <<hubVars, lockVars, runVars, handlerVars, conn, historyVars>>

(* A write to a peer that is gone may still land in a buffer, unread. *)
WriteOk(r) ==
    /\ rpc[r] = "write"
    /\ conn[to[r]] \in {"open", "dead"}
    /\ received' = IF conn[to[r]] = "open"
                   THEN [received EXCEPT ![to[r]][r] = @ + 1] ELSE received
    /\ to' = [to EXCEPT ![r] = None]
    /\ rpc' = [rpc EXCEPT ![r] = "loop"]
    /\ UNCHANGED <<hubVars, lockVars, runVars, handlerVars, conn, left, due, barred, dropped, overlapped>>

(* Mutant: the first failed write ends the loop. *)
WriteErrorEndsLoop(r) ==
    /\ rpc[r] = "write"
    /\ conn[to[r]] \in {"dead", "closed"}
    /\ rpc' = [rpc EXCEPT ![r] = "unregister"]
    /\ left' = [left EXCEPT ![r] = NoClients]
    /\ UNCHANGED <<hubVars, lockVars, runVars, handlerVars, conn, to, historyVars>>

(* Mutant: a peer that takes too long counts as failed. *)
WriteErrorWhenSlow(r) ==
    /\ rpc[r] = "write"
    /\ conn[to[r]] \in {"stalled", "dead", "closed"}
    /\ rpc' = [rpc EXCEPT ![r] = "unregister"]
    /\ UNCHANGED <<hubVars, lockVars, runVars, handlerVars, conn, left, to, historyVars>>

WriteError(r) ==
    /\ rpc[r] = "write"
    /\ conn[to[r]] \in {"dead", "closed"}
    /\ rpc' = [rpc EXCEPT ![r] = "unregister"]
    /\ UNCHANGED <<hubVars, lockVars, runVars, handlerVars, conn, left, to, historyVars>>

(* The panic leaves broadcastToServer without its RUnlock, which is not    *)
(* deferred; the recover middleware ends the request.                      *)
WritePanic(r) ==
    /\ OverlapPanics
    /\ rpc[r] = "write"
    /\ \/ HandlerWrites(to[r])
       \/ \E q \in Request \ {r} : RequestWrites(q, to[r])
    /\ rpc' = [rpc EXCEPT ![r] = "panicked"]
    /\ overlapped' = overlapped \cup {to[r]}
    /\ UNCHANGED <<hubVars, lockVars, runVars, handlerVars, conn, left, to, received, due, barred,
                   dropped>>

(* The failed client is handed to Run while the read lock is held. *)
RequestUnregister(r) ==
    /\ rpc[r] = "unregister"
    /\ hubPc = "select"
    /\ hubPc' = "unregister"
    /\ hubClient' = to[r]
    /\ to' = [to EXCEPT ![r] = None]
    /\ rpc' = [rpc EXCEPT ![r] = "loop"]
    /\ UNCHANGED <<hubVars, lockVars, handlerVars, conn, left, historyVars>>

(* Mutant: the loop ends one client early. *)
RequestRUnlockEarly(r) ==
    /\ rpc[r] = "loop"
    /\ Cardinality({c \in Client : left[r][c] > 0}) <= 1
    /\ readers' = readers \ {r}
    /\ rpc' = [rpc EXCEPT ![r] = "done"]
    /\ UNCHANGED <<hubVars, writer, runVars, handlerVars, conn, left, to, historyVars>>

RequestRUnlock(r) ==
    /\ rpc[r] = "loop"
    /\ left[r] = NoClients
    /\ readers' = readers \ {r}
    /\ rpc' = [rpc EXCEPT ![r] = "done"]
    /\ UNCHANGED <<hubVars, writer, runVars, handlerVars, conn, left, to, historyVars>>

-----------------------------------------------------------------------------
Environment(c) ==
    \/ Connect(c) \/ Leave(c) \/ Stall(c)
    \/ ReceiveSubscribe(c) \/ ReceiveUnsubscribe(c)
    \/ ReceiveUnsubscribeAll(c) \/ ReceiveInvalid(c)

Handler(c) ==
    \/ Register(c)
    \/ SubscribeNext(c) \/ UnsubscribeNext(c) \/ LoopDone(c)
    \/ HandlerLock(c) \/ AddSubscription(c) \/ RemoveSubscription(c)
    \/ ReplyEnd(c) \/ ReplyPanic(c)
    \/ ReadError(c) \/ Unregister(c)

HubRun == RunLock \/ RunRegister \/ RunUnregisterUnknown \/ RunUnregister

Broadcast(r) ==
    \/ RequestRLock(r)
    \/ \E c \in Client : WriteBegin(r, c)
    \/ WriteOk(r) \/ WriteError(r) \/ WritePanic(r)
    \/ RequestUnregister(r) \/ RequestRUnlock(r)

Next ==
    \/ \E c \in Client : Environment(c) \/ Handler(c)
    \/ HubRun
    \/ \E r \in Request : Broadcast(r) \/ \E s \in Server : Snapshot(r, s)

Spec == Init /\ [][Next]_vars

(* Every goroutine that can run does, up to the panics.  Strong fairness   *)
(* stands for the queues of sync.RWMutex and of a channel, where the       *)
(* runtime lets no waiter starve; each goroutine stays where it is until   *)
(* its own next step, so that one condition per goroutine is enough.       *)
(* Nothing is fair about the peers or about what they send.                *)
HandlerRuns(c) ==
    \/ Register(c) \/ Unregister(c) \/ HandlerLock(c)
    \/ SubscribeNext(c) \/ UnsubscribeNext(c) \/ LoopDone(c)
    \/ AddSubscription(c) \/ RemoveSubscription(c)
    \/ ReplyEnd(c) \/ ReadError(c)

BroadcastRuns(r) ==
    \/ RequestRLock(r) \/ RequestUnregister(r)
    \/ \E c \in Client : WriteBegin(r, c)
    \/ WriteOk(r) \/ WriteError(r) \/ RequestRUnlock(r)

Fairness ==
    /\ SF_vars(HubRun)
    /\ \A c \in Client : SF_vars(HandlerRuns(c))
    /\ \A r \in Request : SF_vars(BroadcastRuns(r))

FairSpec == Spec /\ Fairness

-----------------------------------------------------------------------------
(* Safety.                                                                 *)

Locking(c, s) == pc[c] \in {"lockAdd", "lockRemove"} /\ cur[c] = s

(* A client's own map and the hub's lists agree on every server, except    *)
(* the one the client's handler is just changing (hub.go updates the map   *)
(* without h.mu, the list with it, and Run reads the map without either).  *)
SubscriptionsMatch ==
    \A c \in Client, s \in Server :
        ~ Locking(c, s) => (s \in subs[c] <=> serverHub[s][c] > 0)

(* No broadcast is written twice to a client, however often the client     *)
(* subscribes, unsubscribes and subscribes again around it.                *)
AtMostOnce == \A c \in Client, r \in Request : received[c][r] <= 1

(* When broadcastToServer returns, every client that was reading and       *)
(* subscribed when the list was read has got the message, unless its own   *)
(* connection broke: the failure of one client costs no other client.      *)
SubscribersServed ==
    \A r \in Request : rpc[r] = "done" =>
        \A c \in due[r] : conn[c] \in {"open", "stalled"} => received[c][r] = 1

(* A client that had been told it is not subscribed when a broadcast read  *)
(* the list is never written that broadcast, even if it subscribes while   *)
(* the broadcast runs.                                                     *)
NotSubscribedNotServed ==
    \A r \in Request : \A c \in barred[r] : received[c][r] = 0

(* The hub knows every client whose handler goes on reading: a client that *)
(* Run dropped has had its socket closed, so that its handler ends.        *)
OpenMeansRegistered ==
    \A c \in Client :
        /\ pc[c] \notin {"off", "register", "done"}
        /\ conn[c] # "closed"
        => c \in clients \/ (hubPc = "register" /\ hubClient = c)

(* A broadcast costs only a client whose own connection broke its place:   *)
(* whenever Run removes a client, and reads its Subscriptions without      *)
(* client.mu (hub.go:55), the client's handler has ended or is about to.   *)
DroppedOnlyIfBroken ==
    \A c \in Client : hubPc \in {"unregister", "removeSubscription"} /\ hubClient = c
        => pc[c] = "done" \/ conn[c] \in {"dead", "closed"}

-----------------------------------------------------------------------------
(* What can stop the hub.                                                  *)

(* Run asks for h.mu in removeSubscription while it holds h.mu. *)
RunLocksItself == hubPc = "removeSubscription"

Listed(c) == \E s \in Server : serverHub[s][c] > 0

(* A client whose handler has returned is still in a list for one of three *)
(* reasons: Run has yet to look at it; Run has locked itself out over it,  *)
(* for good (hub.go:56); or Run removed it at a broadcast's word           *)
(* (hub.go:175) while its handler was still to subscribe, and finds        *)
(* nothing to do when the handler unregisters it (hub.go:51).  A client of *)
(* the last two kinds stays listed, and of the last is written to for ever.*)
GoneFromLists ==
    \A c \in Client : pc[c] = "done" /\ Listed(c)
        => \/ hubPc = "unregister" /\ hubClient = c
           \/ RunLocksItself /\ hubClient = c
           \/ c \in dropped

(* A broadcast sends on h.unregister with its read lock held, while Run is *)
(* between its select and the write lock that this reader keeps from it.   *)
ReaderWaitsForRun ==
    hubPc # "select" /\ \E r \in readers : rpc[r] = "unregister"

(* A broadcast panicked and left its read lock behind. *)
ReadLockLeaked == \E r \in readers : rpc[r] = "panicked"

(* Somebody writes to a peer that does not read: no write has a deadline. *)
StalledWrite ==
    \E c \in Client : /\ conn[c] = "stalled"
                      /\ HandlerWrites(c) \/ \E r \in Request : RequestWrites(r, c)

AtRest ==
    /\ hubPc = "select"
    /\ \A c \in Client : pc[c] \in {"off", "read", "done"}
    /\ \A r \in Request : rpc[r] \in {"idle", "done", "panicked"}

(* Where a goroutine stands that can make a step, panics apart. *)
RunReady ==
    \/ hubPc # "select" /\ LockFree
    \/ hubPc \in {"register", "unregister"} /\ Exclusive(Run)

HandlerReady(c) ==
    \/ pc[c] \in {"register", "unregister"} /\ hubPc = "select"
    \/ pc[c] \in {"subscribe", "unsubscribe"}
    \/ pc[c] \in {"lockAdd", "lockRemove"} /\ (LockFree \/ Exclusive(c))
    \/ pc[c] = "write" /\ conn[c] # "stalled"
    \/ pc[c] = "read" /\ conn[c] \in {"dead", "closed"}

BroadcastReady(r) ==
    \/ rpc[r] = "snapshot" /\ LockFree
    \/ rpc[r] = "loop"
    \/ rpc[r] = "write" /\ conn[to[r]] \in {"open", "dead", "closed"}
    \/ rpc[r] = "unregister" /\ hubPc = "select"

Ready ==
    \/ RunReady
    \/ \E c \in Client : HandlerReady(c)
    \/ \E r \in Request : BroadcastReady(r)

(* When no goroutine can move although one of them has work to do, it is   *)
(* for one of the four reasons above: no other order of locks, channel     *)
(* sends and writes stops the server.                                      *)
NothingElseStops ==
    Ready \/ AtRest \/ RunLocksItself \/ ReaderWaitsForRun \/ ReadLockLeaked \/ StalledWrite

ServerRuns ==
    \/ HubRun
    \/ \E c \in Client : HandlerRuns(c)
    \/ \E r \in Request : BroadcastRuns(r)

(* The server stops for no other reason than these, where being able to    *)
(* move is what the actions of the goroutines say it is.                   *)
StuckOnlyForKnownReasons == (Ready <=> ENABLED ServerRuns) /\ NothingElseStops

(* Once Run has locked itself out the hub never works again: no client is  *)
(* registered or removed, no list changes, no broadcast starts.            *)
SelfLockIsFinal ==
    [][RunLocksItself => /\ RunLocksItself'
                         /\ UNCHANGED <<clients, serverHub, writer>>
                         /\ readers' \subseteq readers
                         /\ \A r \in Request : rpc[r] = "idle" => rpc'[r] = "idle"]_vars

-----------------------------------------------------------------------------
(* The hub implements PubSub: a slice that holds a client is membership,   *)
(* and a client is an addressee until its WriteMessage has returned.       *)

Phase == [idle |-> "idle", snapshot |-> "running", loop |-> "running", write |-> "running",
          unregister |-> "running", done |-> "returned", panicked |-> "panicked"]

PubSub == INSTANCE PubSub WITH
    subscribers <- [s \in Server |-> {c \in Client : serverHub[s][c] > 0}],
    addressees <- [r \in Request |->
        {c \in Client : left[r][c] > 0 \/ (rpc[r] \in {"write", "panicked"} /\ to[r] = c)}],
    delivered <- {m \in Client \X Request : received[m[1]][m[2]] > 0},
    broadcast <- [r \in Request |-> Phase[rpc[r]]]

(* The lists change one client and one server at a time, a broadcast goes  *)
(* once to exactly the clients listed at one instant, and it returns when  *)
(* it has tried them all.                                                  *)
PubSubSpec == PubSub!Spec

-----------------------------------------------------------------------------
(* The inductive invariant of the safety theorems (WebSocketHubProofs).    *)

(* The owner of a lock is in the code that h.mu protects, and a read lock  *)
(* is held exactly from the second RLock to the RUnlock, panics included.  *)
LocksHeldInCode ==
    /\ writer \in Client => pc[writer] \in {"lockAdd", "lockRemove"}
    /\ writer = Run => hubPc # "select"
    /\ RunLocksItself => writer = Run
    /\ readers = {r \in Request : rpc[r] \in {"loop", "write", "unregister", "panicked"}}

(* What a goroutine works on is there while it works on it. *)
WorkAtHand ==
    /\ hubPc # "select" => hubClient \in Client
    /\ \A c \in Client :
          /\ pc[c] \in {"lockAdd", "lockRemove"} => cur[c] \in Server
          /\ pc[c] = "lockAdd" => cur[c] \in subs[c]
          /\ pc[c] = "lockRemove" => cur[c] \notin subs[c]
    /\ \A r \in Request : rpc[r] \in {"write", "unregister"} => to[r] \in Client

NoDuplicates == \A s \in Server, c \in Client : serverHub[s][c] <= 1

(* The copies of a broadcast a client has got or is about to get. *)
Copies(r, c) == left[r][c] + received[c][r] + (IF RequestWrites(r, c) THEN 1 ELSE 0)

Accounted(r) ==
    /\ rpc[r] = "idle" => \A c \in Client : received[c][r] = 0
    /\ rpc[r] = "done" => left[r] = NoClients
    /\ \A c \in Client : Copies(r, c) <= 1
    /\ \A c \in due[r] : \/ conn[c] \in {"dead", "closed"}
                         \/ rpc[r] = "panicked"
                         \/ Copies(r, c) = 1
    /\ \A c \in barred[r] : Copies(r, c) = 0

BroadcastsAccounted == \A r \in Request : Accounted(r)

HistoryOfTheConnected ==
    \A c \in Client, r \in Request : pc[c] = "off" => c \notin due[r]

IndInv ==
    /\ TypeOK
    /\ LocksHeldInCode
    /\ WorkAtHand
    /\ NoDuplicates
    /\ SubscriptionsMatch
    /\ BroadcastsAccounted
    /\ HistoryOfTheConnected
    /\ OpenMeansRegistered

-----------------------------------------------------------------------------
(* Liveness, as long as no peer stops reading (no write has a deadline)    *)
(* and no subscriber's peer leaves (RunLocksItself).  What then remains is *)
(* the library's panic on overlapping writes: it may leave a read lock     *)
(* behind, or end a subscriber's handler, and so stop the hub.             *)

PanicStopsHub ==
    overlapped # {} /\ (ReadLockLeaked \/ ReaderWaitsForRun \/ RunLocksItself)

(* Every broadcast that has read a list returns or panics, unless a panic  *)
(* has stopped the hub (hub.go has no timeout).                            *)
BroadcastsEnd ==
    \A r \in Request : rpc[r] \notin {"idle", "panicked"}
        ~> rpc[r] \in {"done", "panicked"} \/ PanicStopsHub

(* A client that sent a message is answered or leaves: its handler always  *)
(* comes back to read the next message, unless a panic has stopped the hub.*)
MessagesAnswered ==
    \A c \in Client : pc[c] \in {"subscribe", "unsubscribe", "write"}
        ~> pc[c] \in {"read", "done"} \/ PanicStopsHub

(* Run forgets a client that is gone, unless a panic has stopped the hub. *)
DepartedForgotten ==
    \A c \in Client : pc[c] = "unregister"
        ~> (pc[c] = "done" /\ c \notin clients) \/ PanicStopsHub

(* A vote reaches the clients subscribed to its server whose connections   *)
(* last, unless its own broadcast panics or a panic has stopped the hub.   *)
VoteReachesSubscribers ==
    \A r \in Request, c \in Client : c \in due[r]
        ~> \/ received[c][r] > 0
           \/ conn[c] \in {"dead", "closed"}
           \/ rpc[r] = "panicked"
           \/ PanicStopsHub
=============================================================================
