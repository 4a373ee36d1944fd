------------------------- MODULE WebSocketHubProofs -------------------------
(***************************************************************************)
(* What TLAPS proves of the hub, for any clients, servers and requests and *)
(* whatever the peers do.                                                  *)
(***************************************************************************)
EXTENDS WebSocketHub, TLAPS

(* The initial state satisfies the inductive invariant. *)
LEMMA InitIndInv == Init => IndInv
<1> SUFFICES ASSUME Init PROVE IndInv
  OBVIOUS
<1> USE ProcessAssumption DEF Init, NoClients
<1>1. TypeOK
  BY DEF TypeOK, RunPc, HandlerPc, ConnState, RequestPc
<1>2. LocksHeldInCode
  BY DEF LocksHeldInCode, RunLocksItself
<1>3. WorkAtHand
  BY DEF WorkAtHand
<1>4. NoDuplicates /\ SubscriptionsMatch
  BY DEF NoDuplicates, SubscriptionsMatch, Locking
<1>5. BroadcastsAccounted
  BY DEF BroadcastsAccounted, Accounted, Copies, RequestWrites
<1>6. HistoryOfTheConnected /\ OpenMeansRegistered
  BY DEF HistoryOfTheConnected, OpenMeansRegistered
<1>7. QED
  BY <1>1, <1>2, <1>3, <1>4, <1>5, <1>6 DEF IndInv

(* What a handler may be told to do: the servers it loops over. *)
LEMMA MessageStep ==
    ASSUME NEW c \in Client, IndInv,
           \/ ReceiveSubscribe(c) \/ ReceiveUnsubscribe(c)
           \/ ReceiveUnsubscribeAll(c) \/ ReceiveInvalid(c)
    PROVE  \E next \in {"subscribe", "unsubscribe", "write"}, servers \in SUBSET Server :
              HandleMessage(c, next, servers)
<1>1. subs[c] \in SUBSET Server
  BY DEF IndInv, TypeOK
<1>2. CASE ReceiveSubscribe(c) \/ ReceiveUnsubscribe(c)
  BY <1>2 DEF ReceiveSubscribe, ReceiveUnsubscribe
<1>3. CASE ReceiveUnsubscribeAll(c) \/ ReceiveInvalid(c)
  BY <1>1, <1>3 DEF ReceiveUnsubscribeAll, ReceiveInvalid
<1>4. QED
  BY <1>2, <1>3

(* Every step keeps the types. *)
LEMMA TypePreserved == ASSUME IndInv, [Next]_vars PROVE TypeOK'
<1> USE ProcessAssumption DEF IndInv, TypeOK, RunPc, HandlerPc, ConnState, RequestPc
<1>1. ASSUME NEW c \in Client, Environment(c) PROVE TypeOK'
  <2> USE DEF hubVars, lockVars, runVars, handlerVars, requestVars, historyVars
  <2>1. CASE Connect(c)
    BY <2>1 DEF Connect
  <2>2. CASE Leave(c)
    BY <2>2 DEF Leave
  <2>3. CASE Stall(c)
    BY <2>3 DEF Stall
  <2>4. ASSUME NEW next \in {"subscribe", "unsubscribe", "write"}, NEW servers \in SUBSET Server,
               HandleMessage(c, next, servers)
        PROVE  TypeOK'
    BY <2>4 DEF HandleMessage
  <2> HIDE DEF IndInv, TypeOK
  <2>5. QED
    BY <1>1, <2>1, <2>2, <2>3, <2>4, MessageStep DEF Environment
<1>2. ASSUME NEW c \in Client, Handler(c) PROVE TypeOK'
  <2> USE DEF hubVars, lockVars, runVars, handlerVars, requestVars, historyVars
  <2>1. CASE Register(c)
    BY <2>1 DEF Register
  <2>2. CASE Unregister(c)
    BY <2>2 DEF Unregister
  <2>3. CASE SubscribeNext(c)
    <3>1. PICK s \in todo[c] :
             /\ todo' = [todo EXCEPT ![c] = @ \ {s}]
             /\ subs' = [subs EXCEPT ![c] = @ \cup {s}]
             /\ cur' = [cur EXCEPT ![c] = s]
             /\ pc' = [pc EXCEPT ![c] = "lockAdd"]
      BY <2>3 DEF SubscribeNext
    <3>2. s \in Server /\ todo[c] \ {s} \in SUBSET Server /\ subs[c] \cup {s} \in SUBSET Server
      OBVIOUS
    <3>3. QED
      BY <2>3, <3>1, <3>2 DEF SubscribeNext
  <2>4. CASE UnsubscribeNext(c)
    <3>1. PICK s \in todo[c] :
             /\ todo' = [todo EXCEPT ![c] = @ \ {s}]
             /\ subs' = [subs EXCEPT ![c] = @ \ {s}]
             /\ cur' = [cur EXCEPT ![c] = s]
             /\ pc' = [pc EXCEPT ![c] = "lockRemove"]
      BY <2>4 DEF UnsubscribeNext
    <3>2. s \in Server /\ todo[c] \ {s} \in SUBSET Server /\ subs[c] \ {s} \in SUBSET Server
      OBVIOUS
    <3>3. QED
      BY <2>4, <3>1, <3>2 DEF UnsubscribeNext
  <2>5. CASE LoopDone(c)
    BY <2>5 DEF LoopDone
  <2>6. CASE HandlerLock(c)
    BY <2>6 DEF HandlerLock
  <2>7. CASE AddSubscription(c)
    <3>1. cur[c] \in Server /\ Appended(serverHub[cur[c]], c) \in [Client -> Nat]
      BY <2>7 DEF AddSubscription, Appended, WorkAtHand
    <3>2. QED
      BY <2>7, <3>1 DEF AddSubscription
  <2>8. CASE RemoveSubscription(c)
    <3>1. cur[c] \in Server /\ Without(serverHub[cur[c]], c) \in [Client -> Nat]
      BY <2>8 DEF RemoveSubscription, Without, WorkAtHand
    <3>2. QED
      BY <2>8, <3>1 DEF RemoveSubscription
  <2>9. CASE ReplyEnd(c) \/ ReplyPanic(c) \/ ReadError(c)
    BY <2>9, ZenonT(60) DEF ReplyEnd, ReplyPanic, ReadError
  <2> HIDE DEF IndInv, TypeOK
  <2>10. QED
    BY <1>2, <2>1, <2>2, <2>3, <2>4, <2>5, <2>6, <2>7, <2>8, <2>9 DEF Handler
<1>3. CASE HubRun
  <2> USE DEF hubVars, lockVars, runVars, handlerVars, requestVars, historyVars
  <2>1. CASE RunLock \/ RunUnregisterUnknown
    BY <2>1 DEF RunLock, RunUnregisterUnknown
  <2>2. CASE RunRegister \/ RunUnregister
    BY <2>2 DEF RunRegister, RunUnregister, Outlived, WorkAtHand
  <2>3. QED
    BY <1>3, <2>1, <2>2 DEF HubRun
<1>4. ASSUME NEW r \in Request, Broadcast(r) PROVE TypeOK'
  <2> USE DEF hubVars, lockVars, runVars, handlerVars, requestVars, historyVars
  <2>1. CASE RequestRLock(r) \/ RequestRUnlock(r)
    BY <2>1 DEF RequestRLock, RequestRUnlock
  <2>2. ASSUME NEW c \in Client, WriteBegin(r, c) PROVE TypeOK'
    BY <2>2 DEF WriteBegin
  <2>3. CASE WriteOk(r)
    BY <2>3 DEF WriteOk, WorkAtHand
  <2>4. CASE WriteError(r) \/ WritePanic(r) \/ RequestUnregister(r)
    BY <2>4, ZenonT(60) DEF WriteError, WritePanic, RequestUnregister, WorkAtHand
  <2>5. QED
    BY <1>4, <2>1, <2>2, <2>3, <2>4 DEF Broadcast
<1>5. ASSUME NEW r \in Request, NEW s \in Server, Snapshot(r, s) PROVE TypeOK'
  BY <1>5 DEF Snapshot, hubVars, lockVars, runVars, handlerVars
<1>6. CASE UNCHANGED vars
  BY <1>6 DEF vars, hubVars, lockVars, runVars, handlerVars, requestVars, historyVars
<1>7. QED
  BY <1>1, <1>2, <1>3, <1>4, <1>5, <1>6 DEF Next

(* Locks: only the goroutine that holds or wants one leaves the code that needs it. *)
LEMMA LocksPreserved == ASSUME IndInv, [Next]_vars PROVE LocksHeldInCode'
<1> USE ProcessAssumption DEF IndInv, TypeOK, LocksHeldInCode, RunLocksItself
<1>1. ASSUME NEW c \in Client, Environment(c) PROVE LocksHeldInCode'
  <2>1. CASE Connect(c) \/ Leave(c) \/ Stall(c)
    BY <2>1 DEF Connect, Leave, Stall,
       hubVars, lockVars, runVars, handlerVars, requestVars, historyVars
  <2>2. ASSUME NEW next \in {"subscribe", "unsubscribe", "write"}, NEW servers \in SUBSET Server,
               HandleMessage(c, next, servers)
        PROVE  LocksHeldInCode'
    BY <2>2 DEF HandleMessage, CanReceive, lockVars, runVars, requestVars
  <2> HIDE DEF IndInv, TypeOK, LocksHeldInCode
  <2>3. QED
    BY <1>1, <2>1, <2>2, MessageStep DEF Environment
<1>2. ASSUME NEW c \in Client, Handler(c) PROVE LocksHeldInCode'
  <2> USE DEF lockVars, runVars, requestVars
  <2>1. CASE Register(c) \/ Unregister(c)
    BY <2>1 DEF Register, Unregister
  <2>2. CASE SubscribeNext(c) \/ UnsubscribeNext(c) \/ LoopDone(c)
    BY <2>2 DEF SubscribeNext, UnsubscribeNext, LoopDone
  <2>3. CASE HandlerLock(c)
    BY <2>3 DEF HandlerLock, LockFree, handlerVars
  <2>4. CASE AddSubscription(c) \/ RemoveSubscription(c)
    BY <2>4 DEF AddSubscription, RemoveSubscription, Exclusive
  <2>5. CASE ReplyEnd(c) \/ ReplyPanic(c) \/ ReadError(c)
    BY <2>5 DEF ReplyEnd, ReplyPanic, ReadError, HandlerWrites
  <2> HIDE DEF IndInv, TypeOK, LocksHeldInCode
  <2>6. QED
    BY <1>2, <2>1, <2>2, <2>3, <2>4, <2>5 DEF Handler
<1>3. CASE HubRun
  BY <1>3 DEF HubRun, RunLock, RunRegister, RunUnregisterUnknown, RunUnregister, LockFree,
     Exclusive, runVars, handlerVars, requestVars
<1>4. ASSUME NEW r \in Request, Broadcast(r) PROVE LocksHeldInCode'
  <2> USE DEF lockVars, runVars, handlerVars
  <2>1. CASE RequestRLock(r) \/ RequestRUnlock(r)
    BY <2>1 DEF RequestRLock, RequestRUnlock
  <2>2. CASE WriteOk(r) \/ \E c \in Client : WriteBegin(r, c)
    BY <2>2 DEF WriteOk, WriteBegin
  <2>3. CASE WriteError(r) \/ WritePanic(r) \/ RequestUnregister(r)
    BY <2>3 DEF WriteError, WritePanic, RequestUnregister
  <2> HIDE DEF IndInv, TypeOK, LocksHeldInCode
  <2>4. QED
    BY <1>4, <2>1, <2>2, <2>3 DEF Broadcast
<1>5. ASSUME NEW r \in Request, NEW s \in Server, Snapshot(r, s) PROVE LocksHeldInCode'
  BY <1>5 DEF Snapshot, lockVars, runVars, handlerVars
<1>6. CASE UNCHANGED vars
  BY <1>6 DEF vars, lockVars, runVars, handlerVars, requestVars
<1> HIDE DEF IndInv, TypeOK, LocksHeldInCode
<1>7. QED
  BY <1>1, <1>2, <1>3, <1>4, <1>5, <1>6 DEF Next

(* The client, the server and the message a goroutine works on. *)
LEMMA WorkPreserved == ASSUME IndInv, [Next]_vars PROVE WorkAtHand'
<1> USE ProcessAssumption DEF IndInv, TypeOK, WorkAtHand
<1>1. ASSUME NEW c \in Client, Environment(c) PROVE WorkAtHand'
  <2>1. CASE Connect(c) \/ Leave(c) \/ Stall(c)
    BY <2>1 DEF Connect, Leave, Stall, hubVars, runVars, handlerVars, requestVars
  <2>2. ASSUME NEW next \in {"subscribe", "unsubscribe", "write"}, NEW servers \in SUBSET Server,
               HandleMessage(c, next, servers)
        PROVE  WorkAtHand'
    BY <2>2 DEF HandleMessage, hubVars, runVars, requestVars
  <2> HIDE DEF IndInv, TypeOK, WorkAtHand
  <2>3. QED
    BY <1>1, <2>1, <2>2, MessageStep DEF Environment
<1>2. ASSUME NEW c \in Client, Handler(c) PROVE WorkAtHand'
  <2> USE DEF hubVars, lockVars, runVars, handlerVars, requestVars
  <2>1. CASE Register(c) \/ Unregister(c)
    BY <2>1 DEF Register, Unregister
  <2>2. CASE SubscribeNext(c)
    BY <2>2 DEF SubscribeNext
  <2>3. CASE UnsubscribeNext(c)
    BY <2>3 DEF UnsubscribeNext
  <2>4. CASE LoopDone(c) \/ HandlerLock(c)
    BY <2>4 DEF LoopDone, HandlerLock
  <2>5. CASE AddSubscription(c)
    BY <2>5 DEF AddSubscription
  <2>6. CASE RemoveSubscription(c)
    BY <2>6 DEF RemoveSubscription
  <2>7. CASE ReplyEnd(c) \/ ReplyPanic(c) \/ ReadError(c)
    BY <2>7 DEF ReplyEnd, ReplyPanic, ReadError
  <2> HIDE DEF IndInv, TypeOK, WorkAtHand
  <2>8. QED
    BY <1>2, <2>1, <2>2, <2>3, <2>4, <2>5, <2>6, <2>7 DEF Handler
<1>3. CASE HubRun
  BY <1>3 DEF HubRun, RunLock, RunRegister, RunUnregisterUnknown, RunUnregister,
     hubVars, runVars, handlerVars, requestVars
<1>4. ASSUME NEW r \in Request, Broadcast(r) PROVE WorkAtHand'
  <2>1. ASSUME UNCHANGED <<hubPc, hubClient, subs, pc, cur>>,
               \A q \in Request \ {r} : rpc'[q] = rpc[q] /\ to'[q] = to[q],
               rpc'[r] \in {"write", "unregister"} => to'[r] \in Client
        PROVE  WorkAtHand'
    BY <2>1
  <2>2. CASE RequestRLock(r) \/ RequestRUnlock(r)
    BY <2>1, <2>2 DEF RequestRLock, RequestRUnlock, hubVars, runVars, handlerVars
  <2>3. ASSUME NEW c \in Client, WriteBegin(r, c) PROVE WorkAtHand'
    <3>1. /\ to'[r] = c
          /\ \A q \in Request \ {r} : rpc'[q] = rpc[q] /\ to'[q] = to[q]
      BY <2>3 DEF WriteBegin
    <3>2. UNCHANGED <<hubPc, hubClient, subs, pc, cur>>
      BY <2>3 DEF WriteBegin, hubVars, runVars, handlerVars
    <3> HIDE DEF IndInv, TypeOK, WorkAtHand
    <3>3. QED
      BY <2>1, <3>1, <3>2
  <2>4. CASE WriteOk(r)
    <3>1. /\ rpc'[r] = "loop"
          /\ \A q \in Request \ {r} : rpc'[q] = rpc[q] /\ to'[q] = to[q]
      BY <2>4 DEF WriteOk
    <3>2. UNCHANGED <<hubPc, hubClient, subs, pc, cur>>
      BY <2>4 DEF WriteOk, hubVars, runVars, handlerVars
    <3> HIDE DEF IndInv, TypeOK, WorkAtHand
    <3>3. QED
      BY <2>1, <3>1, <3>2
  <2>5. CASE WriteError(r) \/ WritePanic(r)
    BY <2>1, <2>5 DEF WriteError, WritePanic, hubVars, runVars, handlerVars
  <2>6. CASE RequestUnregister(r)
    BY <2>6 DEF RequestUnregister, hubVars, handlerVars
  <2> HIDE DEF IndInv, TypeOK, WorkAtHand
  <2>7. QED
    BY <1>4, <2>2, <2>3, <2>4, <2>5, <2>6 DEF Broadcast
<1>5. ASSUME NEW r \in Request, NEW s \in Server, Snapshot(r, s) PROVE WorkAtHand'
  BY <1>5 DEF Snapshot, hubVars, runVars, handlerVars
<1>6. CASE UNCHANGED vars
  BY <1>6 DEF vars, hubVars, runVars, handlerVars, requestVars
<1> HIDE DEF IndInv, TypeOK, WorkAtHand
<1>7. QED
  BY <1>1, <1>2, <1>3, <1>4, <1>5, <1>6 DEF Next

(* A client's map and the hub's lists: the four steps of Subscribe and      *)
(* Unsubscribe change one side each, and only of the current server.        *)
LEMMA SubscriptionsPreserved ==
    ASSUME IndInv, [Next]_vars PROVE NoDuplicates' /\ SubscriptionsMatch'
<1> USE ProcessAssumption DEF IndInv, TypeOK, NoDuplicates, SubscriptionsMatch, Locking
<1>1. ASSUME UNCHANGED <<serverHub, subs>>,
             \A c \in Client, s \in Server : Locking(c, s) <=> Locking(c, s)'
      PROVE  NoDuplicates' /\ SubscriptionsMatch'
  BY <1>1
<1>2. ASSUME NEW c \in Client, Environment(c) PROVE NoDuplicates' /\ SubscriptionsMatch'
  <2>1. CASE Connect(c) \/ Leave(c) \/ Stall(c)
    BY <1>1, <2>1 DEF Connect, Leave, Stall, hubVars, handlerVars
  <2>2. ASSUME NEW next \in {"subscribe", "unsubscribe", "write"}, NEW servers \in SUBSET Server,
               HandleMessage(c, next, servers)
        PROVE  NoDuplicates' /\ SubscriptionsMatch'
    BY <1>1, <2>2 DEF HandleMessage, CanReceive, hubVars
  <2> HIDE DEF IndInv, TypeOK, NoDuplicates, SubscriptionsMatch
  <2>3. QED
    BY <1>2, <2>1, <2>2, MessageStep DEF Environment
<1>3. ASSUME NEW c \in Client, Handler(c) PROVE NoDuplicates' /\ SubscriptionsMatch'
  <2>1. CASE Register(c) \/ Unregister(c) \/ LoopDone(c) \/ HandlerLock(c)
    BY <1>1, <2>1 DEF Register, Unregister, LoopDone, HandlerLock, hubVars, handlerVars
  <2>2. CASE SubscribeNext(c)
    <3>1. PICK s \in todo[c] :
             /\ subs' = [subs EXCEPT ![c] = @ \cup {s}]
             /\ cur' = [cur EXCEPT ![c] = s]
             /\ pc' = [pc EXCEPT ![c] = "lockAdd"]
      BY <2>2 DEF SubscribeNext
    <3>2. pc[c] = "subscribe" /\ serverHub' = serverHub /\ s \in Server
      BY <2>2 DEF SubscribeNext
    <3>3. QED
      BY <3>1, <3>2
  <2>3. CASE UnsubscribeNext(c)
    <3>1. PICK s \in todo[c] :
             /\ subs' = [subs EXCEPT ![c] = @ \ {s}]
             /\ cur' = [cur EXCEPT ![c] = s]
             /\ pc' = [pc EXCEPT ![c] = "lockRemove"]
      BY <2>3 DEF UnsubscribeNext
    <3>2. pc[c] = "unsubscribe" /\ serverHub' = serverHub /\ s \in Server
      BY <2>3 DEF UnsubscribeNext
    <3>3. QED
      BY <3>1, <3>2
  <2>4. CASE AddSubscription(c)
    <3>1. cur[c] \in Server /\ cur[c] \in subs[c] /\ cur[c] # None
      BY <2>4 DEF AddSubscription, WorkAtHand
    <3>2. /\ serverHub'[cur[c]][c] = 1
          /\ \A d \in Client, s \in Server :
                d # c \/ s # cur[c] => serverHub'[s][d] = serverHub[s][d]
      <4>1. /\ serverHub'[cur[c]] = Appended(serverHub[cur[c]], c)
            /\ \A s \in Server : s # cur[c] => serverHub'[s] = serverHub[s]
        BY <2>4, <3>1 DEF AddSubscription
      <4>2. serverHub[cur[c]] \in [Client -> Nat]
        BY <3>1
      <4>3. serverHub[cur[c]][c] \in Nat /\ serverHub[cur[c]][c] <= 1
        BY <3>1, <4>2
      <4>4. /\ Appended(serverHub[cur[c]], c)[c] = 1
            /\ \A d \in Client \ {c} : Appended(serverHub[cur[c]], c)[d] = serverHub[cur[c]][d]
        BY <4>2, <4>3 DEF Appended
      <4> HIDE DEF IndInv, TypeOK, NoDuplicates, SubscriptionsMatch
      <4>5. QED
        BY <4>1, <4>4
    <3>3. /\ subs' = subs /\ pc[c] = "lockAdd" /\ pc'[c] = "subscribe"
          /\ \A d \in Client \ {c} : pc'[d] = pc[d] /\ cur'[d] = cur[d]
      BY <2>4 DEF AddSubscription
    <3>4. NoDuplicates'
      BY <3>1, <3>2, SMTT(30)
    <3>5. SubscriptionsMatch'
      BY <3>1, <3>2, <3>3, SMTT(30)
    <3>6. QED
      BY <3>4, <3>5
  <2>5. CASE RemoveSubscription(c)
    <3>1. cur[c] \in Server /\ cur[c] \notin subs[c]
      BY <2>5 DEF RemoveSubscription, WorkAtHand
    <3>2. /\ serverHub'[cur[c]][c] = 0
          /\ \A d \in Client, s \in Server :
                d # c \/ s # cur[c] => serverHub'[s][d] = serverHub[s][d]
      <4>1. /\ serverHub'[cur[c]] = Without(serverHub[cur[c]], c)
            /\ \A s \in Server : s # cur[c] => serverHub'[s] = serverHub[s]
        BY <2>5, <3>1 DEF RemoveSubscription
      <4>2. serverHub[cur[c]] \in [Client -> Nat]
        BY <3>1
      <4>3. serverHub[cur[c]][c] \in Nat /\ serverHub[cur[c]][c] <= 1
        BY <3>1, <4>2
      <4>4. /\ Without(serverHub[cur[c]], c)[c] = 0
            /\ \A d \in Client \ {c} : Without(serverHub[cur[c]], c)[d] = serverHub[cur[c]][d]
        BY <4>2, <4>3 DEF Without
      <4> HIDE DEF IndInv, TypeOK, NoDuplicates, SubscriptionsMatch
      <4>5. QED
        BY <4>1, <4>4
    <3>3. /\ subs' = subs /\ pc[c] = "lockRemove" /\ pc'[c] = "unsubscribe"
          /\ \A d \in Client \ {c} : pc'[d] = pc[d] /\ cur'[d] = cur[d]
      BY <2>5 DEF RemoveSubscription
    <3>4. NoDuplicates'
      BY <3>1, <3>2, SMTT(30)
    <3>5. SubscriptionsMatch'
      BY <3>1, <3>2, <3>3, SMTT(30)
    <3>6. QED
      BY <3>4, <3>5
  <2>6. CASE ReplyEnd(c) \/ ReplyPanic(c) \/ ReadError(c)
    BY <1>1, <2>6 DEF ReplyEnd, ReplyPanic, ReadError, HandlerWrites, hubVars
  <2> HIDE DEF IndInv, TypeOK, NoDuplicates, SubscriptionsMatch
  <2>7. QED
    BY <1>3, <2>1, <2>2, <2>3, <2>4, <2>5, <2>6 DEF Handler
<1>4. CASE HubRun
  BY <1>1, <1>4 DEF HubRun, RunLock, RunRegister, RunUnregisterUnknown, RunUnregister,
     hubVars, handlerVars
<1>5. ASSUME NEW r \in Request, Broadcast(r) PROVE NoDuplicates' /\ SubscriptionsMatch'
  BY <1>1, <1>5 DEF Broadcast, RequestRLock, RequestRUnlock, WriteOk, WriteBegin, WriteError,
     WritePanic, RequestUnregister, hubVars, handlerVars
<1>6. ASSUME NEW r \in Request, NEW s \in Server, Snapshot(r, s)
      PROVE  NoDuplicates' /\ SubscriptionsMatch'
  BY <1>1, <1>6 DEF Snapshot, hubVars, handlerVars
<1>7. CASE UNCHANGED vars
  BY <1>1, <1>7 DEF vars, hubVars, handlerVars
<1> HIDE DEF IndInv, TypeOK, NoDuplicates, SubscriptionsMatch
<1>8. QED
  BY <1>2, <1>3, <1>4, <1>5, <1>6, <1>7 DEF Next

(* Whoever is due a broadcast has connected before. *)
LEMMA HistoryPreserved == ASSUME IndInv, [Next]_vars PROVE HistoryOfTheConnected'
<1> USE DEF IndInv, TypeOK, HistoryOfTheConnected
<1>1. ASSUME NEW c \in Client, Environment(c) PROVE HistoryOfTheConnected'
  <2>1. CASE Connect(c) \/ Leave(c) \/ Stall(c)
    BY <2>1 DEF Connect, Leave, Stall, handlerVars, historyVars
  <2>2. ASSUME NEW next \in {"subscribe", "unsubscribe", "write"}, NEW servers \in SUBSET Server,
               HandleMessage(c, next, servers)
        PROVE  HistoryOfTheConnected'
    BY <2>2 DEF HandleMessage, CanReceive, historyVars
  <2> HIDE DEF IndInv, TypeOK, HistoryOfTheConnected
  <2>3. QED
    BY <1>1, <2>1, <2>2, MessageStep DEF Environment
<1>2. ASSUME NEW c \in Client, Handler(c) PROVE HistoryOfTheConnected'
  BY <1>2 DEF Handler, Register, Unregister, SubscribeNext, UnsubscribeNext, LoopDone, HandlerLock,
     AddSubscription, RemoveSubscription, ReplyEnd, ReplyPanic, ReadError, HandlerWrites,
     handlerVars, historyVars
<1>3. CASE HubRun
  BY <1>3 DEF HubRun, RunLock, RunRegister, RunUnregisterUnknown, RunUnregister,
     handlerVars, historyVars
<1>4. ASSUME NEW r \in Request, Broadcast(r) PROVE HistoryOfTheConnected'
  BY <1>4 DEF Broadcast, RequestRLock, RequestRUnlock, WriteOk, WriteBegin, WriteError,
     WritePanic, RequestUnregister, handlerVars, historyVars
<1>5. ASSUME NEW r \in Request, NEW s \in Server, Snapshot(r, s) PROVE HistoryOfTheConnected'
  BY <1>5 DEF Snapshot, handlerVars
<1>6. CASE UNCHANGED vars
  BY <1>6 DEF vars, handlerVars, historyVars
<1> HIDE DEF IndInv, TypeOK, HistoryOfTheConnected
<1>7. QED
  BY <1>1, <1>2, <1>3, <1>4, <1>5, <1>6 DEF Next

(* A client leaves Hub.clients only together with its socket. *)
LEMMA RegisteredPreserved == ASSUME IndInv, [Next]_vars PROVE OpenMeansRegistered'
<1> USE DEF IndInv, TypeOK, OpenMeansRegistered
<1>1. ASSUME NEW c \in Client, Environment(c) PROVE OpenMeansRegistered'
  <2>1. CASE Connect(c) \/ Leave(c) \/ Stall(c)
    BY <2>1 DEF Connect, Leave, Stall, hubVars, runVars, handlerVars
  <2>2. ASSUME NEW next \in {"subscribe", "unsubscribe", "write"}, NEW servers \in SUBSET Server,
               HandleMessage(c, next, servers)
        PROVE  OpenMeansRegistered'
    BY <2>2 DEF HandleMessage, CanReceive, hubVars, runVars
  <2> HIDE DEF IndInv, TypeOK, OpenMeansRegistered
  <2>3. QED
    BY <1>1, <2>1, <2>2, MessageStep DEF Environment
<1>2. ASSUME NEW c \in Client, Handler(c) PROVE OpenMeansRegistered'
  <2>1. CASE Register(c) \/ Unregister(c)
    BY <2>1 DEF Register, Unregister, hubVars
  <2>2. CASE SubscribeNext(c) \/ UnsubscribeNext(c) \/ LoopDone(c) \/ HandlerLock(c)
    BY <2>2 DEF SubscribeNext, UnsubscribeNext, LoopDone, HandlerLock, hubVars, runVars, handlerVars
  <2>3. CASE AddSubscription(c) \/ RemoveSubscription(c)
    BY <2>3 DEF AddSubscription, RemoveSubscription, runVars
  <2>4. CASE ReplyEnd(c) \/ ReplyPanic(c) \/ ReadError(c)
    BY <2>4 DEF ReplyEnd, ReplyPanic, ReadError, HandlerWrites, hubVars, runVars
  <2> HIDE DEF IndInv, TypeOK, OpenMeansRegistered
  <2>5. QED
    BY <1>2, <2>1, <2>2, <2>3, <2>4 DEF Handler
<1>3. CASE HubRun
  BY <1>3 DEF HubRun, RunLock, RunRegister, RunUnregisterUnknown, RunUnregister, WorkAtHand,
     hubVars, runVars, handlerVars
<1>4. ASSUME NEW r \in Request, Broadcast(r) PROVE OpenMeansRegistered'
  BY <1>4 DEF Broadcast, RequestRLock, RequestRUnlock, WriteOk, WriteBegin, WriteError,
     WritePanic, RequestUnregister, hubVars, runVars, handlerVars
<1>5. ASSUME NEW r \in Request, NEW s \in Server, Snapshot(r, s) PROVE OpenMeansRegistered'
  BY <1>5 DEF Snapshot, hubVars, runVars, handlerVars
<1>6. CASE UNCHANGED vars
  BY <1>6 DEF vars, hubVars, runVars, handlerVars
<1> HIDE DEF IndInv, TypeOK, OpenMeansRegistered
<1>7. QED
  BY <1>1, <1>2, <1>3, <1>4, <1>5, <1>6 DEF Next

(* A broadcast that a step does not touch keeps its account. *)
LEMMA AccountKept ==
    ASSUME IndInv, NEW r \in Request, Accounted(r), UNCHANGED <<due, barred>>,
           rpc'[r] = rpc[r], left'[r] = left[r], to'[r] = to[r],
           \A c \in Client : received'[c][r] = received[c][r],
           \A c \in Client : conn[c] \in {"dead", "closed"} =>
               conn'[c] \in {"dead", "closed"} \/ c \notin due[r]
    PROVE  Accounted(r)'
<1>1. due[r] \in SUBSET Client /\ barred[r] \in SUBSET Client
  BY DEF IndInv, TypeOK
<1>2. \A c \in Client : Copies(r, c)' = Copies(r, c)
  BY DEF Copies, RequestWrites
<1>3. QED
  BY <1>1, <1>2 DEF Accounted

(* What a broadcast has in store for a client, as numbers. *)
LEMMA CopiesType ==
    ASSUME IndInv, NEW r \in Request
    PROVE  /\ due[r] \in SUBSET Client /\ barred[r] \in SUBSET Client
           /\ \A c \in Client : /\ left[r][c] \in Nat /\ received[c][r] \in Nat
                                /\ Copies(r, c) \in Nat /\ Copies(r, c) <= 1
<1>1. /\ due[r] \in SUBSET Client /\ barred[r] \in SUBSET Client
      /\ \A c \in Client : left[r][c] \in Nat /\ received[c][r] \in Nat
  BY DEF IndInv, TypeOK
<1>2. QED
  BY <1>1 DEF Copies, IndInv, BroadcastsAccounted, Accounted

(* Every broadcast keeps its account of each client: one copy at most, and  *)
(* exactly one for a due client whose connection holds.                     *)
LEMMA BroadcastsPreserved == ASSUME IndInv, [Next]_vars PROVE BroadcastsAccounted'
<1>1. \A r \in Request : Accounted(r)
  BY DEF IndInv, BroadcastsAccounted
<1>2. ASSUME UNCHANGED <<rpc, left, to, received, due, barred>>,
             \A c \in Client : conn[c] \in {"dead", "closed"} =>
                 conn'[c] \in {"dead", "closed"} \/ \A r \in Request : c \notin due[r]
      PROVE  BroadcastsAccounted'
  BY <1>1, <1>2, AccountKept DEF BroadcastsAccounted
<1>3. ASSUME NEW c \in Client, Environment(c) PROVE BroadcastsAccounted'
  <2>1. CASE Connect(c) \/ Leave(c) \/ Stall(c)
    BY <1>2, <2>1 DEF Connect, Leave, Stall, IndInv, TypeOK, HistoryOfTheConnected,
       requestVars, historyVars
  <2>2. ASSUME NEW next \in {"subscribe", "unsubscribe", "write"}, NEW servers \in SUBSET Server,
               HandleMessage(c, next, servers)
        PROVE  BroadcastsAccounted'
    BY <1>2, <2>2 DEF HandleMessage, requestVars, historyVars
  <2>3. QED
    BY <1>3, <2>1, <2>2, MessageStep DEF Environment
<1>4. ASSUME NEW c \in Client, Handler(c) PROVE BroadcastsAccounted'
  BY <1>2, <1>4 DEF IndInv, TypeOK, Handler, Register, Unregister, SubscribeNext, UnsubscribeNext,
     LoopDone, HandlerLock, AddSubscription, RemoveSubscription, ReplyEnd, ReplyPanic, ReadError,
     requestVars, historyVars
<1>5. CASE HubRun
  BY <1>2, <1>5 DEF IndInv, TypeOK, HubRun, RunLock, RunRegister, RunUnregisterUnknown,
     RunUnregister, requestVars, historyVars
<1>6. ASSUME NEW r \in Request, Broadcast(r) PROVE BroadcastsAccounted'
  <2>1. CASE RequestRLock(r)
    <3>1. /\ rpc[r] = "snapshot" /\ rpc'[r] = "loop"
          /\ \A q \in Request \ {r} : rpc'[q] = rpc[q]
          /\ UNCHANGED <<conn, left, to, received, due, barred>>
      BY <2>1 DEF RequestRLock, historyVars, IndInv, TypeOK
    <3>2. Accounted(r)'
      <4>1. \A d \in Client : Copies(r, d)' = Copies(r, d)
        BY <3>1, CopiesType DEF Copies, RequestWrites
      <4>2. QED
        BY <3>1, <4>1, <1>1, CopiesType DEF Accounted
    <3>3. QED
      BY <3>1, <3>2, <1>1, AccountKept DEF BroadcastsAccounted
  <2>2. ASSUME NEW c \in Client, WriteBegin(r, c) PROVE BroadcastsAccounted'
    <3>1. /\ left'[r][c] = left[r][c] - 1 /\ left[r][c] > 0
          /\ rpc[r] = "loop" /\ rpc'[r] = "write" /\ to'[r] = c
          /\ \A d \in Client \ {c} : left'[r][d] = left[r][d]
          /\ \A q \in Request \ {r} : left'[q] = left[q] /\ rpc'[q] = rpc[q] /\ to'[q] = to[q]
          /\ UNCHANGED <<conn, received, due, barred>>
      BY <2>2 DEF WriteBegin, historyVars, IndInv, TypeOK
    <3>2. Accounted(r)'
      <4>1. Copies(r, c) = left[r][c] + received[c][r]
        BY <3>1, CopiesType DEF Copies, RequestWrites
      <4>2. Copies(r, c)' = left[r][c] - 1 + received[c][r] + 1
        BY <3>1 DEF Copies, RequestWrites
      <4>3. left[r][c] \in Nat /\ received[c][r] \in Nat
        BY CopiesType
      <4>4. Copies(r, c)' = Copies(r, c)
        BY <4>1, <4>2, <4>3
      <4>5. \A d \in Client \ {c} : Copies(r, d)' = Copies(r, d)
        BY <3>1, CopiesType DEF Copies, RequestWrites
      <4>6. QED
        BY <3>1, <4>4, <4>5, <1>1, CopiesType DEF Accounted
    <3>3. QED
      BY <3>1, <3>2, <1>1, AccountKept DEF BroadcastsAccounted
  <2>3. CASE WriteOk(r)
    <3>1. to[r] \in Client
      BY <2>3 DEF WriteOk, IndInv, WorkAtHand
    <3>2. /\ rpc[r] = "write" /\ rpc'[r] = "loop"
          /\ \A q \in Request \ {r} : rpc'[q] = rpc[q] /\ to'[q] = to[q]
          /\ UNCHANGED <<conn, left, due, barred>>
      BY <2>3 DEF WriteOk, IndInv, TypeOK
    <3>3. /\ conn[to[r]] = "open" => received'[to[r]][r] = received[to[r]][r] + 1
          /\ conn[to[r]] # "open" => conn[to[r]] = "dead" /\ received'[to[r]][r] = received[to[r]][r]
          /\ \A d \in Client, q \in Request :
                d # to[r] \/ q # r => received'[d][q] = received[d][q]
      BY <2>3, <3>1 DEF WriteOk, IndInv, TypeOK
    <3>4. Accounted(r)'
      <4>1. \A d \in Client :
               \/ Copies(r, d)' = Copies(r, d)
               \/ conn[d] = "dead" /\ Copies(r, d) = 1 /\ Copies(r, d)' = 0
        BY <3>1, <3>2, <3>3, CopiesType DEF Copies, RequestWrites
      <4>2. QED
        BY <3>2, <4>1, <1>1, CopiesType DEF Accounted
    <3>5. QED
      BY <3>2, <3>3, <3>4, <1>1, AccountKept DEF BroadcastsAccounted
  <2>4. CASE WriteError(r)
    <3>1. /\ rpc[r] = "write" /\ rpc'[r] = "unregister" /\ conn[to[r]] \in {"dead", "closed"}
          /\ \A q \in Request \ {r} : rpc'[q] = rpc[q]
          /\ UNCHANGED <<conn, left, to, received, due, barred>>
      BY <2>4 DEF WriteError, historyVars, IndInv, TypeOK
    <3>2. Accounted(r)'
      <4>1. \A d \in Client :
               \/ Copies(r, d)' = Copies(r, d)
               \/ conn[d] \in {"dead", "closed"} /\ Copies(r, d) = 1 /\ Copies(r, d)' = 0
        BY <3>1, CopiesType DEF Copies, RequestWrites
      <4>2. QED
        BY <3>1, <4>1, <1>1, CopiesType DEF Accounted
    <3>3. QED
      BY <3>1, <3>2, <1>1, AccountKept DEF BroadcastsAccounted
  <2>5. CASE WritePanic(r)
    <3>1. /\ rpc[r] = "write" /\ rpc'[r] = "panicked"
          /\ \A q \in Request \ {r} : rpc'[q] = rpc[q]
          /\ UNCHANGED <<conn, left, to, received, due, barred>>
      BY <2>5 DEF WritePanic, historyVars, IndInv, TypeOK
    <3>2. Accounted(r)'
      <4>1. \A d \in Client : Copies(r, d)' \in Nat /\ Copies(r, d)' <= Copies(r, d)
        BY <3>1, CopiesType DEF Copies, RequestWrites
      <4>2. QED
        BY <3>1, <4>1, <1>1, CopiesType DEF Accounted
    <3>3. QED
      BY <3>1, <3>2, <1>1, AccountKept DEF BroadcastsAccounted
  <2>6. CASE RequestUnregister(r)
    <3>1. /\ rpc[r] = "unregister" /\ rpc'[r] = "loop"
          /\ \A q \in Request \ {r} : rpc'[q] = rpc[q] /\ to'[q] = to[q]
          /\ UNCHANGED <<conn, left, received, due, barred>>
      BY <2>6 DEF RequestUnregister, historyVars, IndInv, TypeOK
    <3>2. Accounted(r)'
      <4>1. \A d \in Client : Copies(r, d)' = Copies(r, d)
        BY <3>1, CopiesType DEF Copies, RequestWrites
      <4>2. QED
        BY <3>1, <4>1, <1>1, CopiesType DEF Accounted
    <3>3. QED
      BY <3>1, <3>2, <1>1, AccountKept DEF BroadcastsAccounted
  <2>7. CASE RequestRUnlock(r)
    <3>1. /\ rpc[r] = "loop" /\ rpc'[r] = "done" /\ left[r] = NoClients
          /\ \A q \in Request \ {r} : rpc'[q] = rpc[q]
          /\ UNCHANGED <<conn, left, to, received, due, barred>>
      BY <2>7 DEF RequestRUnlock, historyVars, IndInv, TypeOK
    <3>2. Accounted(r)'
      <4>1. \A d \in Client : Copies(r, d)' = Copies(r, d)
        BY <3>1, CopiesType DEF Copies, RequestWrites
      <4>2. QED
        BY <3>1, <4>1, <1>1, CopiesType DEF Accounted, NoClients
    <3>3. QED
      BY <3>1, <3>2, <1>1, AccountKept DEF BroadcastsAccounted
  <2>8. QED
    BY <1>6, <2>1, <2>2, <2>3, <2>4, <2>5, <2>6, <2>7 DEF Broadcast
<1>7. ASSUME NEW r \in Request, NEW s \in Server, Snapshot(r, s) PROVE BroadcastsAccounted'
  <2>1. /\ rpc[r] = "idle" /\ rpc'[r] \in {"done", "snapshot"}
        /\ rpc'[r] = "done" => serverHub[s] = NoClients
        /\ left'[r] = serverHub[s]
        /\ due'[r] = {c \in Client : pc[c] = "read" /\ s \in subs[c]}
        /\ barred'[r] = {c \in Client : pc[c] = "read" /\ s \notin subs[c]}
        /\ \A q \in Request \ {r} : /\ rpc'[q] = rpc[q] /\ left'[q] = left[q]
                                    /\ due'[q] = due[q] /\ barred'[q] = barred[q]
        /\ UNCHANGED <<conn, to, received>>
    BY <1>7 DEF Snapshot, IndInv, TypeOK
  <2>2. \A c \in Client : serverHub[s][c] \in Nat /\ serverHub[s][c] <= 1
    BY DEF IndInv, TypeOK, NoDuplicates
  <2>3. \A c \in Client : pc[c] = "read" => (s \in subs[c] <=> serverHub[s][c] > 0)
    BY DEF IndInv, SubscriptionsMatch, Locking
  <2>4. \A c \in Client : Copies(r, c)' = serverHub[s][c] /\ received[c][r] = 0
    BY <1>1, <2>1, <2>2 DEF Copies, RequestWrites, Accounted
  <2>5. Accounted(r)'
    BY <2>1, <2>2, <2>3, <2>4 DEF Accounted
  <2>6. ASSUME NEW q \in Request \ {r} PROVE Accounted(q)'
    <3>1. \A c \in Client : Copies(q, c)' = Copies(q, c)
      BY <2>1 DEF Copies, RequestWrites
    <3>2. QED
      BY <2>1, <3>1, <1>1, CopiesType DEF Accounted
  <2>7. QED
    BY <2>5, <2>6 DEF BroadcastsAccounted
<1>8. CASE UNCHANGED vars
  BY <1>2, <1>8 DEF vars, requestVars, historyVars
<1>9. QED
  BY <1>3, <1>4, <1>5, <1>6, <1>7, <1>8 DEF Next

-----------------------------------------------------------------------------
(* hub.go and handler/websocket.go keep the inductive invariant, whatever   *)
(* the clients, the servers, the requests and the peers' behaviour.         *)
THEOREM HubInvariant == Spec => []IndInv
<1>1. IndInv /\ [Next]_vars => IndInv'
  BY TypePreserved, LocksPreserved, WorkPreserved, SubscriptionsPreserved, BroadcastsPreserved,
     HistoryPreserved, RegisteredPreserved DEF IndInv
<1>2. QED
  BY <1>1, InitIndInv, PTL DEF Spec

(* The maps, lists, locks and program counters of hub.go keep their types.  *)
THEOREM HubTypes == Spec => []TypeOK
<1>1. IndInv => TypeOK
  BY DEF IndInv
<1>2. QED
  BY <1>1, HubInvariant, PTL

(* Client.Subscriptions and Hub.serverHub agree wherever the client's own   *)
(* handler is not between its two updates (hub.go:85-132).                  *)
THEOREM SubscriptionsAgree == Spec => []SubscriptionsMatch
<1>1. IndInv => SubscriptionsMatch
  BY DEF IndInv
<1>2. QED
  BY <1>1, HubInvariant, PTL

(* The hub knows every client whose handler goes on reading.                *)
THEOREM ReadersAreRegistered == Spec => []OpenMeansRegistered
<1>1. IndInv => OpenMeansRegistered
  BY DEF IndInv
<1>2. QED
  BY <1>1, HubInvariant, PTL

(* broadcastToServer writes a message at most once to a client.             *)
THEOREM OneCopy == Spec => []AtMostOnce
<1>1. ASSUME IndInv PROVE AtMostOnce
  <2> SUFFICES ASSUME NEW c \in Client, NEW r \in Request PROVE received[c][r] <= 1
    BY DEF AtMostOnce
  <2>1. left[r][c] \in Nat /\ received[c][r] \in Nat
    BY <1>1, CopiesType
  <2>2. CASE RequestWrites(r, c)
    BY <1>1, <2>1, <2>2, CopiesType DEF Copies
  <2>3. CASE ~ RequestWrites(r, c)
    BY <1>1, <2>1, <2>3, CopiesType DEF Copies
  <2>4. QED
    BY <2>2, <2>3
<1>2. QED
  BY <1>1, HubInvariant, PTL

(* When broadcastToServer returns, the clients it owed the message have it, *)
(* except those whose own connection is gone (hub.go:156-179).              *)
THEOREM DueAreServed == Spec => []SubscribersServed
<1>1. ASSUME IndInv PROVE SubscribersServed
  <2> SUFFICES ASSUME NEW r \in Request, rpc[r] = "done",
                      NEW c \in due[r], conn[c] \in {"open", "stalled"}
               PROVE  received[c][r] = 1
    BY DEF SubscribersServed
  <2>1. c \in Client /\ Accounted(r)
    BY <1>1, CopiesType DEF IndInv, BroadcastsAccounted
  <2>2. left[r][c] = 0 /\ ~ RequestWrites(r, c)
    BY <2>1 DEF Accounted, NoClients, RequestWrites
  <2>3. Copies(r, c) = 1
    BY <2>1 DEF Accounted
  <2>4. QED
    BY <1>1, <2>1, <2>2, <2>3, CopiesType DEF Copies
<1>2. QED
  BY <1>1, HubInvariant, PTL

(* A client that was idle and not subscribed when the list was read gets    *)
(* nothing of that broadcast.                                               *)
THEOREM BarredAreNotServed == Spec => []NotSubscribedNotServed
<1>1. ASSUME IndInv PROVE NotSubscribedNotServed
  <2> SUFFICES ASSUME NEW r \in Request, NEW c \in barred[r] PROVE received[c][r] = 0
    BY DEF NotSubscribedNotServed
  <2>1. c \in Client /\ Copies(r, c) = 0
    BY <1>1, CopiesType DEF IndInv, BroadcastsAccounted, Accounted
  <2>2. CASE RequestWrites(r, c)
    BY <1>1, <2>1, <2>2, CopiesType DEF Copies
  <2>3. CASE ~ RequestWrites(r, c)
    BY <1>1, <2>1, <2>3, CopiesType DEF Copies
  <2>4. QED
    BY <2>2, <2>3
<1>2. QED
  BY <1>1, HubInvariant, PTL

(* Run's deadlock on its own lock (hub.go:50, 56, 117) is for ever, and it  *)
(* stops every later registration, subscription and broadcast.              *)
THEOREM SelfLockForEver == Spec => SelfLockIsFinal
<1> DEFINE Final == RunLocksItself => /\ RunLocksItself'
                                      /\ UNCHANGED <<clients, serverHub, writer>>
                                      /\ readers' \subseteq readers
                                      /\ \A r \in Request : rpc[r] = "idle" => rpc'[r] = "idle"
<1>1. ASSUME IndInv, [Next]_vars PROVE Final
  <2> SUFFICES ASSUME RunLocksItself PROVE Final
    OBVIOUS
  <2>1. writer = Run /\ hubPc = "removeSubscription"
    BY <1>1 DEF IndInv, LocksHeldInCode, RunLocksItself
  <2>2. Run \notin Client /\ Run # None
    BY ProcessAssumption
  <2> USE <2>1, <2>2 DEF RunLocksItself, LockFree, Exclusive, hubVars, lockVars, runVars,
                         requestVars, historyVars
  <2>3. ASSUME NEW c \in Client, Environment(c) PROVE Final
    BY <2>3 DEF Environment, Connect, Leave, Stall, ReceiveSubscribe, ReceiveUnsubscribe,
       ReceiveUnsubscribeAll, ReceiveInvalid, HandleMessage
  <2>4. ASSUME NEW c \in Client, Handler(c) PROVE Final
    BY <2>4 DEF Handler, Register, Unregister, SubscribeNext, UnsubscribeNext, LoopDone,
       HandlerLock, AddSubscription, RemoveSubscription, ReplyEnd, ReplyPanic, ReadError
  <2>5. CASE HubRun
    BY <2>5 DEF HubRun, RunLock, RunRegister, RunUnregisterUnknown, RunUnregister
  <2>6. ASSUME NEW r \in Request, Broadcast(r) PROVE Final
    BY <1>1, <2>6 DEF Broadcast, RequestRLock, RequestRUnlock, WriteOk, WriteBegin, WriteError,
       WritePanic, RequestUnregister, IndInv, TypeOK
  <2>7. ASSUME NEW r \in Request, NEW s \in Server, Snapshot(r, s) PROVE Final
    BY <2>7 DEF Snapshot
  <2>8. CASE UNCHANGED vars
    BY <2>8 DEF vars
  <2>9. QED
    BY <1>1, <2>3, <2>4, <2>5, <2>6, <2>7, <2>8 DEF Next
<1>2. QED
  BY <1>1, HubInvariant, PTL DEF Spec, SelfLockIsFinal

-----------------------------------------------------------------------------
(* Who is dropped, and what the lists keep of those who have gone.          *)

(* Run handles a client only after its handler said goodbye or a write to   *)
(* it failed.                                                               *)
DropsExplained ==
    /\ DroppedOnlyIfBroken
    /\ \A c \in Client : pc[c] = "off" => conn[c] = "none"
    /\ \A r \in Request : rpc[r] = "unregister" => conn[to[r]] \in {"dead", "closed"}

(* Run knows a client from Register to the end of its Unregister, unless it *)
(* has removed it before its handler was done.                              *)
Running(c) == pc[c] \notin {"off", "register", "done"}

KnownUnlessDropped ==
    /\ \A c \in Client : Running(c) /\ c \notin dropped
          => c \in clients \/ (hubPc = "register" /\ hubClient = c)
    /\ \A c \in Client : pc[c] = "done" /\ Listed(c)
          => \/ hubPc = "unregister" /\ hubClient = c /\ c \in clients
             \/ hubPc = "removeSubscription" /\ hubClient = c
             \/ c \in dropped

LEMMA DropsPreserved == ASSUME IndInv, DropsExplained, [Next]_vars PROVE DropsExplained'
<1> USE ProcessAssumption DEF IndInv, TypeOK, DropsExplained, DroppedOnlyIfBroken, ConnState
<1>1. ASSUME NEW c \in Client, Environment(c) PROVE DropsExplained'
  <2>1. CASE Connect(c)
    BY <2>1 DEF Connect, runVars, requestVars
  <2>2. CASE Leave(c) \/ Stall(c)
    <3>1. /\ conn[c] \in {"open", "stalled"}
          /\ conn' \in [Client -> ConnState]
          /\ \A d \in Client \ {c} : conn'[d] = conn[d]
          /\ UNCHANGED <<hubPc, hubClient, pc, rpc, to>>
      BY <2>2 DEF Leave, Stall, runVars, requestVars, handlerVars
    <3>2. \A r \in Request : rpc[r] = "unregister" => to[r] \in Client \ {c}
      BY <3>1 DEF WorkAtHand
    <3>3. QED
      BY <3>1, <3>2
  <2>3. ASSUME NEW next \in {"subscribe", "unsubscribe", "write"}, NEW servers \in SUBSET Server,
               HandleMessage(c, next, servers)
        PROVE  DropsExplained'
    BY <2>3 DEF HandleMessage, CanReceive, runVars, requestVars
  <2> HIDE DEF IndInv, TypeOK, DropsExplained, DroppedOnlyIfBroken
  <2>4. QED
    BY <1>1, <2>1, <2>2, <2>3, MessageStep DEF Environment
<1>2. ASSUME NEW c \in Client, Handler(c) PROVE DropsExplained'
  <2>1. CASE Register(c) \/ Unregister(c)
    <3>1. CASE Register(c)
      BY <3>1 DEF Register, requestVars
    <3>2. CASE Unregister(c)
      <4>1. /\ pc'[c] = "done" /\ conn'[c] = "closed" /\ hubClient' = c
            /\ \A d \in Client \ {c} : conn'[d] = conn[d] /\ pc'[d] = pc[d]
            /\ UNCHANGED <<rpc, to>>
        BY <3>2 DEF Unregister, requestVars
      <4>2. \A r \in Request : rpc[r] = "unregister" => to[r] \in Client
        BY DEF WorkAtHand
      <4>3. QED
        BY <4>1, <4>2
    <3>3. QED
      BY <2>1, <3>1, <3>2
  <2>2. CASE SubscribeNext(c) \/ UnsubscribeNext(c) \/ LoopDone(c) \/ HandlerLock(c)
    BY <2>2 DEF SubscribeNext, UnsubscribeNext, LoopDone, HandlerLock, runVars, requestVars,
       handlerVars
  <2>3. CASE AddSubscription(c) \/ RemoveSubscription(c)
    BY <2>3 DEF AddSubscription, RemoveSubscription, runVars, requestVars
  <2>4. CASE ReplyEnd(c) \/ ReplyPanic(c) \/ ReadError(c)
    BY <2>4 DEF ReplyEnd, ReplyPanic, ReadError, HandlerWrites, runVars, requestVars
  <2> HIDE DEF IndInv, TypeOK, DropsExplained, DroppedOnlyIfBroken
  <2>5. QED
    BY <1>2, <2>1, <2>2, <2>3, <2>4 DEF Handler
<1>3. CASE HubRun
  <2>1. CASE RunLock \/ RunRegister \/ RunUnregisterUnknown
    BY <2>1 DEF RunLock, RunRegister, RunUnregisterUnknown, runVars, handlerVars, requestVars
  <2>2. CASE RunUnregister
    <3>1. /\ hubPc = "unregister" /\ hubClient \in Client
          /\ conn' = [conn EXCEPT ![hubClient] = "closed"]
          /\ hubClient' \in {hubClient, None}
          /\ UNCHANGED <<pc, rpc, to>>
      BY <2>2 DEF RunUnregister, handlerVars, requestVars, WorkAtHand
    <3>2. pc[hubClient] # "off"
      BY <3>1
    <3>3. \A r \in Request : rpc[r] = "unregister" => to[r] \in Client
      BY DEF WorkAtHand
    <3>4. conn'[hubClient] = "closed" /\ \A d \in Client \ {hubClient} : conn'[d] = conn[d]
      BY <3>1
    <3>5. QED
      BY <3>1, <3>2, <3>3, <3>4
  <2> HIDE DEF IndInv, TypeOK, DropsExplained, DroppedOnlyIfBroken
  <2>3. QED
    BY <1>3, <2>1, <2>2 DEF HubRun
<1>4. ASSUME NEW r \in Request, Broadcast(r) PROVE DropsExplained'
  <2>1. CASE RequestRLock(r) \/ RequestRUnlock(r) \/ \E c \in Client : WriteBegin(r, c)
    BY <2>1 DEF RequestRLock, RequestRUnlock, WriteBegin, runVars, handlerVars
  <2>2. CASE WriteOk(r)
    BY <2>2 DEF WriteOk, runVars, handlerVars
  <2>3. CASE WriteError(r) \/ WritePanic(r)
    BY <2>3 DEF WriteError, WritePanic, runVars, handlerVars
  <2>4. CASE RequestUnregister(r)
    BY <2>4 DEF RequestUnregister, handlerVars
  <2> HIDE DEF IndInv, TypeOK, DropsExplained, DroppedOnlyIfBroken
  <2>5. QED
    BY <1>4, <2>1, <2>2, <2>3, <2>4 DEF Broadcast
<1>5. ASSUME NEW r \in Request, NEW s \in Server, Snapshot(r, s) PROVE DropsExplained'
  BY <1>5 DEF Snapshot, runVars, handlerVars
<1>6. CASE UNCHANGED vars
  BY <1>6 DEF vars, runVars, handlerVars, requestVars
<1> HIDE DEF IndInv, TypeOK, DropsExplained, DroppedOnlyIfBroken
<1>7. QED
  BY <1>1, <1>2, <1>3, <1>4, <1>5, <1>6 DEF Next

(* Steps that leave Run alone: no client of theirs goes to its end, and the *)
(* lists of those who have gone stay as they are.                           *)
LEMMA KnownByTheLists ==
    ASSUME KnownUnlessDropped,
           UNCHANGED <<clients, hubPc, hubClient, dropped>>,
           \A c \in Client : Running(c)' => Running(c),
           \A c \in Client : pc'[c] = "done" => pc[c] = "done" /\ (Listed(c)' => Listed(c))
    PROVE  KnownUnlessDropped'
BY DEF KnownUnlessDropped

LEMMA KnownPreserved == ASSUME IndInv, KnownUnlessDropped, [Next]_vars PROVE KnownUnlessDropped'
<1> USE ProcessAssumption
<1>1. ASSUME NEW c \in Client, Environment(c) PROVE KnownUnlessDropped'
  <2>1. CASE Connect(c) \/ Leave(c) \/ Stall(c)
    <3>1. /\ UNCHANGED <<clients, serverHub, hubPc, hubClient, dropped>>
          /\ \A d \in Client : pc'[d] = pc[d] \/ pc'[d] = "register"
      BY <2>1 DEF Connect, Leave, Stall, hubVars, runVars, handlerVars, historyVars, IndInv, TypeOK
    <3>2. QED
      BY <3>1, KnownByTheLists DEF Running, Listed
  <2>2. ASSUME NEW next \in {"subscribe", "unsubscribe", "write"}, NEW servers \in SUBSET Server,
               HandleMessage(c, next, servers)
        PROVE  KnownUnlessDropped'
    <3>1. /\ UNCHANGED <<clients, serverHub, hubPc, hubClient, dropped>>
          /\ pc[c] = "read" /\ pc'[c] # "done"
          /\ \A d \in Client \ {c} : pc'[d] = pc[d]
      BY <2>2 DEF HandleMessage, CanReceive, hubVars, runVars, historyVars, IndInv, TypeOK
    <3>2. QED
      BY <3>1, KnownByTheLists DEF Running, Listed
  <2>3. QED
    BY <1>1, <2>1, <2>2, MessageStep DEF Environment
<1>2. ASSUME NEW c \in Client, Handler(c) PROVE KnownUnlessDropped'
  <2>1. CASE Register(c)
    <3>1. /\ hubPc = "select" /\ hubPc' = "register" /\ hubClient' = c
          /\ pc[c] = "register" /\ pc'[c] = "read"
          /\ \A d \in Client \ {c} : pc'[d] = pc[d]
          /\ UNCHANGED <<clients, serverHub, dropped>>
      BY <2>1 DEF Register, hubVars, historyVars, IndInv, TypeOK
    <3>2. QED
      BY <3>1 DEF KnownUnlessDropped, Running, Listed
  <2>2. CASE Unregister(c)
    <3>1. /\ hubPc = "select" /\ hubPc' = "unregister" /\ hubClient' = c
          /\ pc[c] = "unregister" /\ pc'[c] = "done"
          /\ \A d \in Client \ {c} : pc'[d] = pc[d]
          /\ UNCHANGED <<clients, serverHub, dropped>>
      BY <2>2 DEF Unregister, hubVars, historyVars, IndInv, TypeOK
    <3>2. QED
      BY <3>1 DEF KnownUnlessDropped, Running, Listed
  <2>3. CASE SubscribeNext(c) \/ UnsubscribeNext(c) \/ LoopDone(c) \/ HandlerLock(c)
    <3>1. /\ Running(c) /\ pc'[c] # "done"
          /\ \A d \in Client \ {c} : pc'[d] = pc[d]
          /\ UNCHANGED <<clients, serverHub, hubPc, hubClient, dropped>>
      <4>1. CASE SubscribeNext(c)
        BY <4>1 DEF SubscribeNext, Running, runVars, historyVars, IndInv, TypeOK
      <4>2. CASE UnsubscribeNext(c)
        BY <4>2 DEF UnsubscribeNext, Running, runVars, historyVars, IndInv, TypeOK
      <4>3. CASE LoopDone(c) \/ HandlerLock(c)
        BY <4>3 DEF LoopDone, HandlerLock, Running, hubVars, runVars, handlerVars, historyVars,
           IndInv, TypeOK
      <4>4. QED
        BY <2>3, <4>1, <4>2, <4>3
    <3>2. QED
      BY <3>1, KnownByTheLists DEF Running, Listed
  <2>4. CASE AddSubscription(c) \/ RemoveSubscription(c)
    <3>1. /\ Running(c) /\ pc'[c] # "done"
          /\ \A d \in Client \ {c} : pc'[d] = pc[d]
          /\ UNCHANGED <<clients, hubPc, hubClient, dropped>>
      BY <2>4 DEF AddSubscription, RemoveSubscription, Running, runVars, historyVars, IndInv, TypeOK
    <3>2. \A s \in Server, d \in Client \ {c} : serverHub'[s][d] = serverHub[s][d]
      <4>1. cur[c] \in Server /\ serverHub[cur[c]] \in [Client -> Nat]
        BY <2>4 DEF AddSubscription, RemoveSubscription, WorkAtHand, IndInv, TypeOK
      <4>2. \A s \in Server \ {cur[c]} : serverHub'[s] = serverHub[s]
        BY <2>4 DEF AddSubscription, RemoveSubscription, IndInv, TypeOK
      <4>3. \/ serverHub'[cur[c]] = Appended(serverHub[cur[c]], c)
            \/ serverHub'[cur[c]] = Without(serverHub[cur[c]], c)
        BY <2>4, <4>1 DEF AddSubscription, RemoveSubscription, IndInv, TypeOK
      <4>4. \A d \in Client \ {c} : serverHub'[cur[c]][d] = serverHub[cur[c]][d]
        BY <4>1, <4>3 DEF Appended, Without
      <4>5. QED
        BY <4>2, <4>4
    <3>3. QED
      BY <3>1, <3>2, KnownByTheLists DEF Running, Listed
  <2>5. CASE ReplyEnd(c) \/ ReplyPanic(c) \/ ReadError(c)
    <3>1. /\ Running(c) /\ pc'[c] # "done"
          /\ \A d \in Client \ {c} : pc'[d] = pc[d]
          /\ UNCHANGED <<clients, serverHub, hubPc, hubClient, dropped>>
      BY <2>5 DEF ReplyEnd, ReplyPanic, ReadError, HandlerWrites, Running, hubVars, runVars,
         historyVars, IndInv, TypeOK
    <3>2. QED
      BY <3>1, KnownByTheLists DEF Running, Listed
  <2>6. QED
    BY <1>2, <2>1, <2>2, <2>3, <2>4, <2>5 DEF Handler
<1>3. CASE HubRun
  <2>1. CASE RunLock \/ RunRegister
    <3>1. /\ UNCHANGED <<serverHub, pc, dropped>>
          /\ \/ UNCHANGED <<clients, hubPc, hubClient>>
             \/ /\ hubPc = "register" /\ hubPc' = "select"
                /\ clients' = clients \cup {hubClient}
      BY <2>1 DEF RunLock, RunRegister, hubVars, runVars, handlerVars, historyVars
    <3>2. QED
      BY <3>1 DEF KnownUnlessDropped, Running, Listed
  <2>2. CASE RunUnregisterUnknown
    <3>1. /\ hubPc = "unregister" /\ hubPc' = "select" /\ hubClient \notin clients
          /\ UNCHANGED <<clients, serverHub, pc, dropped>>
      BY <2>2 DEF RunUnregisterUnknown, hubVars, handlerVars, historyVars
    <3>2. QED
      BY <3>1 DEF KnownUnlessDropped, Running, Listed
  <2>3. CASE RunUnregister
    <3>1. /\ hubPc = "unregister" /\ hubClient \in Client
          /\ clients' = clients \ {hubClient}
          /\ dropped' = Outlived
          /\ UNCHANGED <<serverHub, pc>>
          /\ \/ subs[hubClient] = {} /\ hubPc' = "select"
             \/ hubPc' = "removeSubscription" /\ hubClient' = hubClient
      BY <2>3 DEF RunUnregister, handlerVars, WorkAtHand, IndInv
    <3>2. dropped \subseteq dropped' /\ (pc[hubClient] # "done" => hubClient \in dropped')
      BY <3>1 DEF Outlived
    <3>3. subs[hubClient] = {} /\ pc[hubClient] = "done" => ~ Listed(hubClient)
      BY <3>1 DEF SubscriptionsMatch, Locking, Listed, IndInv
    <3>4. \A c \in Client : Running(c)' = Running(c) /\ Listed(c)' = Listed(c)
      BY <3>1 DEF Running, Listed
    <3>5. pc[hubClient] = "done" => ~ Running(hubClient)
      BY DEF Running
    <3>6. QED
      BY <3>1, <3>2, <3>3, <3>4, <3>5 DEF KnownUnlessDropped
  <2>4. QED
    BY <1>3, <2>1, <2>2, <2>3 DEF HubRun
<1>4. ASSUME NEW r \in Request, Broadcast(r) PROVE KnownUnlessDropped'
  <2>1. CASE RequestRLock(r) \/ RequestRUnlock(r) \/ \E c \in Client : WriteBegin(r, c)
    BY <2>1 DEF RequestRLock, RequestRUnlock, WriteBegin, hubVars, runVars, handlerVars, historyVars,
       KnownUnlessDropped, Running, Listed
  <2>2. CASE WriteOk(r) \/ WriteError(r) \/ WritePanic(r)
    BY <2>2 DEF WriteOk, WriteError, WritePanic, hubVars, runVars, handlerVars, historyVars,
       KnownUnlessDropped, Running, Listed
  <2>3. CASE RequestUnregister(r)
    <3>1. /\ hubPc = "select"
          /\ UNCHANGED <<clients, serverHub, pc, dropped>>
      BY <2>3 DEF RequestUnregister, hubVars, handlerVars, historyVars
    <3>2. QED
      BY <3>1 DEF KnownUnlessDropped, Running, Listed
  <2>4. QED
    BY <1>4, <2>1, <2>2, <2>3 DEF Broadcast
<1>5. ASSUME NEW r \in Request, NEW s \in Server, Snapshot(r, s) PROVE KnownUnlessDropped'
  BY <1>5 DEF Snapshot, hubVars, runVars, handlerVars, KnownUnlessDropped, Running, Listed
<1>6. CASE UNCHANGED vars
  BY <1>6 DEF vars, hubVars, runVars, handlerVars, historyVars, KnownUnlessDropped, Running, Listed
<1>7. QED
  BY <1>1, <1>2, <1>3, <1>4, <1>5, <1>6 DEF Next

(* Run removes a client, and walks through its Subscriptions (hub.go:55),   *)
(* only when the client's handler has ended or its connection has broken.   *)
THEOREM OnlyBrokenAreDropped == Spec => []DroppedOnlyIfBroken
<1>1. Init => DropsExplained
  BY ProcessAssumption DEF Init, DropsExplained, DroppedOnlyIfBroken
<1>2. DropsExplained => DroppedOnlyIfBroken
  BY DEF DropsExplained
<1>3. QED
  BY <1>1, <1>2, DropsPreserved, HubInvariant, PTL DEF Spec

(* A client whose handler has returned is in a list only while Run has yet  *)
(* to look at it, when Run has locked itself out over it (hub.go:56), or    *)
(* when Run removed it before its handler was done (hub.go:175).            *)
THEOREM WhyTheGoneAreListed == Spec => []GoneFromLists
<1>1. Init => KnownUnlessDropped
  BY DEF Init, NoClients, KnownUnlessDropped, Running, Listed
<1>2. KnownUnlessDropped => GoneFromLists
  BY DEF KnownUnlessDropped, GoneFromLists, RunLocksItself
<1>3. QED
  BY <1>1, <1>2, KnownPreserved, HubInvariant, PTL DEF Spec

-----------------------------------------------------------------------------
(* The refinement of PubSub.                                                *)

SubscribersOf(s) == {c \in Client : serverHub[s][c] > 0}
AddresseesOf(r) ==
    {c \in Client : left[r][c] > 0 \/ (rpc[r] \in {"write", "panicked"} /\ to[r] = c)}
Deliveries == {m \in Client \X Request : received[m[1]][m[2]] > 0}
PhaseOf(r) == Phase[rpc[r]]

Lists == [s \in Server |-> SubscribersOf(s)]
Addressees == [r \in Request |-> AddresseesOf(r)]
Phases == [r \in Request |-> PhaseOf(r)]

(* A step that keeps lists, loops and receipts is a stutter of PubSub.      *)
LEMMA StutterStep ==
    ASSUME \/ UNCHANGED <<serverHub, left, to, received, rpc>>
           \/ /\ UNCHANGED <<serverHub, left, received>>
              /\ \A r \in Request : /\ AddresseesOf(r)' = AddresseesOf(r)
                                    /\ PhaseOf(r)' = PhaseOf(r)
    PROVE  UNCHANGED PubSub!vars
<1>1. \A r \in Request : AddresseesOf(r)' = AddresseesOf(r) /\ PhaseOf(r)' = PhaseOf(r)
  BY DEF AddresseesOf, PhaseOf
<1>2. QED
  BY <1>1 DEF PubSub!vars, AddresseesOf, PhaseOf

(* What a request that moves alone leaves of the phases. *)
LEMMA PhaseStep ==
    ASSUME IndInv, NEW r \in Request, NEW p \in RequestPc, rpc' = [rpc EXCEPT ![r] = p]
    PROVE  Phases' = [Phases EXCEPT ![r] = Phase[p]]
<1>1. rpc'[r] = p /\ \A q \in Request \ {r} : rpc'[q] = rpc[q]
  BY DEF IndInv, TypeOK
<1>2. PhaseOf(r)' = Phase[p] /\ \A q \in Request \ {r} : PhaseOf(q)' = PhaseOf(q)
  BY <1>1 DEF PhaseOf
<1>3. QED
  BY <1>2 DEF Phases

(* Every step of the hub is a step of PubSub or a stutter: AddSubscription  *)
(* is Subscribe, the first RLock section Publish, a returned WriteMessage   *)
(* Deliver or Drop.                                                         *)
LEMMA PubSubStep == ASSUME IndInv, [Next]_vars PROVE [PubSub!Next]_(PubSub!vars)
<1>1. ASSUME NEW c \in Client, Environment(c) PROVE UNCHANGED PubSub!vars
  BY <1>1, StutterStep DEF Environment, Connect, Leave, Stall, ReceiveSubscribe, ReceiveUnsubscribe,
     ReceiveUnsubscribeAll, ReceiveInvalid, HandleMessage, hubVars, requestVars, historyVars
<1>2. ASSUME NEW c \in Client, Handler(c) PROVE [PubSub!Next]_(PubSub!vars)
  <2>1. CASE AddSubscription(c)
    <3>1. PICK s \in Server : s = cur[c]
      BY <2>1 DEF AddSubscription, IndInv, WorkAtHand
    <3>2. /\ SubscribersOf(s)' = SubscribersOf(s) \cup {c}
          /\ \A u \in Server \ {s} : SubscribersOf(u)' = SubscribersOf(u)
      <4>1. /\ serverHub'[s] = Appended(serverHub[s], c)
            /\ \A u \in Server \ {s} : serverHub'[u] = serverHub[u]
        BY <2>1, <3>1 DEF AddSubscription, IndInv, TypeOK
      <4>2. serverHub[s] \in [Client -> Nat]
        BY <3>1 DEF IndInv, TypeOK
      <4>3. /\ Appended(serverHub[s], c)[c] > 0
            /\ \A d \in Client \ {c} : Appended(serverHub[s], c)[d] = serverHub[s][d]
        BY <4>2 DEF Appended
      <4>4. QED
        BY <4>1, <4>3 DEF SubscribersOf
    <3>3. UNCHANGED <<left, to, received, rpc>>
      BY <2>1 DEF AddSubscription, requestVars, historyVars
    <3>4. PubSub!Subscribe(c, s)
      BY <3>1, <3>2, <3>3 DEF PubSub!Subscribe, SubscribersOf
    <3>5. QED
      BY <3>1, <3>4 DEF PubSub!Next
  <2>2. CASE RemoveSubscription(c)
    <3>1. PICK s \in Server : s = cur[c]
      BY <2>2 DEF RemoveSubscription, IndInv, WorkAtHand
    <3>2. /\ SubscribersOf(s)' = SubscribersOf(s) \ {c}
          /\ \A u \in Server \ {s} : SubscribersOf(u)' = SubscribersOf(u)
      <4>1. /\ serverHub'[s] = Without(serverHub[s], c)
            /\ \A u \in Server \ {s} : serverHub'[u] = serverHub[u]
        BY <2>2, <3>1 DEF RemoveSubscription, IndInv, TypeOK
      <4>2. serverHub[s] \in [Client -> Nat]
        BY <3>1 DEF IndInv, TypeOK
      <4>3. /\ Without(serverHub[s], c)[c] = 0
            /\ \A d \in Client \ {c} : Without(serverHub[s], c)[d] = serverHub[s][d]
        BY <4>2 DEF Without
      <4>4. QED
        BY <4>1, <4>3 DEF SubscribersOf
    <3>3. UNCHANGED <<left, to, received, rpc>>
      BY <2>2 DEF RemoveSubscription, requestVars, historyVars
    <3>4. PubSub!Unsubscribe(c, s)
      BY <3>1, <3>2, <3>3 DEF PubSub!Unsubscribe, SubscribersOf
    <3>5. QED
      BY <3>1, <3>4 DEF PubSub!Next
  <2>3. CASE \/ Register(c) \/ Unregister(c) \/ SubscribeNext(c) \/ UnsubscribeNext(c)
             \/ LoopDone(c) \/ HandlerLock(c) \/ ReplyEnd(c) \/ ReplyPanic(c) \/ ReadError(c)
    BY <2>3, StutterStep DEF Register, Unregister, SubscribeNext, UnsubscribeNext, LoopDone,
       HandlerLock, ReplyEnd, ReplyPanic, ReadError, hubVars, requestVars, historyVars
  <2>4. QED
    BY <1>2, <2>1, <2>2, <2>3 DEF Handler
<1>3. CASE HubRun
  BY <1>3, StutterStep DEF HubRun, RunLock, RunRegister, RunUnregisterUnknown, RunUnregister,
     hubVars, requestVars, historyVars
<1>4. ASSUME NEW r \in Request, Broadcast(r) PROVE [PubSub!Next]_(PubSub!vars)
  <2>1. CASE RequestRLock(r) \/ RequestRUnlock(r) \/ WritePanic(r) \/ RequestUnregister(r)
    <3>1. /\ UNCHANGED <<serverHub, left, received>>
          /\ rpc[r] \in {"write", "panicked"} <=> rpc'[r] \in {"write", "panicked"}
          /\ rpc[r] = "write" => to'[r] = to[r]
          /\ rpc[r] # "panicked"
          /\ \A q \in Request \ {r} : rpc'[q] = rpc[q] /\ to'[q] = to[q]
      BY <2>1 DEF RequestRLock, RequestRUnlock, WritePanic, RequestUnregister,
         IndInv, TypeOK, hubVars, historyVars
    <3>2. \A q \in Request : AddresseesOf(q)' = AddresseesOf(q)
      BY <3>1 DEF AddresseesOf
    <3>3. CASE RequestRLock(r) \/ RequestUnregister(r)
      <4>1. rpc' = [rpc EXCEPT ![r] = "loop"] /\ Phase[rpc[r]] = "running" /\ Phase["loop"] = "running"
        BY <3>3 DEF RequestRLock, RequestUnregister, Phase
      <4>2. \A q \in Request : PhaseOf(q)' = PhaseOf(q)
        <5>1. \A q \in Request : rpc'[q] = IF q = r THEN "loop" ELSE rpc[q]
          BY <4>1 DEF IndInv, TypeOK
        <5>2. QED
          BY <4>1, <5>1 DEF PhaseOf
      <4>3. QED
        BY <3>1, <3>2, <4>2, StutterStep
    <3>4. ASSUME NEW p \in {"done", "panicked"}, rpc' = [rpc EXCEPT ![r] = p]
          PROVE  /\ UNCHANGED <<Lists, Addressees, Deliveries>>
                 /\ Phases' = [Phases EXCEPT ![r] = Phase[p]]
      <4>1. Phases' = [Phases EXCEPT ![r] = Phase[p]]
        <5>1. p \in RequestPc
          BY DEF RequestPc
        <5>2. QED
          BY <3>4, <5>1, PhaseStep
      <4>2. QED
        BY <3>1, <3>2, <4>1 DEF Lists, Addressees, Deliveries, SubscribersOf
    <3>5. CASE RequestRUnlock(r)
      <4>1. rpc[r] = "loop" /\ left[r] = NoClients /\ rpc' = [rpc EXCEPT ![r] = "done"]
        BY <3>5 DEF RequestRUnlock
      <4>2. AddresseesOf(r) = {}
        BY <4>1 DEF AddresseesOf, NoClients
      <4>3. Phase[rpc[r]] = "running" /\ Phase["done"] = "returned"
        BY <4>1 DEF Phase
      <4>4. PubSub!Return(r)
        BY <3>4, <4>1, <4>2, <4>3 DEF PubSub!Return, Lists, Addressees, Deliveries, Phases,
           SubscribersOf, AddresseesOf, PhaseOf
      <4>5. QED
        BY <4>4 DEF PubSub!Next
    <3>6. CASE WritePanic(r)
      <4>1. rpc[r] = "write" /\ rpc' = [rpc EXCEPT ![r] = "panicked"]
        BY <3>6 DEF WritePanic
      <4>2. AddresseesOf(r) # {}
        BY <4>1 DEF AddresseesOf, IndInv, WorkAtHand
      <4>3. Phase[rpc[r]] = "running" /\ Phase["panicked"] = "panicked"
        BY <4>1 DEF Phase
      <4>4. PubSub!Panic(r)
        BY <3>4, <4>1, <4>2, <4>3 DEF PubSub!Panic, Lists, Addressees, Deliveries, Phases,
           SubscribersOf, AddresseesOf, PhaseOf
      <4>5. QED
        BY <4>4 DEF PubSub!Next
    <3>7. QED
      BY <2>1, <3>3, <3>5, <3>6
  <2>2. ASSUME NEW c \in Client, WriteBegin(r, c) PROVE UNCHANGED PubSub!vars
    <3>1. /\ left'[r][c] = left[r][c] - 1 /\ left[r][c] > 0
          /\ rpc[r] = "loop" /\ rpc'[r] = "write" /\ to'[r] = c
          /\ \A d \in Client \ {c} : left'[r][d] = left[r][d]
          /\ \A q \in Request \ {r} : left'[q] = left[q] /\ rpc'[q] = rpc[q] /\ to'[q] = to[q]
          /\ UNCHANGED <<serverHub, received>>
      BY <2>2 DEF WriteBegin, hubVars, historyVars, IndInv, TypeOK
    <3>2. \A q \in Request : AddresseesOf(q)' = AddresseesOf(q)
      BY <3>1 DEF AddresseesOf
    <3>3. \A q \in Request : PhaseOf(q)' = PhaseOf(q)
      BY <3>1 DEF PhaseOf, Phase
    <3>4. QED
      BY <3>1, <3>2, <3>3 DEF PubSub!vars, AddresseesOf, PhaseOf
  <2>3. CASE WriteOk(r) \/ WriteError(r)
    <3>1. PICK c \in Client : c = to[r]
      BY <2>3 DEF WriteOk, WriteError, IndInv, WorkAtHand
    <3>2. /\ rpc[r] = "write" /\ rpc'[r] \in {"loop", "unregister"}
          /\ \A q \in Request \ {r} : rpc'[q] = rpc[q] /\ to'[q] = to[q]
          /\ UNCHANGED <<serverHub, left>>
      BY <2>3 DEF WriteOk, WriteError, hubVars, IndInv, TypeOK
    <3>3. left[r][c] = 0
      <4>1. RequestWrites(r, c)
        BY <3>1, <3>2 DEF RequestWrites
      <4>2. QED
        BY <4>1, CopiesType DEF Copies
    <3>4. /\ c \in AddresseesOf(r)
          /\ AddresseesOf(r)' = AddresseesOf(r) \ {c}
          /\ \A q \in Request \ {r} : AddresseesOf(q)' = AddresseesOf(q)
      BY <3>1, <3>2, <3>3 DEF AddresseesOf
    <3>5. Addressees' = [Addressees EXCEPT ![r] = @ \ {c}] /\ c \in Addressees[r]
      BY <3>4 DEF Addressees
    <3>6. \A q \in Request : PhaseOf(q)' = PhaseOf(q)
      BY <3>2 DEF PhaseOf, Phase
    <3>7. UNCHANGED <<Lists, Phases>> /\ Phases[r] = "running"
      BY <3>2, <3>6 DEF Lists, Phases, PhaseOf, Phase, SubscribersOf
    <3>8. CASE received' = received
      <4>1. PubSub!Drop(r, c)
        BY <3>8, <3>5, <3>7 DEF PubSub!Drop, Lists, Addressees, Deliveries, Phases,
           SubscribersOf, AddresseesOf, PhaseOf
      <4>2. QED
        BY <4>1 DEF PubSub!Next
    <3>9. CASE received' = [received EXCEPT ![c][r] = @ + 1]
      <4>1. Deliveries' = Deliveries \cup {<<c, r>>}
        <5>1. received[c][r] \in Nat /\ received'[c][r] = received[c][r] + 1
          BY <3>9 DEF IndInv, TypeOK
        <5>2. \A d \in Client, q \in Request :
                 d # c \/ q # r => received'[d][q] = received[d][q]
          BY <3>9 DEF IndInv, TypeOK
        <5>3. QED
          BY <5>1, <5>2 DEF Deliveries
      <4>2. PubSub!Deliver(r, c)
        BY <3>5, <3>7, <4>1 DEF PubSub!Deliver, Lists, Addressees, Deliveries, Phases,
           SubscribersOf, AddresseesOf, PhaseOf
      <4>3. QED
        BY <4>2 DEF PubSub!Next
    <3>10. QED
      BY <2>3, <3>1, <3>8, <3>9 DEF WriteOk, WriteError, historyVars
  <2>4. QED
    BY <1>4, <2>1, <2>2, <2>3 DEF Broadcast
<1>5. ASSUME NEW r \in Request, NEW s \in Server, Snapshot(r, s)
      PROVE  [PubSub!Next]_(PubSub!vars)
  <2>1. /\ rpc[r] = "idle"
        /\ rpc' = [rpc EXCEPT ![r] = IF serverHub[s] = NoClients THEN "done" ELSE "snapshot"]
        /\ left'[r] = serverHub[s]
        /\ rpc'[r] \in {"done", "snapshot"}
        /\ \A q \in Request \ {r} : rpc'[q] = rpc[q] /\ left'[q] = left[q]
        /\ UNCHANGED <<serverHub, to, received>>
    BY <1>5 DEF Snapshot, hubVars, IndInv, TypeOK
  <2>2. /\ AddresseesOf(r)' = SubscribersOf(s)
        /\ \A q \in Request \ {r} : AddresseesOf(q)' = AddresseesOf(q)
    BY <2>1 DEF AddresseesOf, SubscribersOf
  <2>3. serverHub[s] = NoClients <=> SubscribersOf(s) = {}
    <3>1. serverHub[s] \in [Client -> Nat]
      BY DEF IndInv, TypeOK
    <3>2. QED
      BY <3>1 DEF NoClients, SubscribersOf
  <2>4. Phases' = [Phases EXCEPT ![r] = IF SubscribersOf(s) = {} THEN "returned" ELSE "running"]
    <3>1. CASE SubscribersOf(s) = {}
      BY <2>1, <2>3, <3>1, PhaseStep DEF Phase, RequestPc
    <3>2. CASE SubscribersOf(s) # {}
      BY <2>1, <2>3, <3>2, PhaseStep DEF Phase, RequestPc
    <3>3. QED
      BY <3>1, <3>2
  <2>5. Addressees' = [Addressees EXCEPT ![r] = Lists[s]]
    BY <2>2 DEF Addressees, Lists
  <2>6. UNCHANGED <<Lists, Deliveries>> /\ Phases[r] = "idle"
    BY <2>1 DEF Lists, Deliveries, Phases, PhaseOf, Phase, SubscribersOf
  <2>7. Lists[s] = SubscribersOf(s)
    BY DEF Lists
  <2>8. PubSub!Publish(r, s)
    BY <2>4, <2>5, <2>6, <2>7 DEF PubSub!Publish, Lists, Addressees, Deliveries, Phases,
       SubscribersOf, AddresseesOf, PhaseOf
  <2>9. QED
    BY <2>8 DEF PubSub!Next
<1>6. CASE UNCHANGED vars
  BY <1>6, StutterStep DEF vars, hubVars, requestVars, historyVars
<1>7. QED
  BY <1>1, <1>2, <1>3, <1>4, <1>5, <1>6 DEF Next

(* The hub implements PubSub: lists change by one client at a time, and a   *)
(* broadcast goes at most once to exactly the clients of one snapshot.      *)
THEOREM HubImplementsPubSub == Spec => PubSubSpec
<1>1. ASSUME Init PROVE PubSub!Init
  <2>1. Lists = [s \in Server |-> {}] /\ Addressees = [r \in Request |-> {}] /\ Deliveries = {}
    BY <1>1 DEF Init, NoClients, Lists, Addressees, Deliveries, SubscribersOf, AddresseesOf
  <2>2. Phases = [r \in Request |-> "idle"]
    BY <1>1 DEF Init, Phases, PhaseOf, Phase
  <2>3. QED
    BY <2>1, <2>2 DEF PubSub!Init, Lists, Addressees, Deliveries, Phases, SubscribersOf, AddresseesOf, PhaseOf
<1>2. QED
  BY <1>1, PubSubStep, HubInvariant, PTL DEF Spec, PubSubSpec, PubSub!Spec

-----------------------------------------------------------------------------
(* A broadcast comes to an end.                                            *)

(* How many clients a broadcast still has to take from its list, and how   *)
(* far it is with the one it has taken.                                    *)
Pending(r) == {c \in Client : left[r][c] > 0}

Progress == [idle |-> 0, snapshot |-> 1, write |-> 2, unregister |-> 3, loop |-> 4,
             done |-> 5, panicked |-> 5]

(* A broadcast comes to an end whatever the hub does meanwhile: who is taken*)
(* from its list is never put back, nobody who subscribes later is added,  *)
(* no write is tried again, and between two clients it only goes forward.  *)
BroadcastGoesOn ==
    [][\A r \in Request : rpc[r] # "idle" /\ <<rpc[r], left[r]>>' # <<rpc[r], left[r]>> =>
          /\ Pending(r)' \subseteq Pending(r)
          /\ Pending(r)' # Pending(r) \/ Progress[rpc'[r]] > Progress[rpc[r]]]_vars

(* What a step makes of a broadcast whose list has been read. *)
GoesOn(r) ==
    rpc[r] # "idle" /\ <<rpc[r], left[r]>>' # <<rpc[r], left[r]>> =>
        /\ Pending(r)' \subseteq Pending(r)
        /\ Pending(r)' # Pending(r) \/ Progress[rpc'[r]] > Progress[rpc[r]]

(* One client at a time is taken from the list: it is in it once. *)
LEMMA ListShrinks ==
  ASSUME IndInv, NEW r \in Request, NEW c \in Client, WriteBegin(r, c)
  PROVE  Pending(r)' = Pending(r) \ {c} /\ c \in Pending(r)
<1>1. left[r][c] = 1
  <2>1. left[r][c] \in Nat /\ received[c][r] \in Nat /\ Copies(r, c) <= 1
    BY CopiesType
  <2>2. left[r][c] > 0
    BY DEF WriteBegin
  <2>3. left[r][c] <= 1
    BY <2>1 DEF Copies
  <2> QED
    BY <2>1, <2>2, <2>3
<1>2. left[r] \in [Client -> Nat]
  BY DEF IndInv, TypeOK
<1>3. left'[r] = [left[r] EXCEPT ![c] = 0]
  BY <1>1, <1>2 DEF WriteBegin, IndInv, TypeOK
<1> QED
  BY <1>1, <1>2, <1>3 DEF Pending

LEMMA BroadcastGoes == ASSUME IndInv, NEW q \in Request, Broadcast(q), NEW r \in Request PROVE GoesOn(r)
<1> USE DEF GoesOn, IndInv, TypeOK, Progress, hubVars, lockVars, runVars, handlerVars, historyVars
<1>1. CASE RequestRLock(q)
  BY <1>1 DEF RequestRLock, Pending
<1>2. ASSUME NEW c \in Client, WriteBegin(q, c) PROVE GoesOn(r)
  <2>1. CASE r = q
    BY <1>2, <2>1, ListShrinks
  <2>2. CASE r # q
    BY <1>2, <2>2 DEF WriteBegin
  <2> QED
    BY <2>1, <2>2
<1>3. CASE WriteOk(q)
  BY <1>3 DEF WriteOk, Pending
<1>4. CASE WriteError(q)
  BY <1>4 DEF WriteError, Pending
<1>5. CASE WritePanic(q)
  BY <1>5 DEF WritePanic, Pending
<1>6. CASE RequestUnregister(q)
  BY <1>6 DEF RequestUnregister, Pending
<1>7. CASE RequestRUnlock(q)
  BY <1>7 DEF RequestRUnlock, Pending
<1> QED
  BY <1>1, <1>2, <1>3, <1>4, <1>5, <1>6, <1>7 DEF Broadcast

(* The loop of broadcastToServer (hub.go:170-178) visits each client of the *)
(* list once and starts over for none: with n clients listed a broadcast    *)
(* takes no more than 3n + 2 steps of its own.                              *)
THEOREM BroadcastsOnlyGoOn == Spec => BroadcastGoesOn
<1>1. ASSUME IndInv, Next, NEW r \in Request PROVE GoesOn(r)
  <2>1. ASSUME NEW c \in Client, Environment(c) PROVE GoesOn(r)
    BY <2>1 DEF GoesOn, requestVars, Environment, Connect, Leave, Stall, ReceiveSubscribe,
       ReceiveUnsubscribe, ReceiveUnsubscribeAll, ReceiveInvalid, HandleMessage
  <2>2. ASSUME NEW c \in Client, Handler(c) PROVE GoesOn(r)
    BY <2>2 DEF GoesOn, requestVars, Handler, Register, Unregister, SubscribeNext, UnsubscribeNext,
       LoopDone, HandlerLock, AddSubscription, RemoveSubscription, ReplyEnd, ReplyPanic, ReadError
  <2>3. CASE HubRun
    BY <2>3 DEF GoesOn, requestVars, HubRun, RunLock, RunRegister, RunUnregisterUnknown, RunUnregister
  <2>4. ASSUME NEW q \in Request, Broadcast(q) PROVE GoesOn(r)
    BY <1>1, <2>4, BroadcastGoes
  <2>5. ASSUME NEW q \in Request, NEW s \in Server, Snapshot(q, s) PROVE GoesOn(r)
    BY <1>1, <2>5 DEF GoesOn, Snapshot, IndInv, TypeOK
  <2>6. QED
    BY <1>1, <2>1, <2>2, <2>3, <2>4, <2>5 DEF Next
<1>2. IndInv /\ [Next]_vars => [\A r \in Request : GoesOn(r)]_vars
  BY <1>1
<1>3. QED
  BY <1>2, HubInvariant, PTL DEF Spec, BroadcastGoesOn, GoesOn

-----------------------------------------------------------------------------
(* What can stop the server.                                               *)

(* A client that has not connected is nobody's addressee. *)
StrangersUnknown ==
    \A c \in Client : conn[c] = "none" =>
        /\ pc[c] = "off"
        /\ subs[c] = {}
        /\ \A r \in Request : left[r][c] = 0 /\ to[r] # c

LEMMA StrangersPreserved ==
    ASSUME IndInv, StrangersUnknown, [Next]_vars PROVE StrangersUnknown'
<1> SUFFICES ASSUME NEW x \in Client, conn'[x] = "none"
             PROVE  /\ pc'[x] = "off"
                    /\ subs'[x] = {}
                    /\ \A r \in Request : left'[r][x] = 0 /\ to'[r] # x
  BY DEF StrangersUnknown
<1> DEFINE Stranger == /\ pc[x] = "off"
                       /\ subs[x] = {}
                       /\ \A r \in Request : left[r][x] = 0 /\ to[r] # x
           Goal == /\ pc'[x] = "off"
                   /\ subs'[x] = {}
                   /\ \A r \in Request : left'[r][x] = 0 /\ to'[r] # x
<1> USE DEF IndInv, TypeOK
<1>0. conn[x] = "none" => Stranger
  BY DEF StrangersUnknown
<1>1. ASSUME NEW c \in Client, Environment(c) PROVE Goal
  <2> USE <1>0 DEF hubVars, lockVars, runVars, handlerVars, requestVars, historyVars
  <2>1. CASE Connect(c)
    BY <2>1 DEF Connect
  <2>2. CASE Leave(c) \/ Stall(c)
    BY <2>2 DEF Leave, Stall
  <2>3. ASSUME NEW next \in {"subscribe", "unsubscribe", "write"}, NEW servers \in SUBSET Server,
               HandleMessage(c, next, servers)
        PROVE  Goal
    BY <2>3 DEF HandleMessage, CanReceive
  <2> QED BY <1>1, <2>1, <2>2, <2>3, MessageStep, ZenonT(60) DEF Environment
<1>2. ASSUME NEW c \in Client, Handler(c) PROVE Goal
  <2> USE <1>0 DEF hubVars, lockVars, runVars, handlerVars, requestVars, historyVars
  <2>1. CASE Register(c) \/ Unregister(c)
    BY <2>1 DEF Register, Unregister
  <2>2. CASE SubscribeNext(c) \/ UnsubscribeNext(c) \/ LoopDone(c)
    BY <2>2 DEF SubscribeNext, UnsubscribeNext, LoopDone
  <2>3. CASE HandlerLock(c) \/ AddSubscription(c) \/ RemoveSubscription(c)
    BY <2>3 DEF HandlerLock, AddSubscription, RemoveSubscription
  <2>4. CASE ReplyEnd(c) \/ ReplyPanic(c) \/ ReadError(c)
    BY <2>4 DEF ReplyEnd, ReplyPanic, ReadError, HandlerWrites
  <2> QED BY <1>2, <2>1, <2>2, <2>3, <2>4 DEF Handler
<1>3. CASE HubRun
  BY <1>0, <1>3 DEF HubRun, RunLock, RunRegister, RunUnregisterUnknown, RunUnregister,
     hubVars, handlerVars, requestVars
<1>4. ASSUME NEW q \in Request, Broadcast(q) PROVE Goal
  <2> USE <1>0 DEF hubVars, lockVars, runVars, handlerVars, requestVars, historyVars
  <2>1. CASE RequestRLock(q) \/ RequestRUnlock(q) \/ WriteError(q) \/ WritePanic(q)
    BY <2>1 DEF RequestRLock, RequestRUnlock, WriteError, WritePanic
  <2>2. ASSUME NEW c \in Client, WriteBegin(q, c) PROVE Goal
    BY <2>2 DEF WriteBegin
  <2>3. CASE WriteOk(q) \/ RequestUnregister(q)
    BY <2>3, ProcessAssumption DEF WriteOk, RequestUnregister
  <2> QED BY <1>4, <2>1, <2>2, <2>3 DEF Broadcast
<1>5. ASSUME NEW q \in Request, NEW s \in Server, Snapshot(q, s) PROVE Goal
  <2>1. Stranger
    BY <1>0, <1>5 DEF Snapshot
  <2>2. serverHub[s][x] = 0
    <3>1. s \notin subs[x] /\ ~ Locking(x, s)
      BY <2>1 DEF Locking
    <3>2. serverHub[s][x] \in Nat /\ ~ (serverHub[s][x] > 0)
      BY <3>1 DEF SubscriptionsMatch
    <3> QED BY <3>2
  <2> QED BY <1>5, <2>1, <2>2 DEF Snapshot, hubVars, handlerVars
<1>6. CASE UNCHANGED vars
  BY <1>0, <1>6 DEF vars, hubVars, handlerVars, requestVars
<1> QED BY <1>1, <1>2, <1>3, <1>4, <1>5, <1>6 DEF Next

(* A goroutine that holds a lock or waits for one is stopped by a reader,  *)
(* and every reader moves but for the reasons that are named.              *)
LEMMA NothingElse == ASSUME IndInv, StrangersUnknown PROVE NothingElseStops
<1> SUFFICES ASSUME ~ Ready, ~ RunLocksItself, ~ ReaderWaitsForRun, ~ ReadLockLeaked, ~ StalledWrite
             PROVE  AtRest
  BY DEF NothingElseStops
<1>1. ASSUME NEW r \in Request PROVE rpc[r] \notin {"loop", "write", "unregister"}
  <2>1. rpc[r] # "loop"
    BY DEF Ready, BroadcastReady
  <2>2. rpc[r] # "write"
    <3> SUFFICES ASSUME rpc[r] = "write" PROVE FALSE
      OBVIOUS
    <3>1. PICK c \in Client : to[r] = c
      BY DEF IndInv, WorkAtHand
    <3>2. conn[c] \notin {"open", "dead", "closed"} /\ conn[c] # "stalled"
      BY <3>1 DEF Ready, BroadcastReady, StalledWrite, RequestWrites
    <3>3. conn[c] = "none"
      BY <3>2 DEF IndInv, TypeOK, ConnState
    <3> QED BY <3>1, <3>3 DEF StrangersUnknown
  <2>3. rpc[r] # "unregister"
    <3> SUFFICES ASSUME rpc[r] = "unregister" PROVE FALSE
      OBVIOUS
    <3>1. r \in readers
      BY DEF IndInv, LocksHeldInCode
    <3> QED BY <3>1 DEF Ready, BroadcastReady, ReaderWaitsForRun
  <2> QED BY <2>1, <2>2, <2>3
<1>2. readers = {}
  BY <1>1 DEF IndInv, LocksHeldInCode, ReadLockLeaked
<1>3. writer = None
  <2>1. writer # Run
    BY <1>2 DEF IndInv, LocksHeldInCode, TypeOK, RunPc, Ready, RunReady, Exclusive, RunLocksItself
  <2>2. writer \notin Client
    BY <1>2 DEF IndInv, LocksHeldInCode, Ready, HandlerReady, Exclusive
  <2> QED BY <2>1, <2>2 DEF IndInv, TypeOK
<1>4. hubPc = "select"
  BY <1>3 DEF Ready, RunReady, LockFree
<1>5. ASSUME NEW c \in Client PROVE pc[c] \in {"off", "read", "done"}
  <2>1. ~ HandlerReady(c)
    BY DEF Ready
  <2>2. ~ (pc[c] = "write" /\ conn[c] = "stalled")
    BY DEF StalledWrite, HandlerWrites
  <2> QED BY <1>3, <1>4, <2>1, <2>2 DEF HandlerReady, LockFree, IndInv, TypeOK, HandlerPc
<1>6. ASSUME NEW r \in Request PROVE rpc[r] \in {"idle", "done", "panicked"}
  <2>1. rpc[r] # "snapshot"
    BY <1>3 DEF Ready, BroadcastReady, LockFree
  <2> QED BY <1>1, <2>1 DEF IndInv, TypeOK, RequestPc
<1> QED BY <1>4, <1>5, <1>6 DEF AtRest

(* Run, the handlers and the broadcasts stop one another only in the four  *)
(* ways that are named, whatever the number of clients and broadcasts      *)
(* (hub.go:45-179): every other wait ends with a step of somebody.         *)
THEOREM OnlyKnownReasonsStop == Spec => []NothingElseStops
<1>1. Init => StrangersUnknown
  BY ProcessAssumption DEF Init, StrangersUnknown, NoClients
<1>2. IndInv /\ StrangersUnknown /\ [Next]_vars => StrangersUnknown'
  BY StrangersPreserved
<1>3. IndInv /\ StrangersUnknown => NothingElseStops
  BY NothingElse
<1> QED BY <1>1, <1>2, <1>3, HubInvariant, PTL DEF Spec
=============================================================================
