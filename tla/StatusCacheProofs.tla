-------------------------- MODULE StatusCacheProofs --------------------------
(***************************************************************************)
(* Theorems about StatusCache: its inductive invariant, the agreement of   *)
(* memory and files, the promise of the TTL, and the refinement of         *)
(* FreshStatus, for every set of keys and of requests.                     *)
(***************************************************************************)
EXTENDS StatusCache, TLAPS

(* Times are naturals and no other value is one. *)
LEMMA Times ==
    /\ Time \subseteq Nat
    /\ 0 \in Time
    /\ None \notin Time /\ Empty \notin Time /\ Garbage \notin Time
    /\ None # Empty /\ None # Garbage /\ Empty # Garbage
    /\ None \notin Key
  BY CacheAssumption DEF Time, Unreadable

LEMMA InitIndInv == Init => IndInv
<1> SUFFICES ASSUME Init PROVE IndInv
  OBVIOUS
<1> USE Times DEF Init
<1>1. TypeOK
  BY DEF TypeOK, Unreadable, RequestPc, SlowPc
<1>2. EntriesObserved
  BY DEF EntriesObserved, Unreadable
<1>3. CrossingsSeen /\ SetsUncrossed /\ PromisesKept
  BY DEF CrossingsSeen, SetsUncrossed, PromisesKept, PromiseKept, SlowPc
<1>4. UndisturbedInOrder
  BY DEF UndisturbedInOrder, InOrder, Busy, SlowPc
<1>5. QED
  BY <1>1, <1>2, <1>3, <1>4 DEF IndInv

(* What a request has in hand on its way: a key, and a Timestamp. *)
LEMMA InHand ==
    ASSUME IndInv, NEW r \in Request
    PROVE  /\ pc[r] \notin {"idle", "next"} => key[r] \in Key
           /\ pc[r] \in {"store", "check", "setMemory", "truncate", "write"} => entry[r] \in Time
  BY DEF IndInv, TypeOK, EntriesObserved

LEMMA TypePreserved == ASSUME IndInv, [Next]_vars PROVE TypeOK'
<1> USE Times DEF TypeOK, RequestPc, SlowPc, Unreadable, requestVars, crossVars
<1>1. TypeOK
  BY DEF IndInv
<1>2. CASE Tick
  BY <1>1, <1>2, CacheAssumption DEF Tick, Time
<1>3. CASE Restart
  BY <1>1, <1>3 DEF Restart
<1>4. ASSUME NEW r \in Request, Start(r) \/ NextServer(r) \/ Respond(r) PROVE TypeOK'
  <2>1. CASE Start(r)
    BY <1>1, <2>1 DEF Start
  <2>2. CASE NextServer(r)
    BY <1>1, <2>2 DEF NextServer
  <2>3. CASE Respond(r)
    BY <1>1, <2>3 DEF Respond
  <2>4. QED
    BY <1>4, <2>1, <2>2, <2>3
<1>5. ASSUME NEW r \in Request, Get(r) PROVE TypeOK'
  <2>1. pc[r] \notin {"idle", "next"} => key[r] \in Key
    BY InHand
  <2>2. CASE LookupHit(r)
    BY <1>1, <2>1, <2>2 DEF LookupHit
  <2>3. CASE LookupMiss(r)
    BY <1>1, <2>1, <2>3 DEF LookupMiss, EnterSlowPath, Disturb, Crossed
  <2>4. CASE ReadEntry(r)
    BY <1>1, <2>1, <2>4 DEF ReadEntry
  <2>5. CASE ReadNothing(r)
    BY <1>1, <2>1, <2>5 DEF ReadNothing
  <2>6. CASE StoreRead(r)
    BY <1>1, <2>1, <2>6 DEF StoreRead
  <2>7. CASE ServeCached(r)
    <3>1. entry[r] \in Time
      BY <2>7, InHand DEF ServeCached
    <3>2. QED
      BY <1>1, <2>1, <2>7, <3>1 DEF ServeCached, Answered
  <2>8. CASE CheckExpired(r)
    BY <1>1, <2>1, <2>8 DEF CheckExpired, EnterSlowPath, Disturb, Crossed
  <2>9. QED
    BY <1>5, <2>2, <2>3, <2>4, <2>5, <2>6, <2>7, <2>8 DEF Get
<1>6. ASSUME NEW r \in Request, QueryEnds(r) \/ Set(r) PROVE TypeOK'
  <2>1. /\ pc[r] \notin {"idle", "next"} => key[r] \in Key
        /\ pc[r] \in {"setMemory", "truncate", "write"} => entry[r] \in Time
    BY InHand
  <2>2. CASE QueryEnds(r)
    BY <1>1, <2>1, <2>2 DEF QueryEnds
  <2>3. CASE SetMemory(r)
    BY <1>1, <2>1, <2>3 DEF SetMemory
  <2>4. CASE Truncate(r)
    BY <1>1, <2>1, <2>4 DEF Truncate
  <2>5. CASE WriteEntry(r)
    BY <1>1, <2>1, <2>5 DEF WriteEntry, Written, Answered
  <2>6. CASE WriteFails(r)
    BY <1>1, <2>1, <2>6 DEF WriteFails, Disturb, Answered
  <2>7. QED
    BY <1>6, <2>2, <2>3, <2>4, <2>5, <2>6 DEF Set
<1>7. CASE UNCHANGED vars
  BY <1>1, <1>7 DEF vars
<1>8. QED
  BY <1>2, <1>3, <1>4, <1>5, <1>6, <1>7 DEF Next, RequestStep

(* Nothing turns up in the map, in a file or in a request that was not      *)
(* observed for its key.                                                    *)
LEMMA ObservedPreserved == ASSUME IndInv, [Next]_vars PROVE EntriesObserved'
<1> USE Times DEF Unreadable, requestVars, crossVars
<1>1. TypeOK /\ EntriesObserved
  BY DEF IndInv
<1>2. CASE Tick
  BY <1>1, <1>2 DEF Tick, TypeOK, EntriesObserved, Time
<1>3. CASE Restart
  <2>1. now \in Nat /\ 0 <= now
    BY <1>1 DEF TypeOK
  <2>2. /\ \A k \in Key : memory'[k] = None /\ file'[k] = file[k]
        /\ \A r \in Request : pc'[r] = "idle" /\ asked'[r] = 0
        /\ UNCHANGED <<now, observed>>
    BY <1>3 DEF Restart
  <2>3. QED
    BY <1>1, <2>1, <2>2 DEF EntriesObserved
<1>4. ASSUME NEW r \in Request, Start(r) \/ NextServer(r) \/ Respond(r) PROVE EntriesObserved'
  <2>1. CASE Start(r)
    BY <1>1, <2>1 DEF Start, TypeOK, EntriesObserved, Time
  <2>2. CASE NextServer(r)
    BY <1>1, <2>2 DEF NextServer, TypeOK, EntriesObserved
  <2>3. CASE Respond(r)
    BY <1>1, <2>3 DEF Respond, TypeOK, EntriesObserved
  <2>4. QED
    BY <1>4, <2>1, <2>2, <2>3
<1>5. ASSUME NEW r \in Request, Get(r) PROVE EntriesObserved'
  <2>1. CASE LookupHit(r)
    BY <1>1, <2>1 DEF LookupHit, TypeOK, EntriesObserved
  <2>2. CASE LookupMiss(r)
    BY <1>1, <2>2 DEF LookupMiss, TypeOK, EntriesObserved
  <2>3. CASE ReadEntry(r)
    BY <1>1, <2>3 DEF ReadEntry, TypeOK, EntriesObserved
  <2>4. CASE ReadNothing(r)
    BY <1>1, <2>4 DEF ReadNothing, TypeOK, EntriesObserved
  <2>5. CASE StoreRead(r)
    BY <1>1, <2>5 DEF StoreRead, TypeOK, EntriesObserved
  <2>6. CASE ServeCached(r)
    BY <1>1, <2>6 DEF ServeCached, Answered, TypeOK, EntriesObserved
  <2>7. CASE CheckExpired(r)
    BY <1>1, <2>7 DEF CheckExpired, TypeOK, EntriesObserved
  <2>8. QED
    BY <1>5, <2>1, <2>2, <2>3, <2>4, <2>5, <2>6, <2>7 DEF Get
<1>6. ASSUME NEW r \in Request, QueryEnds(r) \/ Set(r) PROVE EntriesObserved'
  <2>1. CASE QueryEnds(r)
    BY <1>1, <2>1 DEF QueryEnds, TypeOK, EntriesObserved, Time
  <2>2. CASE SetMemory(r)
    BY <1>1, <2>2 DEF SetMemory, TypeOK, EntriesObserved
  <2>3. CASE Truncate(r)
    BY <1>1, <2>3 DEF Truncate, TypeOK, EntriesObserved
  <2>4. CASE WriteEntry(r)
    BY <1>1, <2>4 DEF WriteEntry, Written, Answered, TypeOK, EntriesObserved
  <2>5. CASE WriteFails(r)
    BY <1>1, <2>5 DEF WriteFails, Answered, TypeOK, EntriesObserved
  <2>6. QED
    BY <1>6, <2>1, <2>2, <2>3, <2>4, <2>5 DEF Set
<1>7. CASE UNCHANGED vars
  BY <1>1, <1>7 DEF vars, TypeOK, EntriesObserved
<1>8. QED
  BY <1>2, <1>3, <1>4, <1>5, <1>6, <1>7 DEF Next, RequestStep

(* Every crossing of two requests is noticed.                               *)
LEMMA CrossingsPreserved == ASSUME IndInv, [Next]_vars PROVE CrossingsSeen'
<1> USE Times DEF requestVars, crossVars, SlowPc
<1>1. TypeOK /\ CrossingsSeen
  BY DEF IndInv
<1>2. CASE Tick
  BY <1>1, <1>2 DEF Tick, CrossingsSeen
<1>3. CASE Restart
  BY <1>1, <1>3 DEF Restart, TypeOK, CrossingsSeen
<1>4. ASSUME NEW r \in Request, Start(r) \/ NextServer(r) \/ Respond(r) PROVE CrossingsSeen'
  <2>1. CASE Start(r)
    BY <1>1, <2>1 DEF Start, TypeOK, CrossingsSeen
  <2>2. CASE NextServer(r)
    BY <1>1, <2>2 DEF NextServer, TypeOK, CrossingsSeen
  <2>3. CASE Respond(r)
    BY <1>1, <2>3 DEF Respond, TypeOK, CrossingsSeen
  <2>4. QED
    BY <1>4, <2>1, <2>2, <2>3
<1>5. ASSUME NEW r \in Request, EnterSlowPath(r), pc[r] \notin SlowPc, key[r] \in Key,
             NEW p \in {"read", "query"}, pc' = [pc EXCEPT ![r] = p], key' = key
      PROVE  CrossingsSeen'
  <2>1. CASE Crossed(r) = {}
    BY <1>1, <1>5, <2>1 DEF EnterSlowPath, Crossed, TypeOK, CrossingsSeen
  <2>2. CASE Crossed(r) # {}
    BY <1>1, <1>5, <2>2 DEF EnterSlowPath, Crossed, Disturb, TypeOK, CrossingsSeen
  <2>3. QED
    BY <2>1, <2>2
<1>6. ASSUME NEW r \in Request, Get(r) PROVE CrossingsSeen'
  <2>1. CASE LookupMiss(r) \/ CheckExpired(r)
    BY <1>5, <2>1, InHand DEF LookupMiss, CheckExpired
  <2>2. CASE LookupHit(r)
    BY <1>1, <2>2 DEF LookupHit, TypeOK, CrossingsSeen
  <2>3. CASE ReadEntry(r)
    BY <1>1, <2>3 DEF ReadEntry, TypeOK, CrossingsSeen
  <2>4. CASE ReadNothing(r)
    BY <1>1, <2>4 DEF ReadNothing, TypeOK, CrossingsSeen
  <2>5. CASE StoreRead(r)
    BY <1>1, <2>5 DEF StoreRead, TypeOK, CrossingsSeen
  <2>6. CASE ServeCached(r)
    BY <1>1, <2>6 DEF ServeCached, Answered, TypeOK, CrossingsSeen
  <2>7. QED
    BY <1>6, <2>1, <2>2, <2>3, <2>4, <2>5, <2>6 DEF Get
<1>7. ASSUME NEW r \in Request, QueryEnds(r) \/ Set(r) PROVE CrossingsSeen'
  <2>1. CASE QueryEnds(r)
    BY <1>1, <2>1 DEF QueryEnds, TypeOK, CrossingsSeen
  <2>2. CASE SetMemory(r)
    BY <1>1, <2>2 DEF SetMemory, TypeOK, CrossingsSeen
  <2>3. CASE Truncate(r)
    BY <1>1, <2>3 DEF Truncate, TypeOK, CrossingsSeen
  <2>4. CASE WriteEntry(r)
    BY <1>1, <2>4 DEF WriteEntry, Answered, TypeOK, CrossingsSeen
  <2>5. CASE WriteFails(r)
    BY <1>1, <2>5 DEF WriteFails, Answered, Disturb, TypeOK, CrossingsSeen
  <2>6. QED
    BY <1>7, <2>1, <2>2, <2>3, <2>4, <2>5 DEF Set
<1>8. CASE UNCHANGED vars
  BY <1>1, <1>8 DEF vars, CrossingsSeen
<1>9. QED
  BY <1>2, <1>3, <1>4, <1>6, <1>7, <1>8 DEF Next, RequestStep

(* While a request is alone on the slow path nobody else changes the map or *)
(* the file of its key.                                                     *)
LEMMA SetsPreserved == ASSUME IndInv, [Next]_vars PROVE SetsUncrossed'
<1> USE Times DEF requestVars, crossVars, SlowPc
<1>1. TypeOK /\ CrossingsSeen /\ SetsUncrossed
  BY DEF IndInv
<1>2. CASE Tick
  BY <1>1, <1>2 DEF Tick, SetsUncrossed
<1>3. CASE Restart
  BY <1>1, <1>3 DEF Restart, SetsUncrossed
<1>4. ASSUME NEW r \in Request, Start(r) \/ NextServer(r) \/ Respond(r) PROVE SetsUncrossed'
  <2>1. CASE Start(r)
    BY <1>1, <2>1 DEF Start, TypeOK, SetsUncrossed
  <2>2. CASE NextServer(r)
    BY <1>1, <2>2 DEF NextServer, TypeOK, SetsUncrossed
  <2>3. CASE Respond(r)
    BY <1>1, <2>3 DEF Respond, TypeOK, SetsUncrossed
  <2>4. QED
    BY <1>4, <2>1, <2>2, <2>3
<1>5. ASSUME NEW r \in Request, Get(r) PROVE SetsUncrossed'
  <2>1. CASE LookupHit(r)
    BY <1>1, <2>1 DEF LookupHit, TypeOK, SetsUncrossed
  <2>2. CASE LookupMiss(r)
    BY <1>1, <2>2 DEF LookupMiss, EnterSlowPath, TypeOK, SetsUncrossed
  <2>3. CASE ReadEntry(r)
    BY <1>1, <2>3 DEF ReadEntry, TypeOK, SetsUncrossed
  <2>4. CASE ReadNothing(r)
    BY <1>1, <2>4 DEF ReadNothing, TypeOK, SetsUncrossed
  <2>5. CASE StoreRead(r)
    BY <1>1, <2>5 DEF StoreRead, TypeOK, CrossingsSeen, SetsUncrossed
  <2>6. CASE ServeCached(r)
    BY <1>1, <2>6 DEF ServeCached, Answered, TypeOK, SetsUncrossed
  <2>7. CASE CheckExpired(r)
    BY <1>1, <2>7 DEF CheckExpired, EnterSlowPath, TypeOK, SetsUncrossed
  <2>8. QED
    BY <1>5, <2>1, <2>2, <2>3, <2>4, <2>5, <2>6, <2>7 DEF Get
<1>6. ASSUME NEW r \in Request, QueryEnds(r) \/ Set(r) PROVE SetsUncrossed'
  <2>1. CASE QueryEnds(r)
    BY <1>1, <2>1 DEF QueryEnds, TypeOK, SetsUncrossed
  <2>2. CASE SetMemory(r)
    BY <1>1, <2>2, InHand DEF SetMemory, TypeOK, CrossingsSeen, SetsUncrossed
  <2>3. CASE Truncate(r)
    BY <1>1, <2>3, InHand DEF Truncate, TypeOK, CrossingsSeen, SetsUncrossed
  <2>4. CASE WriteEntry(r)
    BY <1>1, <2>4 DEF WriteEntry, Answered, TypeOK, CrossingsSeen, SetsUncrossed
  <2>5. CASE WriteFails(r)
    <3>1. key[r] \in Key /\ pc[r] \in {"truncate", "write"}
      BY <2>5, InHand DEF WriteFails
    <3>2. \A q \in alone' : /\ q # r /\ q \in alone
                            /\ pc'[q] = pc[q] /\ key'[q] = key[q] /\ entry'[q] = entry[q]
      BY <1>1, <2>5 DEF WriteFails, Answered, TypeOK
    <3>3. \A q \in alone' : pc[q] = "write" => file'[key[q]] = file[key[q]]
      <4>1. \A q \in alone' : pc[q] = "write" => key[q] # key[r] /\ key[q] \in Key
        BY <1>1, <3>1, <3>2, InHand DEF TypeOK, CrossingsSeen
      <4>2. QED
        BY <1>1, <2>5, <4>1 DEF WriteFails, TypeOK
    <3>4. QED
      BY <1>1, <2>5, <3>2, <3>3 DEF WriteFails, SetsUncrossed
  <2>6. QED
    BY <1>6, <2>1, <2>2, <2>3, <2>4, <2>5 DEF Set
<1>7. CASE UNCHANGED vars
  BY <1>1, <1>7 DEF vars, SetsUncrossed
<1>8. QED
  BY <1>2, <1>3, <1>4, <1>5, <1>6, <1>7 DEF Next, RequestStep

-----------------------------------------------------------------------------
(* The order of undisturbed keys.                                           *)

(* On the slow path for an undisturbed key there is one request, alone.     *)
LEMMA OneOnSlowPath ==
    ASSUME IndInv, NEW r \in Request, pc[r] \in SlowPc, key[r] \notin disturbed
    PROVE  r \in alone /\ Busy(key[r]) = {r}
  BY DEF IndInv, CrossingsSeen, Busy

(* What nobody touches stays in order. *)
LEMMA KeptInOrder ==
    ASSUME NEW k \in Key, InOrder(k), Busy(k)' = Busy(k),
           memory'[k] = memory[k], file'[k] = file[k], stored'[k] = stored[k],
           observed \subseteq observed',
           \A r \in Busy(k) : pc'[r] = pc[r] /\ entry'[r] = entry[r]
    PROVE  InOrder(k)'
  BY DEF InOrder

(* A step of r that changes the map, the file and the Set of key[r] only    *)
(* keeps the other keys in order.                                           *)
LEMMA OthersInOrder ==
    ASSUME IndInv, NEW r \in Request, NEW k \in Key, k # key[r], k \notin disturbed,
           pc[r] \in SlowPc => key[r] \in Key,
           memory'[k] = memory[k], file'[k] = file[k], stored'[k] = stored[k],
           observed \subseteq observed',
           \A q \in Request \ {r} : pc'[q] = pc[q] /\ key'[q] = key[q] /\ entry'[q] = entry[q],
           pc'[r] \in SlowPc => key'[r] = key[r]
    PROVE  InOrder(k)'
<1>1. InOrder(k)
  BY DEF IndInv, UndisturbedInOrder
<1>2. Busy(k)' = Busy(k) /\ r \notin Busy(k)
  BY DEF Busy
<1>3. \A q \in Busy(k) : q \in Request
  BY DEF Busy
<1>4. QED
  BY <1>1, <1>2, <1>3, KeptInOrder

LEMMA OrderPreserved == ASSUME IndInv, [Next]_vars PROVE UndisturbedInOrder'
<1> USE Times DEF requestVars, crossVars
<1>1. TypeOK /\ UndisturbedInOrder
  BY DEF IndInv
<1>2. CASE Tick \/ UNCHANGED vars
  <2>1. UNCHANGED <<memory, file, pc, key, entry, stored, observed, disturbed>>
    BY <1>2 DEF Tick, vars
  <2>2. QED
    BY <1>1, <2>1 DEF UndisturbedInOrder, InOrder, Busy
<1>3. CASE Restart
  <2>1. \A k \in Key : Busy(k)' = {} /\ memory'[k] = None
    BY <1>3 DEF Restart, Busy, SlowPc
  <2>2. ASSUME NEW k \in Key \ disturbed' PROVE InOrder(k) /\ \A r \in Busy(k) : pc[r] # "write"
    BY <1>1, <1>3, <2>2 DEF Restart, UndisturbedInOrder, Busy
  <2>3. QED
    BY <1>3, <2>1, <2>2 DEF Restart, UndisturbedInOrder, InOrder
<1>4. ASSUME NEW r \in Request, pc[r] \notin SlowPc, pc'[r] \notin SlowPc,
             UNCHANGED <<memory, file, stored, observed, disturbed>>,
             \A q \in Request \ {r} : pc'[q] = pc[q] /\ key'[q] = key[q] /\ entry'[q] = entry[q]
      PROVE  UndisturbedInOrder'
  <2>1. ASSUME NEW k \in Key PROVE Busy(k)' = Busy(k) /\ Busy(k) \subseteq Request \ {r}
    BY <1>4 DEF Busy
  <2>2. QED
    BY <1>1, <1>4, <2>1, KeptInOrder DEF UndisturbedInOrder
<1>5. ASSUME NEW r \in Request, Start(r) \/ NextServer(r) \/ Respond(r) PROVE UndisturbedInOrder'
  <2>1. /\ pc[r] \notin SlowPc /\ pc'[r] \notin SlowPc
        /\ UNCHANGED <<memory, file, stored, observed, disturbed>>
        /\ \A q \in Request \ {r} : pc'[q] = pc[q] /\ key'[q] = key[q] /\ entry'[q] = entry[q]
    BY <1>1, <1>5 DEF Start, NextServer, Respond, TypeOK, SlowPc
  <2>2. QED
    BY <1>4, <2>1
<1>6. ASSUME NEW r \in Request, Get(r) \/ QueryEnds(r) \/ Set(r),
             \A k \in Key : k = key[r] /\ k \notin disturbed' => InOrder(k)'
      PROVE  UndisturbedInOrder'
  <2> SUFFICES ASSUME NEW k \in Key, k # key[r], k \notin disturbed' PROVE InOrder(k)'
    BY <1>6 DEF UndisturbedInOrder
  <2>1. key[r] \in Key
    BY <1>6, InHand DEF Get, Set, LookupHit, LookupMiss, ReadEntry, ReadNothing, StoreRead,
       ServeCached, CheckExpired, QueryEnds, SetMemory, Truncate, WriteEntry, WriteFails
  <2>2. k \notin disturbed
    BY <1>6 DEF Get, Set, LookupHit, LookupMiss, ReadEntry, ReadNothing, StoreRead, EnterSlowPath,
       ServeCached, CheckExpired, QueryEnds, SetMemory, Truncate, WriteEntry, WriteFails, Disturb
  <2>3. /\ memory'[k] = memory[k] /\ file'[k] = file[k] /\ stored'[k] = stored[k]
        /\ observed \subseteq observed'
    BY <1>1, <1>6, <2>1 DEF Get, Set, LookupHit, LookupMiss, ReadEntry, ReadNothing, StoreRead,
       ServeCached, CheckExpired, QueryEnds, SetMemory, Truncate, WriteEntry, WriteFails, TypeOK
  <2>4. \A q \in Request \ {r} : pc'[q] = pc[q] /\ key'[q] = key[q] /\ entry'[q] = entry[q]
    BY <1>1, <1>6 DEF Get, Set, LookupHit, LookupMiss, ReadEntry, ReadNothing, StoreRead, Answered,
       ServeCached, CheckExpired, QueryEnds, SetMemory, Truncate, WriteEntry, WriteFails, TypeOK
  <2>5. pc'[r] \in SlowPc => key'[r] = key[r]
    BY <1>1, <1>6 DEF Get, Set, LookupHit, LookupMiss, ReadEntry, ReadNothing, StoreRead, Answered,
       ServeCached, CheckExpired, QueryEnds, SetMemory, Truncate, WriteEntry, WriteFails, TypeOK, SlowPc
  <2>6. QED
    BY <2>1, <2>2, <2>3, <2>4, <2>5, OthersInOrder
<1>7. ASSUME NEW r \in Request, Get(r), NEW k \in Key, k = key[r], k \notin disturbed'
      PROVE  InOrder(k)' \/ (pc[r] \notin SlowPc /\ pc'[r] \notin SlowPc)
  <2>1. CASE LookupHit(r) \/ ServeCached(r)
    BY <1>1, <1>7, <2>1 DEF LookupHit, ServeCached, Answered, TypeOK, SlowPc
  <2>2. CASE LookupMiss(r) \/ CheckExpired(r)
    <3>1. Crossed(r) = {} /\ k \notin disturbed
      BY <1>7, <2>2 DEF LookupMiss, CheckExpired, EnterSlowPath, Disturb
    <3>2. Busy(k) = {}
      BY <1>7, <2>2, <3>1 DEF Busy, Crossed, LookupMiss, CheckExpired, SlowPc
    <3>3. InOrder(k)
      BY <1>1, <1>7, <3>1 DEF UndisturbedInOrder
    <3>4. /\ Busy(k)' = {r} /\ UNCHANGED <<memory, file, stored, observed, key>>
          /\ pc'[r] \in {"read", "query"} /\ (pc'[r] = "read" => memory[k] = None)
      BY <1>1, <1>7, <2>2, <3>2 DEF Busy, LookupMiss, CheckExpired, TypeOK, SlowPc
    <3>5. QED
      BY <1>7, <3>2, <3>3, <3>4 DEF InOrder
  <2>3. CASE ReadEntry(r) \/ ReadNothing(r) \/ StoreRead(r)
    <3>1. pc[r] \in {"read", "store"} /\ k \notin disturbed /\ UNCHANGED <<file, stored, observed, key>>
      BY <1>7, <2>3 DEF ReadEntry, ReadNothing, StoreRead
    <3>2. Busy(k) = {r}
      BY <1>7, <3>1, OneOnSlowPath DEF SlowPc
    <3>3. InOrder(k)
      BY <1>1, <1>7, <3>1 DEF UndisturbedInOrder
    <3>4. file[k] = stored[k] /\ memory[k] = None /\ (pc[r] = "store" => entry[r] = stored[k])
          /\ (stored[k] # None => <<k, stored[k]>> \in observed)
      BY <1>7, <3>1, <3>2, <3>3 DEF InOrder
    <3>5. CASE ReadEntry(r)
      <4>1. Busy(k)' = {r} /\ pc'[r] = "store" /\ entry'[r] = file[k] /\ UNCHANGED memory
        BY <1>1, <1>7, <3>2, <3>5 DEF ReadEntry, TypeOK, Busy, SlowPc
      <4>2. QED
        BY <1>7, <3>1, <3>4, <4>1 DEF InOrder
    <3>6. CASE ReadNothing(r)
      <4>1. Busy(k)' = {r} /\ pc'[r] = "query" /\ UNCHANGED memory
        BY <1>1, <1>7, <3>2, <3>6 DEF ReadNothing, TypeOK, Busy, SlowPc
      <4>2. QED
        BY <1>7, <3>1, <3>4, <4>1 DEF InOrder
    <3>7. CASE StoreRead(r)
      <4>1. Busy(k)' = {} /\ memory'[k] = entry[r] /\ pc[r] = "store"
        BY <1>1, <1>7, <3>2, <3>7 DEF StoreRead, TypeOK, Busy, SlowPc
      <4>2. QED
        BY <1>7, <3>1, <3>4, <4>1 DEF InOrder
    <3>8. QED
      BY <2>3, <3>5, <3>6, <3>7
  <2>4. QED
    BY <1>7, <2>1, <2>2, <2>3 DEF Get
<1>8. ASSUME NEW r \in Request, QueryEnds(r) \/ Set(r), NEW k \in Key, k = key[r], k \notin disturbed'
      PROVE  InOrder(k)'
  <2>1. CASE WriteEntry(r)
    <3>1. /\ memory'[k] = entry[r] /\ file'[k] = entry[r] /\ stored'[k] = entry[r]
          /\ Busy(k)' = {} /\ <<k, entry[r]>> \in observed'
      <4>1. r \in alone
        BY <1>8, <2>1 DEF WriteEntry, IndInv, CrossingsSeen, SlowPc
      <4>2. Busy(k) = {r}
        BY <1>8, <2>1, <4>1 DEF WriteEntry, IndInv, CrossingsSeen, Busy, SlowPc
      <4>3. memory[k] = entry[r] /\ file[k] = Empty
        BY <1>8, <2>1, <4>1 DEF WriteEntry, IndInv, SetsUncrossed
      <4>4. <<k, entry[r]>> \in observed
        BY <1>8, <2>1 DEF WriteEntry, IndInv, EntriesObserved
      <4>5. Busy(k)' = {}
        BY <1>1, <1>8, <2>1, <4>2 DEF WriteEntry, Answered, TypeOK, Busy, SlowPc
      <4>6. QED
        BY <1>1, <1>8, <2>1, <4>3, <4>4, <4>5 DEF WriteEntry, Written, TypeOK
    <3>2. QED
      BY <1>8, <3>1 DEF InOrder
  <2>2. CASE WriteFails(r)
    BY <1>8, <2>2 DEF WriteFails, Disturb
  <2>3. CASE QueryEnds(r) \/ SetMemory(r) \/ Truncate(r)
    <3>1. /\ pc[r] \in {"query", "setMemory", "truncate"} /\ k \notin disturbed
          /\ UNCHANGED <<stored, key>> /\ observed \subseteq observed'
      BY <1>8, <2>3 DEF QueryEnds, SetMemory, Truncate
    <3>2. Busy(k) = {r} /\ Busy(k)' = {r}
      <4>1. Busy(k) = {r}
        BY <1>8, <3>1, OneOnSlowPath DEF SlowPc
      <4>2. QED
        BY <1>1, <1>8, <2>3, <4>1 DEF QueryEnds, SetMemory, Truncate, TypeOK, Busy, SlowPc
    <3>3. InOrder(k)
      BY <1>1, <1>8, <3>1 DEF UndisturbedInOrder
    <3>4. CASE QueryEnds(r)
      <4>1. stored[k] # None => stored[k] <= now
        BY <1>8, <3>2, <3>3 DEF InOrder, IndInv, EntriesObserved
      <4>2. /\ pc[r] = "query" /\ pc'[r] = "setMemory" /\ entry'[r] = now
            /\ UNCHANGED <<memory, file>>
        BY <1>1, <1>8, <3>4 DEF QueryEnds, TypeOK
      <4>3. QED
        BY <1>8, <3>1, <3>2, <3>3, <4>1, <4>2 DEF InOrder
    <3>5. CASE SetMemory(r)
      <4>1. /\ pc[r] = "setMemory" /\ pc'[r] = "truncate" /\ entry'[r] = entry[r]
            /\ UNCHANGED <<file>>
        BY <1>1, <1>8, <3>5 DEF SetMemory, TypeOK
      <4>2. QED
        BY <1>8, <3>1, <3>2, <3>3, <4>1 DEF InOrder
    <3>6. CASE Truncate(r)
      <4>1. /\ pc[r] = "truncate" /\ pc'[r] = "write" /\ entry'[r] = entry[r]
            /\ UNCHANGED <<memory>>
        BY <1>1, <1>8, <3>6 DEF Truncate, TypeOK
      <4>2. QED
        BY <1>8, <3>1, <3>2, <3>3, <4>1 DEF InOrder
    <3>7. QED
      BY <2>3, <3>4, <3>5, <3>6
  <2>4. QED
    BY <1>8, <2>1, <2>2, <2>3 DEF Set
<1>9. ASSUME NEW r \in Request, Get(r) \/ QueryEnds(r) \/ Set(r) PROVE UndisturbedInOrder'
  <2>1. key[r] \in Key
    BY <1>9, InHand DEF Get, Set, LookupHit, LookupMiss, ReadEntry, ReadNothing, StoreRead,
       ServeCached, CheckExpired, QueryEnds, SetMemory, Truncate, WriteEntry, WriteFails
  <2>2. CASE LookupHit(r) \/ ServeCached(r)
    <3>1. /\ pc[r] \notin SlowPc /\ pc'[r] \notin SlowPc
          /\ UNCHANGED <<memory, file, stored, observed, disturbed>>
          /\ \A q \in Request \ {r} : pc'[q] = pc[q] /\ key'[q] = key[q] /\ entry'[q] = entry[q]
      BY <1>1, <2>2 DEF LookupHit, ServeCached, Answered, TypeOK, SlowPc
    <3>2. QED
      BY <1>4, <3>1
  <2>3. CASE pc[r] \in SlowPc \/ pc'[r] \in SlowPc
    BY <1>6, <1>7, <1>8, <1>9, <2>1, <2>3
  <2>4. CASE pc[r] \notin SlowPc /\ ~ (LookupHit(r) \/ ServeCached(r))
    <3>1. pc'[r] \in SlowPc
      BY <1>1, <1>9, <2>4 DEF Get, Set, LookupMiss, ReadEntry, ReadNothing, StoreRead,
         CheckExpired, QueryEnds, SetMemory, Truncate, WriteEntry, WriteFails, TypeOK, SlowPc
    <3>2. QED
      BY <2>3, <3>1
  <2>5. QED
    BY <2>2, <2>3, <2>4
<1>10. QED
  BY <1>2, <1>3, <1>5, <1>9 DEF Next, RequestStep

-----------------------------------------------------------------------------
(* The promise of the TTL.                                                  *)

(* What a calm request meets: its key is undisturbed and in order, and no   *)
(* entry about to be set or loaded is older than the last one stored.       *)
LEMMA CalmKey ==
    ASSUME IndInv, NEW r \in calm, key[r] \in Key
    PROVE  key[r] \notin disturbed /\ InOrder(key[r])
  BY DEF IndInv, CrossingsSeen, UndisturbedInOrder

(* Another request's step keeps a promise if it leaves nothing older.       *)
LEMMA PromiseOfOther ==
    ASSUME NEW r \in Request, PromiseKept(r),
           pc'[r] = pc[r], key'[r] = key[r], entry'[r] = entry[r], promised'[r] = promised[r],
           now' = now,
           pc[r] \notin {"idle", "next"} /\ promised[r] # None =>
              /\ stored'[key[r]] # None /\ promised[r] <= stored'[key[r]]
              /\ memory'[key[r]] # None => promised[r] <= memory'[key[r]]
    PROVE  PromiseKept(r)'
  BY DEF PromiseKept, Expired

(* The last thing stored for an undisturbed key is no newer than the map.   *)
LEMMA MapIsRecent ==
    ASSUME IndInv, NEW k \in Key \ disturbed, memory[k] # None, stored[k] # None
    PROVE  stored[k] <= memory[k]
<1>1. InOrder(k) /\ stored[k] \in Nat
  BY Times DEF IndInv, UndisturbedInOrder, TypeOK
<1>2. CASE \A r \in Busy(k) : pc[r] \notin {"truncate", "write"}
  BY <1>1, <1>2 DEF InOrder
<1>3. ASSUME NEW r \in Busy(k), pc[r] \in {"truncate", "write"} PROVE stored[k] <= memory[k]
  <2>1. r \in alone /\ key[r] = k
    BY <1>3 DEF Busy, IndInv, CrossingsSeen
  <2>2. memory[k] = entry[r]
    BY <1>3, <2>1 DEF IndInv, SetsUncrossed
  <2>3. QED
    BY <1>1, <1>3, <2>2 DEF InOrder
<1>4. QED
  BY <1>2, <1>3

LEMMA PromisesPreserved == ASSUME IndInv, [Next]_vars PROVE PromisesKept'
<1> USE Times DEF requestVars, crossVars
<1>1. TypeOK /\ PromisesKept
  BY DEF IndInv
<1>2. CASE Tick
  <2>1. now \in Nat /\ now' = now + 1
    BY <1>1, <1>2 DEF Tick, TypeOK
  <2>2. \A r \in Request : promised[r] # None => promised[r] \in Nat
    BY <1>1 DEF TypeOK
  <2>3. TTL \in Nat
    BY CacheAssumption
  <2>4. QED
    BY <1>1, <1>2, <2>1, <2>2, <2>3 DEF Tick, PromisesKept, PromiseKept, Expired, TypeOK
<1>3. CASE Restart
  BY <1>3 DEF Restart, PromisesKept
<1>4. CASE UNCHANGED vars
  BY <1>1, <1>4 DEF vars, PromisesKept, PromiseKept, Expired
<1>5. ASSUME NEW r \in Request, RequestStep(r), NEW q \in calm', q # r PROVE PromiseKept(q)'
  <2>1. q \in calm /\ q \in Request /\ PromiseKept(q)
    BY <1>1, <1>5 DEF RequestStep, Get, Set, Start, NextServer, Respond, LookupHit, LookupMiss,
       ReadEntry, ReadNothing, StoreRead, ServeCached, CheckExpired, QueryEnds, SetMemory, Truncate,
       WriteEntry, WriteFails, EnterSlowPath, Disturb, TypeOK, PromisesKept
  <2>2. /\ pc'[q] = pc[q] /\ key'[q] = key[q] /\ entry'[q] = entry[q] /\ promised'[q] = promised[q]
        /\ now' = now
    BY <1>1, <1>5, <2>1 DEF RequestStep, Get, Set, Start, NextServer, Respond, LookupHit, LookupMiss,
       ReadEntry, ReadNothing, StoreRead, ServeCached, CheckExpired, QueryEnds, SetMemory, Truncate,
       WriteEntry, WriteFails, Answered, TypeOK
  <2> SUFFICES ASSUME pc[q] \notin {"idle", "next"}, promised[q] # None
               PROVE  /\ stored'[key[q]] # None /\ promised[q] <= stored'[key[q]]
                      /\ memory'[key[q]] # None => promised[q] <= memory'[key[q]]
    BY <2>1, <2>2, PromiseOfOther
  <2>3. /\ stored[key[q]] # None /\ promised[q] <= stored[key[q]]
        /\ memory[key[q]] # None => promised[q] <= memory[key[q]]
    BY <2>1 DEF PromiseKept
  <2>4. key[q] \in Key /\ key[q] \notin disturbed /\ InOrder(key[q])
    BY <2>1, InHand, CalmKey
  <2>5. promised[q] \in Nat /\ stored[key[q]] \in Nat
    BY <1>1, <2>1, <2>3, <2>4 DEF TypeOK
  <2>6. CASE UNCHANGED <<memory, stored>>
    BY <2>3, <2>6
  <2>7. CASE StoreRead(r) \/ SetMemory(r) \/ WriteEntry(r)
    <3>1. CASE key[r] # key[q]
      BY <1>1, <2>3, <2>4, <2>7, <3>1 DEF StoreRead, SetMemory, WriteEntry, TypeOK
    <3>2. CASE key[r] = key[q]
      <4>1. r \in Busy(key[q]) /\ entry[r] \in Nat /\ entry[r] # None
        BY <2>7, <3>2, InHand DEF StoreRead, SetMemory, WriteEntry, Busy, SlowPc
      <4>2. promised[q] <= entry[r]
        BY <2>3, <2>4, <2>5, <2>7, <4>1 DEF StoreRead, SetMemory, WriteEntry, InOrder
      <4>3. CASE StoreRead(r) \/ SetMemory(r)
        <5>1. memory'[key[q]] = entry[r] /\ stored' = stored
          BY <1>1, <2>4, <3>2, <4>3 DEF StoreRead, SetMemory, TypeOK
        <5>2. QED
          BY <2>3, <4>1, <4>2, <5>1
      <4>4. CASE WriteEntry(r)
        <5>1. stored'[key[q]] = entry[r] /\ memory' = memory
          BY <1>1, <2>4, <3>2, <4>4 DEF WriteEntry, TypeOK
        <5>2. QED
          BY <2>3, <4>1, <4>2, <5>1
      <4>5. QED
        BY <2>7, <4>3, <4>4
    <3>3. QED
      BY <3>1, <3>2
  <2>8. CASE WriteFails(r)
    <3>1. key[r] # key[q]
      BY <1>5, <2>8 DEF WriteFails, Disturb
    <3>2. QED
      BY <1>1, <2>3, <2>4, <2>8, <3>1 DEF WriteFails, TypeOK
  <2>9. QED
    BY <1>5, <2>6, <2>7, <2>8 DEF RequestStep, Get, Set, Start, NextServer, Respond, LookupHit,
       LookupMiss, ReadEntry, ReadNothing, ServeCached, CheckExpired, QueryEnds, Truncate
<1>6. ASSUME NEW r \in Request, RequestStep(r), r \in calm' PROVE PromiseKept(r)'
  <2>1. CASE Start(r) \/ Respond(r) \/ ServeCached(r) \/ WriteEntry(r) \/ WriteFails(r)
    <3>1. pc'[r] \in {"idle", "next"}
      BY <1>1, <2>1 DEF Start, Respond, ServeCached, WriteEntry, WriteFails, Answered, TypeOK
    <3>2. QED
      BY <3>1 DEF PromiseKept
  <2>2. CASE NextServer(r)
    <3>1. PICK k \in Key : key'[r] = k /\ promised'[r] = stored[k] /\ k \notin disturbed
      BY <1>1, <1>6, <2>2 DEF NextServer, TypeOK
    <3>2. pc'[r] = "lookup" /\ UNCHANGED <<memory, stored>>
      BY <1>1, <2>2 DEF NextServer, TypeOK
    <3>3. stored[k] # None => stored[k] \in Nat
      BY <1>1 DEF TypeOK
    <3>4. QED
      BY <3>1, <3>2, <3>3, MapIsRecent DEF PromiseKept
  <2>3. ASSUME Get(r) \/ QueryEnds(r) \/ SetMemory(r) \/ Truncate(r), ~ ServeCached(r)
        PROVE  PromiseKept(r)'
    <3>1. r \in calm /\ PromiseKept(r) /\ key[r] \in Key /\ pc[r] \notin {"idle", "next"}
      <4>1. r \in calm
        BY <1>1, <1>6, <2>3 DEF Get, LookupHit, LookupMiss, ReadEntry, ReadNothing, StoreRead,
           CheckExpired, QueryEnds, SetMemory, Truncate, EnterSlowPath, Disturb
      <4>2. pc[r] \notin {"idle", "next"}
        BY <2>3 DEF Get, LookupHit, LookupMiss, ReadEntry, ReadNothing, StoreRead,
           CheckExpired, QueryEnds, SetMemory, Truncate
      <4>3. QED
        BY <1>1, <4>1, <4>2, InHand DEF PromisesKept
    <3>2. /\ key'[r] = key[r] /\ promised'[r] = promised[r] /\ UNCHANGED <<now, stored>>
          /\ pc'[r] \notin {"idle", "next"}
      BY <1>1, <2>3 DEF Get, LookupHit, LookupMiss, ReadEntry, ReadNothing, StoreRead,
         CheckExpired, QueryEnds, SetMemory, Truncate, TypeOK
    <3> SUFFICES ASSUME promised[r] # None PROVE PromiseKept(r)'
      BY <3>2 DEF PromiseKept
    <3>3. /\ stored[key[r]] # None /\ promised[r] <= stored[key[r]]
          /\ memory[key[r]] # None => promised[r] <= memory[key[r]]
          /\ pc[r] \in {"store", "check"} => promised[r] <= entry[r]
          /\ pc[r] = "query" => Expired(promised[r])
      BY <3>1 DEF PromiseKept
    <3>4. key[r] \notin disturbed /\ InOrder(key[r])
      BY <3>1, CalmKey
    <3>5. promised[r] \in Nat /\ stored[key[r]] \in Nat /\ now \in Nat /\ TTL \in Nat
      BY <1>1, <3>1, <3>3, CacheAssumption DEF TypeOK
    <3>6. pc[r] \in SlowPc => Busy(key[r]) = {r}
      BY <3>4, OneOnSlowPath
    <3>7. CASE LookupHit(r)
      BY <1>1, <3>1, <3>2, <3>3, <3>7 DEF LookupHit, PromiseKept, TypeOK
    <3>8. CASE LookupMiss(r)
      BY <1>1, <3>1, <3>2, <3>3, <3>8 DEF LookupMiss, PromiseKept, TypeOK
    <3>9. CASE ReadEntry(r)
      <4>1. file[key[r]] = stored[key[r]]
        BY <3>4, <3>6, <3>9 DEF ReadEntry, InOrder, SlowPc
      <4>2. QED
        BY <1>1, <3>1, <3>2, <3>3, <3>9, <4>1 DEF ReadEntry, PromiseKept, TypeOK
    <3>10. CASE ReadNothing(r)
      <4>1. file[key[r]] = stored[key[r]]
        BY <3>4, <3>6, <3>10 DEF ReadNothing, InOrder, SlowPc
      <4>2. stored[key[r]] \in Time
        BY <1>1, <3>1, <3>3 DEF TypeOK
      <4>3. QED
        BY <3>10, <4>1, <4>2 DEF ReadNothing, Unreadable
    <3>11. CASE StoreRead(r)
      BY <1>1, <3>1, <3>2, <3>3, <3>11 DEF StoreRead, PromiseKept, TypeOK
    <3>12. CASE CheckExpired(r)
      <4>1. entry[r] \in Nat /\ promised[r] <= entry[r] /\ Expired(entry[r])
        BY <3>3, <3>12, InHand DEF CheckExpired
      <4>2. Expired(promised[r])
        BY <3>5, <4>1 DEF Expired
      <4>3. pc'[r] = "query" /\ UNCHANGED memory
        BY <1>1, <3>12 DEF CheckExpired, TypeOK
      <4>4. QED
        BY <3>2, <3>3, <4>2, <4>3 DEF PromiseKept, Expired
    <3>13. CASE QueryEnds(r) \/ Truncate(r)
      BY <1>1, <3>1, <3>2, <3>3, <3>13 DEF QueryEnds, Truncate, PromiseKept, TypeOK
    <3>14. CASE SetMemory(r)
      <4>1. stored[key[r]] <= entry[r] /\ entry[r] \in Nat
        BY <3>3, <3>4, <3>6, <3>14, InHand DEF SetMemory, InOrder, SlowPc
      <4>2. memory'[key[r]] = entry[r] /\ pc'[r] = "truncate"
        BY <1>1, <3>1, <3>14 DEF SetMemory, TypeOK
      <4>3. QED
        BY <3>2, <3>3, <3>5, <4>1, <4>2 DEF PromiseKept
    <3>15. QED
      BY <2>3, <3>7, <3>8, <3>9, <3>10, <3>11, <3>12, <3>13, <3>14 DEF Get
  <2>4. QED
    BY <1>6, <2>1, <2>2, <2>3 DEF RequestStep, Get, Set
<1>7. ASSUME NEW r \in Request, RequestStep(r) PROVE PromisesKept'
  BY <1>5, <1>6, <1>7 DEF PromisesKept
<1>8. QED
  BY <1>2, <1>3, <1>4, <1>7 DEF Next

-----------------------------------------------------------------------------
(* The theorems.                                                            *)

LEMMA StepPreserves == ASSUME IndInv, [Next]_vars PROVE IndInv'
  BY TypePreserved, ObservedPreserved, CrossingsPreserved, SetsPreserved, OrderPreserved,
     PromisesPreserved DEF IndInv

(* Every state of the cache satisfies the inductive invariant. *)
THEOREM CacheInvariant == Spec => []IndInv
  BY InitIndInv, StepPreserves, PTL DEF Spec

(* Type correctness. *)
THEOREM CacheTypes == Spec => []TypeOK
<1>1. IndInv => TypeOK
  BY DEF IndInv
<1>2. QED
  BY <1>1, CacheInvariant, PTL

(* The map and the file of a key that no Set is under way for, and whose    *)
(* last Sets have not crossed, failed or been killed, hold the same.        *)
THEOREM MapAndFileAgree == Spec => []MemoryAgreesWithFile
<1>1. IndInv => MemoryAgreesWithFile
  <2> SUFFICES ASSUME IndInv, NEW k \in Key, Busy(k) = {}, k \notin disturbed, memory[k] # None
               PROVE  memory[k] = file[k]
    BY DEF MemoryAgreesWithFile
  <2>1. InOrder(k)
    BY DEF IndInv, UndisturbedInOrder
  <2>2. QED
    BY <2>1 DEF InOrder
<1>2. QED
  BY <1>1, CacheInvariant, PTL

(* No server is queried for a request while a status of it stored before    *)
(* the request is within its TTL, also after restarts.                      *)
THEOREM PromiseOfTTL == Spec => []CachedForTTL
<1>1. IndInv => CachedForTTL
  BY DEF IndInv, PromisesKept, PromiseKept, CachedForTTL
<1>2. QED
  BY <1>1, CacheInvariant, PTL

(* Each step of the cache is one of FreshStatus or leaves the answers, the  *)
(* observations and the clock alone.                                        *)
LEMMA FreshStep == ASSUME IndInv, [Next]_vars PROVE [FreshStatus!Next]_(FreshStatus!vars)
<1> USE DEF requestVars, crossVars
<1>1. CASE Tick
  BY <1>1 DEF Tick, FreshStatus!Next, FreshStatus!Tick
<1>2. CASE Restart
  BY <1>2 DEF Restart, FreshStatus!Next, FreshStatus!LoseAll
<1>3. CASE UNCHANGED vars
  BY <1>3 DEF vars, FreshStatus!vars
<1>4. ASSUME NEW r \in Request, RequestStep(r) PROVE [FreshStatus!Next]_(FreshStatus!vars)
  <2>1. CASE Start(r)
    BY <2>1 DEF Start, FreshStatus!Next, FreshStatus!Ask
  <2>2. CASE QueryEnds(r)
    <3>1. key[r] \in Key
      BY <2>2, InHand DEF QueryEnds
    <3>2. FreshStatus!Observe(key[r])
      BY <2>2 DEF QueryEnds, FreshStatus!Observe
    <3>3. QED
      BY <3>1, <3>2 DEF FreshStatus!Next
  <2>3. CASE ServeCached(r) \/ WriteEntry(r) \/ WriteFails(r)
    <3>1. /\ key[r] \in Key /\ entry[r] \in Nat /\ now \in Nat
          /\ <<key[r], entry[r]>> \in observed /\ entry[r] <= now
          /\ pc[r] # "check" => asked[r] <= entry[r]
      <4>1. key[r] \in Key /\ entry[r] \in Nat /\ now \in Nat
        BY <2>3, InHand, Times DEF ServeCached, WriteEntry, WriteFails, IndInv, TypeOK
      <4>2. /\ <<key[r], entry[r]>> \in observed
            /\ pc[r] # "check" => asked[r] <= entry[r]
        BY <2>3 DEF ServeCached, WriteEntry, WriteFails, IndInv, EntriesObserved
      <4>3. QED
        BY <4>1, <4>2 DEF IndInv, EntriesObserved
    <3>2. entry[r] \in 0..now
      BY <3>1
    <3>3. now - entry[r] <= TTL \/ asked[r] <= entry[r]
      <4>1. CASE ServeCached(r)
        BY <3>1, <4>1, CacheAssumption DEF ServeCached, Expired
      <4>2. CASE pc[r] # "check"
        BY <3>1, <4>2
      <4>3. QED
        BY <2>3, <4>1, <4>2 DEF WriteEntry, WriteFails
    <3>4. /\ results' = [results EXCEPT ![r] = @ \cup {<<key[r], entry[r]>>}]
          /\ UNCHANGED <<now, observed, asked>>
      BY <2>3 DEF ServeCached, WriteEntry, WriteFails, Answered
    <3>5. FreshStatus!Answer(r, key[r])
      BY <3>1, <3>2, <3>3, <3>4 DEF FreshStatus!Answer
    <3>6. QED
      BY <3>1, <3>5 DEF FreshStatus!Next
  <2>4. CASE UNCHANGED <<now, observed, asked, results>>
    BY <2>4 DEF FreshStatus!vars
  <2>5. QED
    BY <1>4, <2>1, <2>2, <2>3, <2>4 DEF RequestStep, Get, Set, NextServer, Respond, LookupHit,
       LookupMiss, ReadEntry, ReadNothing, StoreRead, CheckExpired, SetMemory, Truncate
<1>5. QED
  BY <1>1, <1>2, <1>3, <1>4 DEF Next

(* The cache implements FreshStatus: every status a client is given was     *)
(* observed of that server, at most TTL earlier or for the client itself.   *)
THEOREM CacheImplementsFreshStatus == Spec => FreshStatusSpec
<1>1. Init => FreshStatus!Init
  BY DEF Init, FreshStatus!Init
<1>2. QED
  BY <1>1, FreshStep, CacheInvariant, PTL DEF Spec, FreshStatusSpec, FreshStatus!Spec

(* What FreshStatus promises a client, said of its own question.            *)
AnswersFresh ==
    \A r \in Request, k \in Key, t \in Nat :
        <<k, t>> \in results[r] => <<k, t>> \in observed /\ asked[r] - t <= TTL

FreshInv ==
    /\ now \in Nat
    /\ asked \in [Request -> Nat] /\ \A r \in Request : asked[r] <= now
    /\ results = [r \in Request |-> results[r]]
    /\ AnswersFresh

LEMMA FreshInit == FreshStatus!Init => FreshInv
  BY DEF FreshStatus!Init, FreshInv, AnswersFresh

LEMMA FreshKept ==
    ASSUME FreshInv, [FreshStatus!Next]_(FreshStatus!vars) PROVE FreshInv'
<1> USE DEF FreshInv, AnswersFresh
<1>1. CASE FreshStatus!Tick
  BY <1>1 DEF FreshStatus!Tick
<1>2. CASE FreshStatus!LoseAll
  BY <1>2 DEF FreshStatus!LoseAll
<1>3. ASSUME NEW q \in Request, FreshStatus!Ask(q) PROVE FreshInv'
  <2>1. /\ asked' = [asked EXCEPT ![q] = now] /\ results' = [results EXCEPT ![q] = {}]
        /\ UNCHANGED <<now, observed>>
    BY <1>3 DEF FreshStatus!Ask
  <2>2. ASSUME NEW r \in Request, NEW k \in Key, NEW t \in Nat, <<k, t>> \in results'[r]
        PROVE  <<k, t>> \in observed /\ asked'[r] - t <= TTL
    <3>1. r # q /\ <<k, t>> \in results[r] /\ asked'[r] = asked[r]
      BY <2>1, <2>2
    <3> QED BY <3>1
  <2>3. /\ asked' \in [Request -> Nat] /\ \A r \in Request : asked'[r] <= now
        /\ results' = [r \in Request |-> results'[r]]
    BY <2>1
  <2> QED BY <2>1, <2>2, <2>3
<1>4. ASSUME NEW k \in Key, FreshStatus!Observe(k) PROVE FreshInv'
  BY <1>4 DEF FreshStatus!Observe
<1>5. ASSUME NEW q \in Request, NEW k \in Key, FreshStatus!Answer(q, k) PROVE FreshInv'
  <2>1. PICK t \in 0..now :
            /\ <<k, t>> \in observed
            /\ now - t <= TTL \/ asked[q] <= t
            /\ results' = [results EXCEPT ![q] = @ \cup {<<k, t>>}]
    BY <1>5 DEF FreshStatus!Answer
  <2>2. UNCHANGED <<now, observed, asked>>
    BY <1>5 DEF FreshStatus!Answer
  <2>3. asked[q] - t <= TTL
    BY <2>1, CacheAssumption
  <2>4. ASSUME NEW r \in Request, NEW j \in Key, NEW u \in Nat, <<j, u>> \in results'[r]
        PROVE  <<j, u>> \in observed /\ asked[r] - u <= TTL
    <3>1. <<j, u>> \in results[r] \/ (r = q /\ j = k /\ u = t)
      BY <2>1, <2>4
    <3> QED BY <2>1, <2>3, <3>1
  <2> QED BY <2>1, <2>2, <2>4
<1>6. CASE UNCHANGED FreshStatus!vars
  BY <1>6 DEF FreshStatus!vars
<1> QED BY <1>1, <1>2, <1>3, <1>4, <1>5, <1>6 DEF FreshStatus!Next

(* What FreshStatus means to a client, in one state: every status in its    *)
(* response was observed of that server, not longer than TTL before it      *)
(* asked.                                                                   *)
THEOREM FreshStatusMeans == FreshStatusSpec => []AnswersFresh
<1>1. FreshInv /\ [FreshStatus!Next]_(FreshStatus!vars) => FreshInv'
  BY FreshKept
<1>2. FreshInv => AnswersFresh
  BY DEF FreshInv
<1> QED BY <1>1, <1>2, FreshInit, PTL DEF FreshStatusSpec, FreshStatus!Spec

(* GetStatus (server.go) through the cache, its files and restarts: no      *)
(* client is given a status that was older than TTL when it asked.          *)
THEOREM NoStaleAnswer == Spec => []AnswersFresh
  BY FreshStatusMeans, CacheImplementsFreshStatus, PTL
=============================================================================
