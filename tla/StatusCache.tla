---------------------------- MODULE StatusCache ----------------------------
(***************************************************************************)
(* internal/service/cache.go and GetStatus, GetStatusBulk of               *)
(* internal/service/server.go: requests that look servers up in a shared   *)
(* map, then in one file per server, then ask the server itself, and write *)
(* both back; and restarts of the program, which keep only the files.      *)
(*                                                                         *)
(* An action is one critical section of c.mu, one file operation or one    *)
(* query: everything between two of them is local to the request.  A       *)
(* status is abstracted to the time its query ended, which is also the     *)
(* Timestamp that Set gives the entry (server.go:43-49 and cache.go:81     *)
(* follow each other); online and offline answers are cached alike.        *)
(***************************************************************************)
EXTENDS Naturals

CONSTANTS
    Key,       \* "ip:port" cache keys
    Request,   \* HTTP requests (goroutines), each for one server or several
    TTL,       \* CACHE_TTL, in units of the clock
    MaxTime,   \* bound on the clock
    None,      \* no entry, no file, no key, no answer yet
    Empty,     \* a file that os.WriteFile has truncated
    Garbage,   \* a file that is no JSON document
    Restarts,  \* when the program may be stopped and started again
    Prompt,    \* whether only queries take time that the clock can show
    DiskFails  \* whether opening or writing a file may fail

Time == 0..MaxTime

Unreadable == {None, Empty, Garbage}

ASSUME CacheAssumption ==
    /\ MaxTime \in Nat /\ TTL \in Nat
    /\ Unreadable \cap Time = {} /\ None \notin Key
    /\ None # Empty /\ None # Garbage /\ Empty # Garbage
    /\ Restarts \in {"never", "atRest", "anytime"}
    /\ Prompt \in BOOLEAN /\ DiskFails \in BOOLEAN

VARIABLES
    now,       \* time.Now
    memory,    \* CacheService.memory: the Timestamp of each entry
    file,      \* the file of each key
    pc, todo, key, entry, results, asked,
               \* requests: where they are, the servers left, the current one, its
               \* entry, the <<server, Timestamp>> pairs answered, when they began
    observed,  \* history: the <<server, time>> pairs of all queries
    stored,    \* history: the Timestamp of the last Set that returned, per key
    promised,  \* history: stored, when the request turned to its current server
    alone,     \* history: the requests that no other has crossed in the slow path
    disturbed, \* history: keys whose last Sets crossed, failed or were killed
    calm       \* history: the requests during which their key has not been disturbed

requestVars == <<pc, todo, key, entry, results, asked>>
crossVars == <<alone, disturbed, calm>>
vars == <<now, memory, file, requestVars, observed, stored, promised, crossVars>>

(* Past the memory lookup: reading the file, asking, or setting. *)
SlowPc == {"read", "store", "query", "setMemory", "truncate", "write"}

RequestPc == SlowPc \cup {"idle", "next", "lookup", "check"}

TypeOK ==
    /\ now \in Time
    /\ memory \in [Key -> Time \cup {None}]
    /\ file \in [Key -> Time \cup Unreadable]
    /\ pc \in [Request -> RequestPc]
    /\ todo \in [Request -> SUBSET Key]
    /\ key \in [Request -> Key \cup {None}]
    /\ entry \in [Request -> Time \cup {None}]
    /\ results \in [Request -> SUBSET (Key \X Time)]
    /\ asked \in [Request -> Time]
    /\ observed \in SUBSET (Key \X Time)
    /\ stored \in [Key -> Time \cup {None}]
    /\ promised \in [Request -> Time \cup {None}]
    /\ alone \in SUBSET Request
    /\ disturbed \in SUBSET Key
    /\ calm \in SUBSET Request

(* NewCacheService creates the directories and loads nothing. *)
Init ==
    /\ now = 0
    /\ memory = [k \in Key |-> None]
    /\ file = [k \in Key |-> None]
    /\ pc = [r \in Request |-> "idle"]
    /\ todo = [r \in Request |-> {}]
    /\ key = [r \in Request |-> None]
    /\ entry = [r \in Request |-> None]
    /\ results = [r \in Request |-> {}]
    /\ asked = [r \in Request |-> 0]
    /\ observed = {}
    /\ stored = [k \in Key |-> None]
    /\ promised = [r \in Request |-> None]
    /\ alone = {}
    /\ disturbed = {}
    /\ calm = {}

-----------------------------------------------------------------------------
Tick ==
    /\ now < MaxTime
    /\ Prompt => \A r \in Request : pc[r] \in {"idle", "query"}
    /\ now' = now + 1
    /\ UNCHANGED <<memory, file, requestVars, observed, stored, promised, crossVars>>

(* The process ends: the map and the requests are gone, the files stay as  *)
(* they are, also between the two halves of os.WriteFile.                  *)
Restart ==
    /\ Restarts # "never"
    /\ Restarts = "atRest" => \A r \in Request : pc[r] = "idle"
    /\ memory' = [k \in Key |-> None]
    /\ pc' = [r \in Request |-> "idle"]
    /\ todo' = [r \in Request |-> {}]
    /\ key' = [r \in Request |-> None]
    /\ entry' = [r \in Request |-> None]
    /\ results' = [r \in Request |-> {}]
    /\ asked' = [r \in Request |-> 0]
    /\ promised' = [r \in Request |-> None]
    /\ alone' = {}
    /\ calm' = {}
    /\ disturbed' = disturbed \cup {k \in Key : \E r \in Request : pc[r] = "write" /\ key[r] = k}
    /\ UNCHANGED <<now, file, observed, stored>>

(* A request for one server (GetStatus) or several (GetStatusBulk). *)
Start(r) ==
    /\ pc[r] = "idle"
    /\ \E servers \in (SUBSET Key) \ {{}} : todo' = [todo EXCEPT ![r] = servers]
    /\ pc' = [pc EXCEPT ![r] = "next"]
    /\ results' = [results EXCEPT ![r] = {}]
    /\ asked' = [asked EXCEPT ![r] = now]
    /\ UNCHANGED <<now, memory, file, key, entry, observed, stored, promised, crossVars>>

NextServer(r) ==
    /\ pc[r] = "next"
    /\ \E k \in todo[r] :
          /\ todo' = [todo EXCEPT ![r] = @ \ {k}]
          /\ key' = [key EXCEPT ![r] = k]
          /\ promised' = [promised EXCEPT ![r] = stored[k]]
          /\ calm' = IF k \in disturbed THEN calm \ {r} ELSE calm \cup {r}
    /\ pc' = [pc EXCEPT ![r] = "lookup"]
    /\ UNCHANGED <<now, memory, file, entry, results, asked, observed, stored, alone, disturbed>>

Respond(r) ==
    /\ pc[r] = "next"
    /\ todo[r] = {}
    /\ pc' = [pc EXCEPT ![r] = "idle"]
    /\ UNCHANGED <<now, memory, file, todo, key, entry, results, asked,
                   observed, stored, promised, crossVars>>

Disturb(k) ==
    /\ disturbed' = disturbed \cup {k}
    /\ calm' = {r \in calm : key[r] # k}

(* The others on the slow path for the key of r. *)
Crossed(r) == {q \in Request \ {r} : pc[q] \in SlowPc /\ key[q] = key[r]}

EnterSlowPath(r) ==
    IF Crossed(r) = {}
    THEN alone' = alone \cup {r} /\ UNCHANGED <<disturbed, calm>>
    ELSE alone' = alone \ (Crossed(r) \cup {r}) /\ Disturb(key[r])

(* The server has been answered with the entry stamped t. *)
Answered(r, t) ==
    /\ results' = [results EXCEPT ![r] = @ \cup {<<key[r], t>>}]
    /\ key' = [key EXCEPT ![r] = None]
    /\ entry' = [entry EXCEPT ![r] = None]
    /\ promised' = [promised EXCEPT ![r] = None]
    /\ pc' = [pc EXCEPT ![r] = "next"]

-----------------------------------------------------------------------------
(* CacheService.Get.                                                       *)

LookupHit(r) ==
    /\ pc[r] = "lookup"
    /\ memory[key[r]] # None
    /\ entry' = [entry EXCEPT ![r] = memory[key[r]]]
    /\ pc' = [pc EXCEPT ![r] = "check"]
    /\ UNCHANGED <<now, memory, file, todo, key, results, asked,
                   observed, stored, promised, crossVars>>

LookupMiss(r) ==
    /\ pc[r] = "lookup"
    /\ memory[key[r]] = None
    /\ EnterSlowPath(r)
    /\ pc' = [pc EXCEPT ![r] = "read"]
    /\ UNCHANGED <<now, memory, file, todo, key, entry, results, asked,
                   observed, stored, promised>>

(* Mutants: the error of json.Unmarshal is ignored; one file name for all keys. *)
ReadEntryUnchecked(r) ==
    /\ pc[r] = "read"
    /\ file[key[r]] # None
    /\ entry' = [entry EXCEPT ![r] = file[key[r]]]
    /\ pc' = [pc EXCEPT ![r] = "store"]
    /\ UNCHANGED <<now, memory, file, todo, key, results, asked,
                   observed, stored, promised, crossVars>>

ReadEntryOfAny(r) ==
    /\ pc[r] = "read"
    /\ \E k \in Key : /\ file[k] \notin Unreadable
                      /\ entry' = [entry EXCEPT ![r] = file[k]]
    /\ pc' = [pc EXCEPT ![r] = "store"]
    /\ UNCHANGED <<now, memory, file, todo, key, results, asked,
                   observed, stored, promised, crossVars>>

(* os.ReadFile and json.Unmarshal without any lock: no file, or one that   *)
(* is not a document, is a miss.                                           *)
ReadEntry(r) ==
    /\ pc[r] = "read"
    /\ file[key[r]] \notin Unreadable
    /\ entry' = [entry EXCEPT ![r] = file[key[r]]]
    /\ pc' = [pc EXCEPT ![r] = "store"]
    /\ UNCHANGED <<now, memory, file, todo, key, results, asked,
                   observed, stored, promised, crossVars>>

(* Mutant: files are never found. *)
ReadIgnored(r) ==
    /\ pc[r] = "read"
    /\ pc' = [pc EXCEPT ![r] = "query"]
    /\ UNCHANGED <<now, memory, file, todo, key, entry, results, asked,
                   observed, stored, promised, crossVars>>

ReadNothing(r) ==
    /\ pc[r] = "read"
    /\ file[key[r]] \in Unreadable
    /\ pc' = [pc EXCEPT ![r] = "query"]
    /\ UNCHANGED <<now, memory, file, todo, key, entry, results, asked,
                   observed, stored, promised, crossVars>>

(* What was read goes into the map, whatever the map holds by now. *)
StoreRead(r) ==
    /\ pc[r] = "store"
    /\ memory' = [memory EXCEPT ![key[r]] = entry[r]]
    /\ pc' = [pc EXCEPT ![r] = "check"]
    /\ UNCHANGED <<now, file, todo, key, entry, results, asked,
                   observed, stored, promised, crossVars>>

Expired(t) == now - t > TTL

(* Mutant: Get without the check of the Timestamp. *)
ServeUnchecked(r) ==
    /\ pc[r] = "check"
    /\ Answered(r, entry[r])
    /\ UNCHANGED <<now, memory, file, todo, asked, observed, stored, crossVars>>

ServeCached(r) ==
    /\ pc[r] = "check"
    /\ ~ Expired(entry[r])
    /\ Answered(r, entry[r])
    /\ UNCHANGED <<now, memory, file, todo, asked, observed, stored, crossVars>>

CheckExpired(r) ==
    /\ pc[r] = "check"
    /\ Expired(entry[r])
    /\ entry' = [entry EXCEPT ![r] = None]
    /\ EnterSlowPath(r)
    /\ pc' = [pc EXCEPT ![r] = "query"]
    /\ UNCHANGED <<now, memory, file, todo, key, results, asked,
                   observed, stored, promised>>

-----------------------------------------------------------------------------
(* GetStatus after a miss: queryServer, which always gives a status, and   *)
(* CacheService.Set.                                                       *)

QueryEnds(r) ==
    /\ pc[r] = "query"
    /\ entry' = [entry EXCEPT ![r] = now]
    /\ observed' = observed \cup {<<key[r], now>>}
    /\ pc' = [pc EXCEPT ![r] = "setMemory"]
    /\ UNCHANGED <<now, memory, file, todo, key, results, asked,
                   stored, promised, crossVars>>

(* Mutant: Set only fills a gap in the map. *)
SetMemoryOnce(r) ==
    /\ pc[r] = "setMemory"
    /\ memory' = IF memory[key[r]] = None THEN [memory EXCEPT ![key[r]] = entry[r]] ELSE memory
    /\ pc' = [pc EXCEPT ![r] = "truncate"]
    /\ UNCHANGED <<now, file, todo, key, entry, results, asked,
                   observed, stored, promised, crossVars>>

SetMemory(r) ==
    /\ pc[r] = "setMemory"
    /\ memory' = [memory EXCEPT ![key[r]] = entry[r]]
    /\ pc' = [pc EXCEPT ![r] = "truncate"]
    /\ UNCHANGED <<now, file, todo, key, entry, results, asked,
                   observed, stored, promised, crossVars>>

(* os.WriteFile opens the file with O_TRUNC ... *)
Truncate(r) ==
    /\ pc[r] = "truncate"
    /\ file' = [file EXCEPT ![key[r]] = Empty]
    /\ pc' = [pc EXCEPT ![r] = "write"]
    /\ UNCHANGED <<now, memory, todo, key, entry, results, asked,
                   observed, stored, promised, crossVars>>

(* ... and writes from its start: over what another Set has written since, *)
(* a shorter document leaves a tail behind.                                *)
Written(r) == IF file[key[r]] = Empty THEN {entry[r]} ELSE {entry[r], Garbage}

WriteEntry(r) ==
    /\ pc[r] = "write"
    /\ \E content \in Written(r) : file' = [file EXCEPT ![key[r]] = content]
    /\ stored' = [stored EXCEPT ![key[r]] = entry[r]]
    /\ disturbed' = IF r \in alone THEN disturbed \ {key[r]} ELSE disturbed
    /\ alone' = alone \ {r}
    /\ Answered(r, entry[r])
    /\ UNCHANGED <<now, memory, todo, asked, observed, calm>>

(* Set ignores the error of os.WriteFile. *)
WriteFails(r) ==
    /\ DiskFails
    /\ pc[r] \in {"truncate", "write"}
    /\ stored' = [stored EXCEPT ![key[r]] = entry[r]]
    /\ \/ UNCHANGED file
       \/ pc[r] = "write" /\ file' = [file EXCEPT ![key[r]] = Garbage]
    /\ Disturb(key[r])
    /\ alone' = alone \ {r}
    /\ Answered(r, entry[r])
    /\ UNCHANGED <<now, memory, todo, asked, observed>>

-----------------------------------------------------------------------------
Get(r) ==
    \/ LookupHit(r) \/ LookupMiss(r)
    \/ ReadEntry(r) \/ ReadNothing(r) \/ StoreRead(r)
    \/ ServeCached(r) \/ CheckExpired(r)

Set(r) == SetMemory(r) \/ Truncate(r) \/ WriteEntry(r) \/ WriteFails(r)

RequestStep(r) ==
    Start(r) \/ NextServer(r) \/ Respond(r) \/ Get(r) \/ QueryEnds(r) \/ Set(r)

Next == Tick \/ Restart \/ \E r \in Request : RequestStep(r)

Spec == Init /\ [][Next]_vars

-----------------------------------------------------------------------------
(* Safety.                                                                 *)

Busy(k) == {r \in Request : pc[r] \in SlowPc /\ key[r] = k}

(* The map and the file of a server agree whenever nobody is on the slow   *)
(* path for it, across restarts and crashes, and after whatever crossing   *)
(* or failing Sets left behind as soon as one request has set it alone.    *)
MemoryAgreesWithFile ==
    \A k \in Key : Busy(k) = {} /\ k \notin disturbed /\ memory[k] # None => memory[k] = file[k]

(* A response that was cached is used for its whole TTL, also after a      *)
(* restart: a client who asks then does not make the server be queried     *)
(* again, unless Sets of that server have crossed, failed or been killed.  *)
CachedForTTL ==
    \A r \in Request :
        /\ pc[r] = "query"
        /\ promised[r] # None
        /\ r \in calm
        => Expired(promised[r])

(* An entry stays in the map for its TTL, unless a newer one replaces it.  *)
RecentStaysInMemory ==
    [][\A k \in Key : memory[k] # None /\ ~ Expired(memory[k]) /\ memory'[k] # None
                      => memory'[k] >= memory[k]]_vars

(* The cache implements FreshStatus.                                       *)
FreshStatus == INSTANCE FreshStatus WITH clock <- now, answers <- results

(* Whatever memory, files and restarts do, a client is only ever given an  *)
(* observation of the very server it asked for, at most TTL old when it    *)
(* was found in the cache, or made for the client itself.                  *)
FreshStatusSpec == FreshStatus!Spec

-----------------------------------------------------------------------------
(* The inductive invariant of the theorems (StatusCacheProofs).            *)

(* Whatever is in the map, in a readable file or in a request's hands was  *)
(* observed for that key; what is being set was observed for the request.  *)
EntriesObserved ==
    /\ \A k \in Key : /\ memory[k] # None => <<k, memory[k]>> \in observed
                      /\ file[k] \notin Unreadable => <<k, file[k]>> \in observed
    /\ \A r \in Request :
          /\ pc[r] \notin {"idle", "next"} => key[r] \in Key
          /\ pc[r] \in {"store", "check", "setMemory", "truncate", "write"}
                => entry[r] # None /\ <<key[r], entry[r]>> \in observed
          /\ pc[r] \in {"setMemory", "truncate", "write"} => asked[r] <= entry[r]
          /\ asked[r] <= now
    /\ \A o \in observed : o[2] <= now

(* Two requests on the slow path for one key have disturbed it. *)
CrossingsSeen ==
    /\ \A r, q \in Request :
          r # q /\ pc[r] \in SlowPc /\ pc[q] \in SlowPc /\ key[r] = key[q] => r \notin alone
    /\ \A r \in Request : pc[r] \in SlowPc /\ r \notin alone => key[r] \in disturbed
    /\ \A r \in calm : key[r] \notin disturbed

(* A Set that nobody crosses finds the map and the file as it left them. *)
SetsUncrossed ==
    \A r \in alone : /\ pc[r] \in {"truncate", "write"} => memory[key[r]] = entry[r]
                     /\ pc[r] = "write" => file[key[r]] = Empty

(* The file of an undisturbed key is what the last Set stored, and the map *)
(* holds the same or nothing, but for the Set under way.                   *)
InOrder(k) ==
    /\ (\A r \in Busy(k) : pc[r] # "write") => file[k] = stored[k]
    /\ (\A r \in Busy(k) : pc[r] \notin {"truncate", "write"}) => memory[k] \in {None, stored[k]}
    /\ stored[k] # None => <<k, stored[k]>> \in observed
    /\ \A r \in Busy(k) :
          /\ pc[r] \in {"read", "store"} => memory[k] = None
          /\ pc[r] = "store" => entry[r] = stored[k]
          /\ pc[r] \in {"setMemory", "truncate", "write"} /\ stored[k] # None
                => stored[k] <= entry[r]

UndisturbedInOrder == \A k \in Key \ disturbed : InOrder(k)

(* Nothing older than what a calm request was promised comes its way. *)
PromiseKept(r) ==
    pc[r] \notin {"idle", "next"} /\ promised[r] # None =>
        /\ stored[key[r]] # None /\ promised[r] <= stored[key[r]]
        /\ memory[key[r]] # None => promised[r] <= memory[key[r]]
        /\ pc[r] \in {"store", "check"} => promised[r] <= entry[r]
        /\ pc[r] = "query" => Expired(promised[r])

PromisesKept == \A r \in calm : PromiseKept(r)

IndInv ==
    /\ TypeOK
    /\ EntriesObserved
    /\ CrossingsSeen
    /\ SetsUncrossed
    /\ UndisturbedInOrder
    /\ PromisesKept
=============================================================================
