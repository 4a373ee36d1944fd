------------------------------ MODULE VoteNews ------------------------------
(***************************************************************************)
(* The vote handler and the WebSocket hub together: SendVote of            *)
(* internal/handler/vote.go calls BroadcastVote of internal/websocket/     *)
(* hub.go in its own goroutine and goes on when it returns.  The votes are *)
(* those of VoteVerdict, which VoteForwarding implements, and the hub is   *)
(* PubSub, which WebSocketHub implements: what holds here needs nothing    *)
(* else of either.  A step here is a step of one of them, or of both.      *)
(***************************************************************************)
EXTENDS Naturals, FiniteSets

CONSTANTS
    Vote,     \* POST /api/vote requests, and the broadcast of each
    Client,   \* WebSocket clients
    Host,     \* VoteRequest.ServerIP
    Port,     \* port numbers
    Address,  \* per request, its ServerIP and ServerPort, 0 for one that is not given
    None      \* nothing yet; no port

(* The port of a game server whose port is not given. *)
DefaultPort == 25565

ASSUME AddressAssumption ==
    /\ DefaultPort \in Port
    /\ Address \in [Vote -> Host \X (Port \cup {0})]

ASSUME NoneAssumption ==
    /\ None \notin {"ok", "failed", "invalid", "panic", "credited", "sent", "refused", "unknown"}
    /\ None \notin Port

VARIABLES
    stage, verdict, credited, announced, reply, votesTotal, \* of VoteVerdict
    subscribers, addressees, delivered, broadcast,          \* of PubSub
    due,    \* history: subscribers of the game server that a vote has to reach
    before  \* history: the votes replied to when a request came

voteVars == <<stage, verdict, credited, announced, reply, votesTotal>>
hubVars == <<subscribers, addressees, delivered, broadcast>>
vars == <<voteVars, hubVars, due, before>>

(* Subscription keys are the clients' own texts (websocket.go:63): "ip:port"*)
(* as task.md:323 has it, or one without a port, which is a key like any   *)
(* other and stands for all that no vote is announced under.               *)
Server == Host \X (Port \cup {None})

Votes == INSTANCE VoteVerdict
Hub == INSTANCE PubSub WITH Request <- Vote

TypeOK ==
    /\ Votes!TypeOK
    /\ Hub!TypeOK
    /\ due \in [Vote -> SUBSET Client]
    /\ before \in [Vote -> SUBSET Vote]

Init ==
    /\ Votes!Init
    /\ Hub!Init
    /\ due = [v \in Vote |-> {}]
    /\ before = [v \in Vote |-> {}]

-----------------------------------------------------------------------------
(* Mutant: no port is put behind an ip that came without one. *)
ServerKeyAsGiven(v) == [Address[v] EXCEPT ![2] = IF @ = 0 THEN None ELSE @]

(* serverKey *)
ServerKey(v) == [Address[v] EXCEPT ![2] = IF @ = 0 THEN DefaultPort ELSE @]

(* A subscription to the game server of a vote, in the documented form.    *)
(* Whoever has written the ip alone has subscribed to nothing.             *)
Concerns(s, v) ==
    /\ s[1] = Address[v][1]
    /\ s[2] \in IF Address[v][2] = 0 THEN {DefaultPort} ELSE {Address[v][2]}

(* What the handler and the plugin do without the hub. *)
Handle(v) ==
    /\ \/ Votes!Reject(v) \/ Votes!Submit(v) \/ Votes!Credit(v)
       \/ \E d \in Votes!Verdict : Votes!Decide(v, d)
       \/ Votes!Count(v) \/ Votes!Reply(v)
    /\ before' = [before EXCEPT ![v] =
                     IF stage[v] = "idle" THEN {u \in Vote : stage[u] = "replied"} ELSE @]
    /\ UNCHANGED <<hubVars, due>>

(* BroadcastVote is called with the outcome ... *)
Announce(v) ==
    /\ Votes!Announce(v)
    /\ due' = [due EXCEPT ![v] = UNION {subscribers[s] : s \in {t \in Server : Concerns(t, v)}}]
    /\ UNCHANGED <<hubVars, before>>

(* Mutant: the broadcast starts before the plugin has been asked. *)
PublishEarly(v) ==
    /\ stage[v] \in {"pending", "decided", "announcing"}
    /\ Hub!Publish(v, ServerKey(v))
    /\ UNCHANGED <<voteVars, due, before>>

(* ... goes to the subscribers of serverKey ... *)
Publish(v) ==
    /\ stage[v] = "announcing"
    /\ Hub!Publish(v, ServerKey(v))
    /\ UNCHANGED <<voteVars, due, before>>

Deliver(v, c) ==
    /\ Hub!Deliver(v, c)
    /\ UNCHANGED <<voteVars, due, before>>

(* Whose connection has failed is not owed anything. *)
Drop(v, c) ==
    /\ Hub!Drop(v, c)
    /\ due' = [due EXCEPT ![v] = @ \ {c}]
    /\ UNCHANGED <<voteVars, before>>

BroadcastEnds(v) ==
    /\ Hub!Return(v) \/ Hub!Panic(v)
    /\ UNCHANGED <<voteVars, due, before>>

(* Mutant: go h.hub.BroadcastVote(...) *)
AnnounceInBackground(v) ==
    /\ Votes!AnnounceReturns(v)
    /\ UNCHANGED <<hubVars, due, before>>

(* ... and returns, or panics, to the handler. *)
AnnounceReturns(v) ==
    /\ broadcast[v] = "returned"
    /\ Votes!AnnounceReturns(v)
    /\ UNCHANGED <<hubVars, due, before>>

AnnouncePanics(v) ==
    /\ broadcast[v] = "panicked"
    /\ Votes!AnnouncePanics(v)
    /\ UNCHANGED <<hubVars, due, before>>

Subscribe(c, s) ==
    /\ Hub!Subscribe(c, s)
    /\ UNCHANGED <<voteVars, due, before>>

(* Who leaves before the hub has read its list is not owed anything. *)
Unsubscribe(c, s) ==
    /\ Hub!Unsubscribe(c, s)
    /\ due' = [v \in Vote |-> IF broadcast[v] = "idle" /\ Concerns(s, v)
                              THEN due[v] \ {c} ELSE due[v]]
    /\ UNCHANGED <<voteVars, before>>

Next ==
    \/ \E v \in Vote :
          \/ Handle(v) \/ Announce(v) \/ Publish(v) \/ BroadcastEnds(v)
          \/ AnnounceReturns(v) \/ AnnouncePanics(v)
          \/ \E c \in Client : Deliver(v, c) \/ Drop(v, c)
    \/ \E c \in Client, s \in Server : Subscribe(c, s) \/ Unsubscribe(c, s)

Spec == Init /\ [][Next]_vars

-----------------------------------------------------------------------------
(* A client that is sent the news of a vote is told the truth about it, for*)
(* good: success is a credited vote or one nobody confirms, failure is one *)
(* that never is credited or of which nothing is known, and the submitter  *)
(* is never told otherwise.                                                *)
NewsIsTrue ==
    \A c \in Client, v \in Vote : <<c, v>> \in delivered =>
        /\ announced[v] \in {"ok", "failed"}
        /\ announced[v] = "ok" => v \in credited \/ verdict[v] = "sent"
        /\ announced[v] = "failed" => v \notin credited \/ verdict[v] = "unknown"
        /\ reply[v] \in {announced[v], "panic", None}

(* Whoever has subscribed to "ip:port" of the game server when its vote    *)
(* comes to an outcome, good or bad, and stays, has the news before the    *)
(* submitter has the reply, also when the vote came without the port.      *)
(* This is what vote.go:67-88 does; the diagram of task.md:235-247 has     *)
(* Return 200 before the broadcast, and no broadcast beside Return 500.    *)
NewsBeforeReply ==
    \A v \in Vote : reply[v] \in {"ok", "failed"} =>
        \A c \in due[v] : <<c, v>> \in delivered

(* The news of a vote submitted after the reply to another one never come  *)
(* before the news of that one.                                            *)
NewsInOrder ==
    [][\A c \in Client, w \in Vote : \A v \in before[w] :
          <<c, v>> \in delivered' \ delivered => <<c, w>> \notin delivered]_vars
=============================================================================
