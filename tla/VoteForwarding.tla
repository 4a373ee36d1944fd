--------------------------- MODULE VoteForwarding ---------------------------
(***************************************************************************)
(* SendVote of internal/handler/vote.go and internal/service/votifier.go:  *)
(* a request goroutine per vote, which forwards the vote to the Votifier   *)
(* plugin of the game server over a connection of its own, announces the   *)
(* outcome through the hub, counts it and replies.                         *)
(*                                                                         *)
(* The plugin is outside the program.  It is modelled by what the code     *)
(* relies on: it greets first, reads one packet, and says "ok" only for a  *)
(* vote it has credited.  It may also be unreachable, of another version,  *)
(* refuse the vote, fall silent, or go away at any moment.                 *)
(***************************************************************************)
EXTENDS Naturals, FiniteSets

CONSTANTS
    Vote,       \* POST /api/vote requests
    Size,       \* lengths of what has to be sent, in bytes
    V1Limit,    \* the longest payload rsa.EncryptPKCS1v15 takes
    HubPanics,  \* whether BroadcastVote may panic (WebSocketHub!WritePanic)
    None        \* nothing yet

ASSUME SizeAssumption == Size \subseteq Nat /\ V1Limit \in Nat

(* uint16 *)
WordSize == 65536
Word == 0..(WordSize - 1)

ASSUME NoneAssumption ==
    /\ None \notin Word
    /\ None \notin {"v1", "v2", "noChallenge", "ok", "error", "malformed", "failed",
                    "invalid", "panic", "token", "dial", "greeting", "encrypt", "send",
                    "lost", "unparsed", "refused", "credited", "sent", "unknown"}
    /\ HubPanics \in BOOLEAN

VARIABLES
    pc,         \* requests: where they are
    method,     \* VoteRequest.VotifierMethod: "v2", or anything else
    token,      \* VoteRequest.VotifierToken: what the plugin expects or not
    size,       \* the length of what this vote has to send
    err,        \* the error SendVote returned, by the step it comes from
    conn,       \* the request's connection to the plugin
    greeting, packet, response,
                \* what is on the wire: the first line, the length field, the answer
    announced,  \* the outcome given to BroadcastVote
    reply,      \* the HTTP response
    votesTotal, \* stats.VotesTotal
    plugin,     \* the plugin's side of each connection
    credits     \* how often the plugin has credited a vote

requestVars == <<pc, method, token, size, err, conn>>
wireVars == <<greeting, packet, response>>
outcomeVars == <<announced, reply, votesTotal>>
pluginVars == <<plugin, credits>>
vars == <<requestVars, wireVars, outcomeVars, pluginVars>>

(* The errors of SendVote, by the step they come from. *)
Error == {"token", "dial", "greeting", "encrypt", "send", "lost", "unparsed", "refused"}

TypeOK ==
    /\ pc \in [Vote -> {"idle", "dial", "greeting", "send", "response", "announce",
                        "announcing", "count", "reply", "replied"}]
    /\ method \in [Vote -> {"v1", "v2"}]
    /\ token \in [Vote -> {"good", "wrong", "malformed"}]
    /\ size \in [Vote -> Size \cup {0}]
    /\ err \in [Vote -> Error \cup {None}]
    /\ conn \in [Vote -> {"none", "open", "closed"}]
    /\ greeting \in [Vote -> {"v1", "v2", "noChallenge", None}]
    /\ packet \in [Vote -> Nat \cup {None}]
    /\ \A v \in Vote : packet[v] # None => packet[v] \in Word
    /\ response \in [Vote -> {"ok", "error", "malformed", None}]
    /\ announced \in [Vote -> {"ok", "failed", None}]
    /\ reply \in [Vote -> {"ok", "failed", "invalid", "panic", None}]
    /\ votesTotal \in Nat
    /\ plugin \in [Vote -> {"none", "accepted", "greeted", "credited", "refused",
                            "answered", "gone"}]
    /\ credits \in [Vote -> Nat]

Init ==
    /\ pc = [v \in Vote |-> "idle"]
    /\ method = [v \in Vote |-> "v2"]
    /\ token = [v \in Vote |-> "good"]
    /\ size = [v \in Vote |-> 0]
    /\ err = [v \in Vote |-> None]
    /\ conn = [v \in Vote |-> "none"]
    /\ greeting = [v \in Vote |-> None]
    /\ packet = [v \in Vote |-> None]
    /\ response = [v \in Vote |-> None]
    /\ announced = [v \in Vote |-> None]
    /\ reply = [v \in Vote |-> None]
    /\ votesTotal = 0
    /\ plugin = [v \in Vote |-> "none"]
    /\ credits = [v \in Vote |-> 0]

-----------------------------------------------------------------------------
(* SendVote of the handler up to SendVote of the service.                  *)

(* No JSON, no username, no server or no token: 400. *)
RejectInvalid(v) ==
    /\ pc[v] = "idle"
    /\ reply' = [reply EXCEPT ![v] = "invalid"]
    /\ pc' = [pc EXCEPT ![v] = "replied"]
    /\ UNCHANGED <<method, token, size, err, conn, wireVars, announced, votesTotal, pluginVars>>

(* A method that is not "v2" is v1, which first has to parse the key. *)
Accept(v) ==
    /\ pc[v] = "idle"
    /\ \E m \in {"v1", "v2"}, t \in {"good", "wrong", "malformed"}, n \in Size :
          /\ method' = [method EXCEPT ![v] = m]
          /\ token' = [token EXCEPT ![v] = t]
          /\ size' = [size EXCEPT ![v] = n]
          /\ IF m = "v1" /\ t = "malformed"
             THEN /\ err' = [err EXCEPT ![v] = "token"]
                  /\ pc' = [pc EXCEPT ![v] = "announce"]
             ELSE /\ pc' = [pc EXCEPT ![v] = "dial"]
                  /\ UNCHANGED err
    /\ UNCHANGED <<conn, wireVars, outcomeVars, pluginVars>>

-----------------------------------------------------------------------------
(* sendV1 and sendV2: dial, read a line, write, and for v2 read the answer.*)

(* The service returns; the deferred conn.Close runs. *)
Return(v, e) ==
    /\ err' = [err EXCEPT ![v] = e]
    /\ conn' = [conn EXCEPT ![v] = "closed"]
    /\ pc' = [pc EXCEPT ![v] = "announce"]

Dial(v) ==
    /\ pc[v] = "dial"
    /\ conn' = [conn EXCEPT ![v] = "open"]
    /\ plugin' = [plugin EXCEPT ![v] = "accepted"]
    /\ greeting' = [greeting EXCEPT ![v] = None]
    /\ packet' = [packet EXCEPT ![v] = None]
    /\ response' = [response EXCEPT ![v] = None]
    /\ pc' = [pc EXCEPT ![v] = "greeting"]
    /\ UNCHANGED <<method, token, size, err, outcomeVars, credits>>

(* Refused, or net.DialTimeout is over. *)
DialFails(v) ==
    /\ pc[v] = "dial"
    /\ err' = [err EXCEPT ![v] = "dial"]
    /\ pc' = [pc EXCEPT ![v] = "announce"]
    /\ UNCHANGED <<method, token, size, conn, wireVars, outcomeVars, pluginVars>>

(* v1 discards the line, v2 wants a challenge in it. *)
GreetingFits(v) == method[v] = "v1" \/ greeting[v] = "v2"

ReadGreeting(v) ==
    /\ pc[v] = "greeting"
    /\ greeting[v] # None
    /\ GreetingFits(v)
    /\ pc' = [pc EXCEPT ![v] = "send"]
    /\ UNCHANGED <<method, token, size, err, conn, wireVars, outcomeVars, pluginVars>>

ReadGreetingUnfit(v) ==
    /\ pc[v] = "greeting"
    /\ greeting[v] # None
    /\ ~ GreetingFits(v)
    /\ Return(v, "greeting")
    /\ UNCHANGED <<method, token, size, wireVars, outcomeVars, pluginVars>>

(* Mutant: the length of the packet is not cut to 16 bits. *)
LengthFieldWide(n) == n

(* uint16(len(jsonPacket)) *)
LengthField(n) == n % WordSize

(* RSA takes V1Limit bytes at most. *)
EncryptFails(v) ==
    /\ pc[v] = "send"
    /\ method[v] = "v1"
    /\ size[v] > V1Limit
    /\ Return(v, "encrypt")
    /\ UNCHANGED <<method, token, size, wireVars, outcomeVars, pluginVars>>

CanSend(v) == pc[v] = "send" /\ (method[v] = "v1" => size[v] <= V1Limit)

(* A v1 vote is done when it is written: nothing comes back. *)
SendV1(v) ==
    /\ CanSend(v)
    /\ method[v] = "v1"
    /\ packet' = [packet EXCEPT ![v] = LengthField(size[v])]
    /\ Return(v, None)
    /\ UNCHANGED <<method, token, size, greeting, response, outcomeVars, pluginVars>>

SendV2(v) ==
    /\ CanSend(v)
    /\ method[v] = "v2"
    /\ packet' = [packet EXCEPT ![v] = LengthField(size[v])]
    /\ pc' = [pc EXCEPT ![v] = "response"]
    /\ UNCHANGED <<method, token, size, err, conn, greeting, response, outcomeVars, pluginVars>>

(* Not all of the packet could be written. *)
SendFails(v) ==
    /\ CanSend(v)
    /\ plugin[v] = "gone"
    /\ Return(v, "send")
    /\ UNCHANGED <<method, token, size, wireVars, outcomeVars, pluginVars>>

(* Mutants: the status is not looked at, the error of json.Unmarshal is    *)
(* ignored, a vote is sent again after a failed read, and only the read of *)
(* the greeting notices that the connection has ended.                     *)
AnsweredAny == [ok |-> None, error |-> None, malformed |-> "unparsed"]
AnsweredUnchecked == [ok |-> None, error |-> "refused", malformed |-> "refused"]

ReadFailsRetries(v) ==
    /\ pc[v] \in {"greeting", "response"}
    /\ plugin[v] = "gone"
    /\ pc' = [pc EXCEPT ![v] = "dial"]
    /\ UNCHANGED <<method, token, size, err, conn, wireVars, outcomeVars, pluginVars>>

ReadFailsOnGreeting(v) ==
    /\ pc[v] = "greeting"
    /\ plugin[v] = "gone"
    /\ Return(v, "greeting")
    /\ UNCHANGED <<method, token, size, wireVars, outcomeVars, pluginVars>>

(* What SendVote makes of the line that answers a v2 vote. *)
Answered == [ok |-> None, error |-> "refused", malformed |-> "unparsed"]

ReadResponse(v) ==
    /\ pc[v] = "response"
    /\ response[v] # None
    /\ Return(v, Answered[response[v]])
    /\ UNCHANGED <<method, token, size, wireVars, outcomeVars, pluginVars>>

(* The connection ends before the line does. *)
ReadFails(v) ==
    /\ pc[v] \in {"greeting", "response"}
    /\ plugin[v] = "gone"
    /\ Return(v, IF pc[v] = "greeting" THEN "greeting" ELSE "lost")
    /\ UNCHANGED <<method, token, size, wireVars, outcomeVars, pluginVars>>

-----------------------------------------------------------------------------
(* SendVote of the handler after SendVote of the service.                  *)

Outcome(v) == IF err[v] = None THEN "ok" ELSE "failed"

(* BroadcastVote is called, with success or without. *)
Announce(v) ==
    /\ pc[v] = "announce"
    /\ announced' = [announced EXCEPT ![v] = Outcome(v)]
    /\ pc' = [pc EXCEPT ![v] = "announcing"]
    /\ UNCHANGED <<method, token, size, err, conn, wireVars, reply, votesTotal, pluginVars>>

(* Mutant: failures are counted too. *)
AnnounceReturnsToCount(v) ==
    /\ pc[v] = "announcing"
    /\ pc' = [pc EXCEPT ![v] = "count"]
    /\ UNCHANGED <<method, token, size, err, conn, wireVars, outcomeVars, pluginVars>>

AnnounceReturns(v) ==
    /\ pc[v] = "announcing"
    /\ pc' = [pc EXCEPT ![v] = IF err[v] = None THEN "count" ELSE "reply"]
    /\ UNCHANGED <<method, token, size, err, conn, wireVars, outcomeVars, pluginVars>>

(* The recover middleware replies 500; the vote is not counted. *)
AnnouncePanics(v) ==
    /\ HubPanics
    /\ pc[v] = "announcing"
    /\ reply' = [reply EXCEPT ![v] = "panic"]
    /\ pc' = [pc EXCEPT ![v] = "replied"]
    /\ UNCHANGED <<method, token, size, err, conn, wireVars, announced, votesTotal, pluginVars>>

(* stats.IncrementVotes *)
Count(v) ==
    /\ pc[v] = "count"
    /\ votesTotal' = votesTotal + 1
    /\ pc' = [pc EXCEPT ![v] = "reply"]
    /\ UNCHANGED <<method, token, size, err, conn, wireVars, announced, reply, pluginVars>>

Reply(v) ==
    /\ pc[v] = "reply"
    /\ reply' = [reply EXCEPT ![v] = Outcome(v)]
    /\ pc' = [pc EXCEPT ![v] = "replied"]
    /\ UNCHANGED <<method, token, size, err, conn, wireVars, announced, votesTotal, pluginVars>>

-----------------------------------------------------------------------------
(* The plugin.                                                             *)

PluginGreets(v) ==
    /\ plugin[v] = "accepted"
    /\ \E line \in {"v1", "v2", "noChallenge"} : greeting' = [greeting EXCEPT ![v] = line]
    /\ plugin' = [plugin EXCEPT ![v] = "greeted"]
    /\ UNCHANGED <<requestVars, packet, response, outcomeVars, credits>>

(* The packet is all there and made with the key or token of the plugin; a *)
(* plugin that greets with "VOTIFIER 2" reads v1 packets as well.          *)
Genuine(v) ==
    /\ packet[v] = size[v]
    /\ token[v] = "good"
    /\ method[v] = "v2" => greeting[v] = "v2"

PluginCredits(v) ==
    /\ plugin[v] = "greeted"
    /\ packet[v] # None
    /\ Genuine(v)
    /\ credits' = [credits EXCEPT ![v] = @ + 1]
    /\ plugin' = [plugin EXCEPT ![v] = "credited"]
    /\ UNCHANGED <<requestVars, wireVars, outcomeVars>>

PluginRefuses(v) ==
    /\ plugin[v] = "greeted"
    /\ packet[v] # None
    /\ plugin' = [plugin EXCEPT ![v] = "refused"]
    /\ UNCHANGED <<requestVars, wireVars, outcomeVars, credits>>

(* Two promises of the plugin are assumed: it says "ok" only of a vote that*)
(* it has credited, and never any other status of one that it has.  An     *)
(* answer that cannot be read, or none at all, may follow in either case.  *)
PluginAnswers(v) ==
    /\ plugin[v] \in {"credited", "refused"}
    /\ method[v] = "v2"
    /\ \E line \in {"malformed", IF plugin[v] = "credited" THEN "ok" ELSE "error"} :
          response' = [response EXCEPT ![v] = line]
    /\ plugin' = [plugin EXCEPT ![v] = "answered"]
    /\ UNCHANGED <<requestVars, greeting, packet, outcomeVars, credits>>

PluginGoes(v) ==
    /\ plugin[v] \notin {"none", "gone"}
    /\ plugin' = [plugin EXCEPT ![v] = "gone"]
    /\ UNCHANGED <<requestVars, wireVars, outcomeVars, credits>>

-----------------------------------------------------------------------------
SendVote(v) ==
    \/ Dial(v) \/ DialFails(v)
    \/ ReadGreeting(v) \/ ReadGreetingUnfit(v) \/ ReadFails(v)
    \/ EncryptFails(v) \/ SendV1(v) \/ SendV2(v) \/ SendFails(v)
    \/ ReadResponse(v)

Finish(v) == Announce(v) \/ AnnounceReturns(v) \/ AnnouncePanics(v) \/ Count(v) \/ Reply(v)

Plugin(v) ==
    \/ PluginGreets(v) \/ PluginCredits(v) \/ PluginRefuses(v)
    \/ PluginAnswers(v) \/ PluginGoes(v)

Next == \E v \in Vote : RejectInvalid(v) \/ Accept(v) \/ SendVote(v) \/ Finish(v) \/ Plugin(v)

Spec == Init /\ [][Next]_vars

(* A request goroutine runs whenever it can; that the broadcast returns is *)
(* WebSocketHub!BroadcastsEnd.  Nothing is fair about the plugin ...       *)
FairSpec == Spec /\ \A v \in Vote : WF_vars(SendVote(v)) /\ WF_vars(Finish(v))

(* ... unless it is one that always goes on: it greets, answers or closes. *)
ResponsiveSpec == FairSpec /\ \A v \in Vote : WF_vars(Plugin(v))

-----------------------------------------------------------------------------
(* Safety.                                                                 *)

(* Told that a v2 vote was sent, a voter has it credited, whatever plugin  *)
(* answered and wherever the connection broke.                             *)
OkMeansCredited ==
    \A v \in Vote : method[v] = "v2" /\ "ok" \in {announced[v], reply[v]} => credits[v] > 0

(* One request is credited at most once, also when it is reported failed.  *)
CreditedOnce == \A v \in Vote : credits[v] <= 1

(* Of the errors a voter may be shown, only "failed to read response" and  *)
(* "failed to parse response" can hide a vote that has been credited: after*)
(* any other the vote has not been credited and never will be, so that     *)
(* submitting it again is safe.                                            *)
FailedMeansNotCredited ==
    \A v \in Vote : err[v] \notin {None, "lost", "unparsed"} => credits[v] = 0

(* Subscribers, submitter and the counter are told the same: votes_total   *)
(* is the number of votes announced as sent whose broadcast has returned.  *)
ToldTheSame ==
    /\ \A v \in Vote : reply[v] \in {"ok", "failed"} => reply[v] = announced[v]
    /\ votesTotal = Cardinality({v \in Vote : /\ announced[v] = "ok"
                                              /\ pc[v] \in {"reply", "replied"}
                                              /\ reply[v] # "panic"})

-----------------------------------------------------------------------------
(* What the errors of SendVote say of a vote, and the specification without*)
(* connections that this one implements.                                   *)

StageOf == [idle |-> "idle", dial |-> "pending", greeting |-> "pending", send |-> "pending",
            response |-> "pending", announce |-> "decided", announcing |-> "announcing",
            count |-> "count", reply |-> "reply", replied |-> "replied"]

Undecided(v) == pc[v] \in {"idle", "dial", "greeting", "send", "response"} \/ reply[v] = "invalid"

VerdictOf(v) ==
    CASE Undecided(v) -> None
      [] ~ Undecided(v) /\ err[v] = None -> IF method[v] = "v1" THEN "sent" ELSE "credited"
      [] ~ Undecided(v) /\ err[v] \in {"lost", "unparsed"} -> "unknown"
      [] OTHER -> "refused"

VoteVerdict == INSTANCE VoteVerdict WITH
    stage <- [v \in Vote |-> StageOf[pc[v]]],
    verdict <- [v \in Vote |-> VerdictOf(v)],
    credited <- {v \in Vote : credits[v] > 0}

(* Both protocols, against any plugin, come to a verdict that is true of   *)
(* the vote from then on, and announce, count and reply just that verdict. *)
VerdictSpec == VoteVerdict!Spec

-----------------------------------------------------------------------------
(* Liveness.                                                               *)

(* Every vote that is accepted gets a reply. *)
VotesEnd == \A v \in Vote : pc[v] # "idle" ~> pc[v] = "replied"
=============================================================================
