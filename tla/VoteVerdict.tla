----------------------------- MODULE VoteVerdict -----------------------------
(***************************************************************************)
(* What POST /api/vote promises, without connections, protocols or errors: *)
(* a plugin credits a vote at most once, the request comes to a verdict    *)
(* about it, and announces, counts and replies that verdict.               *)
(* VoteForwarding implements this module (VoteForwarding!VerdictSpec), and *)
(* VoteNews uses it in its place.                                          *)
(***************************************************************************)
EXTENDS Naturals

CONSTANTS Vote, None

VARIABLES stage,      \* how far each request is
          verdict,    \* what is known of a vote when the service has returned
          credited,   \* the votes that the plugin has credited
          announced,  \* the outcome given to BroadcastVote
          reply,      \* the HTTP response
          votesTotal  \* stats.VotesTotal

vars == <<stage, verdict, credited, announced, reply, votesTotal>>

(* A vote the plugin has confirmed; a v1 vote, which nobody confirms; one  *)
(* that has not been credited and never will be; one nothing is known of.  *)
Verdict == {"credited", "sent", "refused", "unknown"}

TypeOK == /\ stage \in [Vote -> {"idle", "pending", "decided", "announcing",
                                 "count", "reply", "replied"}]
          /\ verdict \in [Vote -> Verdict \cup {None}]
          /\ credited \subseteq Vote
          /\ announced \in [Vote -> {"ok", "failed", None}]
          /\ reply \in [Vote -> {"ok", "failed", "invalid", "panic", None}]
          /\ votesTotal \in Nat

Init == /\ stage = [v \in Vote |-> "idle"]
        /\ verdict = [v \in Vote |-> None]
        /\ credited = {}
        /\ announced = [v \in Vote |-> None]
        /\ reply = [v \in Vote |-> None]
        /\ votesTotal = 0

GoTo(v, s) == stage' = [stage EXCEPT ![v] = s]

Answer(v, r) == reply' = [reply EXCEPT ![v] = r] /\ GoTo(v, "replied")

Outcome(v) == IF verdict[v] \in {"credited", "sent"} THEN "ok" ELSE "failed"

Reject(v) ==
    /\ stage[v] = "idle"
    /\ Answer(v, "invalid")
    /\ UNCHANGED <<verdict, credited, announced, votesTotal>>

Submit(v) ==
    /\ stage[v] = "idle"
    /\ GoTo(v, "pending")
    /\ UNCHANGED <<verdict, credited, announced, reply, votesTotal>>

(* A v1 vote may be credited after its request has been replied to. *)
Credit(v) ==
    /\ stage[v] = "pending" \/ verdict[v] = "sent"
    /\ v \notin credited
    /\ credited' = credited \cup {v}
    /\ UNCHANGED <<stage, verdict, announced, reply, votesTotal>>

Decide(v, d) ==
    /\ stage[v] \in {"idle", "pending"}
    /\ d = "credited" => v \in credited
    /\ d = "refused" => v \notin credited
    /\ verdict' = [verdict EXCEPT ![v] = d]
    /\ GoTo(v, "decided")
    /\ UNCHANGED <<credited, announced, reply, votesTotal>>

Announce(v) ==
    /\ stage[v] = "decided"
    /\ announced' = [announced EXCEPT ![v] = Outcome(v)]
    /\ GoTo(v, "announcing")
    /\ UNCHANGED <<verdict, credited, reply, votesTotal>>

AnnounceReturns(v) ==
    /\ stage[v] = "announcing"
    /\ GoTo(v, IF Outcome(v) = "ok" THEN "count" ELSE "reply")
    /\ UNCHANGED <<verdict, credited, announced, reply, votesTotal>>

AnnouncePanics(v) ==
    /\ stage[v] = "announcing"
    /\ Answer(v, "panic")
    /\ UNCHANGED <<verdict, credited, announced, votesTotal>>

Count(v) ==
    /\ stage[v] = "count"
    /\ votesTotal' = votesTotal + 1
    /\ GoTo(v, "reply")
    /\ UNCHANGED <<verdict, credited, announced, reply>>

Reply(v) ==
    /\ stage[v] = "reply"
    /\ Answer(v, Outcome(v))
    /\ UNCHANGED <<verdict, credited, announced, votesTotal>>

Next == \E v \in Vote :
    \/ Reject(v) \/ Submit(v) \/ Credit(v) \/ \E d \in Verdict : Decide(v, d)
    \/ Announce(v) \/ AnnounceReturns(v) \/ AnnouncePanics(v) \/ Count(v) \/ Reply(v)

Spec == Init /\ [][Next]_vars
=============================================================================
