---------------------------- MODULE FreshStatus ----------------------------
(***************************************************************************)
(* What the status endpoints promise, without memory, files or restarts:   *)
(* every status a client is given was observed by a query of that very     *)
(* server, at most TTL before the answer was decided, or after the client  *)
(* asked.  StatusCache implements it (StatusCache!FreshStatusSpec).        *)
(***************************************************************************)
EXTENDS Naturals

CONSTANTS Key, Request, TTL, MaxTime

VARIABLES clock,    \* the time
          observed, \* the <<server, time>> pairs of all the queries so far
          asked,    \* when a request's client asked
          answers   \* the <<server, time>> pairs in a request's response

vars == <<clock, observed, asked, answers>>

Init == /\ clock = 0
        /\ observed = {}
        /\ asked = [r \in Request |-> 0]
        /\ answers = [r \in Request |-> {}]

Tick == /\ clock < MaxTime
        /\ clock' = clock + 1
        /\ UNCHANGED <<observed, asked, answers>>

Ask(r) == /\ asked' = [asked EXCEPT ![r] = clock]
          /\ answers' = [answers EXCEPT ![r] = {}]
          /\ UNCHANGED <<clock, observed>>

Observe(k) == /\ observed' = observed \cup {<<k, clock>>}
              /\ UNCHANGED <<clock, asked, answers>>

Answer(r, k) ==
    /\ \E t \in 0..clock :
          /\ <<k, t>> \in observed
          /\ clock - t <= TTL \/ asked[r] <= t
          /\ answers' = [answers EXCEPT ![r] = @ \cup {<<k, t>>}]
    /\ UNCHANGED <<clock, observed, asked>>

(* The program restarts and every response under way is lost. *)
LoseAll == /\ asked' = [r \in Request |-> 0]
           /\ answers' = [r \in Request |-> {}]
           /\ UNCHANGED <<clock, observed>>

Next == \/ Tick \/ LoseAll
        \/ \E r \in Request : Ask(r) \/ \E k \in Key : Answer(r, k)
        \/ \E k \in Key : Observe(k)

Spec == Init /\ [][Next]_vars
=============================================================================
