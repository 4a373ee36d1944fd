------------------------------- MODULE PubSub -------------------------------
(***************************************************************************)
(* What the WebSocket hub promises, without goroutines, locks or channels: *)
(* a subscription table, and broadcasts that are addressed to exactly the  *)
(* clients that were subscribed at one instant, each of which gets at most *)
(* one copy, and that return only when nobody is left to be written to.    *)
(* WebSocketHub implements this module (WebSocketHub!PubSubSpec), and      *)
(* VoteNews uses it in place of the hub.                                   *)
(***************************************************************************)
CONSTANTS Client, Server, Request

VARIABLES subscribers, \* per server, the clients in its subscriber list
          addressees,  \* per broadcast, the clients it still has to write to
          delivered,   \* the <<client, broadcast>> pairs written successfully
          broadcast    \* how far each broadcast is

vars == <<subscribers, addressees, delivered, broadcast>>

TypeOK == /\ subscribers \in [Server -> SUBSET Client]
          /\ addressees \in [Request -> SUBSET Client]
          /\ delivered \subseteq Client \X Request
          /\ broadcast \in [Request -> {"idle", "running", "returned", "panicked"}]

Init == /\ subscribers = [s \in Server |-> {}]
        /\ addressees = [r \in Request |-> {}]
        /\ delivered = {}
        /\ broadcast = [r \in Request |-> "idle"]

Subscribe(c, s) ==
    /\ subscribers' = [subscribers EXCEPT ![s] = @ \cup {c}]
    /\ UNCHANGED <<addressees, delivered, broadcast>>

Unsubscribe(c, s) ==
    /\ subscribers' = [subscribers EXCEPT ![s] = @ \ {c}]
    /\ UNCHANGED <<addressees, delivered, broadcast>>

(* A broadcast fixes its addressees once; without any it is over. *)
Publish(r, s) ==
    /\ broadcast[r] = "idle"
    /\ broadcast' = [broadcast EXCEPT ![r] =
                        IF subscribers[s] = {} THEN "returned" ELSE "running"]
    /\ addressees' = [addressees EXCEPT ![r] = subscribers[s]]
    /\ UNCHANGED <<subscribers, delivered>>

Deliver(r, c) ==
    /\ broadcast[r] = "running"
    /\ c \in addressees[r]
    /\ addressees' = [addressees EXCEPT ![r] = @ \ {c}]
    /\ delivered' = delivered \cup {<<c, r>>}
    /\ UNCHANGED <<subscribers, broadcast>>

(* The connection of an addressee may fail before the write. *)
Drop(r, c) ==
    /\ broadcast[r] = "running"
    /\ c \in addressees[r]
    /\ addressees' = [addressees EXCEPT ![r] = @ \ {c}]
    /\ UNCHANGED <<subscribers, delivered, broadcast>>

Return(r) ==
    /\ broadcast[r] = "running"
    /\ addressees[r] = {}
    /\ broadcast' = [broadcast EXCEPT ![r] = "returned"]
    /\ UNCHANGED <<subscribers, addressees, delivered>>

(* A write may panic; whoever is left is not written to any more. *)
Panic(r) ==
    /\ broadcast[r] = "running"
    /\ addressees[r] # {}
    /\ broadcast' = [broadcast EXCEPT ![r] = "panicked"]
    /\ UNCHANGED <<subscribers, addressees, delivered>>

Next == \/ \E c \in Client, s \in Server : Subscribe(c, s) \/ Unsubscribe(c, s)
        \/ \E r \in Request, s \in Server : Publish(r, s)
        \/ \E r \in Request, c \in Client : Deliver(r, c) \/ Drop(r, c)
        \/ \E r \in Request : Return(r) \/ Panic(r)

Spec == Init /\ [][Next]_vars
=============================================================================
