--------------------------- MODULE MCWebSocketHub ---------------------------
(* The hub for TLC.  Clients and requests are interchangeable wherever the *)
(* configuration gives them all the same environment and checks no         *)
(* liveness property.                                                      *)
EXTENDS WebSocketHub, TLC

Symmetry == Permutations(Client) \cup Permutations(Request)
=============================================================================
