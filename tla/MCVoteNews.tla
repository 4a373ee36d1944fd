----------------------------- MODULE MCVoteNews -----------------------------
(* Two votes for one game server, one of them without its port.            *)
EXTENDS VoteNews, TLC

CONSTANTS h, v1, v2, c1, c2

MCPort == {DefaultPort}
MCAddress == (v1 :> <<h, 0>>) @@ (v2 :> <<h, DefaultPort>>)

Symmetry == Permutations(Client)
=============================================================================
