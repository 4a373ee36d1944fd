-------------------------- MODULE MCVoteForwarding --------------------------
(* Votes for TLC: they are interchangeable where no liveness is checked.   *)
EXTENDS VoteForwarding, TLC

Symmetry == Permutations(Vote)
=============================================================================
