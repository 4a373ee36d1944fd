--------------------------- MODULE MCStatusCache ---------------------------
(* The status cache for TLC: keys and requests are interchangeable.        *)
EXTENDS StatusCache, TLC

Symmetry == Permutations(Key) \cup Permutations(Request)
=============================================================================
