-------------------------- MODULE MCServerProcess --------------------------
(* The life of the process for TLC: a vote that never returns or a slow    *)
(* health check among requests for every route.                            *)
EXTENDS ServerProcess

CONSTANTS r1, r2, r3

AsksValue ==
    [r \in Request |-> CASE r = r1 -> {"vote", "health"}
                         [] r = r2 -> {"vote", "health", "metrics", "options"}
                         [] OTHER -> {"health", "metrics", "socket"}]
=============================================================================
