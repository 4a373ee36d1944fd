-------------------------- MODULE MCStatusRequests --------------------------
(* The status routes for TLC: names with and without a dot, asked for at   *)
(* few ports, and one that another turns into when its colon is replaced.  *)
EXTENDS StatusRequests, TLC

CONSTANTS dotted, bare, joined

BareAtPort == [name |-> bare, port |-> 25566]

TextValues == {[name |-> dotted, port |-> Junk], Plain(bare), BareAtPort, Plain(joined)}

TargetValues == {[name |-> dotted, port |-> 25566]}

UnderscoredValues ==
    [h \in {t \in TextValues \cup TargetValues : t.port # None} |->
        IF h = BareAtPort THEN joined ELSE <<h.name, h.port>>]

Symmetry == Permutations(Request)
=============================================================================
