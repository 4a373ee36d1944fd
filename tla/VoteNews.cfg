SPECIFICATION Spec
CONSTANTS
    h = h
    v1 = v1
    v2 = v2
    c1 = c1
    c2 = c2
    Vote = {v1, v2}
    Client = {c1, c2}
    Host = {h}
    Port <- MCPort
    Address <- MCAddress
    None = None
INVARIANTS NewsIsTrue NewsBeforeReply
PROPERTIES NewsInOrder
SYMMETRY Symmetry
CHECK_DEADLOCK FALSE
