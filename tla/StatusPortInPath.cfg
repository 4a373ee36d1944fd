SPECIFICATION Spec
CONSTANTS
    r1 = r1
    r2 = r2
    dotted = dotted
    bare = bare
    joined = joined
    Request = {r1, r2}
    Text <- TextValues
    PathPort = {None, 25566, 91101}
    Dotted = {dotted}
    Target <- TargetValues
    Underscored <- UnderscoredValues
    MaxBulk = 2
    DiskFails = TRUE
    None = None
    Junk = Junk
    Torn = Torn
INVARIANTS PortInPathAnswered
CHECK_DEADLOCK FALSE
