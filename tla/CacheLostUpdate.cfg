SPECIFICATION Spec
CONSTANTS
    k1 = k1
    r1 = r1
    r2 = r2
    Key = {k1}
    Request = {r1, r2}
    TTL = 1
    MaxTime = 3
    None = None
    Empty = Empty
    Garbage = Garbage
    Restarts = "atRest"
    Prompt = TRUE
    DiskFails = FALSE
SYMMETRY Symmetry
PROPERTIES RecentStaysInMemory
CHECK_DEADLOCK FALSE
