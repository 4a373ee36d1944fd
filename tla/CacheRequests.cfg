SPECIFICATION Spec
CONSTANTS
    k1 = k1
    k2 = k2
    r1 = r1
    r2 = r2
    Key = {k1, k2}
    Request = {r1, r2}
    TTL = 0
    MaxTime = 1
    None = None
    Empty = Empty
    Garbage = Garbage
    Restarts = "anytime"
    Prompt = FALSE
    DiskFails = TRUE
SYMMETRY Symmetry
INVARIANTS TypeOK MemoryAgreesWithFile CachedForTTL
PROPERTIES FreshStatusSpec
CHECK_DEADLOCK FALSE
