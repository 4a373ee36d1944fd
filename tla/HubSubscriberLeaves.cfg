SPECIFICATION FairSpec
CONSTANTS
    c1 = c1
    c2 = c2
    s1 = s1
    r1 = r1
    Client = {c1, c2}
    Server = {s1}
    Request = {r1}
    Run = Run
    None = None
    Subscribers = {c1, c2}
    Leavers = {c2}
    Stallers = {}
    OverlapPanics = TRUE
PROPERTIES VoteReachesSubscribers
CHECK_DEADLOCK FALSE
