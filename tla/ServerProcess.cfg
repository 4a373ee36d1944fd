SPECIFICATION FairSpec
CONSTANTS
    r1 = r1
    r2 = r2
    r3 = r3
    Request = {r1, r2, r3}
    Asks <- AsksValue
    Hanging = {r1}
    TTL = 1
    MaxTime = 1
    None = None
INVARIANTS TypeOK AcceptedAreAnswered HealthIsRecent FiguresGrow
PROPERTIES SignalEndsProcess
CHECK_DEADLOCK FALSE
