SPECIFICATION FairSpec
CONSTANTS
    v1 = v1
    Vote = {v1}
    Size = {100, 300, 65636}
    V1Limit = 245
    HubPanics = FALSE
    None = None
PROPERTIES VotesEnd
CHECK_DEADLOCK FALSE
