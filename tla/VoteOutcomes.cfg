SPECIFICATION ResponsiveSpec
CONSTANTS
    v1 = v1
    v2 = v2
    Vote = {v1, v2}
    Size = {100, 65636}
    V1Limit = 245
    HubPanics = TRUE
    None = None
INVARIANTS TypeOK CreditedOnce FailedMeansNotCredited
PROPERTIES VotesEnd VerdictSpec
CHECK_DEADLOCK FALSE
