CONSTANTS
    r1 = r1
    r2 = r2
    c1 = c1
    noRunner = noRunner
    Runner <- OneRunner
    NoRunner <- noRunner
    Client <- OneClient
    LeaseTTL = 1
    ClockLag = 0
    RetryLimit = 2
    Reopening = TRUE
    EpochBound = 3
SPECIFICATION FairSpec
PROPERTIES
    ControlIsKept
    FinishedRunIsReopenedKnowingly
    RequestIsAnswered
