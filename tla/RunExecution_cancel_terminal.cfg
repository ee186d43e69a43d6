CONSTANTS
    r1 = r1
    r2 = r2
    c1 = c1
    noRunner = noRunner
    Runner <- OneRunner
    NoRunner <- noRunner
    Client <- OneClient
    LeaseTTL = 2
    ClockLag = 1
    RetryLimit = 2
    Reopening = TRUE
    EpochBound = 3
SPECIFICATION Spec
PROPERTIES
    CancelIsTerminal
