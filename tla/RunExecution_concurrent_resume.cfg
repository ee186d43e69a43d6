CONSTANTS
    r1 = r1
    r2 = r2
    c1 = c1
    noRunner = noRunner
    Runner <- TwoRunners
    NoRunner <- noRunner
    Client <- NoClient
    LeaseTTL = 1
    ClockLag = 0
    RetryLimit = 2
    Reopening = TRUE
    EpochBound = 2
SPECIFICATION Spec
INVARIANTS
    AtMostOneExecutor
CHECK_DEADLOCK FALSE
