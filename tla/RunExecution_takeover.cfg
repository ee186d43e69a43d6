CONSTANTS
    r1 = r1
    r2 = r2
    c1 = c1
    noRunner = noRunner
    Runner <- TwoRunners
    NoRunner <- noRunner
    Client <- OneClient
    LeaseTTL = 1
    ClockLag = 0
    RetryLimit = 1
    Reopening = FALSE
    EpochBound = 2
SYMMETRY RunnerSymmetry
SPECIFICATION Spec
INVARIANTS
    OwnedRunIsRunning
PROPERTIES
    StaleExecutorsAreSilent
