SPECIFICATION FairSpec
CONSTANTS
    t1 = t1
    w1 = w1
    w2 = w2
    NoWorker = NoWorker
    NoTask = NoTask
    Task <- OneTask
    Worker <- TwoWorkers
    GraphRun <- GraphRunOnly
    MaxAttempts <- ThreeAttempts
    AttemptBound = 4
    LeaseTTL = 2
    RetryDelay = 1
    ClockLag = 1
INVARIANTS
    AttemptLedger
    OutcomeIntegrity
    LeaseExclusive
PROPERTIES
    FencedTaskIsFrozen
    QueuedTaskIsServed
