SPECIFICATION RtSpec
CONSTANTS
    SchGraphs <- Workflows
    SchWorkers = 2
    SchMaxSuperSteps = 7
    SchMaxFanOut = 3
    SchAskBound = 2
    SchErrBound = 1
    SchPauseBound = 2
    SchCrashBound = 1
    NaTasks = {"s", "t"}
    NaLimits <- Limits
    NaMaxAttempts = 2
    NaTimeoutBound = 1
    TrResumeBound = 1
    TrControlBound = 1
    TrDeleteBound = 2
    TrFaultBound = 1
    TrCrashBound = 1
    ArBackends = {"file", "sqlite", "memory"}
    ArCount = 2
    ArTries = 2
    ArFaultBound = 1
    ArCrashBound = 2
    TsScenes <- Batches
INVARIANTS
    
    
    PermitsAreConserved
    FamilyIsWhole
    ArtifactsMatchCommit
    SlotsAreAccounted
PROPERTIES
    RuntimeSettles
CHECK_DEADLOCK FALSE
