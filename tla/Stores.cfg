SPECIFICATION StSpec
CONSTANTS
    Txn <- Txns
    Commits <- BoundaryAndCheck
    Direct = {"create", "swap", "append", "update", "save", "publish", "delete"}
    RevBound = 2
    FaultBound = 1
    CrashBound = 1
    SyncFaults = TRUE
    RsBackends = {"memory", "parts", "sqlite", "file"}
    RsActors <- Scenes
    RsCallers <- Executors
    RsContents <- BoundaryAndControl
    RsWrites <- WrittenRuns
    RsEpochBound = 1
    RsEventNames <- TwoEvents
    RsFaultBound = 1
    RsCrashBound = 1
    RsPageLimit = 1
    SmScenes <- Fans
INVARIANTS
    AnswersAreTrue
    VisibleIsWhole
    UpdatesAreKept
    DeletionIsComplete
    
    MergeIsFaithful
PROPERTIES
    CommitsAreAtomic
    
    RsCommitsAreAtomic
CHECK_DEADLOCK FALSE
