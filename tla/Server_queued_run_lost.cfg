SPECIFICATION SrvSpec
CONSTANTS
    HubBatch <- HubBatches
    HubFilter <- HubFilters
    HubLimit <- HubLimits
    HubBytes <- HubByteLimits
    HubEventBytes = 2
    HubOmittedSize = 2
    HubTTL = 1
    HubBuffer = 1
    HubMaxReplay = 2
    HubMaxPartitions = 1
    HubPublishBound = 3
    HubConnBound = 2
    HubTimeBound = 2
    TrgIds = {"chat", "cron"}
    TrgType <- TrgKinds
    TrgAwaits = {}
    TrgCalls = {"c1", "c2"}
    TrgVersionBound = 2
    GcUploads = {"a", "b", "c"}
    GcContent <- GcContents
    GcMode <- GcModes
    GcRetain = 2
    GcSessionBound = 4
    GcRetryBound = 1
    GcFaultBound = 1
    GcCrashBound = 1
    DuRuns = {"q", "r"}
    DuSessionBound = 2
    DuCrashBound = 1
    DuDeleteBound = 1
    DuControlBound = 1
    EfScenes <- WritingRuns
PROPERTY
    QueuedRunIsNotLost
CHECK_DEADLOCK FALSE
