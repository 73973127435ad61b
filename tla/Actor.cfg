CONSTANTS
    r1 = r1
    r2 = r2
    r3 = r3
    Requests <- Three
    Profiles = 2
    Size <- Sizes12
    Energy <- Energy21
    Margin <- Margin2
    MaxBatchWait = 1
    FixedBatchSize = 0
    DeadlinePolicy = "defer"
    Mode = "serving"
    MaxQueueRequests = 2
    MaxQueueBytes = 3
    Key <- TwoKeys
    Slo <- SloMixed
    Lifetime <- OneLifetime
    Bytes <- Sized
    Costs <- OneCost
    Intervals = {1}
    Caps = {0}
    MaxTime = 3
    LastArrival = 1
    Env = {"cancel"}
SPECIFICATION SceneSpec
CHECK_DEADLOCK FALSE
INVARIANTS
    QueueKept
    BatchRight
    AnswersHold
PROPERTIES
    NoLateAdmission
    ImplementsExecutor
