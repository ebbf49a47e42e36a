SPECIFICATION FairSpec
CONSTANTS
    j1 = j1
    j2 = j2
    j3 = j3
    w1 = w1
    w2 = w2
    None = None
    Jobs <- TwoJobs
    Workers <- TwoWorkers
    MaxRetries = 1
    AutoRetry = TRUE
    MaxCrashes = 1
    MaxFaults = 0
PROPERTIES
    ImplementsLifecycle
    CompletedIsFinal
    QueuedJobEnds
    CancellationEnds
CHECK_DEADLOCK FALSE
