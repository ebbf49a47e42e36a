SPECIFICATION Spec
CONSTANTS
    j1 = j1
    j2 = j2
    j3 = j3
    w1 = w1
    w2 = w2
    None = None
    Jobs <- ThreeJobs
    Workers <- OneWorker
    MaxRetries = 1
    AutoRetry = TRUE
    MaxCrashes = 1
    MaxFaults = 0
INVARIANT CancelReachesExecutor
CHECK_DEADLOCK FALSE
