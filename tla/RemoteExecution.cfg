SPECIFICATION RemoteSpec
CONSTANTS
    j1 = j1
    j2 = j2
    w1 = w1
    c1 = c1
    c2 = c2
    None = None
    Jobs <- AllJobs
    Workers <- AllWorkers
    Clients <- AllClients
    MaxRetries = 1
    AutoRetry = TRUE
    MaxCrashes = 1
    MaxFaults = 0
    MaxQueued = 1
    MaxTrouble = 1
SYMMETRY Symmetry
INVARIANTS
    RemoteTypeOK
    NoOrphanedWork
    OneRunPerAttempt
    CancelledWasWanted
    DownloadIsCompleted
    AdmissionBound
CHECK_DEADLOCK FALSE
