SPECIFICATION Spec
CONSTANTS
    b1 = b1
    b2 = b2
    t1 = t1
    t2 = t2
    None = None
    Batches <- OneBatch
    Threads <- OneThread
    Size = 2
    MaxRetries = 1
    MaxCrashes = 1
    MaxFaults = 0
INVARIANT NoOrphans
CHECK_DEADLOCK FALSE
