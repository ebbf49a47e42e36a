SPECIFICATION Spec
CONSTANTS
    b1 = b1
    b2 = b2
    t1 = t1
    t2 = t2
    None = None
    Batches <- OneBatch
    Threads <- TwoThreads
    Size = 2
    MaxRetries = 1
    MaxCrashes = 1
    MaxFaults = 1
INVARIANTS
    TypeOK
    MembershipIsExact
    NothingLeftUnsaved
    CancelReachesMembers
PROPERTY EndedStaysEnded
CHECK_DEADLOCK FALSE
