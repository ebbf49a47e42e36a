SPECIFICATION Spec
CONSTANTS
    j1 = j1
    j2 = j2
    j3 = j3
    w1 = w1
    w2 = w2
    None = None
    Jobs <- OneJob
    Workers <- OneWorker
    MaxRetries = 1
    AutoRetry = TRUE
    MaxCrashes = 0
    MaxFaults = 0
PROPERTY NoOutputsAfterCancel
CHECK_DEADLOCK FALSE
