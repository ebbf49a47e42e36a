SPECIFICATION Spec
CONSTANTS
    None = None
    Requests <- AllRequests
    SettingsSet <- AllSettings
INVARIANTS
    StrideNeverCollides
    SeedsAreDense
    WithinLimits
    AcceptsWhatFits
    NamesAreSafe
CHECK_DEADLOCK FALSE
