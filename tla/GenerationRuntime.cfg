SPECIFICATION Spec
CONSTANTS
    m1 = m1
    m2 = m2
    hub = hub
    r1 = r1
    r2 = r2
    a1 = a1
    a2 = a2
    None = None
    Models <- OneModel
    Configured = hub
    Admins <- TwoAdmins
    Requests <- TwoRequests
    Exclusive = TRUE
    Preserve = TRUE
    Needs <- StepSets
    MaxWork = 3
SYMMETRY Symmetry
INVARIANTS
    TypeOK
    OneDiffusionPipeline
    ActivationTakesEffect
    UsableIsWhole
    ServedIsWhole
    OutcomeIsHonest
    SomeoneCanMove

CHECK_DEADLOCK FALSE
