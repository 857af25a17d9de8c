CONSTANTS
    w1 = w1
    s1 = s1
    s2 = s2
    Requests = {w1, s2}
    SessionRequests = {s2}
    Checkpointed = {}
    Overlap = TRUE
    MaxEpoch = 3
    MaxRevision = 3
SPECIFICATION Spec
CHECK_DEADLOCK FALSE
CONSTRAINT OneSubmitted
INVARIANTS
    Discoverable
    NoOrphans
    RestartCancelSettled
PROPERTIES
    OwnershipMovesForward
    OutcomeIsStable
    OldGenerationHarmless
    RefinesLifecycle
