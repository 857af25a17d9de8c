CONSTANTS
    w1 = w1
    s1 = s1
    s2 = s2
    Requests = {w1}
    SessionRequests = {}
    Checkpointed = {}
    Overlap = TRUE
    MaxEpoch = 2
    MaxRevision = 4
SPECIFICATION Spec
CHECK_DEADLOCK FALSE
PROPERTY OldGenerationIsFenced
