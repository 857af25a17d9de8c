CONSTANTS
    w1 = w1
    s1 = s1
    s2 = s2
    Requests = {s2}
    SessionRequests = {s2}
    Checkpointed = {}
    Overlap = FALSE
    MaxEpoch = 2
    MaxRevision = 6
SPECIFICATION Spec
CHECK_DEADLOCK FALSE
PROPERTY StartedTurnRuns
