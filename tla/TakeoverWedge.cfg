CONSTANTS
    w1 = w1
    s1 = s1
    s2 = s2
    Requests = {w1}
    SessionRequests = {}
    Checkpointed = {}
    Overlap = FALSE
    MaxEpoch = 4
    MaxRevision = 4
SPECIFICATION Spec
CHECK_DEADLOCK FALSE
INVARIANT TakeoverRepairs
