CONSTANTS
    w1 = w1
    s1 = s1
    s2 = s2
    Requests = {s1}
    SessionRequests = {s1}
    Checkpointed = {s1}
    Overlap = TRUE
    MaxEpoch = 2
    MaxRevision = 6
SPECIFICATION Spec
CHECK_DEADLOCK FALSE
INVARIANTS
    TypeOK
    ExecutedAtMostOnce
