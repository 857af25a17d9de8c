CONSTANTS
    w1 = w1
    s1 = s1
    s2 = s2
    Requests = {w1, s1, s2}
    SessionRequests = {s1, s2}
    Checkpointed = {s1}
    Overlap = FALSE
    MaxEpoch = 2
    MaxRevision = 7
SPECIFICATION FairSpec
CHECK_DEADLOCK FALSE
CONSTRAINT OneSubmitted
INVARIANTS
    TypeOK
    ExecutedAtMostOnce
PROPERTY Settles
