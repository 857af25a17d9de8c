CONSTANTS
    s1 = s1
    s2 = s2
    r1 = r1
    r2 = r2
    r3 = r3
    Sessions = {s1}
    Requests = {r1, r2}
    SessionOf <- MCSessionOfOne
    Old = {r1}
    Ops = {1}
    ExplicitOps = {}
    ManualPurge = FALSE
    Overlap = FALSE
    MaxGenerations = 1
    MaxFailures = 1
SPECIFICATION FairSpec
CHECK_DEADLOCK FALSE
PROPERTY ClaimsEnd
