CONSTANTS
    s1 = s1
    s2 = s2
    r1 = r1
    r2 = r2
    r3 = r3
    Sessions = {s1}
    Requests = {r1, r2}
    SessionOf <- MCSessionOfOne
    Old = {r1}
    Ops = {1}
    ExplicitOps = {}
    ManualPurge = TRUE
    Overlap = FALSE
    MaxGenerations = 1
    MaxFailures = 0
SPECIFICATION PurgeSpec
CHECK_DEADLOCK FALSE
INVARIANT AdmittedWinsRace
