CONSTANTS
    r1 = r1
    r2 = r2
    Requests = {r1}
    Cancellable = {}
    Revocable = TRUE
    CursorWriteFails = FALSE
    ArtifactFaults = FALSE
    MaxGateways = 1
    MaxConnections = 2
    MaxFaults = 1
SPECIFICATION FairSpec
PROPERTIES RecoveredPublished
CHECK_DEADLOCK FALSE
