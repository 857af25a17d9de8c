CONSTANTS
    r1 = r1
    r2 = r2
    Requests = {r1}
    Cancellable = {r1}
    Revocable = FALSE
    CursorWriteFails = FALSE
    ArtifactFaults = FALSE
    MaxGateways = 2
    MaxConnections = 1
    MaxFaults = 0
SPECIFICATION FairSpec
PROPERTIES CancelKeepsResult
CHECK_DEADLOCK FALSE
