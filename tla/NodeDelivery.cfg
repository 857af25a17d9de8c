CONSTANTS
    r1 = r1
    r2 = r2
    Requests = {r1}
    Cancellable = {r1}
    Revocable = FALSE
    CursorWriteFails = FALSE
    ArtifactFaults = TRUE
    MaxGateways = 2
    MaxConnections = 2
    MaxFaults = 1
SPECIFICATION FairSpec
PROPERTIES ReceiptsDrain RecoveredPublished
CHECK_DEADLOCK FALSE
