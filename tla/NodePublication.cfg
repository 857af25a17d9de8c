CONSTANTS
    r1 = r1
    r2 = r2
    Requests = {r1}
    Cancellable = {}
    Revocable = FALSE
    CursorWriteFails = FALSE
    ArtifactFaults = FALSE
    MaxGateways = 1
    MaxConnections = 1
    MaxFaults = 0
SPECIFICATION FairSpec
PROPERTIES TerminalPublished
CHECK_DEADLOCK FALSE
