CONSTANTS
    r1 = r1
    r2 = r2
    Requests = {r1, r2}
    Cancellable = {}
    Revocable = TRUE
    CursorWriteFails = TRUE
    ArtifactFaults = FALSE
    MaxGateways = 2
    MaxConnections = 2
    MaxFaults = 0
SPECIFICATION Spec
SYMMETRY Perms
INVARIANTS 
    CapacityKept
    NoEffectHonest
    CustodyApplied
PROPERTIES ImplementsEffect
CHECK_DEADLOCK FALSE
