CONSTANTS
    r1 = r1
    r2 = r2
    r3 = r3
    r4 = r4
    pA = pA
    pB = pB
    projX = projX
    projY = projY
    srcA = srcA
    srcB = srcB
    d1 = d1
    d2 = d2
    Requests = {r1, r2, r3, r4}
    ProfileOf <- FourProfiles
    ProjectOf <- FourProjects
    Instances <- OneSource
    Limits <- FourLimits
    SessionRequests = {r4}
    Cancellable = {r1, r4}
    PendingCapacity = 2
    Drainers = {d1, d2}
    Sources = {srcA}
    Concurrency <- One
    StarvationSeconds = 1
    MaxLag = 0
    NoSource = NoSource
    Unbounded = Unbounded
SPECIFICATION SchedFairSpec
CHECK_DEADLOCK FALSE
INVARIANTS
    SchedTypeOK
    RotationExact
    ScopesRespected
    LeasesAccounted
PROPERTIES
    LaneFifo
    PendingIsServed
