CONSTANTS
    r1 = r1
    r2 = r2
    r3 = r3
    r4 = r4
    pA = pA
    pB = pB
    projX = projX
    projY = projY
    srcA = srcA
    srcB = srcB
    d1 = d1
    d2 = d2
    Requests = {r1, r2, r3}
    ProfileOf <- ThreeProfiles
    ProjectOf <- ThreeProjects
    Instances <- TwoSources
    Limits <- ThreeLimits
    SessionRequests = {r3}
    Cancellable = {}
    PendingCapacity = 3
    Drainers = {d1}
    Sources = {srcA, srcB}
    Concurrency <- One
    StarvationSeconds = 1
    MaxLag = 0
    NoSource = NoSource
    Unbounded = Unbounded
SPECIFICATION SchedFairSpec
CHECK_DEADLOCK FALSE
PROPERTY PendingIsServed
