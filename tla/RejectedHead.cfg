CONSTANTS
    r1 = r1
    r2 = r2
    sesA = sesA
    Requests = {r1, r2}
    SessionOf <- SameSession
    MaxDefers = 1
    MaxRestarts = 0
SPECIFICATION OrderFairSpec
CHECK_DEADLOCK FALSE
PROPERTY RejectedLeavesTheOrder
