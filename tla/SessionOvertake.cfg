CONSTANTS
    r1 = r1
    r2 = r2
    sesA = sesA
    Requests = {r1, r2}
    SessionOf <- SameSession
    MaxDefers = 1
    MaxRestarts = 1
SPECIFICATION OrderSpec
CHECK_DEADLOCK FALSE
PROPERTY StartsInAdmissionOrder
