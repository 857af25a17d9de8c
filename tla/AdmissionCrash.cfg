CONSTANTS
    old = old
    again = again
    fresh = fresh
    other = other
    k0 = k0
    k1 = k1
    i1 = i1
    i2 = i2
    Calls = {old, again, fresh, other}
    Keys = {k0, k1}
    Intents = {i1, i2}
    KeyOf <- MCKeyOf
    IntentOf <- MCIntentOf
    SessionCalls = {old, again, fresh}
    Legacy = {}
    MaxCrashes = 1
    MaxFaults = 0
SPECIFICATION AdmissionSpec
CHECK_DEADLOCK FALSE
INVARIANT AdmittedDiscoverable
