SPECIFICATION Spec
CONSTANTS
    r1 = r1
    r2 = r2
    i1 = i1
    i2 = i2
    Requests = {r1, r2}
    Instances = {i1}
    Home <- OneInstance
    Durations = {1, 2}
    MaxSyncSeconds = 2
    DbSkew <- NoSkew
    NoRequest = NoRequest
    MaxEvents = 2
    MaxTime = 2
    MaxFaults = 0
    MaxCrashes = 0
INVARIANTS OneEndReason
