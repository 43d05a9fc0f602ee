SPECIFICATION Spec
CONSTANTS
    r1 = r1
    r2 = r2
    i1 = i1
    i2 = i2
    Requests = {r1, r2}
    Instances = {i1, i2}
    Home <- TwoInstances
    Durations = {1}
    MaxSyncSeconds = 2
    DbSkew <- DbBehind
    NoRequest = NoRequest
    MaxEvents = 2
    MaxTime = 2
    MaxFaults = 0
    MaxCrashes = 1
INVARIANTS LockHeldInTransaction OneActiveRow CompletedOnce
PROPERTIES ImplementsOverride
