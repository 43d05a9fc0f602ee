SPECIFICATION Spec
CONSTANTS
    r1 = r1
    r2 = r2
    i1 = i1
    i2 = i2
    Requests = {r1, r2}
    Instances = {i1}
    Home <- OneInstance
    Durations = {1, 2, 3}
    MaxSyncSeconds = 2
    DbSkew <- DbBehind
    NoRequest = NoRequest
    MaxEvents = 2
    MaxTime = 3
    MaxFaults = 1
    MaxCrashes = 1
SYMMETRY RequestSymmetry
INVARIANTS TypeOK ClaimHasOwner EndIsRecorded CompletedAfterDeadline
