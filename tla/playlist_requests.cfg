SPECIFICATION FairSpec
CONSTANTS
    Requests = {r1, r2}
    NoRequest = NoRequest
    Durations = {0, 1, 2}
    Media = {m1}
    NoMedium = NoMedium
    Cycles = {0, 2}
    DefaultCycle = 3
    MaxItems = 3
    MaxFaults = 1
INVARIANTS TypeOK Dense MediaKept
PROPERTIES ImplementsPlaylist AddFits RequestEnds
CHECK_DEADLOCK FALSE
