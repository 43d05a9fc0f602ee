SPECIFICATION FairSpec
CONSTANTS
    Instances = {i1, i2, i3}
    Last = 2
    Seeds = {2}
    MaxFaults = 2
    MaxDowns = 1
INVARIANTS RecordedApplied ServesComplete
PROPERTIES RemovedStays AllServe
CHECK_DEADLOCK FALSE
