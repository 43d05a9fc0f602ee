SPECIFICATION FairSpec
CONSTANTS
    Empty = {}
    MaxFetches = 1
    Budget <- OneTrouble
PROPERTIES SnapshotResyncs
CHECK_DEADLOCK FALSE
