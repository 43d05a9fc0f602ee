SPECIFICATION FairSpec
CONSTANTS
    Empty = {0}
    MaxFetches = 2
    Budget <- Several
INVARIANTS PlayingLooksAgain
PROPERTIES PlayingConverges NoticesSuffice
CHECK_DEADLOCK FALSE
