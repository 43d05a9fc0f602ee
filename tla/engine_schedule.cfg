SPECIFICATION Spec
CONSTANTS
    TicksPerSecond = 2
    CycleSeconds = {0, 1, 4, 5}
    ItemSeconds = {0, 1, 2}
    Positions = {1, 2, 3}
    MediaPresent = {TRUE, FALSE}
    MaxLength = 3
    FirstTick <- BeforeEpoch
    LastTick = 12
INVARIANTS FollowsSchedule SecondsAddUp
PROPERTIES Seamless
CHECK_DEADLOCK FALSE
