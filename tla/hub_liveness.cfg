SPECIFICATION FairSpec
CONSTANTS
    Clients = {c1}
    Windows = {w1}
    NoWindow = NoWindow
    Global = Global
    TimeSync = TimeSync
    Reply = Reply
    RunLoop = RunLoop
    NoClient = NoClient
    NoMessage = NoMessage
    SendBuffer = 1
    ChannelSize = 1
    MaxNotices <- TwoSyncs
INVARIANTS InOrder
PROPERTIES SyncDelivered GoneIsRemoved ShutdownEnds
CHECK_DEADLOCK FALSE
