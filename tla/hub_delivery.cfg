SPECIFICATION Spec
CONSTANTS
    Clients = {c1, c2}
    Windows = {w1}
    NoWindow = NoWindow
    Global = Global
    TimeSync = TimeSync
    Reply = Reply
    RunLoop = RunLoop
    NoClient = NoClient
    NoMessage = NoMessage
    SendBuffer = 1
    ChannelSize = 1
    MaxNotices <- OneSync
SYMMETRY ClientSymmetry
INVARIANTS TypeOK ServedOrClosed SubscriptionsAgree NoSendOnClosed NoticeKept
CHECK_DEADLOCK FALSE
