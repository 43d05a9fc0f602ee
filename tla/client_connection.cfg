SPECIFICATION FairSpec
CONSTANTS
    Sockets = {s1, s2, s3, s4}
    NoSocket = NoSocket
    Windows = {w1, w2}
    NoWindow = NoWindow
    MaxAttempts = 4
    MaxThrows = 2
INVARIANTS OneWayBack SubscribedToWanted OneConnection
PROPERTIES Reconnects
CHECK_DEADLOCK FALSE
