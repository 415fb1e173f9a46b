CONSTANTS
    Conn = {c1, c2}
    NoConn = NoConn
    ChanCap = 1
    MaxStarts = 2
    EarlyNotify = FALSE
SPECIFICATION FairSpec
CHECK_DEADLOCK FALSE
PROPERTIES
    NotifyDelivered
