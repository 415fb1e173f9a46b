CONSTANTS
    Conn = {c1, c2}
    NoConn = NoConn
    ChanCap = 1
    MaxStarts = 2
    EarlyNotify = TRUE
SPECIFICATION FairSpec
CHECK_DEADLOCK FALSE
INVARIANTS
    NoSendOnClosed
    CloseMissesNone
PROPERTIES
    ChannelSpec
    CloseTerminates
    AdmittedIsDelivered
