CONSTANTS
    Gateway = {"A"}
    Lease = 4
    OpTimeout = 1
    UpdateTimeout = 1
    SignalMayFail = TRUE
SPECIFICATION FairSpec
INVARIANTS
    ExitUnmaps
