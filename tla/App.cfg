CONSTANTS
    MaxStarts = 3
    MaxDuration = 7
    DefaultRetryDelay = 5
    Second = 2
    MaxUint32 = 3
    defaultExternalUpdateTimeout = 6
    Files <- MCFiles
    LaterFiles <- MCLaterFiles
    NoFile = NoFile
SPECIFICATION AppSpec
CHECK_DEADLOCK FALSE
INVARIANTS
    CleanExit
    AcceptedIsUsable
    RuntimeAsConfigured
    LimitedWhileServing
    SocketHasOwner
PROPERTIES
    ForeignKept
    FileKept
