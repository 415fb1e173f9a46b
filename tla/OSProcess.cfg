CONSTANTS
    IgnoresTerm = {"leader", "child"}
    SignalMayFail = TRUE
    Content <- MCContent
SPECIFICATION OutputSpec
INVARIANTS
    StoppedIsGone
    OutputComplete
    LinesLabelled
PROPERTIES
    ContractSpec
    StopEnds
