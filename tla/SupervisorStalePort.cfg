CONSTANTS
    MaxDuration <- MCMaxDuration
    DefaultRetryDelay <- MCDefaultRetryDelay
    Pid = {p1, p2}
    NoPid = NoPid
    Mapping <- MCTwoMappings
    BindPort <- MCBindPort
    Runtime <- MCRuntime
    EventCap = 1
    SignalMayFail = FALSE
    IgnoresTerm <- NoProgram
SPECIFICATION Spec
INVARIANTS
    ServesRegisteredPort
