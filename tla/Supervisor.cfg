CONSTANTS
    MaxDuration <- MCMaxDuration
    DefaultRetryDelay <- MCDefaultRetryDelay
    Pid = {p1, p2, p3}
    NoPid = NoPid
    Mapping <- MCMappings
    BindPort <- MCBindPort
    Runtime <- MCRuntime
    EventCap = 2
    SignalMayFail = FALSE
    IgnoresTerm <- HathOnly
SPECIFICATION Spec
SYMMETRY PidSymmetry
INVARIANTS
    TypeOK
    SingleInstance
    NoOrphan
    HathStoppedFirst
    CurrentDescribesServing
    ServesNewest
PROPERTIES
    CommitIsRegistered
    RetriesBackOff
    ServiceSpec
