CONSTANTS
    MaxDuration <- MCMaxDuration
    DefaultRetryDelay <- MCDefaultRetryDelay
    Pid = {p1, p2}
    NoPid = NoPid
    Mapping <- MCAddressChanges
    BindPort <- MCBindPort
    Runtime <- MCRuntime
    EventCap = 1
    SignalMayFail = TRUE
    IgnoresTerm <- NatmapOnly
SPECIFICATION FairSpec
PROPERTIES
    CancelLeadsToReturn
    NatmapRecovered
    HathServedAgain
