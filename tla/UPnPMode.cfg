CONSTANTS
    Gateway = {"A", "B"}
    Lease = 7
    OpTimeout = 1
    UpdateTimeout = 1
    SignalMayFail = TRUE
    WANService = {"outside", "A", "B"}
    NumDiscoverers = 3
    NoService = "no"
    ServiceOf <- MCServiceOf
    Answers <- MCAnswers
SPECIFICATION ClientSpec
INVARIANTS
    ClientTypeOK
    ClientsRestored
    LeaseHeld
    CleanExit
PROPERTIES
    ServiceSpec
    CancelLeadsToReturn
    ServedAgain
