CONSTANTS
    Port = {1, 2}
    Title = {"a", "b"}
    MaxCalls = 2
SPECIFICATION Spec
CHECK_DEADLOCK FALSE
INVARIANTS
    TypeOK
    ConfirmedIsRegistered
PROPERTY PostWritesBack
