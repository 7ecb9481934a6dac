SPECIFICATION LiveSpec
CONSTANTS
    SqnMod = 3
    OvfMod = 2
    Core = "external"
    Reorder = FALSE
    Retries <- NoRetry
    UeSqns <- SqnSome
    MaxAuth = 2
    MaxDl = 7
    MaxUl = 9
INVARIANTS
    TypeOK
    NothingLost
PROPERTIES
    Registers
    DownlinkDelivered
CHECK_DEADLOCK FALSE
