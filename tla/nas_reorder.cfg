SPECIFICATION Spec
CONSTANTS
    SqnMod = 4
    OvfMod = 6
    Core = "external"
    Reorder = TRUE
    Retries <- OneRetry
    UeSqns <- SqnZero
    MaxAuth = 2
    MaxDl = 7
    MaxUl = 3
PROPERTIES
    DownlinkChannel
CHECK_DEADLOCK FALSE
