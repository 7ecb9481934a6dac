SPECIFICATION FairSpec
CONSTANTS
    NSlot = 3
    NumPdu = 2
    MaxRetry = 2
    Timers <- NoTimer
    Stop = "none"
    Custom = FALSE
    Gutis <- GutiAlways
    MaxHo = 1
    MaxReject = 3
    MaxReauth = 0
INVARIANTS
    SessionsAgree
    OneRequest
PROPERTIES
    SessionsRequested
    SessionsSettle
CHECK_DEADLOCK FALSE
