SPECIFICATION FairSpec
CONSTANTS
    NSlot = 3
    NumPdu = 1
    MaxRetry = 1
    Timers <- All
    Stop = "Kill"
    Custom = FALSE
    Gutis <- GutiAlways
    MaxHo = 0
    MaxReject = 1
    MaxReauth = 1
INVARIANTS
    TypeOK
    NoClosedSend
    NoNilSend
PROPERTIES
    NoLateUplink
    EndsOnceTold
    PagedConnects
CHECK_DEADLOCK FALSE
