SPECIFICATION FairSpec
CONSTANTS
    Gnb <- One
    Msin <- Two
    Sess <- One
    Races <- NoRace
    MaxRun = 3
    MaxReq = 2
INVARIANTS
    TypeOK
    OneRegistered
    NoFatal
    AssociationsServed
    SessionsKnown
PROPERTIES
    UesSettle
CHECK_DEADLOCK FALSE
