SPECIFICATION Spec
CONSTANTS
    Ues <- UesDef
    Gnbs <- GnbsDef
    Home <- HomeDef
    Teids = {1, 2, 3}
    Modes = {"vrf"}
    Qfi = {9}
    Reuse = {}
    Loop = {"vrf"}
    Races = {}
    MaxNet = 4
INVARIANT NoFatal
CHECK_DEADLOCK FALSE
