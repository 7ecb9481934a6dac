SPECIFICATION FairSpec
CONSTANTS
    Ues <- UesDef
    Gnbs <- GnbsDef
    Home <- HomeDef
    Teids = {1, 2, 3}
    Modes = {"disabled", "tun", "vrf"}
    Qfi = {9}
    Reuse = {"vrf"}
    Loop = {"disabled"}
    Races = {}
    MaxNet = 4
INVARIANTS TypeOK NoFatal TunnelCurrent UplinkRouted NoOrphan
PROPERTY UeResponds
CHECK_DEADLOCK FALSE
