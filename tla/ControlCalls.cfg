SPECIFICATION FairSpec
CONSTANTS
    Adapters = {TRUE, FALSE}
    PermissionMissing = TRUE
    StartMayFail = TRUE
    ServerMayGiveUp = TRUE
    MaxQueue = 4
    MaxKills = 1
INVARIANTS
    ControlInv
    LastCallWins
    ServiceIsStoppable
PROPERTIES
    ServerComesBack
CHECK_DEADLOCK FALSE
