SPECIFICATION Spec
CONSTANTS
    m1 = m1
    m2 = m2
    Machines <- MCMachines
    Identified <- MCIdentified
    SearchLimit = 2
    MaxSessions = 4
    MaxBoots = 3
    MaxDeaths = 1
    MaxFaults = 1
INVARIANTS
    TypeOK
    NoneLeftBehind
    TakesUpItsOwn
    RoomIsUsed
CHECK_DEADLOCK FALSE
