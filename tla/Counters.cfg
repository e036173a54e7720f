SPECIFICATION FairSpec
CONSTANTS
    Sources = {"edac", "ue", "aer", "ras", "nic", "sel", "mce"}
    Threshold = 2
    RingSize = 1
    Batch = 2
    Bounds <- MCBounds
INVARIANTS
    TypeOK
    CountedOnce
    FinalCountIsComplete
    CursorsHaveEvidence
    ThresholdFails
    PassedIsLogged
PROPERTIES
    FailReachesTheStick
