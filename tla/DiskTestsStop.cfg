SPECIFICATION Spec
CONSTANTS
    sda = sda
    sdb = sdb
    Disks = {sda, sdb}
    Eligible = {sdb}
    Size = 2
    MaxReadErrors = 2
    BadSets <- NoBadSets
    MaxDeaths = 0
INVARIANTS
    DeliberateStopIsNoFault
