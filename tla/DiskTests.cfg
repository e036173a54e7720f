SPECIFICATION Spec
CONSTANTS
    sda = sda
    sdb = sdb
    Disks = {sda, sdb}
    Eligible = {sdb}
    Size = 2
    MaxReadErrors = 2
    BadSets <- MCBadSets
    MaxDeaths = 1
INVARIANTS
    TypeOK
    DoneIsEarned
    ErrorsAreReported
    WritesAreChosen
