SPECIFICATION Spec
CONSTANTS
    sda = sda
    sdb = sdb
    Disks = {sda, sdb}
    Eligible = {sdb}
    Size = 3
    MaxReadErrors = 2
    BadSets <- OneBadSet
    MaxDeaths = 1
INVARIANTS
    ErrorsAreNotForgotten
