SPECIFICATION Spec
CONSTANTS
    sda = sda
    d1 = d1
    d2 = d2
    Names = {sda}
    Drives = {d1, d2}
    Anonymous = {d2}
    MaxStarts = 3
    MaxDefects = 1
    MaxHours = 0
CHECK_DEADLOCK FALSE
INVARIANTS
    TypeOK
    CreditIsEarned
    SilentRunTestedEveryDrive
