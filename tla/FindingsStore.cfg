SPECIFICATION Spec
CONSTANTS
    k1 = k1
    k2 = k2
    m1 = m1
    m2 = m2
    Keys = {k1, k2}
    Monitors = {m1, m2}
    Files <- MCFiles
    None = None
    MaxAdds = 3
    MaxFails = 1
    MaxDeaths = 1
SYMMETRY MCSymmetry
INVARIANTS
    TypeOK
    LastFlushIsComplete
    DiskIsNeverAhead
