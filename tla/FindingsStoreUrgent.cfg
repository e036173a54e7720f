SPECIFICATION Spec
CONSTANTS
    k1 = k1
    k2 = k2
    m1 = m1
    m2 = m2
    Keys = {k1, k2}
    Monitors = {m1, m2}
    Files <- MCFiles
    None = None
    MaxAdds = 2
    MaxFails = 0
    MaxDeaths = 0
SYMMETRY MCSymmetry
INVARIANTS
    UrgentIsOnDisk
