SPECIFICATION Spec
CONSTANTS
    MaxAttempts = 5
    MaxSaves = 2
    MaxFails = 1
    MaxKills = 0
    MaxCuts = 1
INVARIANTS
    NeverBothCopiesLost
