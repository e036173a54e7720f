SPECIFICATION Spec
CONSTANTS
    MaxAttempts = 2
    MaxSaves = 4
    MaxFails = 2
    MaxKills = 2
    MaxCuts = 2
INVARIANTS
    TypeOK
    RestartFindsLastSave
PROPERTIES
    KeepsDurableCell
