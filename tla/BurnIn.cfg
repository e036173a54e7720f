SPECIFICATION FairSpec
CONSTANTS
    Plan <- MCPlan
    Skip = {}
    RebootCycles = 2
    MaxUnexpected = 2
    ValidOptions = TRUE
    MaxResets = 2
    MaxDeaths = 1
    MaxEvents = 0
    MaxSaveFails = 0
INVARIANTS
    TypeOK
    PassHidesNoInterruption
    StressRunsOnce
PROPERTIES
    NoPhaseAfterTooManyResets
    RunEnds
