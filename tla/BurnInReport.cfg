SPECIFICATION Spec
CONSTANTS
    Plan <- MCPlan
    Skip = {}
    RebootCycles = 1
    MaxUnexpected = 2
    ValidOptions = TRUE
    MaxResets = 1
    MaxDeaths = 0
    MaxEvents = 0
    MaxSaveFails = 0
INVARIANTS
    FinishedRunIsReported
