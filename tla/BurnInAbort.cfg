SPECIFICATION Spec
CONSTANTS
    Plan <- MCPlan
    Skip = {}
    RebootCycles = 1
    MaxUnexpected = 2
    ValidOptions = TRUE
    MaxResets = 0
    MaxDeaths = 0
    MaxEvents = 0
    MaxSaveFails = 0
INVARIANTS
    AbortMarksIncomplete
