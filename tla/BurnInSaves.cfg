SPECIFICATION Spec
CONSTANTS
    Plan <- MCPlan
    Skip = {}
    RebootCycles = 2
    MaxUnexpected = 2
    ValidOptions = TRUE
    MaxResets = 1
    MaxDeaths = 0
    MaxEvents = 1
    MaxSaveFails = 1
INVARIANTS
    AcceptanceIsEarned
    DisksEndBeforeReboot
    OneRunningPhase
    PlannedRebootIsNoCrash
    RebootBudget
