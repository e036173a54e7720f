SPECIFICATION FairSpec
CONSTANTS
    Phases = {"cpu", "memory", "mprime", "ycruncher", "transient", "idle", "combined"}
    Stressors <- Short2
    Duration = 3
    Slice = 1
    SatShare = 2
    Slack = 1
    Grace = 1
    Wrap = 2
CHECK_DEADLOCK FALSE
INVARIANTS
    TypeOK
    PhaseCleansUp
    SilentPhaseRan
    FindingsAreEarned
    FaultsAreReported
PROPERTIES
    PhaseEnds
