SPECIFICATION Spec
CONSTANTS
    Phases = {"cpu"}
    Stressors <- Full4
    Duration = 4
    Slice = 1
    SatShare = 2
    Slack = 1
    Grace = 1
    Wrap = 12
CHECK_DEADLOCK FALSE
INVARIANTS
    EveryStressorRuns
