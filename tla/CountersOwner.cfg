SPECIFICATION Spec
CONSTANTS
    Sources = {"aer"}
    Threshold = 2
    RingSize = 1
    Batch = 2
    Bounds <- MCBounds
INVARIANTS
    FailNeedsThreshold
