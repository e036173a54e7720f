SPECIFICATION Spec
CONSTANTS
    Sources = {"aer"}
    Threshold = 1
    RingSize = 1
    Batch = 2
    Bounds <- MCBounds
INVARIANTS
    ThresholdFails
