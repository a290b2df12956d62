SPECIFICATION Spec
CONSTANTS
    MaxEpoch = 6
    Depth = 1
    Window = 2
    WalkBound = 2
    MaxRestarts = 1
    MaxCrashes = 0
CHECK_DEADLOCK FALSE
PROPERTIES
    NoGapPassed
