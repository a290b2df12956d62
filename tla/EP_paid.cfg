SPECIFICATION PipelineSpec
CONSTANTS
    Clocks = {n1, n2, n3}
    MaxEpoch = 1
    MinQuorum = 2
    Capacity = 1
    Depth = 0
    Window = 1
    Empties = {{}}
INVARIANT
    PaidAlike
CHECK_DEADLOCK FALSE
