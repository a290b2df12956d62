SPECIFICATION Spec
CONSTANTS
    Accounts = {a1, a2}
    Initial = 8
    Amounts = {1, 2}
    Fees = {1}
    MicroWeight = 1
    StandardWeight = 2
    UnbondingEpochs = 3
    StaleWindow = 1
    Ahead = 1
    MaxEpoch = 4
    MaxEntries = 3
    MaxCrashes = 1
    None = None
CHECK_DEADLOCK FALSE
INVARIANTS
    Conserved
    HandledReleased
PROPERTIES
    HeldForWindow
