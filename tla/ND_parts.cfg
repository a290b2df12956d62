SPECIFICATION PartsSpec
CONSTANTS
    Nodes = {1, 2}
    Entries <- Recounted
    Rank <- HashOrder
    None = None
    a = a
    b = b
    r1 = r1
    r2 = r2
    r3 = r3
    k = k
    c = c
    Recycle = Recycle
    a1 = a1
    a2 = a2
    a3 = a3
    i1 = i1
    minStake = minStake
    governance_keys = governance_keys
    Clocks = {n1, n2}
    MaxEpoch = 2
    MinQuorum = 2
    Capacity = 1
    Depth = 0
    Window = 0
    Empties = {{}, {1}, {2}}
INVARIANTS
    Converged
    NonceExact
    OutcomeIsMajority
    NothingPastEmpty
PROPERTIES
    WindowCloses
    OrderedOnce
    FinalizedPrefixPaid
    DecidedIsPaid
CHECK_DEADLOCK FALSE
