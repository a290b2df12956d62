SPECIFICATION FairSpec
CONSTANTS
    Clocks <- FourClocks
    Senders <- Second
    Self = 1
    Master = 1
    Isolation = FALSE
    Registries <- SomeRegistries
    MaxEpoch = 2
    Skew = 1
    Stale = 0
    PruneWindow = 1
    TrackWindow = 2
    Stamp <- Spread
    EpochMs = 3
    Tolerance = 2
CHECK_DEADLOCK FALSE
INVARIANTS
    SealedOnce
PROPERTIES
    LoneEpochResolves
    QuorumResolves
