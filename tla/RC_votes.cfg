SPECIFICATION Spec
CONSTANTS
    Nodes = {1, 2, 3}
    Epochs = {1}
    MinQuorum = 1
    Known <- KnownButOne
    HashRank <- BinaryRank
    MaxRestarts = 1
    None = None
CHECK_DEADLOCK FALSE
INVARIANTS
    VotesOnce
    SameRegistryAgreement
    NoUncountedQuorum
    MetaBacked
