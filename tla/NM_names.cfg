\* One name from auction to sale and recovery: auction entries of any epoch, NFT entries
\* of the node's epoch or later, offers that expire at once, a crash and an opening under
\* a used id.
SPECIFICATION Spec
CONSTANTS
    NoOne = NoOne
    Accounts = {"alice", "bob", "carol"}
    Names = {"n1", "n2"}
    Items = {"i1"}
    Tier <- MCTier
    Bids = {1, 2}
    Ends = {0}
    Balance0 = 3
    Limits <- MCLimits
    Late = 0
    MaxEpoch = 1
    Openers = {"alice"}
    Bidders = {"bob", "carol"}
    Issuers = {"carol"}
    TokenIds = {"t1", "t2"}
    Tail <- MCTail
    Issuer = "alice"
    Reserved = {}
    OpenLimit = 2
    Configs <- MCConfigs
    Founders = {"alice", "carol"}
    FounderThreshold = 2
    Signers = {{"bob"}, {"bob", "carol"}, {"alice", "carol"}}
    OfferExpiry = 0
    MaxSeq = 1
INVARIANTS
    BidsConserved
    OneHolder
    CredentialsAreTheHolders
PROPERTIES
    LockedIsPinned
CHECK_DEADLOCK FALSE
