------------------------------ MODULE NameState ------------------------------
(***************************************************************************)
(* What auctions, identity NFTs and soulbound credentials share: the epoch, *)
(* the registry of names and the indices kept beside it.                    *)
(***************************************************************************)
EXTENDS Integers, FiniteSets, FiniteSetsExt

CONSTANTS
    Accounts, Names,
    Late,       \* STALE_WINDOW
    MaxEpoch,
    Limits,     \* bounds: [lots, opens, crashes, names, tokens, configs]
    NoOne       \* Option::None

VARIABLES
    limit,      \* the bounds of a behaviour, chosen at its start: parts that meet little
                \* are explored beside each other only in part
    cur,        \* Chain::current_epoch
    nameOwner,  \* name_owner:{name}
    primary,    \* account_name:{account}
    active,     \* names with a name_auction_active:{name}
    nft,        \* name_nft:{name}
    held        \* name_held:{account}:{name}

registry == <<nameOwner, primary, active>>

\* An entry about an NFT carries the epoch of its maker, who may be ahead of this node; it
\* is refused when that is too long ago.  entry_epoch knows no epoch of auction entries.
Entry(e) == cur <= e + Late

Minted(n) == nft[n] # NoOne
==============================================================================
