---------------------------- MODULE NameRegistry ----------------------------
(***************************************************************************)
(* Auctions, identity NFTs and credentials on one node.  They meet in the   *)
(* registry name_owner, in account_name and in name_auction_active.  Fees   *)
(* and nonces of the entries are left out.                                  *)
(***************************************************************************)
EXTENDS NameAuction, IdentityNft

vars == <<limit, cur, registry, auctionVars, nftVars, sbtVars>>

Init ==
    /\ limit \in Limits /\ cur = 0
    /\ nameOwner = [n \in Names |-> NoOne]
    /\ primary = [a \in Accounts |-> NoOne]
    /\ active = {}
    /\ AuctionInit /\ NftInit /\ SbtInit

Tick ==
    /\ cur < MaxEpoch
    /\ cur' = cur + 1
    /\ UNCHANGED <<limit, registry, auctionVars, nftVars, sbtVars>>

Next ==
    \/ AuctionNext /\ UNCHANGED <<limit, cur, nftVars, sbtVars>>
    \/ NftNext /\ UNCHANGED <<limit, cur, auctionVars>>
    \/ SbtNext /\ UNCHANGED <<limit, cur, registry, nftVars, auctionVars>>
    \/ Tick

Spec == Init /\ [][Next]_vars

\* The records of the store.
Nft == [owner : Accounts, free : BOOLEAN, recovery : Recovery \cup {NoOne}, seq : Nat]
Offer == [from : Accounts, to : Accounts, epoch : 0..MaxEpoch]
Auction == [opener : Accounts, min : Nat, end : Ends, top : Accounts \cup {NoOne},
            bid : Nat, status : {"open", "settled", "cancelled"}]
Credential == [name : Names, issuer : Accounts, class : {"holder_scoped", "provenance"},
               accepted : BOOLEAN, revoked : BOOLEAN, stripped : BOOLEAN]

ASSUME NoOneIsNone ==
    NoOne \notin Accounts \cup Names \cup Recovery \cup Nft \cup Offer \cup Auction \cup Credential

TypeOK ==
    /\ nameOwner \in [Names -> Accounts \cup {NoOne}]
    /\ primary \in [Accounts -> Names \cup {NoOne}]
    /\ nft \in [Names -> Nft \cup {NoOne}] /\ offer \in [Names -> Offer \cup {NoOne}]
    /\ auction \in [Ids -> Auction \cup {NoOne}]
    /\ token \in [TokenIds -> Credential \cup {NoOne}]
==============================================================================
