----------------------------- MODULE NameAuction -----------------------------
(***************************************************************************)
(* Auctions of names and of freeport items (auction.rs; the API makes the   *)
(* id of an auction from what is sold and the epoch, api.rs 9540, 9678).    *)
(* An entry is applied whatever its epoch e, however late it comes.         *)
(* Entries are applied under write_lock.  The store has no transactions: a  *)
(* crash leaves the first k writes of a handler.                            *)
(***************************************************************************)
EXTENDS NameState

CONSTANTS
    Items,      \* freeport items
    Tier,       \* name_min_bid of each name
    Bids, Ends, \* amounts bid, end epochs asked for
    Openers, Bidders, Balance0

ASSUME AuctionAmounts == /\ Bids \subseteq Nat /\ Balance0 \in Nat
                         /\ Tier \in [Names -> Nat]
ASSUME BiddersAreAccounts == Openers \subseteq Accounts /\ Bidders \subseteq Accounts
\* The key of an auction says of which kind it is.
ASSUME LotsApart == Items \cap Names = {}

VARIABLES
    balance,
    auction,    \* auction:{id}
    itemOwner,  \* freeport_owner:{item}
    crashes,
    opened,     \* number of openings
    reopened    \* those that replaced an auction

auctionVars == <<balance, auction, itemOwner, crashes, opened, reopened>>

Lots == Names \cup Items
Ids == Lots \X (0..MaxEpoch)

AuctionInit ==
    /\ balance = [a \in Accounts |-> Balance0]
    /\ auction = [id \in Ids |-> NoOne]
    /\ itemOwner = [i \in Items |-> NoOne]
    /\ crashes = 0 /\ opened = 0 /\ reopened = 0

Open(id) == auction[id] # NoOne /\ auction[id].status = "open"

\* The bid an auction holds.
Escrow(id) == IF Open(id) THEN auction[id].bid ELSE 0

NewAuction(opener, min, end) ==
    [opener |-> opener, min |-> min, end |-> end, top |-> NoOne, bid |-> 0, status |-> "open"]

\* Whatever is stored under the id is replaced.
Put(id, record) ==
    /\ reopened' = reopened + (IF auction[id] = NoOne THEN 0 ELSE 1)
    /\ id[1] \in limit.lots /\ opened < limit.opens /\ opened' = opened + 1
    /\ auction' = [auction EXCEPT ![id] = record]

NameAuctionOpen(n, opener, min, end, e) ==
    /\ nameOwner[n] = NoOne
    /\ Put(<<n, e>>, NewAuction(opener, Max({min, Tier[n]}), end))
    /\ active' = active \cup {n}
    /\ UNCHANGED <<nameOwner, primary, balance, itemOwner, crashes>>

FreeportAuctionOpen(i, seller, min, end, e) ==
    /\ Put(<<i, e>>, NewAuction(seller, min, end))
    /\ UNCHANGED <<registry, balance, itemOwner, crashes>>

\* The handler ends after its k-th write of n.
Stops(k, n) ==
    /\ k < n => crashes < limit.crashes
    /\ crashes' = IF k < n THEN crashes + 1 ELSE crashes

Outbids(amount, a) == amount > a.bid /\ amount >= a.min

\* Mutant: the previous bidder is not refunded.
BidKeeps(b, amount, a, k) ==
    balance' = [balance EXCEPT ![b] = @ - amount]
\* Debit, then refund of the previous bid.
BidMoney(b, amount, a, k) ==
    balance' = [x \in Accounts |-> balance[x] - (IF x = b THEN amount ELSE 0)
                                              + (IF x = a.top /\ k > 1 THEN a.bid ELSE 0)]

Bid(id, b, amount, e, k) ==
    /\ Open(id)
    /\ e <= auction[id].end
    /\ Outbids(amount, auction[id])
    /\ balance[b] >= amount
    /\ BidMoney(b, amount, auction[id], k)
    /\ auction' = IF k < 3 THEN auction
                  ELSE [auction EXCEPT ![id].top = b, ![id].bid = amount]
    /\ Stops(k, 3)
    /\ UNCHANGED <<registry, itemOwner, opened, reopened>>

\* The name or the item goes to w; k counts the writes, the opener's credit included.
Assign(lot, w, k) ==
    IF lot \in Names
    THEN /\ nameOwner' = IF k > 1 THEN [nameOwner EXCEPT ![lot] = w] ELSE nameOwner
         /\ primary' = IF k > 2 THEN [primary EXCEPT ![w] = lot] ELSE primary
         /\ active' = IF k > 3 THEN active \ {lot} ELSE active
         /\ UNCHANGED itemOwner
    ELSE /\ itemOwner' = IF k > 1 THEN [itemOwner EXCEPT ![lot] = w] ELSE itemOwner
         /\ UNCHANGED registry

Settle(id, e, k) ==
    /\ Open(id)
    /\ e > auction[id].end
    /\ LET a == auction[id]
           n == IF a.top = NoOne THEN 1 ELSE IF id[1] \in Names THEN 5 ELSE 3
       IN /\ k <= n
          /\ IF a.top = NoOne
             THEN UNCHANGED <<registry, itemOwner, balance>>
             ELSE /\ balance' = [balance EXCEPT ![a.opener] = @ + a.bid]
                  /\ Assign(id[1], a.top, k)
          /\ auction' = IF k < n THEN auction ELSE [auction EXCEPT ![id].status = "settled"]
          /\ Stops(k, n)
    /\ UNCHANGED <<opened, reopened>>

NameAuctionCancel(id) ==
    /\ Open(id)
    /\ auction[id].top = NoOne
    /\ auction' = [auction EXCEPT ![id].status = "cancelled"]
    /\ UNCHANGED <<registry, balance, itemOwner, crashes, opened, reopened>>

AuctionNext ==
    \E e \in 0..MaxEpoch :
      \/ \E n \in Names, a \in Openers, min \in Bids, end \in Ends :
            NameAuctionOpen(n, a, min, end, e)
      \/ \E i \in Items, a \in Openers, min \in Bids, end \in Ends :
            FreeportAuctionOpen(i, a, min, end, e)
      \/ \E id \in Ids : Open(id) /\
          \/ \E b \in Bidders, amount \in Bids, k \in 1..3 : Bid(id, b, amount, e, k)
          \/ \E k \in 1..5 : Settle(id, e, k)
          \/ e = cur /\ NameAuctionCancel(id)

\* The tokens of bidders and openers are kept: they are in balances and in the bids of
\* open auctions (apply_bid refunds the bid it replaces, apply_settle pays the opener).
\* A crash inside a handler loses or doubles one bid at most, and so does an opening
\* that reuses the id of an auction with a bid.
BidsConserved ==
    LET sum == MapThenSumSet(LAMBDA a : balance[a], Accounts)
                 + MapThenSumSet(Escrow, Ids)
        missing == Cardinality(Accounts) * Balance0 - sum
        top == Max(Bids)
    IN -crashes * top <= missing /\ missing <= (crashes + reopened) * top
==============================================================================
