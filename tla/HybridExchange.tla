--------------------------- MODULE HybridExchange ---------------------------
(***************************************************************************)
(* HoneHybridExchange.sol: sellers queue wHONE, buyers pay a stablecoin and *)
(* are served from the head of the queue, at the price of a bonding curve   *)
(* or of an oracle.  A call is a transaction: it succeeds as a whole or     *)
(* reverts.  The powers of ten are powers of Base here: a whole wHONE is    *)
(* Base^2 units, and decimals count from 6.                                 *)
(***************************************************************************)
EXTENDS Integers, Sequences, FiniteSetsExt

CONSTANTS
    Sellers, Coins,
    Decimals,           \* decimals an owner gives a coin; 0 removes it
    Base,               \* 10
    Deposits, Payments, \* amounts of wHONE queued or withdrawn; amounts paid
    Prices,             \* initial prices and increments the owner sets; oracle answers
    Rates,              \* fee rates <<numerator, denominator>>
    MaxQueue, MaxBuys, MaxOwner     \* bounds: deposits; purchases; calls of the owner

ExchangeAmounts == /\ Base \in Nat \ {0, 1} /\ Deposits \subseteq Nat \ {0}
                   /\ Payments \subseteq Nat \ {0} /\ \A r \in Rates : r[2] > 0

VARIABLES
    line,       \* whoneQueue
    first,      \* head, counted from 1
    held,       \* wHONE of the contract
    coin,       \* stablecoins of the contract
    decimals,   \* stablecoinDecimals
    sold,       \* totalWhoneSoldByContract
    curve,      \* [initial, increment]
    aligned,    \* currentPricingState = AmmAligned
    rate,       \* fee numerator and denominator
    calls, buys \* calls of the owner, and purchases, so far

exchangeVars == <<line, first, held, coin, decimals, sold, curve, aligned, rate, calls, buys>>

ExchangeInit ==
    /\ line = <<>> /\ first = 1 /\ held = 0
    /\ coin = [c \in Coins |-> 0] /\ decimals \in [Coins -> Decimals \ {0}]
    /\ sold = 0 /\ aligned = FALSE /\ rate \in Rates
    /\ calls = 0 /\ buys = 0
    /\ curve \in [initial : Prices, increment : Prices]

Unit == Base ^ 2     \* WHONE_DECIMALS_FACTOR
------------------------------------------------------------------------------
(* The owner *)

Owner == calls < MaxOwner /\ calls' = calls + 1 /\ UNCHANGED buys

TransitionToAmmAligned ==
    /\ Owner /\ ~aligned /\ aligned' = TRUE
    /\ UNCHANGED <<line, first, held, coin, decimals, sold, curve, rate>>

SetBondingCurveParameters(initial, increment) ==
    /\ Owner /\ ~aligned /\ curve' = [initial |-> initial, increment |-> increment]
    /\ UNCHANGED <<line, first, held, coin, decimals, sold, aligned, rate>>

SetFeeParameters(r) ==
    /\ Owner /\ rate' = r
    /\ UNCHANGED <<line, first, held, coin, decimals, sold, curve, aligned>>

\* addOrUpdateStablecoin, and removeStablecoin when d is 0.
SetStablecoin(c, d) ==
    /\ Owner /\ decimals' = [decimals EXCEPT ![c] = d]
    /\ UNCHANGED <<line, first, held, coin, sold, curve, aligned, rate>>
------------------------------------------------------------------------------
(* Sellers and buyers *)

DepositWhoneForSale(s, n) ==
    /\ Len(line) < MaxQueue
    /\ line' = Append(line, [seller |-> s, amount |-> n]) /\ held' = held + n
    /\ UNCHANGED <<first, coin, decimals, sold, curve, aligned, rate, calls, buys>>

NormalizeTo6(c, n) ==
    IF decimals[c] >= 6 THEN n \div Base ^ (decimals[c] - 6) ELSE n * Base ^ (6 - decimals[c])

\* Mutant: a coin with fewer decimals is rounded up.
ConvertUp(c, n) ==
    IF decimals[c] >= 6 THEN n * Base ^ (decimals[c] - 6)
    ELSE (n + Base ^ (6 - decimals[c]) - 1) \div Base ^ (6 - decimals[c])
ConvertFrom6(c, n) ==
    IF decimals[c] >= 6 THEN n * Base ^ (decimals[c] - 6) ELSE n \div Base ^ (6 - decimals[c])

CurvePrice == curve.initial + (sold \div Unit) * curve.increment

\* What is queued before position i, from the head on.
Before(i) == MapThenSumSet(LAMBDA j : line[j].amount, first..(i - 1))
Available == Before(Len(line) + 1)

\* The loop of a purchase of n reaches the deposits with less than n before them; the
\* ones it uses up are passed by the head, the last may keep a part.
Reached(n) == {i \in first..Len(line) : Before(i) < n}
Take(i, n) == Min({line[i].amount, n - Before(i)})
UsedUp(n) == {i \in Reached(n) : line[i].amount <= n - Before(i)}
\* Mutant: the head passes the last deposit too.
HeadPast(n) == first + Cardinality(Reached(n))
HeadAfter(n) == first + Cardinality(UsedUp(n))
\* A deposit that is used up keeps its amount in the storage.
Left(n) == [i \in DOMAIN line |->
              IF i \in Reached(n) \ UsedUp(n) THEN [line[i] EXCEPT !.amount = @ - Take(i, n)]
              ELSE line[i]]

Value6(i, n, price) == (Take(i, n) * price) \div Unit
Fee6(i, n, price) == (Value6(i, n, price) * rate[1]) \div rate[2]
\* What the seller of deposit i and the fee wallet are paid, in coin c.
PaidFor(i, n, price, c) ==
    ConvertFrom6(c, Fee6(i, n, price))
    + ConvertFrom6(c, Value6(i, n, price) - Fee6(i, n, price))

\* oracle: the answer of the feed, in 6 decimals.  A buyer's own minimum only makes
\* more calls revert.
BuyWhoneWithStablecoin(c, paid, oracle) ==
    LET price == IF aligned THEN oracle ELSE CurvePrice
        n == (NormalizeTo6(c, paid) * Unit) \div price
        out == MapThenSumSet(LAMBDA i : PaidFor(i, n, price, c), Reached(n))
    IN  /\ buys < MaxBuys /\ buys' = buys + 1
        /\ first <= Len(line) /\ decimals[c] > 0 /\ price > 0
        /\ n <= Available
        /\ \A i \in Reached(n) : Fee6(i, n, price) <= Value6(i, n, price)
        /\ coin[c] + paid >= out
        /\ line' = Left(n) /\ first' = HeadAfter(n)
        /\ held' = held - n /\ sold' = sold + n
        /\ coin' = [coin EXCEPT ![c] = @ + paid - out]
        /\ UNCHANGED <<decimals, curve, aligned, rate, calls>>

Own(i, s) == i \in first..Len(line) /\ line[i].seller = s

WithdrawOwnWhone(i, s, n) ==
    /\ Own(i, s) /\ n <= line[i].amount
    /\ LET rest == [line EXCEPT ![i].amount = @ - n] IN
       /\ line' = rest /\ held' = held - n
       /\ first' = IF rest[i].amount = 0 /\ i = first
                   THEN Min({j \in first..Len(line) : rest[j].amount > 0} \cup {Len(line) + 1})
                   ELSE first
    /\ UNCHANGED <<coin, decimals, sold, curve, aligned, rate, calls, buys>>
------------------------------------------------------------------------------
ExchangeNext ==
    \/ TransitionToAmmAligned
    \/ \E p, q \in Prices : SetBondingCurveParameters(p, q)
    \/ \E r \in Rates : SetFeeParameters(r)
    \/ \E c \in Coins, d \in Decimals : SetStablecoin(c, d)
    \/ \E s \in Sellers, n \in Deposits :
          DepositWhoneForSale(s, n) \/ \E i \in DOMAIN line : WithdrawOwnWhone(i, s, n)
    \/ \E c \in Coins, paid \in Payments, o \in Prices : BuyWhoneWithStablecoin(c, paid, o)
------------------------------------------------------------------------------
(* What holds *)

\* The contract holds exactly what sellers have in the queue from the head on, so
\* each of them can withdraw: what sales, partial sales and withdrawals in the middle
\* of the queue leave in storage is never counted twice.
QueueBacked == held = Available

\* A purchase pays sellers and fee wallet out of what its buyer pays, never out of
\* what an earlier one has left: rounding goes down in every conversion.  It uses a
\* deposit only when all before it are used up or withdrawn (HoneHybridExchange.sol
\* 31: "FIFO (First-In, First-Out) selling queue").
PurchaseExact ==
    [][/\ decimals' = decimals => \A c \in Coins : coin'[c] >= coin[c]
       /\ sold' # sold => \A i \in first..Len(line) :
            line'[i].amount < line[i].amount => first' = i]_exchangeVars
=============================================================================
