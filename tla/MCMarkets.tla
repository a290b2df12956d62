------------------------------ MODULE MCMarkets -----------------------------
(***************************************************************************)
(* The pending pool, token transfers, the bridge, the agent-task market and *)
(* the exchange side by side: they share no state, and a behaviour runs one *)
(* of them, `part`.                                                         *)
(***************************************************************************)
EXTENDS Naturals

CONSTANTS p1, p2,                        \* tasks that push
          b1, b2, HONE, TOK, Wild, None,  \* accounts, tokens, the wildcard
          c, u,                          \* the custodian and a user of the bridge
          req, a, v, t1, h1, h2, NoTask,   \* the task market
          s1, s2, usd                    \* the exchange

VARIABLES
    part,
    seen, pool, hand, clearing, batch, drained, admitted,
    limit, now, hone, whone, supply, funded, queue, todo, crashes, deposits, locked, minted,
    reserve, processed, claims, evm, accepted, credited, wrapped, burned, paid,
    epoch, swept, native, credit, task, bid, writes, sweeping, scan, dead, stops,
    height, rewarded, refunded, bal, recycle, nonce, approvals, gates, inbox, expired, entries,
    lost, doubled, due,
    line, first, held, coin, decimals, sold, curve, aligned, rate, calls, buys

------------------------------------------------------------------------------
\* Three entries, two tasks, at most five admissions.
Pool == INSTANCE PendingPool WITH
    Entries <- 1..3, Pushers <- {p1, p2}, MaxPushes <- 5, taken <- drained

\* Two accounts, one token beside HONE, three entries, three epochs; a gate payment may carry
\* nothing.
Tokens == INSTANCE TokenTransfer WITH
    Accounts <- {b1, b2}, Tokens <- {TOK}, Native <- HONE, Initial <- 2, InitialNative <- 4,
    Amounts <- {0, 1}, GateFees <- {1}, BaseFee <- 1, Micro <- 1, Standard <- 1, Heavy <- 1,
    Registration <- 1, Expiry <- 2, StaleWindow <- 1, Depth <- 1, MaxEpoch <- 3,
    MaxEntries <- 3, EmptyEpochs <- TRUE, Any <- Wild,
    cur <- height, swept <- refunded, pending <- inbox, scan <- expired

\* Deposits, refunds and hashes of no deposit; amounts past the word; unwraps and
\* payouts; claims; a deposit that is paid out.
MCLimits == {
    [time |-> 1, amounts |-> {1}, locks |-> 1, hashes |-> 2, queue |-> 0, claims |-> 0,
     crashes |-> 1, reserve |-> 0],
    [time |-> 0, amounts |-> {1, 7}, locks |-> 0, hashes |-> 2, queue |-> 1, claims |-> 0,
     crashes |-> 0, reserve |-> 0],
    [time |-> 1, amounts |-> {1}, locks |-> 0, hashes |-> 0, queue |-> 2, claims |-> 0,
     crashes |-> 1, reserve |-> 2],
    [time |-> 0, amounts |-> {1, 2}, locks |-> 0, hashes |-> 0, queue |-> 0, claims |-> 2,
     crashes |-> 1, reserve |-> 0],
    [time |-> 0, amounts |-> {1}, locks |-> 1, hashes |-> 1, queue |-> 1, claims |-> 0,
     crashes |-> 1, reserve |-> 1]}

\* Words of three bits and a cap of three units; amounts that fill it exactly, that pass
\* it, and that carry the sum past the word.
Wrapped == INSTANCE Bridge WITH
    Accounts <- {c, u}, Custodian <- c, Amounts <- {1, 2, 7}, Balance0 <- 2, Cap <- 3,
    Word <- 8, Timelock <- 1, Limits <- MCLimits

\* One task; a fee whose tenth divides for one verifier and not for two, and one too high.
Agents == INSTANCE AgentTask WITH
    Tasks <- {t1}, Requesters <- {req}, Agents <- {a}, Verifiers <- {a, v}, Hashes <- {h1, h2},
    Funds <- 40, MaxFees <- {40}, Fees <- {35, 45}, MinVerifiers <- {0, 2}, CutPct <- 10,
    Window <- 0, Deadline <- 0, Buffer <- 1, MaxEpoch <- 3, MaxCrashes <- 1, Overlap <- FALSE,
    todo <- writes, crashes <- stops

\* Coins with fewer and with more than six decimals; a fee above the value reverts.
Exchange == INSTANCE HybridExchange WITH
    Sellers <- {s1, s2}, Coins <- {usd}, Decimals <- {0, 5, 7}, Base <- 2,
    Deposits <- {1, 4}, Payments <- {1, 4}, Prices <- {1, 3}, Rates <- {<<1, 3>>, <<2, 1>>},
    MaxQueue <- 2, MaxBuys <- 3, MaxOwner <- 1

ASSUME Wrapped!BridgeAmounts /\ Agents!TaskAmounts /\ Exchange!ExchangeAmounts
ASSUME Pool!PoolBounds /\ Tokens!AmountsNat /\ Tokens!FeesNat /\ Tokens!Windows /\ Tokens!Names
------------------------------------------------------------------------------
poolVars == <<seen, pool, hand, clearing, batch, drained, admitted>>
tokenVars == <<height, rewarded, refunded, bal, recycle, nonce, approvals, gates, inbox,
               expired, entries, lost, doubled, due>>
wrappedVars == <<limit, now, hone, whone, supply, funded, queue, todo, crashes, deposits, locked,
                 minted, reserve, processed, claims, evm, accepted, credited, wrapped, burned,
                 paid>>
agentVars == <<epoch, swept, native, credit, task, bid, writes, sweeping, scan, dead, stops>>
exchangeVars == <<line, first, held, coin, decimals, sold, curve, aligned, rate, calls, buys>>
vars == <<part, poolVars, tokenVars, wrappedVars, agentVars, exchangeVars>>

MarketsInit ==
    /\ part \in {"pool", "tokens", "bridge", "agents", "exchange"}
    /\ Pool!Init /\ Tokens!Init /\ Wrapped!BridgeInit /\ Agents!TaskInit /\ Exchange!ExchangeInit
    /\ part # "bridge" => limit = CHOOSE l \in MCLimits : TRUE
    /\ part # "exchange" => /\ decimals = [d \in {usd} |-> 5] /\ rate = <<1, 3>>
                            /\ curve = [initial |-> 1, increment |-> 1]

PoolOnly == part = "pool"
            /\ UNCHANGED <<part, tokenVars, wrappedVars, agentVars, exchangeVars>>
TokensOnly == part = "tokens" /\ UNCHANGED <<part, poolVars, wrappedVars, agentVars, exchangeVars>>
BridgeOnly == part = "bridge" /\ UNCHANGED <<part, poolVars, tokenVars, agentVars, exchangeVars>>
AgentsOnly == part = "agents" /\ UNCHANGED <<part, poolVars, tokenVars, wrappedVars, exchangeVars>>
ExchangeOnly == part = "exchange" /\ UNCHANGED <<part, poolVars, tokenVars, wrappedVars, agentVars>>

MarketsNext ==
    \/ PoolOnly /\ Pool!Next
    \/ TokensOnly /\ Tokens!Next
    \/ BridgeOnly /\ Wrapped!BridgeNext
    \/ AgentsOnly /\ Agents!TaskNext
    \/ ExchangeOnly /\ Exchange!ExchangeNext

\* Epochs keep being finalised and an entry that has started finishes.  The sweep is
\* strongly fair: it does not wait for write_lock, so a stream of entries does not
\* keep it from running.
MarketsSpec ==
    /\ MarketsInit /\ [][MarketsNext]_vars
    /\ WF_vars(AgentsOnly /\ Agents!Write("user")) /\ SF_vars(AgentsOnly /\ Agents!Sweep)
    /\ WF_vars(AgentsOnly /\ Agents!EpochFinal)
------------------------------------------------------------------------------
(* The properties of the parts, each stated and explained in its own module *)

\* PendingPool: an admitted entry is neither lost nor multiplied, and a push is refused
\* only for an entry that is on its way.
PoolExact == Pool!Conserved /\ Pool!RefusedIsHeld

\* TokenTransfer: every unit of every token is held, pending or in the recycle fund,
\* but for the two leaks the module counts; a sweep leaves no transfer that was due.
Accounted == Tokens!Accounted

\* Bridge: the supply is what accounts hold, and at most the cap, but for stops and sums
\* that pass the word.
CirculationCapped == Wrapped!CirculationCapped
\* Bridge: an external transaction is minted for once.
DepositMintedOnce == Wrapped!DepositMintedOnce
\* Bridge: the unlock queue, and what is paid by it, is backed by burned tokens.
BridgeBacked == Wrapped!BridgeBacked

\* AgentTask: HONE, credit and reserved fees add up.
FeesConserved == Agents!FeesConserved
\* AgentTask: every task ends, for good.
TasksEnd == Agents!TasksEnd

\* HybridExchange: the contract holds what is queued from the head on.
QueueBacked == Exchange!QueueBacked
\* HybridExchange: a purchase pays for itself, first in, first out.
PurchaseExact == Exchange!PurchaseExact
=============================================================================
