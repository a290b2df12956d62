------------------------------- MODULE Bridge -------------------------------
(***************************************************************************)
(* wHONE between the node and an EVM chain: the bridge entries of the node  *)
(* (bridge.rs), the claim proofs of its API (api.rs), and the contracts     *)
(* BridgeLock, BridgeReserve and wHONE.  The relayer is not in the          *)
(* repository: it reads both sides and sends a call as often as it likes.   *)
(* A bridge entry may come from any account that has a key, with any hash,  *)
(* amount and request: neither tx.rs nor bridge.rs ties it to a deposit, to *)
(* a payment or to a registered custodian.                                  *)
(*                                                                         *)
(* A bridge entry runs under write_lock in several writes to the store; the *)
(* process may stop between two of them.                                    *)
(***************************************************************************)
EXTENDS Naturals, Sequences, FiniteSetsExt

CONSTANTS
    Accounts, Custodian,    \* accounts; one that starts without HONE
    Amounts, Balance0,      \* amounts; HONE every other account starts with
    Cap,                    \* BRIDGE_CAP_HUNITS
    Word,                   \* 2^64: one more than the largest amount
    Timelock,               \* UNLOCK_TIMELOCK
    Limits  \* bounds: [time, amounts, locks, hashes, queue, claims, crashes, reserve]

BridgeAmounts ==
    /\ Word \in Nat /\ Cap \in 0..Word - 1 /\ Balance0 \in 0..Word - 1
    /\ Amounts \subseteq 1..Word - 1 /\ \A l \in Limits : l.amounts \subseteq Amounts

VARIABLES
    limit,      \* the bounds of this behaviour
    now,        \* epochs of the node, and time of the EVM chain
    hone,       \* native balances
    whone,      \* wHONE balances
    supply,     \* bridge_whone_supply
    funded,     \* bridge_fund_tx:{external_tx_hash}; hash n is that of lock nonce n
    queue,      \* bridge_unlock_queue
    todo,       \* writes that the entry holding write_lock has still to do
    crashes,
    deposits,   \* BridgeLock.deposits, by nonce
    locked,     \* what BridgeLock holds
    minted,     \* BridgeLock.mintedDreams
    reserve,    \* what BridgeReserve holds
    processed,  \* BridgeReserve.processedTxHashes, by position in the queue
    claims,     \* claim proofs: [account, amount, fresh, wrap, used]
    evm,        \* wHONE minted by claims on the EVM chain
    accepted, credited, \* by hash: BridgeFund entries accepted, and minted
    wrapped,    \* an accepted amount has carried the supply past the word
    burned, paid    \* wHONE burned by unwraps; what the reserve has paid out

nodeVars == <<hone, whone, supply, funded, queue, todo, crashes, accepted, credited, wrapped,
              burned>>
evmVars == <<deposits, locked, minted, reserve, processed, evm, paid>>
bridgeVars == <<limit, now, nodeVars, evmVars, claims>>

Hashes == 1..Max({l.hashes : l \in Limits})
Sum(f) == MapThenSumSet(LAMBDA a : f[a], Accounts)

BridgeInit ==
    /\ limit \in Limits /\ now = 0
    /\ hone = [a \in Accounts |-> IF a = Custodian THEN 0 ELSE Balance0]
    /\ whone = [a \in Accounts |-> 0] /\ supply = 0 /\ funded = {} /\ queue = <<>>
    /\ todo = <<>> /\ crashes = 0
    /\ deposits = <<>> /\ locked = 0 /\ minted = 0 /\ reserve = 0 /\ processed = {}
    /\ claims = <<>> /\ evm = 0
    /\ accepted = [h \in Hashes |-> 0] /\ credited = [h \in Hashes |-> 0]
    /\ wrapped = FALSE /\ burned = 0 /\ paid = 0
------------------------------------------------------------------------------
(* The node *)

\* A claim's BridgeWrap waits in the pool with the nonce its account had; any other
\* entry of the account makes that nonce stale.
Bumped(account) ==
    [i \in DOMAIN claims |->
        IF claims[i].account = account THEN [claims[i] EXCEPT !.fresh = FALSE] ELSE claims[i]]

\* The u64 sum is not checked, and a release build wraps.
Counted(amount) == (supply + amount) % Word
Capped(amount) == Counted(amount) <= Cap
\* Store::credit refuses a balance that would pass the word.
Fits(account, n) == whone[account] + n < Word

Debit(account, n) == [op |-> "debit", who |-> account, n |-> n]
Credit(account, n) == [op |-> "credit", who |-> account, n |-> n]
SetSupply(n) == [op |-> "supply", n |-> n]

\* Mutant: the external transaction is not remembered.
FundForgets(h, a, n) ==
    <<[op |-> "mint", who |-> a, n |-> n, of |-> h], SetSupply(Counted(n))>>
\* apply_fund: mint to the custodian, count, remember the external transaction.
FundWrites(h, a, n) ==
    <<[op |-> "mint", who |-> a, n |-> n, of |-> h], SetSupply(Counted(n)),
      [op |-> "dedup", n |-> h]>>

\* Mutant: the supply is left as it was.
WrapUncounted(a, n) ==
    <<[op |-> "native", who |-> a, n |-> n]>>
        \o (IF Fits(a, n) THEN <<Credit(a, n)>> ELSE <<>>)
\* apply_wrap: burn HONE, mint wHONE, count; a credit that is refused ends the entry.
WrapWrites(a, n) ==
    <<[op |-> "native", who |-> a, n |-> n]>>
        \o (IF Fits(a, n) THEN <<Credit(a, n), SetSupply(Counted(n))>> ELSE <<>>)

\* The request id is a hash of account, epoch and recipient; an account has one address.
Request(a, n, epoch) == [id |-> <<a, epoch>>, amount |-> n, fulfilled |-> FALSE]

\* Mutant: the request is queued before the tokens are burned.
UnwrapQueuesFirst(a, n, epoch) ==
    <<[op |-> "queue", req |-> Request(a, n, epoch)], [op |-> "burn", who |-> a, n |-> n],
      SetSupply(IF supply < n THEN 0 ELSE supply - n)>>
\* apply_unwrap: burn wHONE, count, queue the request.
UnwrapWrites(a, n, epoch) ==
    <<[op |-> "burn", who |-> a, n |-> n],
      SetSupply(IF supply < n THEN 0 ELSE supply - n),
      [op |-> "queue", req |-> Request(a, n, epoch)]>>

\* An entry takes write_lock, passes its checks and starts to write.  The nonce of the
\* account moves only when no write is refused, `whole`.
Begin(account, writes, whole) ==
    /\ todo = <<>> /\ todo' = writes
    /\ claims' = IF whole THEN Bumped(account) ELSE claims
    /\ UNCHANGED <<limit, now, hone, whone, supply, funded, queue, crashes, credited, burned,
                   evmVars>>

\* A BridgeFund that names hash h, from and for any account; the hash need not be that
\* of a deposit, nor the amount the deposit's.
BridgeFund(h, a, n) ==
    /\ h <= limit.hashes /\ h \notin funded /\ Capped(n) /\ Fits(a, n)
    /\ Begin(a, FundWrites(h, a, n), TRUE)
    /\ accepted' = [accepted EXCEPT ![h] = @ + 1]
    /\ wrapped' = (wrapped \/ supply + n >= Word)

BridgeWrap(a, n) ==
    /\ hone[a] >= n /\ Capped(n) /\ Begin(a, WrapWrites(a, n), Fits(a, n))
    /\ wrapped' = (wrapped \/ supply + n >= Word) /\ UNCHANGED accepted

BridgeUnwrap(a, n, epoch) ==
    /\ epoch <= now /\ Len(queue) < limit.queue /\ whone[a] >= n
    /\ Begin(a, UnwrapWrites(a, n, epoch), TRUE) /\ UNCHANGED <<accepted, wrapped>>

\* An ordinary transfer of wHONE; the credit may be refused after the debit.
Transfer(a, b, n) ==
    /\ a # b /\ whone[a] >= n
    /\ Begin(a, <<Debit(a, n)>> \o (IF Fits(b, n) THEN <<Credit(b, n)>> ELSE <<>>), Fits(b, n))
    /\ UNCHANGED <<accepted, wrapped>>

\* The writes, one by one.
Write ==
    /\ todo # <<>> /\ todo' = Tail(todo)
    /\ LET w == Head(todo) IN
       /\ whone' = CASE w.op \in {"mint", "credit"} -> [whone EXCEPT ![w.who] = @ + w.n]
                     [] w.op \in {"burn", "debit"} -> [whone EXCEPT ![w.who] = @ - w.n]
                     [] OTHER -> whone
       /\ hone' = IF w.op = "native" THEN [hone EXCEPT ![w.who] = @ - w.n] ELSE hone
       /\ supply' = IF w.op = "supply" THEN w.n ELSE supply
       /\ funded' = IF w.op = "dedup" THEN funded \cup {w.n} ELSE funded
       /\ queue' = IF w.op = "queue" THEN Append(queue, w.req) ELSE queue
       /\ credited' = IF w.op = "mint" THEN [credited EXCEPT ![w.of] = @ + 1] ELSE credited
       /\ burned' = IF w.op = "burn" THEN burned + w.n ELSE burned
    /\ UNCHANGED <<limit, now, crashes, accepted, wrapped, evmVars, claims>>

\* The process stops and starts again: the writes not done yet are lost, and so is
\* the pool.
Crash ==
    /\ todo # <<>> /\ crashes < limit.crashes
    /\ todo' = <<>> /\ crashes' = crashes + 1
    /\ claims' = [i \in DOMAIN claims |-> [claims[i] EXCEPT !.fresh = FALSE]]
    /\ UNCHANGED <<limit, now, hone, whone, supply, funded, queue, accepted, credited, wrapped,
                   burned, evmVars>>

\* The requests of an id; apply_unlock takes the first.
WithId(id) == {i \in DOMAIN queue : queue[i].id = id}

\* A BridgeUnlock with the id of request i, from any account, paid or not.
BridgeUnlock(a, i) ==
    /\ todo = <<>>
    /\ LET first == Min(WithId(queue[i].id)) IN
       /\ ~queue[first].fulfilled
       /\ queue' = [queue EXCEPT ![first].fulfilled = TRUE]
    /\ claims' = Bumped(a)
    /\ UNCHANGED <<limit, now, hone, whone, supply, funded, todo, crashes, accepted, credited,
                   wrapped, burned, evmVars>>

\* post_bridge_claim_proof: the proof is signed at once, on the balance as it is; the
\* burn is an entry pushed to the pool.
BridgeClaimProof(a, n) ==
    /\ Len(claims) < limit.claims /\ hone[a] >= n
    /\ claims' = Append(claims, [account |-> a, amount |-> n, fresh |-> TRUE,
                                 wrap |-> FALSE, used |-> FALSE])
    /\ UNCHANGED <<limit, now, nodeVars, evmVars>>

\* The pool applies the burn of a claim.
ClaimWrap(i) ==
    /\ i \in DOMAIN claims /\ claims[i].fresh
    /\ hone[claims[i].account] >= claims[i].amount /\ Capped(claims[i].amount)
    /\ todo = <<>> /\ todo' = WrapWrites(claims[i].account, claims[i].amount)
    /\ LET whole == Fits(claims[i].account, claims[i].amount) IN
       claims' = [IF whole THEN Bumped(claims[i].account) ELSE claims
                  EXCEPT ![i].wrap = TRUE, ![i].fresh = FALSE]
    /\ wrapped' = (wrapped \/ supply + claims[i].amount >= Word)
    /\ UNCHANGED <<limit, now, hone, whone, supply, funded, queue, crashes, accepted, credited,
                   burned, evmVars>>
------------------------------------------------------------------------------
(* The contracts *)

LockTokens(n) ==
    /\ Len(deposits) < limit.locks /\ minted < Cap
    /\ deposits' = Append(deposits, [amount |-> n, at |-> now, refunded |-> FALSE])
    /\ locked' = locked + n
    /\ UNCHANGED <<limit, now, nodeVars, minted, reserve, processed, evm, paid, claims>>

\* The oracle copies the node's counter.
SetMintedDreams ==
    /\ supply <= Cap /\ minted' = supply /\ minted # supply
    /\ UNCHANGED <<limit, now, nodeVars, deposits, locked, reserve, processed, evm, paid, claims>>

Refundable(d) == ~d.refunded /\ now >= d.at + Timelock

UnlockFunds(n) ==
    /\ Refundable(deposits[n]) /\ locked >= deposits[n].amount
    /\ deposits' = [deposits EXCEPT ![n].refunded = TRUE]
    /\ locked' = locked - deposits[n].amount
    /\ UNCHANGED <<limit, now, nodeVars, minted, reserve, processed, evm, paid, claims>>

\* The owner funds the reserve, or withdraws from it.
FundReserve(n) ==
    /\ reserve + n <= limit.reserve /\ reserve' = reserve + n
    /\ UNCHANGED <<limit, now, nodeVars, deposits, locked, minted, processed, evm, paid, claims>>

EmergencyWithdraw(n) ==
    /\ reserve >= n /\ reserve' = reserve - n
    /\ UNCHANGED <<limit, now, nodeVars, deposits, locked, minted, processed, evm, paid, claims>>

Payable(i) == i \notin processed /\ reserve >= queue[i].amount

\* BridgeReserve.unlock for request i; its hash is the unwrap's, not the request id.
Unlock(i) ==
    /\ i \in DOMAIN queue /\ Payable(i)
    /\ processed' = processed \cup {i}
    /\ reserve' = reserve - queue[i].amount /\ paid' = paid + queue[i].amount
    /\ UNCHANGED <<limit, now, nodeVars, deposits, locked, minted, evm, claims>>

Claimable(c) == ~c.used

\* wHONE.claim: a proof mints once.
Claim(i) ==
    /\ i \in DOMAIN claims /\ Claimable(claims[i])
    /\ claims' = [claims EXCEPT ![i].used = TRUE]
    /\ evm' = evm + claims[i].amount
    /\ UNCHANGED <<limit, now, nodeVars, deposits, locked, minted, reserve, processed, paid>>
------------------------------------------------------------------------------
BridgeTick == /\ now < limit.time /\ now' = now + 1
              /\ UNCHANGED <<limit, nodeVars, evmVars, claims>>

BridgeNext ==
    \/ \E h \in Hashes, a \in Accounts, n \in limit.amounts : BridgeFund(h, a, n)
    \/ \E n \in DOMAIN deposits : UnlockFunds(n)
    \/ \E a \in Accounts, n \in limit.amounts :
          \/ BridgeWrap(a, n) \/ BridgeClaimProof(a, n)
          \/ \E e \in 0..now : BridgeUnwrap(a, n, e)
          \/ \E b \in Accounts : Transfer(a, b, n)
    \/ \E i \in DOMAIN queue : Unlock(i) \/ \E a \in Accounts : BridgeUnlock(a, i)
    \/ \E i \in DOMAIN claims : ClaimWrap(i) \/ Claim(i)
    \/ \E n \in limit.amounts : LockTokens(n) \/ FundReserve(n) \/ EmergencyWithdraw(n)
    \/ SetMintedDreams \/ Write \/ Crash \/ BridgeTick
------------------------------------------------------------------------------
(* What holds *)

\* How far bridge.rs 8 is kept.  As long as no accepted amount has carried the sum of
\* bridge.rs 53 and 85 past the word, the counter is, between entries, what the
\* accounts hold, and circulation passes the cap by at most one cap for every time the
\* process stopped between two writes.  The counter itself never passes the cap.
CirculationCapped ==
    /\ supply \in 0..Cap
    /\ ~wrapped => /\ todo = <<>> /\ crashes = 0 => supply = Sum(whone)
                   /\ Sum(whone) <= (1 + crashes) * Cap

\* An external transaction is minted for once (bridge.rs 46 "Idempotency: reject
\* duplicate external tx hashes"), however often entries name it, and only by an entry
\* that was accepted; once more for each stop.  Escrow states it: accepted is taken,
\* minted is given.
Mint == INSTANCE Escrow WITH
    Items <- Hashes, taken <- accepted, given <- credited, faults <- crashes
DepositMintedOnce == Mint!Spec

Queued == MapThenSumSet(LAMBDA i : queue[i].amount, DOMAIN queue)

\* The unlock queue stands for burned tokens, whatever stops, and marks by any account,
\* come between: what it asks for, and so what a relayer that follows it pays, was
\* burned before; when no entry was cut short it asks for all that was burned; and of
\* the requests with one id only the first is ever marked.
BridgeBacked ==
    /\ paid <= Queued /\ Queued <= burned
    /\ todo = <<>> /\ crashes = 0 => Queued = burned
    /\ \A i \in DOMAIN queue : queue[i].fulfilled => i = Min(WithId(queue[i].id))

------------------------------------------------------------------------------
(* What the comments claim *)

\* bridge.rs 8: "total wHONE in circulation never exceeds BRIDGE_CAP_HUNITS".
CapKept == Sum(whone) <= Cap

\* bridge.rs 3: "a custodian deposits ETH/BTC into a registered bridge contract".
MintedIsLocked == \A h \in Hashes : credited[h] > 0 => h \in DOMAIN deposits

\* bridge.rs 5: "custodian signals that wrapped tokens have been burned on the external
\* chain"; bridge.rs 9: "custodian processes them in order".
FulfilledIsPaid == \A i \in DOMAIN queue : queue[i].fulfilled => i \in processed
FulfilledInOrder ==
    \A i, j \in DOMAIN queue : i < j /\ queue[j].fulfilled => queue[i].fulfilled

\* BridgeReserve.sol 16-19: a request that was paid can be marked.
PaidCanBeMarked ==
    \A i \in processed : queue[i].fulfilled \/ ~queue[Min(WithId(queue[i].id))].fulfilled

\* BridgeLock.sol 159: "Refund a failed bridge deposit".
RefundedIsFailed ==
    \A n \in DOMAIN deposits \cap Hashes : ~(deposits[n].refunded /\ credited[n] > 0)

\* api.rs 8787: "The HONE is burned from the account's on-chain balance via a
\* BridgeWrap entry."
ClaimedIsBurned == \A i \in DOMAIN claims : claims[i].used => claims[i].fresh \/ claims[i].wrap
=============================================================================
