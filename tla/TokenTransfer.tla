---------------------------- MODULE TokenTransfer ----------------------------
(***************************************************************************)
(* Transfers of any token on one node: instant when the recipient has       *)
(* approved them, against a fee or refused when the recipient has set a     *)
(* spam gate, and otherwise pending until the recipient accepts or rejects  *)
(* them or the sweep of the reward driver refunds them (chain.rs 470-512,   *)
(* 872-911, 2667-2727; main.rs 2658-2672).                                  *)
(*                                                                         *)
(* Entries are applied one at a time under write_lock.  The sweep takes no  *)
(* lock: entries may be applied between its scan and its refunds.           *)
(***************************************************************************)
EXTENDS Integers, FiniteSets, FiniteSetsExt

CONSTANTS
    Accounts, Tokens, Native,   \* Tokens without Native
    Any,                        \* the wildcard "*"
    Initial, InitialNative,     \* what each account has of each token
    Amounts, GateFees,
    BaseFee,                    \* chain_param:base_fee
    Micro, Standard, Heavy, Registration,   \* entry weights
    Expiry, StaleWindow, Depth, \* 30 epochs; 5 epochs; REWARD_FINALITY_DEPTH
    MaxEpoch, MaxEntries,
    EmptyEpochs,                \* may an epoch be finalised with no sealers?
    None

AmountsNat == /\ Initial \in Nat /\ InitialNative \in Nat
              /\ Amounts \subseteq Nat /\ GateFees \subseteq Nat
FeesNat == {BaseFee, Micro, Standard, Heavy, Registration} \subseteq Nat
Windows == Expiry \in Nat /\ StaleWindow \in Nat /\ Depth \in Nat /\ StaleWindow < Expiry
Names == Native \notin Tokens /\ Any \notin Tokens \cup Accounts /\ IsFiniteSet(Accounts)

AllTokens == Tokens \cup {Native}
Patterns == Tokens \cup {Any}

VARIABLES
    cur,        \* Chain::current_epoch
    rewarded,   \* last epoch the reward driver has applied
    swept,      \* last epoch whose sweep has run
    bal,        \* bal[token][account]
    recycle,    \* native balance of the recycle fund
    nonce,      \* nonce of each account
    approvals,  \* token_approval:{to}:{token}:{from}
    gates,      \* spam_gate:{account}:{token}
    pending,    \* pending_transfer:{to}:{token}:{from}:{nonce}
    scan,       \* expired records the running sweep has read and not refunded
    entries,    \* number of entries applied
    lost,       \* what refused transfers have debited, by token
    doubled,    \* what the sweep has refunded of records already gone, by token
    due         \* what had expired when the last sweep began

vars == <<cur, rewarded, swept, bal, recycle, nonce, approvals, gates, pending, scan,
          entries, lost, doubled, due>>

driverVars == <<cur, rewarded, swept, scan, doubled, due>>

Gates == {None} \cup [kind : {"evm"}] \cup [kind : {"onchain"}, fee : GateFees, token : AllTokens]

Pending == [to : Accounts, from : Accounts, token : Tokens, nonce : 1..(MaxEntries + 1),
            amount : Amounts, expires : Expiry..(MaxEpoch + Expiry)]

TypeOK ==
    /\ cur \in 0..MaxEpoch /\ rewarded \in 0..MaxEpoch /\ swept \in 0..rewarded
    /\ bal \in [AllTokens -> [Accounts -> Nat]] /\ recycle \in Nat
    /\ nonce \in [Accounts -> 0..MaxEntries]
    /\ approvals \subseteq Accounts \X Patterns \X (Accounts \cup {Any})
    /\ gates \in [Accounts -> [Patterns -> Gates]]
    /\ pending \subseteq Pending /\ scan \subseteq Pending /\ due \subseteq Pending
    /\ entries \in 0..MaxEntries
    /\ lost \in [AllTokens -> Nat] /\ doubled \in [AllTokens -> Nat]

Init ==
    /\ cur = 0 /\ rewarded = 0 /\ swept = 0
    /\ bal = [t \in AllTokens |-> [a \in Accounts |->
                IF t = Native THEN InitialNative ELSE Initial]]
    /\ recycle = 0
    /\ nonce = [a \in Accounts |-> 0]
    /\ approvals = {} /\ gates = [a \in Accounts |-> [t \in Patterns |-> None]]
    /\ pending = {} /\ scan = {} /\ due = {}
    /\ entries = 0 /\ lost = [t \in AllTokens |-> 0] /\ doubled = [t \in AllTokens |-> 0]

------------------------------------------------------------------------------
(* validate_and_apply: the fee must be there before, and is taken after *)

Debit(b, a, t, n) == [b EXCEPT ![t][a] = @ - n]
Credit(b, a, t, n) == [b EXCEPT ![t][a] = @ + n]

\* Mutant: the nonce stays.
Unbumped(a) == nonce

Bumped(a) == [nonce EXCEPT ![a] = @ + 1]

Submits(a, weight) ==
    /\ entries < MaxEntries /\ entries' = entries + 1
    /\ bal[Native][a] >= weight * BaseFee
    /\ UNCHANGED driverVars

\* The end of an accepted entry of a: nonce and fee.
Settles(a, weight, b) ==
    LET charged == IF b[Native][a] >= weight * BaseFee THEN weight * BaseFee ELSE 0
    IN  /\ bal' = Debit(b, a, Native, charged) /\ recycle' = recycle + charged
        /\ nonce' = Bumped(a)
        /\ UNCHANGED lost

TokenApproved(to, t, from) ==
    \E tp \in {t, Any}, fp \in {from, Any} : <<to, tp, fp>> \in approvals

\* The gate for the token itself hides the one for any token.
SpamGate(to, t) == IF gates[to][t] # None THEN gates[to][t] ELSE gates[to][Any]

\* A record under the same key is replaced.
Put(r) ==
    {p \in pending : <<p.to, p.token, p.from, p.nonce>> # <<r.to, r.token, r.from, r.nonce>>}
    \cup {r}

Held(from, to, t, n, epoch) ==
    [to |-> to, from |-> from, token |-> t, nonce |-> nonce[from] + 1, amount |-> n,
     expires |-> epoch + Expiry]

\* The amount is debited first.  A gate that refuses the transfer leaves it debited.
Transfer(from, to, t, n, epoch) ==
    /\ Submits(from, Micro) /\ n > 0 /\ bal[t][from] >= n
    /\ LET debited == Debit(bal, from, t, n)
           instant == t = Native \/ TokenApproved(to, t, from)
           gate    == SpamGate(to, t)
           passes  == gate.kind = "onchain" /\ debited[gate.token][from] >= gate.fee
       IN  IF instant
           THEN Settles(from, Micro, Credit(debited, to, t, n)) /\ UNCHANGED pending
           ELSE IF gate = None
           THEN Settles(from, Micro, debited) /\ pending' = Put(Held(from, to, t, n, epoch))
           ELSE IF passes
           THEN /\ LET fee == Credit(Debit(debited, from, gate.token, gate.fee),
                                     to, gate.token, gate.fee)
                   IN  Settles(from, Micro, Credit(fee, to, t, n))
                /\ UNCHANGED pending
           ELSE /\ bal' = debited /\ lost' = [lost EXCEPT ![t] = @ + n]
                /\ UNCHANGED <<recycle, nonce, pending>>
    /\ UNCHANGED <<approvals, gates>>

\* A transfer past an EVM gate, with proof of payment, waits to be accepted.
SpamGatePayEvm(from, to, t, n, epoch) ==
    /\ Submits(from, Heavy) /\ bal[t][from] >= n
    /\ SpamGate(to, t) # None /\ SpamGate(to, t).kind = "evm"
    /\ Settles(from, Heavy, Debit(bal, from, t, n))
    /\ pending' = Put(Held(from, to, t, n, epoch))
    /\ UNCHANGED <<approvals, gates>>

\* TokenApprove, TokenRevoke, SpamGateSet and SpamGateClear.
TokenApprove(a, tp, fp) ==
    /\ Submits(a, Registration) /\ Settles(a, Registration, bal)
    /\ approvals' = approvals \cup {<<a, tp, fp>>}
    /\ UNCHANGED <<gates, pending>>

TokenRevoke(a, tp, fp) ==
    /\ Submits(a, Registration) /\ Settles(a, Registration, bal)
    /\ approvals' = approvals \ {<<a, tp, fp>>}
    /\ UNCHANGED <<gates, pending>>

SpamGateSet(a, tp, gate) ==
    /\ Submits(a, Registration) /\ Settles(a, Registration, bal)
    /\ gates' = [gates EXCEPT ![a][tp] = gate]
    /\ UNCHANGED <<approvals, pending>>

SpamGateClear(a, tp) ==
    /\ Submits(a, Standard) /\ Settles(a, Standard, bal)
    /\ gates' = [gates EXCEPT ![a][tp] = None]
    /\ UNCHANGED <<approvals, pending>>

Removed(p) == pending \ {p}

\* The recipient takes a pending transfer, or sends it back.
TokenAccept(p) ==
    /\ p \in pending /\ Submits(p.to, Standard)
    /\ pending' = Removed(p)
    /\ Settles(p.to, Standard, Credit(bal, p.to, p.token, p.amount))
    /\ UNCHANGED <<approvals, gates>>

TokenReject(p) ==
    /\ p \in pending /\ Submits(p.to, Standard)
    /\ pending' = Removed(p)
    /\ Settles(p.to, Standard, Credit(bal, p.from, p.token, p.amount))
    /\ UNCHANGED <<approvals, gates>>

------------------------------------------------------------------------------
(* The clock and the reward driver *)

EpochSeal ==
    /\ cur < MaxEpoch /\ cur' = cur + 1
    /\ UNCHANGED <<rewarded, swept, bal, recycle, nonce, approvals, gates, pending, scan,
                   entries, lost, doubled, due>>

Expired(p, epoch) == p.expires <= epoch

\* The driver applies the next epoch: emit_epoch_rewards, and with it the sweep's
\* scan, runs only if the epoch has sealers.
RewardEpoch(sealers) ==
    /\ scan = {} /\ rewarded + Depth < cur
    /\ rewarded' = rewarded + 1
    /\ IF sealers
       THEN /\ swept' = rewarded + 1
            /\ scan' = {p \in pending : Expired(p, rewarded + 1)}
            /\ due' = {p \in pending : p.expires <= rewarded + 1}
       ELSE UNCHANGED <<swept, scan, due>>
    /\ UNCHANGED <<cur, bal, recycle, nonce, approvals, gates, pending, entries, lost, doubled>>

\* The sweep deletes one record it has read, there or not, and credits the sender; a
\* record of no amount it passes over.
SweepOne(p) ==
    /\ p \in scan /\ scan' = scan \ {p}
    /\ pending' = IF p.amount = 0 THEN pending ELSE pending \ {p}
    /\ bal' = Credit(bal, p.from, p.token, p.amount)
    /\ doubled' = IF p \in pending THEN doubled ELSE [doubled EXCEPT ![p.token] = @ + p.amount]
    /\ UNCHANGED <<cur, rewarded, swept, recycle, nonce, approvals, gates, entries, lost, due>>

Ages == {e \in 0..MaxEpoch : e <= cur /\ ~(cur > StaleWindow /\ e < cur - StaleWindow)}

Next ==
    \/ \E from, to \in Accounts, n \in Amounts :
          \/ \E t \in AllTokens, e \in Ages : Transfer(from, to, t, n, e)
          \/ \E t \in Tokens, e \in 0..cur : SpamGatePayEvm(from, to, t, n, e)
    \/ \E a \in Accounts, tp \in Patterns :
          \/ \E fp \in Accounts \cup {Any} : TokenApprove(a, tp, fp) \/ TokenRevoke(a, tp, fp)
          \/ \E gate \in Gates \ {None} : SpamGateSet(a, tp, gate)
          \/ SpamGateClear(a, tp)
    \/ \E p \in pending : TokenAccept(p) \/ TokenReject(p)
    \/ EpochSeal
    \/ \E sealers \in (IF EmptyEpochs THEN BOOLEAN ELSE {TRUE}) : RewardEpoch(sealers)
    \/ \E p \in scan : SweepOne(p)

Spec == Init /\ [][Next]_vars

------------------------------------------------------------------------------
(* What holds *)

Supply(t) == Cardinality(Accounts) * (IF t = Native THEN InitialNative ELSE Initial)
Total(t) ==
    MapThenSumSet(LAMBDA a : bal[t][a], Accounts)
    + MapThenSumSet(LAMBDA p : p.amount, {p \in pending : p.token = t})
    + (IF t = Native THEN recycle ELSE 0)

\* Every unit of every token is held by an account, pending or in the recycle fund.
\* Only two things move the sum: a transfer that a spam gate refuses after the debit
\* (chain.rs 878-898), and a sweep that refunds a record accepted or rejected since
\* it was read (main.rs 2661-2671).  Pending transfers never overwrite each other, and
\* when a sweep is through none of the records that had expired when it began is left,
\* whatever entries were applied in between, but those of no amount (main.rs 2668).
Accounted ==
    /\ \A t \in AllTokens : Total(t) + lost[t] = Supply(t) + doubled[t]
    /\ scan = {} => \A p \in due \cap pending : p.amount = 0

------------------------------------------------------------------------------
(* What the comments claim *)

\* chain.rs 6319, P1: "sum is conserved regardless of success or failure".
TransferConserves == \A t \in AllTokens : Total(t) = Supply(t)

\* chain.rs 6263, P4: "Supply cap: credited balances never exceed what was seeded".
SupplyCap == \A t \in AllTokens : Total(t) <= Supply(t)

\* main.rs 1836-1838: "a sweep that credits/debits balances MUST NOT be skipped on a
\* zero-reward epoch": when the driver is through with an epoch, every transfer that
\* has expired by then is refunded, whether or not the epoch had sealers.
RefundedOnExpiry ==
    [][(scan # {} \/ rewarded' # rewarded) /\ scan' = {} =>
          \A p \in pending' : p.expires > rewarded']_vars
==============================================================================
