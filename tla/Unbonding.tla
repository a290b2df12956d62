------------------------------ MODULE Unbonding ------------------------------
(***************************************************************************)
(* Native-token transfers, staking and the unbonding window of one node     *)
(* (tx.rs 115-244, 2177-2192; chain.rs 872-942, 3878-3893; main.rs 583-644).*)
(*                                                                          *)
(* Entries are applied one at a time under Chain::write_lock, at any moment *)
(* (the API applies on submission, the seal handler when it drains the      *)
(* pool).  An entry carries the epoch its author saw.  Unstaked tokens wait *)
(* in a record unbonding:{release_epoch}:{account}, which only the handler  *)
(* of exactly that epoch pays out: it credits the account, then deletes the *)
(* record.  A crash keeps what is in the database; a restarted node may     *)
(* seal the epoch it was in again.  The base fee moves at every seal and is *)
(* any member of Fees here; tokens other than the native one are in         *)
(* TokenTransfer.                                                           *)
(***************************************************************************)
EXTENDS Integers, FiniteSets, FiniteSetsExt

CONSTANTS Accounts,         \* user accounts
          Initial,          \* balance of each account at the start
          Amounts,          \* amounts an entry may name
          Fees,             \* values of the base fee
          MicroWeight,      \* ENTRY_WEIGHT_MICRO: a Transfer's weight
          StandardWeight,   \* ENTRY_WEIGHT_STANDARD: a Stake's or Unstake's
          UnbondingEpochs,  \* UNBONDING_EPOCHS
          StaleWindow,      \* STALE_WINDOW
          Ahead,            \* bound on how far an author's epoch runs ahead
          MaxEpoch,         \* bound on the sealed epochs
          MaxEntries,       \* bound on the entries applied
          MaxCrashes,       \* bound on crashes
          None

ASSUME AccountsFinite == IsFiniteSet(Accounts)
ASSUME AmountsNat == Initial \in Nat /\ Amounts \subseteq Nat /\ Fees \subseteq Nat
ASSUME WeightsNat == MicroWeight \in Nat /\ StandardWeight \in Nat
ASSUME EpochsNat ==
    /\ UnbondingEpochs \in Nat /\ StaleWindow \in Nat /\ Ahead \in Nat /\ MaxEpoch \in Nat
    /\ MaxEntries \in Nat /\ MaxCrashes \in Nat
ASSUME NoneFresh == None \notin 0..MaxEpoch /\ None \notin Accounts
\* The constants of the code: 10 epochs of unbonding, entries at most 5 epochs old.
ASSUME StaleBeforeRelease == StaleWindow < UnbondingEpochs

Releases == 0..(MaxEpoch + Ahead + UnbondingEpochs)

VARIABLES
    cur,        \* Chain::current_epoch
    balance,    \* native balance of each account
    recycle,    \* balance of RECYCLE_FUND_ACCOUNT
    stake,      \* stake of each account
    unbonding,  \* unbonding[r][a]: the record unbonding:{r}:{a}, 0 if there is none
    fee,        \* chain_param:base_fee
    draining,   \* the epoch whose seal handler is running, or None
    handled,    \* epochs whose seal handler this process has started
    credited,   \* the account credited whose record is not deleted yet, or None
    entries,    \* number of entries applied
    crashes,    \* number of crashes
    since       \* since[r][a]: the epoch in which the last Unstake joined the record

vars == <<cur, balance, recycle, stake, unbonding, fee, draining, handled, credited,
          entries, crashes, since>>

TypeOK ==
    /\ cur \in 0..MaxEpoch
    /\ balance \in [Accounts -> Nat] /\ recycle \in Nat /\ stake \in [Accounts -> Nat]
    /\ unbonding \in [Releases -> [Accounts -> Nat]]
    /\ fee \in Fees
    /\ draining \in 0..MaxEpoch \cup {None} /\ handled \subseteq 1..MaxEpoch
    /\ credited \in Accounts \cup {None}
    /\ entries \in 0..MaxEntries /\ crashes \in 0..MaxCrashes
    /\ since \in [Releases -> [Accounts -> 0..MaxEpoch]]

Init ==
    /\ cur = 0
    /\ balance = [a \in Accounts |-> Initial] /\ recycle = 0
    /\ stake = [a \in Accounts |-> 0]
    /\ unbonding = [r \in Releases |-> [a \in Accounts |-> 0]]
    /\ fee \in Fees
    /\ draining = None /\ handled = {} /\ credited = None
    /\ entries = 0 /\ crashes = 0
    /\ since = [r \in Releases |-> [a \in Accounts |-> 0]]

------------------------------------------------------------------------------
(* validate_and_apply *)

\* Mutant: the stale-entry guard is dropped.
AnyAge(epoch) == epoch \in Nat

\* The stale-entry guard.
Fresh(epoch) == ~(cur > StaleWindow /\ epoch < cur - StaleWindow)

\* The fee is required up front and taken at the end from what is then left: an
\* entry that spends it first stays applied and pays nothing.
Affords(a, weight) == balance[a] >= weight * fee
Charged(left, weight) == IF left >= weight * fee THEN weight * fee ELSE 0

Applies(epoch) ==
    /\ entries < MaxEntries /\ entries' = entries + 1
    /\ Fresh(epoch)
    /\ UNCHANGED <<cur, fee, draining, handled, credited, crashes>>

Transfer(a, b, amount, epoch) ==
    /\ Applies(epoch) /\ Affords(a, MicroWeight)
    /\ amount > 0 /\ balance[a] >= amount
    /\ LET moved   == [[balance EXCEPT ![a] = @ - amount] EXCEPT ![b] = @ + amount]
           charged == Charged(moved[a], MicroWeight)
       IN  /\ balance' = [moved EXCEPT ![a] = @ - charged]
           /\ recycle' = recycle + charged
    /\ UNCHANGED <<stake, unbonding, since>>

Stake(a, amount, epoch) ==
    /\ Applies(epoch) /\ Affords(a, StandardWeight)
    /\ amount > 0 /\ balance[a] >= amount
    /\ LET charged == Charged(balance[a] - amount, StandardWeight)
       IN  /\ balance' = [balance EXCEPT ![a] = @ - amount - charged]
           /\ recycle' = recycle + charged
    /\ stake' = [stake EXCEPT ![a] = @ + amount]
    /\ UNCHANGED <<unbonding, since>>

\* Mutants: the window is one epoch short; an earlier record is overwritten.
ReleaseEarly(epoch) == epoch + UnbondingEpochs - 1
Overwritten(held, amount) == amount

ReleaseEpoch(epoch) == epoch + UnbondingEpochs
Joined(held, amount) == held + amount

\* The stake drops at once; the tokens wait, with any others of the same release.
Unstake(a, amount, epoch) ==
    /\ Applies(epoch) /\ Affords(a, StandardWeight)
    /\ amount > 0 /\ stake[a] >= amount
    /\ stake' = [stake EXCEPT ![a] = @ - amount]
    /\ LET r == ReleaseEpoch(epoch) IN
       /\ unbonding' = [unbonding EXCEPT ![r][a] = Joined(@, amount)]
       /\ since' = [since EXCEPT ![r][a] = cur]
    /\ LET charged == Charged(balance[a], StandardWeight)
       IN  /\ balance' = [balance EXCEPT ![a] = @ - charged]
           /\ recycle' = recycle + charged

------------------------------------------------------------------------------
(* The sealed-epoch handler *)

\* EpochSeal is applied.  A process handles an epoch once (ClockSeal!SealedOnce);
\* epochs may be skipped or come out of order.
SealStart(e) ==
    /\ draining = None /\ e \notin handled
    /\ cur' = IF e > cur THEN e ELSE cur
    /\ draining' = e /\ handled' = handled \cup {e}
    /\ UNCHANGED <<balance, recycle, stake, unbonding, fee, credited, entries, crashes, since>>

\* drain_unbonding: a record of this epoch is credited, then deleted.
DrainCredit(a) ==
    /\ draining # None /\ credited = None
    /\ unbonding[draining][a] > 0
    /\ balance' = [balance EXCEPT ![a] = @ + unbonding[draining][a]]
    /\ credited' = a
    /\ UNCHANGED <<cur, recycle, stake, unbonding, fee, draining, handled, entries, crashes, since>>

DrainDelete ==
    /\ credited # None
    /\ unbonding' = [unbonding EXCEPT ![draining][credited] = 0]
    /\ credited' = None
    /\ UNCHANGED <<cur, balance, recycle, stake, fee, draining, handled, entries, crashes, since>>

\* The rest of the handler; the base fee moves.
SealEnd ==
    /\ draining # None /\ credited = None
    /\ \A a \in Accounts : unbonding[draining][a] = 0
    /\ draining' = None
    /\ fee' \in Fees
    /\ UNCHANGED <<cur, balance, recycle, stake, unbonding, credited, handled, entries, crashes, since>>

\* The process dies and boots again.
Crash ==
    /\ crashes < MaxCrashes /\ crashes' = crashes + 1
    /\ draining' = None /\ credited' = None /\ handled' = {}
    /\ UNCHANGED <<cur, balance, recycle, stake, unbonding, fee, entries, since>>

AuthorEpochs == {e \in 0..(MaxEpoch + Ahead) : e <= cur + Ahead}

Next ==
    \/ \E a, b \in Accounts, amount \in Amounts, e \in AuthorEpochs : Transfer(a, b, amount, e)
    \/ \E a \in Accounts, amount \in Amounts, e \in AuthorEpochs :
          Stake(a, amount, e) \/ Unstake(a, amount, e)
    \/ \E e \in 1..MaxEpoch : SealStart(e)
    \/ \E a \in Accounts : DrainCredit(a)
    \/ DrainDelete \/ SealEnd \/ Crash

Spec == Init /\ [][Next]_vars

------------------------------------------------------------------------------
(* What holds *)

Held(r) == MapThenSumSet(LAMBDA a : unbonding[r][a], Accounts)
Total == MapThenSumSet(LAMBDA a : balance[a] + stake[a], Accounts)
         + recycle + MapThenSumSet(Held, Releases)

\* No entry, fee or release creates or destroys native tokens: what accounts hold,
\* stake and are owed is what there was, but for the record that drain_unbonding
\* has credited and not deleted yet (P1 and P4 of chain.rs 6260-6263).
Conserved ==
    crashes = 0 =>
        Total = Initial * Cardinality(Accounts)
                + (IF credited = None THEN 0 ELSE unbonding[draining][credited])

\* Unstaked tokens stay within reach of a slash: whatever epoch the entry names,
\* they are paid out no sooner than UNBONDING_EPOCHS - STALE_WINDOW epochs after it
\* was applied (chain.rs 929-931 computes the release from the entry's epoch).
HeldForWindow ==
    [][\A r \in Releases, a \in Accounts :
          unbonding[r][a] # 0 /\ unbonding'[r][a] = 0 =>
              cur >= since[r][a] + UnbondingEpochs - StaleWindow]_vars

\* The handler of an epoch leaves nothing behind that was due in it, and nothing
\* falls due there later: an Unstake that is applied after, late or between two
\* steps of the handler, never joins a record that no handler will look at again
\* (drain_unbonding against the release epoch of chain.rs 931).
HandledReleased ==
    \A r \in handled \ {draining}, a \in Accounts : unbonding[r][a] = 0

------------------------------------------------------------------------------
(* What the comments claim *)

\* chain.rs 3876: "Release unbonding tokens whose slash window has expired": once
\* an epoch's handler is through, no record of that or an earlier epoch is left.
\* It fails when an epoch is skipped.
MaturedReleased ==
    draining = None =>
        \A r \in Releases, a \in Accounts : r <= cur => unbonding[r][a] = 0
==============================================================================
