---------------------------- MODULE RewardDriver -----------------------------
(***************************************************************************)
(* The reward driver of one node (main.rs 337-544): once a second it walks  *)
(* the finalized epochs, applies the rewards of each and records a durable  *)
(* epoch_finalized_done:{e} key.  Epoch seals and finality records are      *)
(* written by other tasks at any moment; the process may stop between two   *)
(* ticks (Restart) or in the middle of one (Crash).                         *)
(*                                                                          *)
(* Balances are abstracted to how often each epoch's mutation has run, a    *)
(* finality record to its presence.                                         *)
(***************************************************************************)
EXTENDS Integers, FiniteSets

CONSTANTS MaxEpoch,     \* bound on epoch numbers
          Depth,        \* REWARD_FINALITY_DEPTH (or HONE_REWARD_DEPTH)
          Window,       \* the 64 epochs a cold start looks back
          WalkBound,    \* the 64 epochs after the first that one tick may walk
          MaxRestarts,  \* bound on stops between two ticks
          MaxCrashes    \* bound on stops within a tick

ASSUME BoundsNat == /\ MaxEpoch \in Nat /\ Depth \in Nat /\ Window \in Nat
                    /\ WalkBound \in Nat /\ MaxRestarts \in Nat /\ MaxCrashes \in Nat

Epochs == 1..MaxEpoch

VARIABLES
    cur,        \* Chain::current_epoch, persisted
    finalized,  \* epochs whose epoch_meta is finalized, persisted
    done,       \* epochs with an epoch_finalized_done key, persisted
    paid,       \* paid[e]: how often the mutation of e has run, persisted
    last,       \* last_rewarded
    aligned,    \* reward_floor_aligned
    skipped,    \* cold_start_skip_done
    pc,         \* where the tick is: "idle", "walk" or "mark"
    next,       \* the loop variable e of the walk
    stop,       \* the last epoch of the walk
    restarts, crashes

durable == <<cur, finalized, done, paid>>
local   == <<last, aligned, skipped, pc, next, stop>>
vars    == <<durable, local, restarts, crashes>>

TypeOK ==
    /\ cur \in 0..MaxEpoch
    /\ finalized \in SUBSET Epochs
    /\ done \in SUBSET Epochs
    /\ paid \in [Epochs -> Nat]
    /\ last \in 0..MaxEpoch
    /\ aligned \in BOOLEAN /\ skipped \in BOOLEAN
    /\ pc \in {"idle", "walk", "mark"}
    /\ next \in 1..(MaxEpoch + 1)
    /\ stop \in 0..MaxEpoch
    /\ pc = "mark" => next \in Epochs
    /\ restarts \in 0..MaxRestarts /\ crashes \in 0..MaxCrashes

\* u64::saturating_sub
Minus(a, b) == IF a > b THEN a - b ELSE 0

\* highest_contiguous_rewarded: the epoch before the first one not done,
\* walking up from 1.
HighestContiguous(d) == CHOOSE k \in 0..MaxEpoch : 1..k \subseteq d /\ k + 1 \notin d

Init ==
    /\ cur = 0 /\ finalized = {} /\ done = {}
    /\ paid = [e \in Epochs |-> 0]
    /\ last = 0 /\ aligned = FALSE /\ skipped = FALSE
    /\ pc = "idle" /\ next = 1 /\ stop = 0
    /\ restarts = 0 /\ crashes = 0

\* Another task applies an EpochSeal: the chain's epoch only moves forward, by
\* several epochs when nothing was sealed for a while.
EpochSeal(e) ==
    /\ e > cur
    /\ cur' = e
    /\ UNCHANGED <<finalized, done, paid, local, restarts, crashes>>

\* Another task applies an EpochFinalize, of any epoch, in any order.
EpochFinalize(e) ==
    /\ e \notin finalized
    /\ finalized' = finalized \cup {e}
    /\ UNCHANGED <<cur, done, paid, local, restarts, crashes>>

\* Cold-start alignment: where a node that has rewarded nothing starts.
Floor == Minus(cur, Window)
Aligns == ~aligned /\ last = 0 /\ Floor > 1
AlignedLast == IF Aligns THEN Minus(Floor, 1) ELSE last

\* Cold-start skip: the floor moves up, once, to just below the lowest
\* finalized epoch between it and the safe tip.
SafeTip == Minus(cur, Depth)
Ready(from) == {e \in finalized : from < e /\ e <= SafeTip}
SkipScan(from) == (aligned \/ Aligns) /\ ~skipped /\ SafeTip > from
Lowest(S) == CHOOSE e \in S : \A d \in S : e <= d

\* The part of a tick before the walk.
Tick ==
    LET from == AlignedLast
        ready == Ready(from)
        start == IF SkipScan(from) /\ ready # {} THEN Lowest(ready) - 1 ELSE from
    IN  /\ pc = "idle"
        /\ aligned' = (aligned \/ Aligns)
        /\ skipped' = (skipped \/ (SkipScan(from) /\ ready # {}))
        /\ last' = start
        /\ \/ /\ SafeTip > start
              /\ pc' = "walk"
              /\ next' = start + 1
              /\ stop' = IF SafeTip < start + 1 + WalkBound
                         THEN SafeTip ELSE start + 1 + WalkBound
           \/ /\ SafeTip <= start
              /\ UNCHANGED <<pc, next, stop>>
        /\ UNCHANGED <<durable, restarts, crashes>>

\* Mutant: an epoch that is not finalized yet is passed over instead of ending
\* the walk.
WalkOverGap ==
    /\ pc = "walk"
    /\ \/ /\ next > stop
          /\ pc' = "idle"
          /\ UNCHANGED <<durable, last, next>>
       \/ /\ next <= stop /\ (next \in done \/ next \notin finalized)
          /\ last' = next /\ next' = next + 1
          /\ UNCHANGED <<durable, pc>>
       \/ /\ next <= stop /\ next \notin done /\ next \in finalized
          /\ paid' = [paid EXCEPT ![next] = @ + 1]
          /\ pc' = "mark"
          /\ UNCHANGED <<cur, finalized, done, last, next>>
    /\ UNCHANGED <<aligned, skipped, stop, restarts, crashes>>

\* Mutant: the done key is not consulted before an epoch is paid.
WalkIgnoringDone ==
    /\ pc = "walk"
    /\ \/ /\ next > stop \/ next \notin finalized
          /\ pc' = "idle"
          /\ UNCHANGED <<durable, last, next>>
       \/ /\ next <= stop /\ next \in finalized
          /\ paid' = [paid EXCEPT ![next] = @ + 1]
          /\ pc' = "mark"
          /\ UNCHANGED <<cur, finalized, done, last, next>>
    /\ UNCHANGED <<aligned, skipped, stop, restarts, crashes>>

\* Mutant: the walk ends one epoch before the one it should reach.
WalkShort ==
    /\ pc = "walk"
    /\ \/ /\ next >= stop
          /\ pc' = "idle"
          /\ UNCHANGED <<durable, last, next>>
       \/ /\ next < stop /\ next \in done
          /\ last' = next /\ next' = next + 1
          /\ UNCHANGED <<durable, pc>>
       \/ /\ next < stop /\ next \notin done /\ next \notin finalized
          /\ pc' = "idle"
          /\ UNCHANGED <<durable, last, next>>
       \/ /\ next < stop /\ next \notin done /\ next \in finalized
          /\ paid' = [paid EXCEPT ![next] = @ + 1]
          /\ pc' = "mark"
          /\ UNCHANGED <<cur, finalized, done, last, next>>
    /\ UNCHANGED <<aligned, skipped, stop, restarts, crashes>>

\* One iteration of the walk up to its first write: over an epoch already done,
\* to a stop at one not finalized, or into the mutation of the next one.
Walk ==
    /\ pc = "walk"
    /\ \/ /\ next > stop
          /\ pc' = "idle"
          /\ UNCHANGED <<durable, last, next>>
       \/ /\ next <= stop /\ next \in done
          /\ last' = next /\ next' = next + 1
          /\ UNCHANGED <<durable, pc>>
       \/ /\ next <= stop /\ next \notin done /\ next \notin finalized
          /\ pc' = "idle"
          /\ UNCHANGED <<durable, last, next>>
       \/ /\ next <= stop /\ next \notin done /\ next \in finalized
          /\ paid' = [paid EXCEPT ![next] = @ + 1]
          /\ pc' = "mark"
          /\ UNCHANGED <<cur, finalized, done, last, next>>
    /\ UNCHANGED <<aligned, skipped, stop, restarts, crashes>>

\* The rest of the iteration: the done key is written after the mutation.
Mark ==
    /\ pc = "mark"
    /\ done' = done \cup {next}
    /\ last' = next
    /\ next' = next + 1
    /\ pc' = "walk"
    /\ UNCHANGED <<cur, finalized, paid, aligned, skipped, stop, restarts, crashes>>

\* The process boots again and derives its position from the done keys.
Boot ==
    /\ last' = HighestContiguous(done)
    /\ aligned' = FALSE /\ skipped' = FALSE
    /\ pc' = "idle" /\ next' = 1 /\ stop' = 0
    /\ UNCHANGED durable

Restart ==
    /\ pc = "idle" /\ restarts < MaxRestarts
    /\ restarts' = restarts + 1
    /\ Boot
    /\ UNCHANGED crashes

Crash ==
    /\ pc # "idle" /\ crashes < MaxCrashes
    /\ crashes' = crashes + 1
    /\ Boot
    /\ UNCHANGED restarts

Next ==
    \/ \E e \in Epochs : EpochSeal(e) \/ EpochFinalize(e)
    \/ Tick \/ Walk \/ Mark
    \/ Restart \/ Crash

Spec == Init /\ [][Next]_vars

\* The loop runs every second for as long as the process lives.
FairSpec == Spec /\ WF_vars(Tick) /\ WF_vars(Walk) /\ WF_vars(Mark)

------------------------------------------------------------------------------
(* What holds *)

\* The promise: exactly once, in ascending order, from epoch 1.  It is kept by a
\* node that has followed the chain from genesis (its epoch never outran the
\* cold-start window before epoch 1 was rewarded), restarts included, as long as
\* no process dies inside the walk.
Promise == INSTANCE OrderedRewards WITH MaxEpoch <- MaxEpoch, paid <- paid
OrderedOnce == Promise!Spec

\* Only epochs that are finalized and at least Depth behind the tip are ever paid
\* (REWARD_FINALITY_DEPTH), although the tip is read once per tick and finality
\* records arrive during the walk.
PaidIsDeep ==
    \A e \in Epochs : paid[e] > 0 => e \in finalized /\ e + Depth <= cur

\* An epoch is paid once, and once more at most for each crash inside a walk (the
\* mutation and its done key are two writes, main.rs 526-538); restarts between
\* ticks never pay again.
PaidOncePerCrash == \A e \in Epochs : paid[e] <= 1 + crashes

\* Finality is enough to be paid: once epochs 1..k are finalized and the tip is
\* Depth past k, k is eventually rewarded, across restarts.
FinalizedPrefixPaid ==
    \A k \in Epochs :
        (1..k \subseteq finalized /\ cur >= k + Depth) ~> (k \in done)

------------------------------------------------------------------------------
(* What the comments claim *)

\* main.rs 410-411: "Guarded by epoch_finalized_done:{epoch} so it runs at most
\* once per node".
PaidAtMostOnce == \A e \in Epochs : paid[e] <= 1

\* main.rs 354-356, 448-450, 494-496: once a node has started paying, an unresolved
\* gap is where it stops or resumes, never something it passes.
NoGapPassed ==
    [][\A e \in Epochs :
          /\ last < e /\ e <= last'
          /\ \E d \in Epochs : d < e /\ paid[d] > 0
          => e \in done']_vars
==============================================================================
