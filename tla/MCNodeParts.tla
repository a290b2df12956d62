----------------------------- MODULE MCNodeParts ----------------------------
(***************************************************************************)
(* Five parts of a node that share no state here, side by side: the fork    *)
(* choice (MCForkChoice), the ledger's lock, the proposals, the reward      *)
(* driver of a node that follows from genesis, and the pipeline from a      *)
(* sealed epoch to its rewards.                                             *)
(* A behaviour runs one of them, `part`; the others keep their first state. *)
(***************************************************************************)
EXTENDS MCForkChoice, EpochPipeline, TLC

CONSTANTS a, b, r1, r2, r3, k, c, Recycle,   \* accounts and requests of the lock
          a1, a2, a3, minStake, governance_keys, i1   \* council, parameters, proposals

VARIABLES
    part,
    store, lock, pc, ops, read, moved,
    cur, sealing, handled, phase, params, council, pending, due, submitted, proposals, votes,
    inflight, scan, peak,
    height, finalized, done, paid, reached, aligned, skipped, at, next, stop, restarts, crashes

------------------------------------------------------------------------------
Pay(n) == [from |-> a, to |-> b, amount |-> 1, nonce |-> n]
\* The same entry twice, and a transfer the other way.
Replayed ==
    (r1 :> Pay(1)) @@ (r2 :> Pay(1)) @@ (r3 :> [from |-> b, to |-> a, amount |-> 1, nonce |-> 1])

\* Two copies of a transfer, one back, a key update and a reward credit.
Ledger == INSTANCE LedgerLock WITH
    Accounts <- {a, b}, Initial <- 1, Fee <- 1, Requests <- {r1, r2, r3, k, c},
    Transfers <- Replayed, KeyUpdates <- k :> b, Credits <- c :> a

AllMotions == {[action |-> "param_set", key |-> minStake, value |-> 4],
               [action |-> "text", key |-> a1, value |-> 0],
               [action |-> "council_add", key |-> a2, value |-> 0],
               [action |-> "council_remove", key |-> a1, value |-> 0]}

\* One proposal of every kind and three voters; no parameter change.
Council == INSTANCE Governance WITH
    Accounts <- {a1, a2, a3}, Stakers <- {a1, a2, a3}, Founders <- {a1},
    Keys <- {minStake}, RateLimited <- {minStake}, CouncilKey <- governance_keys,
    Initial <- 2, CapBps <- 5000, Timelock <- 2, Ids <- {i1}, Changes <- {},
    Motions <- AllMotions, MaxEpoch <- 3, MaxChanges <- 0,
    Concurrent <- FALSE

\* Five epochs, all within the cold-start window, walks of two epochs, one restart.
Driver == INSTANCE RewardDriver WITH
    MaxEpoch <- 5, Depth <- 1, Window <- 5, WalkBound <- 1, MaxRestarts <- 1, MaxCrashes <- 0,
    cur <- height, last <- reached, pc <- at

ASSUME Ledger!RequestKinds /\ Ledger!AmountsNat
ASSUME PipelineBounds
------------------------------------------------------------------------------
forkVars == vars
lockVars == <<store, lock, pc, ops, read, moved>>
councilVars == <<cur, sealing, handled, phase, params, council, pending, due, submitted,
                 proposals, votes, inflight, scan, peak>>
driverVars == <<height, finalized, done, paid, reached, aligned, skipped, at, next, stop,
                restarts, crashes>>
partVars == <<part, forkVars, lockVars, councilVars, driverVars, pipeVars>>

PartsInit ==
    /\ part \in {"fork", "lock", "council", "driver", "pipeline"}
    /\ Init /\ Ledger!Init /\ Council!Init /\ Driver!Init
    /\ PipelineInit /\ (part # "pipeline" => empty = {})

ForkOnly == part = "fork"
            /\ UNCHANGED <<part, lockVars, councilVars, driverVars, pipeVars>>
LockOnly == part = "lock"
            /\ UNCHANGED <<part, forkVars, councilVars, driverVars, pipeVars>>
CouncilOnly == part = "council"
               /\ UNCHANGED <<part, forkVars, lockVars, driverVars, pipeVars>>
DriverOnly == part = "driver"
              /\ UNCHANGED <<part, forkVars, lockVars, councilVars, pipeVars>>
PipelineOnly == part = "pipeline"
                /\ UNCHANGED <<part, forkVars, lockVars, councilVars, driverVars>>

PartsNext ==
    \/ ForkOnly /\ Next
    \/ LockOnly /\ Ledger!Next
    \/ CouncilOnly /\ Council!Next
    \/ DriverOnly /\ Driver!Next
    \/ PipelineOnly /\ PipelineNext

\* The clock keeps sealing, the driver's loop keeps ticking and
\* a task takes the events its channel holds; no fairness of the network.
PartsSpec ==
    /\ PartsInit /\ [][PartsNext]_partVars
    /\ WF_partVars(CouncilOnly /\ Council!Seal) /\ WF_partVars(CouncilOnly /\ Council!Vote)
    /\ WF_partVars(DriverOnly /\ Driver!Tick) /\ WF_partVars(DriverOnly /\ Driver!Walk)
    /\ WF_partVars(DriverOnly /\ Driver!Mark)
    /\ \A n \in Clocks : /\ WF_partVars(PipelineOnly /\ HandleSealed(n))
                           /\ WF_partVars(PipelineOnly /\ HandleFinalized(n))
                           /\ WF_partVars(PipelineOnly /\ Reward(n))
------------------------------------------------------------------------------
(* The properties of the instances, each explained in its own module; those of the
   fork choice and of the pipeline are EXTENDed. *)

\* LedgerLock: one transfer of an account goes through for each nonce, and the nonce
\* counts them.
NonceExact == Ledger!NonceOnce /\ Ledger!NonceIsCount

\* Governance: the outcome of a closed proposal is that of the votes on record.
OutcomeIsMajority == Council!OutcomeIsMajority
\* Governance: every proposal whose window ends is decided.
WindowCloses == Council!WindowCloses

\* RewardDriver: from genesis, every epoch is rewarded once and in order.
OrderedOnce == Driver!OrderedOnce
\* RewardDriver: a finalized prefix that is deep enough is rewarded.
FinalizedPrefixPaid == Driver!FinalizedPrefixPaid
=============================================================================
