# HONE node: TLA+ models and proofs

This directory is the verification project of the HONE node (`rust/hone-node`) and of
the contracts it works with (`contracts`). It models the paths that decide what the
ledger holds: how clocks seal an epoch, how they agree on its rewards, how rewards are
applied, and how entries and daemons change balances, stakes, tokens, governance,
names, jobs and bridged tokens. `PROJECT.json` lists every component,
run, mutant, theorem, hazard and finding, and maps each definition to source lines.

Sources are abbreviated: `clock`, `main`, `chain`, `tx` and so on stand for
`rust/hone-node/src/*.rs`, `BridgeLock.sol` and so on for `contracts/*.sol`.

## 1. The system

A node is one process with several concurrent tasks over one key-value store.

| Part | State | Operations | Hard behaviour |
|---|---|---|---|
| Epoch sealing (clock 231-606, main 909-988) | seals per epoch, deadlines, registered set | emit, receive, track, tick, resolve | late seals, pruning, fallback deadline, changing peers |
| Reward consensus (clock 165-227, main 687-815) | snapshots, votes, decisions, finality records | seal, vote, tally, finalize | order of votes, diverging registries, restarts |
| Reward driver (main 337-544) | `last_rewarded`, cold-start flags, done keys | tick, walk, mark | records out of order, crash between pay and mark |
| Fork choice (chain 1118-1172) | `epoch_meta`, fork evidence | EpochFinalize | order, repetition |
| Pending pool (chain 604-639) | pool, seen set | push, drain | two locks |
| Staking (tx 193-244, chain 913-942, 3878-3892) | balances, stakes, unbonding records | Stake, Unstake, drain | skipped epochs, late entries, crash |
| Governance (tx 296-335, chain 3017-3143, 3897-3951) | parameters, queue, proposals, votes | set, propose, vote, finalize, drain | unlocked drains, timelock, exact-epoch match |
| Token transfers (chain 468-512, 872-911, 2668-2726, main 2658-2672) | balances, approvals, gates, pending transfers | Transfer, gate and approval entries, accept, reject, sweep | refusal after debit, sweep racing accept |
| Write lock (tx 115-195, 2177-2195, store 128-148) | lock, cells, requests | lock, check, read, write, fee | unlocked read-modify-write |
| Epoch pipeline (main 375-540, 564-814, 1276-1364) | event channels, votes, records, payments | resolve, seal handler, proposal, finalized handler, reward | overwritten events, a decision before the own snapshot, empty epochs |
| Inference market (inference, inference_daemon) | jobs, bids, votes, reputations, recycle fund | post to pay, the daemon's seven phases | daemon against entries, crash between writes, stale scans |
| Names (auction, identity_nft, soulbound) | auctions, registry, NFTs, offers, recovery, credentials | auctions, mint, sell, lock, recover, issue to revoke | four places that say who holds a name, crash inside a bid |
| Bridge (bridge, api 8799-8917, BridgeLock.sol, BridgeReserve.sol, wHONE.sol) | supply, queue, deposits, reserve, proofs | fund, wrap, unwrap, unlock, claim, lock, refund | entries from anybody, two chains, retries, crash between writes, sums past 64 bits |
| Agent tasks (agent_task, tx 815-907, main 1850) | credits, tasks, bids, commits, reveals | post to reveal, settlement, sweep | sweep from a snapshot, crash, division |
| Hybrid exchange (HoneHybridExchange.sol) | queue of deposits, coins, price | deposit, buy, withdraw, owner's calls | partial sales, rounding, decimals |

The seal handler of `main` (552-748) touches five of these parts in sequence. Each
module models the part of the handler that concerns its own state: `ClockSeal` its
start, `PendingPool` the drain of user entries, `Unbonding` and `Governance` the
drains at its end, `RewardConsensus` the snapshot and the vote. `EpochPipeline` joins
sealing, votes, decisions and rewards over several nodes: there the whole handler is one
step, and the subject is what the event channels between the tasks lose or reorder. A tick of the
reward driver, with its cold start, is one step there; `RewardDriver` has its single writes.
`NameRegistry` joins auctions, identity NFTs and credentials, and `Bridge` the node and
three contracts.

Everything else in the repository is listed in `PROJECT.json` as not modelled, with
the reason.

## 2. Modules

| Module | Models | Checked by | Proved in |
|---|---|---|---|
| `ClockQuorum` | the 51 % quorum arithmetic and tallies shared by sealing and rewards | through its users | through `RewardConsensusProofs` |
| `FinalizeRule` | the heaviest-quorum rule of EpochFinalize | through its users | through `ForkChoiceProofs` |
| `RewardConsensus` | votes of all nodes over an unreliable network | `rc_votes` | `RewardConsensusProofs` |
| `OrderedRewards` | abstract promise: every epoch once, in order | as `OrderedOnce` | through `RewardDriverProofs` |
| `RewardDriver` | one node's driver | `rd_*`, `nd_parts` | `RewardDriverProofs` |
| `ClockSeal` | one node's seal collector | `cs_seals` | `ClockSealProofs` |
| `EpochPipeline` | several nodes from resolved epoch to paid reward | `nd_parts`, `ep_paid` | `EpochPipelineProofs` |
| `ForkChoice` | several nodes applying finality records | `nd_parts` | `ForkChoiceProofs` |
| `LedgerLock` | requests down to store reads and writes | `nd_parts` | |
| `Governance` | timelocked parameters, proposals, votes | `gv_params`, `nd_parts` | |
| `Unbonding` | stake, unstake, native transfers, fees, drain | `ub_window` | `UnbondingProofs` |
| `PendingPool` | pushers and the drain at lock boundaries | `mk_markets` | |
| `TokenTransfer` | gated token transfers and their sweep | `mk_markets` | |
| `Escrow` | abstract promise: what is taken for an item is given out once, and once more per fault (a stop, or two writes that meet) | as `DepositOnce`, `DepositMintedOnce` | through `InferenceMarketProofs` |
| `InferenceMarket` | jobs, verification, disputes, payments, the daemon | `im_*` | `InferenceMarketProofs` |
| `NameState`, `NameAuction`, `Soulbound`, `IdentityNft`, `NameRegistry` | the registry of names, and the three parts that write to it | `nm_names` | `NameRegistryProofs` |
| `Bridge` | wHONE between the node and the contracts | `mk_markets` | |
| `AgentTask` | agent tasks, their verification and their sweep | `mk_markets` | |
| `HybridExchange` | the exchange contract | `mk_markets` | |

`MC*` modules hold the constants of the instances. `MCNodeParts` and `MCMarkets` bring
several modules into one run. A variable chosen at the start says which of the parts a
behaviour is of, and only that part moves: the run is the sum of the parts' state
spaces, not their product, and each property speaks of one part.

Every module defines the types of its variables, as `TypeOK` or in the properties that
bound its balances and counters. The `TypeOK` of the modules with a proof module is a
theorem; in the others it documents the variables.

### Abstractions

- A rewards hash is the snapshot it is computed from: SHA-256 over epoch and snapshot
  is taken to be injective. The lexicographic order of hashes is an arbitrary
  injective rank.
- During the bootstrap grace every registration counts whatever its stake;
  `RewardConsensus` models that phase.
- The driver's balance changes are a counter per epoch.
- Deadlines are flags set by a `Deadline` or `FallbackDeadline` step, so any timing
  of the ticks is covered.
- Entries carry the epoch of their author, which may lag the tip (`Late`,
  `StaleWindow`) or lead it (`Ahead`). Where `entry_epoch` (tx 2216-2267) knows no epoch
  of an entry, nothing compares it with the tip: auction entries, parameter changes and
  votes carry any epoch.
- `Concurrent` marks the instances of `Governance` in which votes of the API interleave
  with the unlocked steps of the seal handler. `TokenTransfer` always interleaves
  entries with the sweep.
- `EpochPipeline` has one registry on all nodes, so an epoch has one rewards hash; the
  snapshot a node pays from is the set of clocks, or nothing.
- In `InferenceMarket`, `Bridge`, `AgentTask` and `NameAuction` a handler writes to the
  store in steps and the process may stop between any two of them. In `InferenceMarket`
  handlers also overlap where the code lets them: those that take `write_lock` exclude
  each other, the daemon is one task, and everything else may run before the last write of
  a handler lands. `raced` counts the writes of a job that meet in this way. `AgentTask`
  has a constant `Overlap`; its run has entries and sweep one after the other, and the
  table below says what overlapping breaks.
- The handlers of identity NFTs and of credentials, and the opening of an auction, are
  one step each: no stop inside them. Identity entries are refused before
  `IDENTITY_NFT_ACTIVATION_EPOCH` (400,000); the models start after it.
- A credential id is a model value, and `Tail` says what `active_on` reads back of it,
  which for an id with a colon is another one.
- Contract calls are atomic and revert as a whole. The relayer of the bridge is
  external: it may send any message of the other chain, late, repeatedly or never.
  Neither `tx` nor `bridge` asks who sends a BridgeFund or a BridgeUnlock, so in `Bridge`
  any account does, with any hash, amount and request. Amounts are words of `Word` values,
  and the sum that is compared with the cap wraps as in a release build.
- Signatures, two-factor checks and delegation are taken as passed: they only refuse.

## 3. Runs

| Run | Shows |
|---|---|
| `rc_votes` | hellos, votes and a restart in any order: one vote per clock, agreement under equal registries, no uncounted quorum, every finality record backed by votes |
| `cs_seals` | an epoch is sealed at most once by a process; lone seals resolve, and registered quorums unless the registered set changes first |
| `rd_cold` | cold start, restart, crash: an epoch is paid again only for a crash inside a walk |
| `ub_window` | skipped and reordered epochs, late entries, a crash: conservation, the holding window, nothing left in a handled epoch |
| `gv_params` | votes racing the drains, epochs skipped or out of order: the seal of an epoch applies what was queued for it in time (`HandledApplied`), growth is bounded by the historic peak, recorded votes are final |
| `nd_parts` | fork choice: records in any order and number leave one winner when one hash dominates (`Converged`); lock: one transfer per nonce at store level (`NonceExact`); proposals: decided, and as the votes say (`WindowCloses`, `OutcomeIsMajority`); driver from genesis: refines `OrderedRewards` (`OrderedOnce`) and pays finalized prefixes; pipeline with channels of one event: an empty epoch is never paid and stops every node but one that the cold start moves (`NothingPastEmpty`), and what a node has decided it pays (`DecidedIsPaid`) |
| `im_jobs` | entries and daemon, a crash between writes, with and without overlap: the market refines `Escrow` with crashes and races as its faults (`DepositOnce`); an early verdict is the final one; while no writes race, the fund holds exactly the open deposits, pay follows the verdict, jobs settle or wait for people |
| `nm_names` | auctions, NFTs and credentials on one registry: bids conserved up to crashes, one holder in all five records, credentials stay with the holder they were given to, a locked name is pinned |
| `mk_markets` | pool: nothing lost or multiplied, refusals justified; tokens: every unit accounted for, complete sweeps; bridge: refines `Escrow` (`DepositMintedOnce`: one mint per external transaction), the supply counter is what accounts hold until a sum passes the word (`CirculationCapped`), the unlock queue asks for burned tokens only (`BridgeBacked`); agent tasks: fees add up, every task ends for good; exchange: the queue is backed, a purchase pays for itself, first in, first out |
| `rd_restart` | refutes `NoGapPassed`: a restart after a cold start aligns again, past a gap above epochs already paid |
| `ep_paid` | refutes `PaidAlike`: a node that decides on its peers' votes before its own seal handler has run records no sealers, and pays the epoch differently |
| `im_claims` | refutes `UnclaimedSettles`: the payment that would end a rejected, unclaimed job is refused for its status |

The last three are expected to fail. Their findings in `PROJECT.json` quote the comments.

### Statements the code does not keep

The modules also define statements of comments and tests that the models refute,
mostly under "What the comments claim". They are not among the runs: adding one to a
configuration, on the instance the table describes, makes TLC show the behaviour
(`MCRewardConsensus` and `MCClockSeal` hold the instances that differ from those of the
runs). Where a run checks a weaker property that does hold, the
table names it.

| Statement | Said in | What happens | Holds instead |
|---|---|---|---|
| `RewardConsensus!SealedByIsVoted` | clock 637-638 | a node decides on peers' votes before its own snapshot exists and records no sealers | `MetaBacked` |
| `RewardConsensus!EpochAgreement` | clock 636-639 | four nodes in two pairs that know only each other decide separately | `SameRegistryAgreement` |
| `RewardDriver!PaidAtMostOnce` | main 410-411 | the process stops between payment and done key | `PaidOncePerCrash` |
| `RewardDriver!NoGapPassed`, without a restart | main 448-450 | an epoch is finalized and paid between a fruitless scan and the walk; the skip is still armed | |
| `ClockSeal!OnlyRegisteredSign` | clock 528 | the single-seal branch ignores the registry | |
| `ForkChoice!HeaviestWins` | chain 1124-1125 | the same hash with fewer votes overwrites | `Converged`, of a hash that dominates with every count |
| `PendingPool!NoDuplicateInBatch` | chain 577-578 | a push between drain and clear loses its fingerprint | `PoolExact` |
| `Unbonding!MaturedReleased` | chain 3876 | the records of a skipped epoch are never drained | `HandledReleased` |
| `Governance!ClosedStaysClosed`, `Concurrent` | chain 572, 3095 | a racing vote writes the open copy back | `VotesFinal` |
| `Governance!DueIsApplied` | chain 3932 | a change is queued for an epoch already past, or its epoch is never sealed | `HandledApplied` |
| `Governance!RiseCapped` | tx 305 | two changes pass the cap at submission; the first lowers, the second then raises by more | `GrowthBounded` |
| `TokenTransfer!TransferConserves` | chain 6319, 6328 | debit before a refusal | `Accounted` |
| `TokenTransfer!SupplyCap` | chain 6263 | sweep and accept both credit | `Accounted` |
| `TokenTransfer!RefundedOnExpiry` | main 1836-1838 | no sweep for epochs without sealers | `Accounted`, of the sweeps that run |
| `LedgerLock!Conserved` | chain 572 | a fee update outside the lock is lost | |
| `LedgerLock!NonceOnce` for an account whose key is updated | chain 6262 | the key update undoes a nonce bump | `NonceExact`, an upper bound for it |
| `EpochPipeline!PeersSeeFinalization` | main 803-805 | a gossiped EpochFinalize is a system entry and is dropped (main 1278-1281) | `DecidedIsPaid`, of own decisions |
| `EpochPipeline!EmptyIsFinalized` | main 381-382 | an epoch without seals has no vote, and rewards wait at it (clock 314-323) | `NothingPastEmpty` |
| `InferenceMarket!DepositOnce` with crashes alone as faults | inference 10-12 | a handler writes back an old copy of a job that is already paid or cancelled | `DepositOnce`, which counts such races |
| `Bridge!CapKept` | bridge 8 | a stop between mint and count, or a sum that wraps, lets the next entry pass the cap | `CirculationCapped` |
| `Bridge!MintedIsLocked` | bridge 3 | no check ties a BridgeFund to a deposit | `DepositMintedOnce`, per hash |
| `Bridge!FulfilledIsPaid` | bridge 5 | no check ties a BridgeUnlock to a payment | `BridgeBacked` |
| `Bridge!FulfilledInOrder` | bridge 9 | any queued request can be marked | `BridgeBacked` |
| `Bridge!PaidCanBeMarked` | BridgeReserve.sol 16-19 | two requests with one id: only the first is found | `BridgeBacked` |
| `Bridge!RefundedIsFailed` | BridgeLock.sol 159 | the lock does not know whether the node has minted | `DepositMintedOnce` |
| `Bridge!ClaimedIsBurned` | api 8787 | the proof is signed before its BridgeWrap is applied, which may fail | `BridgeBacked` |
| `AgentTask!NeverDropped` | main 1838-1839 | a task without verifiers has no tally: the driver panics (agent_task 309-311) | `TasksEnd`, of the others |
| `AgentTask!SettledByMajority` | agent_task 11 | the most frequent hash wins, majority or not | `FeesConserved` |
| `AgentTask!FeesConserved`, `Overlap` | main 1838-1839 | a reveal settles a task the sweep has read as late, and the sweep refunds it too | `FeesConserved` otherwise |

Reading the code for the models showed further places where a comment and the code
differ, for which no formula is kept:

- the daemon awards verifiers after the worker, when the job no longer takes them
  (inference_daemon 58); verifiers who voted with the consensus are slashed when a
  review overturns it (inference 930-932); a job rejected between the scan of
  `auto_settle` and its payment pays its worker, which `PaidByVerdict` excepts;
- "auto-assigns to lowest bidder after bid window" (agent_task 7-8) is done by the node of
  the requester alone (agent_worker 60-120), not by a rule of the ledger: its entry is an
  AgentTaskAssign like any other, which `AgentTask` has; without that node a task stays
  open until its deadline;
- a name can be in two open auctions at a time, and the winner of the first lose it to
  the second, while it is not minted (auction 59); a cancelled auction leaves
  `name_auction_active`, and the name can never be minted;
- a credential revoked while it is pending can be accepted and is then active and
  revoked (soulbound 140); rejecting deletes a revoked record (soulbound 16-17);
- the owner of an unlocked name changes guardians and destination without the recovery
  authority (identity_nft 14-17, 237-239, 304-305), which `LockedIsPinned` excepts.

### Bounds

Windows are scaled down with their order kept: the stale window is shorter than the
unbonding and expiry windows, and skew plus stale fits in the prune window. `MaxEpoch`
exceeds the prune window in `cs_seals`, the cold-start window in `rd_cold`, and the
unbonding, timelock and expiry windows in `ub_window`, `gv_params` and the transfers of
`mk_markets`, so that these are passed; for the driver in `nd_parts` it equals the
cold-start window, which is the case of a node that follows from genesis. `rc_votes` has
three clocks, the least for which a 51 % quorum is a strict subset of the registry, and `MinQuorum = 1`
(`HONE_CLOCK_QUORUM`, default 2), so that the fraction alone has to carry agreement.
In `cs_seals` two clocks seal and the registered set is empty, those two, or two more
beside them, so that their seals are a quorum, and after a refresh may be none. Two
accounts suffice for transfers, three voters for a majority with a dissent. `gv_params`
seals its three epochs in any order and leaves any of them out, with two changes under way:
one more would only repeat the race of a change with the seal of its epoch. Fork choice has
two nodes and five records of four hashes (`Recounted`), with a tie and one hash with two
counts that dominates some of the others with both and some with the higher only. The
pipeline has two clocks, both needed for a quorum, two epochs of which one may be empty,
channels of one event, so that every second event overwrites one, and a cold-start window
of 0, so that a node which has paid nothing is aligned in its second epoch; the skip after
the alignment needs a longer history, which `rd_cold` has. `im_jobs` has one job and
windows of one epoch, with two starts (`JobsLimits`): a board of three (the least with a
dissent) and handlers one after the other, and one worker and one verifier whose handlers
overlap with the daemon's; two jobs would only add the order of unrelated payments, and
`FundExact` has the fund's own money as the other deposit that an overpayment would take.
`nm_names` splits its bounds into four starts (`Limits`): auctions with crashes, sales of
two names beside an auction, credentials of one name, recoveries of one with both
configurations. Its `Late = 0` with two epochs is the least in which the stale guard of
NFT entries refuses some and lets entries from ahead pass. `mk_markets` does the same for
the bridge: deposits and hashes of no deposit, amounts past a word of three bits, payouts,
claims, a deposit that is paid out. Its token transfers include gate payments of nothing,
which expire without a refund and stay. Fees of 15, 20 and 25 have a tenth that does
and does not divide among two verifiers; decimals 0, 5 and 7 with base 2 stand for
coins without decimals and on both sides of six. Counters that the
code leaves unbounded (`MaxRestarts`, `MaxCrashes`, `MaxEntries`, `MaxPushes`,
`MaxChanges`) are bounded in the guards. Deadlock checking is off where such a bound,
or the end of the epochs, stops a model.

### Fairness

- `RewardDriver`: weak fairness of tick, walk and mark; the loop runs every second.
- `ClockSeal`: weak fairness of the deadlines and of resolution, driven by the same
  loop; no fairness of peers or of delivery.
- `Governance`: weak fairness of the seal handler's steps, as the clock keeps sealing,
  and of a vote under way, whose handler runs to its end; none of starting a vote.
- `EpochPipeline`: weak fairness of the handlers of a channel and of the driver, which
  are loops; none of ticks, of resolution or of the network.
- `InferenceMarket`: weak fairness of the daemon, which runs each epoch, of the epochs
  themselves, and of the rest of a handler that has begun; none of users.
- `AgentTask`: weak fairness of the rest of an entry and of epochs, strong fairness of
  the sweep: it does not wait for `write_lock`, so entries cannot keep it from running.

## 4. Proofs

All proofs are for arbitrary constants under the named `ASSUME`s.

- `RewardConsensusProofs`: `TypeCorrect`, `VotesOnceHolds`, `Agreement`. Agreement
  does not follow from decisions alone. The inductive invariant `IInv` adds that a
  node which voted in an epoch will not seal it again (`VotedEpochsClosed`), that held
  votes were broadcast (`HeldWasSent`), and that each decision has a quorum of its
  registry behind it (`DecisionBacked`). Two such quorums
  intersect, and the clock in both voted once. Both results are stated for histories
  without a restart, since a restarted process may vote again.
- `RewardDriverProofs`: `DriverTypeCorrect`, `PaidOncePerCrashHolds` (`CrashInv`: each
  payment is accounted for by a done key, by the walk being between the two writes, or
  by a crash), `PaidIsDeepHolds`
  (strengthened by: a walk under way never reaches past the safe tip) and
  `GenesisOrder`, the refinement of `OrderedRewards`, from `GenesisInv` (paid, done
  and last are one prefix), when no crash interrupts a walk and the node has followed
  the chain from genesis.
- `ClockSealProofs`: `SealTypeCorrect`, `SealedOnceHolds`. `SInv` adds that a sealed
  epoch stays closed until it is too old for the stale filter, which needs
  `Skew + Stale <= PruneWindow`.
- `ForkChoiceProofs`: `OrderIndependence`, `EvidenceCompleteHolds`, for any records, also
  such that report different counts for one hash. The invariant is that a record is one of
  those applied, and that it has the hash which dominates them, if one does
  (`DominantRecorded`): a record of another hash never wins against it, and it always wins
  against another. `HeaviestWins` above shows that nothing follows when none dominates.
- `EpochPipelineProofs`: `PipelineTypeCorrect`, `NothingPastEmptyHolds` and
  `RecordHasQuorumHolds`, for any number of clocks, channel capacity, depth and cold-start
  window. `PInv` follows an epoch backwards: an epoch that is paid has a record and is not
  beyond the last one walked, which passes an empty epoch only when the floor was aligned,
  and then the first epoch is not paid (`PaidRecorded`); what is recorded, or announced as
  final, was decided (`RecordsDecided`); a decision has a quorum of sent votes behind it
  (`DecisionsBacked`); held votes were sent and none for an empty epoch (`VotesReal`),
  since no event announces an empty epoch as sealed (`EventsReal`).
- `InferenceMarketProofs`: `MarketImplementsEscrow`, the refinement of `Escrow`, for
  handlers that overlap as well as for those that do not. Its invariant `IInv` ties the
  record of a job to the two counters of the escrow: the deposit of a job that is not
  recorded was taken at most once for each fault, that of a recorded one at least once, and
  that of a job that is not settled, nor being settled by the write under way, was given
  out at most once for each fault. A handler that lands on a job another one is about to
  write is itself the fault that allows the extra movement.
- `NameRegistryProofs`: `RegistryTypeCorrect`, `OneHolderAlways`, `CredentialsAlways` and
  `LockedAlways`, for any accounts, names, items and credentials, and with stops inside
  the handlers of auctions. `OneHolder` alone is not kept by a mint: `IInv` adds that an
  open auction keeps its name from being minted, by its mark or, once a settlement has
  begun, by the owner it wrote (`AuctionsKeep`), that a primary name always has an owner
  (`PrimariesOwned`), that an offer is never to its maker (`OffersAreOwners`), and that
  only a name with a recovery configuration is locked (`LocksGuarded`).
- `UnbondingProofs`: `UnbondingTypeCorrect`, `HeldForWindowHolds` and
  `HandledReleasedHolds`, for skipped and reordered epochs and crashes. `WindowInv` adds
  that every record falls due at least `UnbondingEpochs - StaleWindow` epochs after its
  last Unstake, `ReleaseInv` that handled epochs are behind the tip while an Unstake
  joins a record ahead of it; both need `StaleWindow < UnbondingEpochs`.

Only model-checked: all liveness properties, `NoUncountedQuorum`, `MetaBacked`,
sums (`Conserved`, `FundExact`, `BidsConserved`, `FeesConserved`, `Accounted`, ...),
`VerdictFinal`, `PaidByVerdict`, and everything about `PendingPool`, `Governance`,
`TokenTransfer`, `LedgerLock`, `Bridge`, `AgentTask` and `HybridExchange`.
Liveness and sums over data are out of the prover's reach.

## 5. Not modelled

- Base fee, split of the block reward and entropy decay: arithmetic on one record, which
  unit tests reach.
- Clock registration past the bootstrap grace, double-sign evidence and slashing: the
  first candidates for an extension, joined to `Unbonding`.
- Other entries (devices, sensors, storage deals, posts, oracle reports, sessions): each
  writes records of its own that no modelled part reads.
- `setRelayer`, `setAcceptedToken`, pausing and the setters of fees and wallets in the
  contracts; `wHONEBridge.sol`, `wHONESale.sol` and `wHONEBondingCurve.sol`, which the
  node does not call.
- Networking, HTTP, engines, WASM, front ends, bots and device adapters: I/O. Networking
  is modelled where it matters, as delivery in any order, late, repeated or never.
