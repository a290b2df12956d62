--------------------------- MODULE RewardConsensus ---------------------------
(***************************************************************************)
(* Agreement of the clock nodes on an epoch's rewards, from the seal of the *)
(* epoch to the EpochFinalize record (main.rs 552-815, clock.rs 165-227).   *)
(*                                                                          *)
(* Every node runs three concurrent tasks over one store:                   *)
(*   - the sealed-epoch handler writes the epoch_validators:{e} snapshot,   *)
(*     installs it as the clock's registered set, then votes for its hash;  *)
(*   - the network handler ingests peers' votes and registrations;          *)
(*   - the finalized-epoch handler turns a reached quorum into EpochFinalize*)
(*     and applies it under the fork-choice rule.                           *)
(* Votes travel by gossip: `network' only grows, a vote may be delivered    *)
(* never, late, or several times.                                           *)
(*                                                                          *)
(* Data abstraction.  rewards_hash is SHA-256 of the epoch and the snapshot *)
(* bytes, so within an epoch a hash IS the snapshot it was computed from.   *)
(* Eligibility is the set of registration records a node holds: during the  *)
(* bootstrap grace every record counts whatever its stake.                  *)
(***************************************************************************)
EXTENDS ClockQuorum, FinalizeRule, Sequences

CONSTANTS Nodes,        \* the clock nodes
          Epochs,       \* epoch numbers
          MinQuorum,    \* quorum(): HONE_CLOCK_QUORUM, default 2
          Known,        \* Known[n]: the registrations on n's disk at boot
          HashRank,     \* position of a hash in the lexicographic order
          MaxRestarts,  \* bound on process restarts
          None

ASSUME NodesFinite == IsFiniteSet(Nodes)
ASSUME EpochsNat == Epochs \subseteq Nat
ASSUME MinQuorumNat == MinQuorum \in Nat
ASSUME KnownType == Known \in [Nodes -> SUBSET Nodes]
ASSUME HashRankInjective ==
    /\ HashRank \in [SUBSET Nodes -> Nat]
    /\ \A g, h \in SUBSET Nodes : HashRank[g] = HashRank[h] => g = h
ASSUME MaxRestartsNat == MaxRestarts \in Nat
ASSUME NoneFresh == None \notin Epochs

VARIABLES
    store,       \* store[n]: clock_reg records in n's database
    registered,  \* registered[n]: Inner.registered_clocks
    snapshot,    \* snapshot[n][e]: epoch_validators:{e}, or None
    began,       \* began[n]: epochs whose seal handler ran in this process
    sealing,     \* sealing[n]: epoch between its snapshot and its vote, or None
    proposals,   \* proposals[n]: votes held in reward_states
    finalized,   \* finalized[n][e]: the decision of this process, or None
    events,      \* events[n]: FinalizedEpoch events not yet handled
    meta,        \* meta[n][e]: the epoch's finality record, or None
    network,     \* votes ever broadcast
    restarts     \* number of restarts so far

vars == <<store, registered, snapshot, began, sealing, proposals, finalized,
          events, meta, network, restarts>>

Hash == SUBSET Nodes
Proposal == [epoch : Epochs, node : Nodes, hash : Hash]
Decision == [hash : Hash, reg : SUBSET Nodes, voters : SUBSET Nodes]
FinalizedEpoch == [epoch : Epochs, hash : Hash, quorum : Nat]
EpochMeta == [hash : Hash, quorum : Nat, sealed_by : SUBSET Nodes]

TypeOK ==
    /\ store \in [Nodes -> SUBSET Nodes]
    /\ registered \in [Nodes -> SUBSET Nodes]
    /\ snapshot \in [Nodes -> [Epochs -> Hash \cup {None}]]
    /\ began \in [Nodes -> SUBSET Epochs]
    /\ sealing \in [Nodes -> Epochs \cup {None}]
    /\ proposals \in [Nodes -> SUBSET Proposal]
    /\ finalized \in [Nodes -> [Epochs -> Decision \cup {None}]]
    /\ events \in [Nodes -> Seq(FinalizedEpoch)]
    /\ meta \in [Nodes -> [Epochs -> EpochMeta \cup {None}]]
    /\ network \subseteq Proposal
    /\ restarts \in 0..MaxRestarts

\* Boot: the clock's registered set is read from disk (main.rs:336) before the
\* node auto-registers itself.
Init ==
    /\ store = [n \in Nodes |-> Known[n] \cup {n}]
    /\ registered = Known
    /\ snapshot = [n \in Nodes |-> [e \in Epochs |-> None]]
    /\ began = [n \in Nodes |-> {}]
    /\ sealing = [n \in Nodes |-> None]
    /\ proposals = [n \in Nodes |-> {}]
    /\ finalized = [n \in Nodes |-> [e \in Epochs |-> None]]
    /\ events = [n \in Nodes |-> <<>>]
    /\ meta = [n \in Nodes |-> [e \in Epochs |-> None]]
    /\ network = {}
    /\ restarts = 0

\* The votes reward_states[e] holds once p has been ingested: the first vote
\* of a node stands.
Held(n, p) ==
    LET old == {q \in proposals[n] : q.epoch = p.epoch}
    IN  IF \E q \in old : q.node = p.node THEN old ELSE old \cup {p}

\* The hashes that reach the reward quorum at n among the votes given.
QuorumHashes(n, votes) ==
    LET valid  == ValidVotes(registered[n], votes)
        needed == QuorumNeeded(Denominator(registered[n], votes), MinQuorum)
    IN  {h \in MostVoted(valid) : Cardinality(VotersFor(valid, h)) >= needed}

\* Mutant: the votes are tallied before the new one is pushed.
TallyBeforePush(n, p) ==
    LET before == {q \in proposals[n] : q.epoch = p.epoch}
        valid  == ValidVotes(registered[n], before)
    IN  /\ proposals' = [proposals EXCEPT ![n] = @ \cup Held(n, p)]
        /\ \/ /\ \/ finalized[n][p.epoch] # None
                 \/ QuorumHashes(n, before) = {}
              /\ UNCHANGED <<finalized, events>>
           \/ /\ finalized[n][p.epoch] = None
              /\ \E h \in QuorumHashes(n, before) :
                   /\ finalized' = [finalized EXCEPT ![n][p.epoch] =
                         [hash |-> h, reg |-> registered[n], voters |-> VotersFor(valid, h)]]
                   /\ events' = [events EXCEPT ![n] = Append(@,
                         [epoch |-> p.epoch, hash |-> h,
                          quorum |-> Cardinality(VotersFor(valid, h))])]

\* ClockConsensus::receive_reward_proposal, run under the clock's lock.
ReceiveRewardProposal(n, p) ==
    LET e     == p.epoch
        votes == Held(n, p)
        valid == ValidVotes(registered[n], votes)
    IN  \/ /\ finalized[n][e] # None
           /\ UNCHANGED <<proposals, finalized, events>>
        \/ /\ finalized[n][e] = None
           /\ proposals' = [proposals EXCEPT ![n] = @ \cup votes]
           /\ \/ /\ QuorumHashes(n, votes) = {}
                 /\ UNCHANGED <<finalized, events>>
              \/ \E h \in QuorumHashes(n, votes) :
                    LET voters == VotersFor(valid, h) IN
                    /\ finalized' = [finalized EXCEPT ![n][e] =
                          [hash |-> h, reg |-> registered[n], voters |-> voters]]
                    /\ events' = [events EXCEPT ![n] = Append(@,
                          [epoch |-> e, hash |-> h, quorum |-> Cardinality(voters)])]

\* A peer's ClockHello, or its ClockNodeRegister on hone/entries: applied
\* write-once, at the moment of receipt.
ClockHello(n, m) ==
    /\ m \notin store[n]
    /\ store' = [store EXCEPT ![n] = @ \cup {m}]
    /\ UNCHANGED <<registered, snapshot, began, sealing, proposals, finalized,
                   events, meta, network, restarts>>

\* Mutant: an epoch resolved twice is handled twice.
SealSnapshotAgain(n, e) ==
    /\ sealing[n] = None
    /\ began' = [began EXCEPT ![n] = @ \cup {e}]
    /\ snapshot' = [snapshot EXCEPT ![n][e] = store[n]]
    /\ registered' = [registered EXCEPT ![n] = store[n]]
    /\ sealing' = [sealing EXCEPT ![n] = e]
    /\ UNCHANGED <<store, proposals, finalized, events, meta, network, restarts>>

\* First half of the sealed-epoch handler: snapshot the eligible clocks and
\* install them as the quorum's denominator.
SealSnapshot(n, e) ==
    /\ sealing[n] = None
    /\ e \notin began[n]
    /\ began' = [began EXCEPT ![n] = @ \cup {e}]
    /\ snapshot' = [snapshot EXCEPT ![n][e] = store[n]]
    /\ registered' = [registered EXCEPT ![n] = store[n]]
    /\ sealing' = [sealing EXCEPT ![n] = e]
    /\ UNCHANGED <<store, proposals, finalized, events, meta, network, restarts>>

\* Second half: vote for the hash of the stored snapshot, here and on the
\* hone/consensus topic.
SealPropose(n) ==
    /\ sealing[n] # None
    /\ LET vote == [epoch |-> sealing[n], node |-> n,
                    hash |-> snapshot[n][sealing[n]]]
       IN  /\ ReceiveRewardProposal(n, vote)
           /\ network' = network \cup {vote}
    /\ sealing' = [sealing EXCEPT ![n] = None]
    /\ UNCHANGED <<store, registered, snapshot, began, meta, restarts>>

\* The network handler: a vote of another node arrives (or arrives again).
ConsensusProposal(n, p) ==
    /\ p.node # n
    /\ ReceiveRewardProposal(n, p)
    /\ UNCHANGED <<store, registered, snapshot, began, sealing, meta, network, restarts>>

\* The finalized-epoch handler: the sealer set comes from this node's own
\* snapshot, the empty set if there is none.
SealedBy(n, e) == IF snapshot[n][e] = None THEN {} ELSE snapshot[n][e]

\* Mutant: the record reports the registered clocks instead of the votes.
HandleFinalizedAll(n) ==
    /\ events[n] # <<>>
    /\ LET fin   == Head(events[n])
           entry == [hash |-> fin.hash, quorum |-> Cardinality(registered[n]),
                     sealed_by |-> SealedBy(n, fin.epoch)]
       IN  meta' = [meta EXCEPT ![n][fin.epoch] =
                       AfterEpochFinalize(@, entry, None, HashRank)]
    /\ events' = [events EXCEPT ![n] = Tail(@)]
    /\ UNCHANGED <<store, registered, snapshot, began, sealing, proposals,
                   finalized, network, restarts>>

HandleFinalized(n) ==
    /\ events[n] # <<>>
    /\ LET fin   == Head(events[n])
           entry == [hash |-> fin.hash, quorum |-> fin.quorum,
                     sealed_by |-> SealedBy(n, fin.epoch)]
       IN  meta' = [meta EXCEPT ![n][fin.epoch] =
                       AfterEpochFinalize(@, entry, None, HashRank)]
    /\ events' = [events EXCEPT ![n] = Tail(@)]
    /\ UNCHANGED <<store, registered, snapshot, began, sealing, proposals,
                   finalized, network, restarts>>

\* The process stops and boots again: what is in RocksDB stays, what is in
\* memory goes.  The epoch in progress will be sealed, and voted on, again.
Restart(n) ==
    /\ restarts < MaxRestarts
    /\ restarts' = restarts + 1
    /\ registered' = [registered EXCEPT ![n] = store[n]]
    /\ began' = [began EXCEPT ![n] = {}]
    /\ sealing' = [sealing EXCEPT ![n] = None]
    /\ proposals' = [proposals EXCEPT ![n] = {}]
    /\ finalized' = [finalized EXCEPT ![n] = [e \in Epochs |-> None]]
    /\ events' = [events EXCEPT ![n] = <<>>]
    /\ UNCHANGED <<store, snapshot, meta, network>>

Next ==
    \E n \in Nodes :
        \/ \E m \in Nodes : ClockHello(n, m)
        \/ \E e \in Epochs : SealSnapshot(n, e)
        \/ SealPropose(n)
        \/ \E p \in network : ConsensusProposal(n, p)
        \/ HandleFinalized(n)
        \/ Restart(n)

Spec == Init /\ [][Next]_vars

------------------------------------------------------------------------------
(* Safety *)

\* As long as no process has restarted, a node votes once per epoch: every vote
\* of it that any peer can hold carries the same hash (main.rs 732-748).
VotesOnce ==
    restarts = 0 =>
    \A p, q \in network :
        p.node = q.node /\ p.epoch = q.epoch => p.hash = q.hash

\* Two nodes that counted an epoch's votes against the same registered set
\* finalize the same rewards hash, in whatever order votes, registrations and
\* their own seals reached them (receive_reward_proposal's 51% quorum), as long
\* as no process has restarted and voted again on a registry that had moved.
SameRegistryAgreement ==
    restarts = 0 =>
    \A n, m \in Nodes, e \in Epochs :
        /\ finalized[n][e] # None /\ finalized[m][e] # None
        /\ finalized[n][e].reg = finalized[m][e].reg
        /\ finalized[n][e].reg # {}
        => finalized[n][e].hash = finalized[m][e].hash

\* Votes are only counted when one arrives.  That misses nothing at a node whose
\* registered set has not moved since it booted, whatever its peers know: it never
\* sits on a quorum it has not seen.
NoUncountedQuorum ==
    \A n \in Nodes, e \in Epochs :
        n \in Known[n] /\ store[n] = Known[n] /\ finalized[n][e] = None =>
            QuorumHashes(n, {p \in proposals[n] : p.epoch = e}) = {}

\* What a node writes into an epoch's finality record is a hash its peers voted
\* for: at least MinQuorum nodes broadcast it (EpochFinalize.quorum).
MetaBacked ==
    \A n \in Nodes, e \in Epochs :
        meta[n][e] # None =>
            /\ meta[n][e].quorum >= MinQuorum
            /\ meta[n][e].quorum <=
                  Cardinality({m \in Nodes : [epoch |-> e, node |-> m,
                                              hash |-> meta[n][e].hash] \in network})

------------------------------------------------------------------------------
(* What the comments claim *)

\* clock.rs 635-640: the snapshot voted on "is the LITERAL key that becomes the
\* winning EpochFinalize's sealed_by", so the recorded sealer set is the voted one.
SealedByIsVoted ==
    \A n \in Nodes, e \in Epochs :
        meta[n][e] # None => meta[n][e].sealed_by = meta[n][e].hash

\* clock.rs 639: "nodes agree per-epoch": no two nodes finalize an epoch with
\* different hashes.
EpochAgreement ==
    \A n, m \in Nodes, e \in Epochs :
        meta[n][e] # None /\ meta[m][e] # None => meta[n][e].hash = meta[m][e].hash
==============================================================================
