------------------------ MODULE RewardConsensusProofs ------------------------
(***************************************************************************)
(* TypeOK and SameRegistryAgreement of RewardConsensus, for every set of    *)
(* nodes, every set of epochs and every HONE_CLOCK_QUORUM.                   *)
(***************************************************************************)
EXTENDS RewardConsensus, FiniteSetTheorems, TLAPS

\* A handler between its two halves has a snapshot to vote on.
SealingHasSnapshot ==
    \A n \in Nodes : sealing[n] # None =>
        /\ sealing[n] \in began[n]
        /\ snapshot[n][sealing[n]] \in Hash

\* An epoch a node has voted on is one it has begun and is done with.
VotedEpochsClosed ==
    \A p \in network : p.epoch \in began[p.node] /\ sealing[p.node] # p.epoch

\* Nobody holds a vote that was not broadcast.
HeldWasSent == \A n \in Nodes : proposals[n] \subseteq network

\* A decision rests on broadcast votes of more than half the registered set.
DecisionBacked ==
    \A n \in Nodes, e \in Epochs : finalized[n][e] # None =>
        /\ \A v \in finalized[n][e].voters :
              [epoch |-> e, node |-> v, hash |-> finalized[n][e].hash] \in network
        /\ finalized[n][e].reg # {} =>
              /\ finalized[n][e].voters \subseteq finalized[n][e].reg
              /\ 2 * Cardinality(finalized[n][e].voters)
                    > Cardinality(finalized[n][e].reg)

Typing == TypeOK /\ SealingHasSnapshot

\* The inductive invariant.  The last four conjuncts speak of one life of every
\* process: a restarted one forgets what it voted.
IInv ==
    /\ Typing
    /\ restarts = 0 => /\ VotedEpochsClosed
                       /\ VotesOnce
                       /\ HeldWasSent
                       /\ DecisionBacked

------------------------------------------------------------------------------
\* FractionCeil(c) is more than half of c.
LEMMA FractionIsMajority ==
    ASSUME NEW c \in Nat, c > 0
    PROVE  /\ FractionCeil(c) \in Nat
           /\ 2 * FractionCeil(c) > c
BY SMT DEF FractionCeil

\* The votes held after an ingest are old votes of the epoch and the new one.
LEMMA HeldVotes ==
    ASSUME NEW n \in Nodes, NEW p
    PROVE  /\ Held(n, p) \subseteq proposals[n] \cup {p}
           /\ \A q \in Held(n, p) : q.epoch = p.epoch
BY DEF Held

\* The nodes behind a quorum hash: each cast one of the votes counted, and
\* against a known registry they are a registered majority.
LEMMA QuorumVoters ==
    ASSUME NEW n \in Nodes, registered[n] \in SUBSET Nodes,
           NEW votes \in SUBSET Proposal,
           NEW h \in QuorumHashes(n, votes)
    PROVE  LET voters == VotersFor(ValidVotes(registered[n], votes), h) IN
           /\ h \in Hash
           /\ voters \in SUBSET Nodes
           /\ Cardinality(voters) \in Nat
           /\ \A v \in voters : \E q \in votes : q.node = v /\ q.hash = h
           /\ registered[n] # {} =>
                 /\ voters \subseteq registered[n]
                 /\ 2 * Cardinality(voters) > Cardinality(registered[n])
<1> DEFINE reg == registered[n]
           valid == ValidVotes(reg, votes)
           voters == VotersFor(valid, h)
<1>1. valid \subseteq votes
  BY DEF ValidVotes
<1>2. h \in Hash /\ voters \in SUBSET Nodes
  BY <1>1 DEF QuorumHashes, MostVoted, VotersFor, Proposal
<1>3. Cardinality(voters) \in Nat
  <2>1. IsFiniteSet(voters)
    BY <1>2, NodesFinite, FS_Subset
  <2> QED BY <2>1, FS_CardinalityType
<1>4. \A v \in voters : \E q \in votes : q.node = v /\ q.hash = h
  BY <1>1 DEF VotersFor
<1>5. ASSUME reg # {}
      PROVE  voters \subseteq reg /\ 2 * Cardinality(voters) > Cardinality(reg)
  <2>1. voters \subseteq reg
    BY <1>5 DEF ValidVotes, VotersFor
  <2>2. IsFiniteSet(reg)
    BY NodesFinite, FS_Subset
  <2>3. Cardinality(reg) \in Nat /\ Cardinality(reg) > 0
    BY <1>5, <2>2, FS_CardinalityType, FS_EmptySet
  <2>4. Cardinality(voters) >= QuorumNeeded(Cardinality(reg), MinQuorum)
    BY <1>5 DEF QuorumHashes, Denominator
  <2>5. QuorumNeeded(Cardinality(reg), MinQuorum) >= FractionCeil(Cardinality(reg))
    BY <2>3, FractionIsMajority, MinQuorumNat DEF QuorumNeeded
  <2> DEFINE c == Cardinality(reg)
             k == Cardinality(voters)
             f == FractionCeil(c)
             m == QuorumNeeded(c, MinQuorum)
  <2>6. m \in Nat /\ f \in Nat /\ 2 * f > c
    BY <2>3, FractionIsMajority, MinQuorumNat DEF QuorumNeeded
  <2>7. k \in Nat /\ c \in Nat /\ k >= m /\ m >= f
    BY <1>3, <2>3, <2>4, <2>5
  <2> HIDE DEF c, k, f, m
  <2>8. 2 * k > c
    BY <2>6, <2>7
  <2> QED BY <2>1, <2>8 DEF c, k
<1> QED BY <1>2, <1>3, <1>4, <1>5

------------------------------------------------------------------------------
\* The initial states are well typed and have nothing to agree on.
LEMMA InitIInv == Init => IInv
<1> SUFFICES ASSUME Init PROVE IInv
  OBVIOUS
<1> USE DEF Init
<1>1. TypeOK
  BY KnownType, MaxRestartsNat DEF TypeOK, Hash
<1>2. SealingHasSnapshot
  BY DEF SealingHasSnapshot
<1>3. VotedEpochsClosed /\ VotesOnce /\ HeldWasSent /\ DecisionBacked
  BY DEF VotedEpochsClosed, VotesOnce, HeldWasSent, DecisionBacked
<1> QED BY <1>1, <1>2, <1>3 DEF IInv, Typing

\* Ingesting a vote keeps the clock's state well typed.
LEMMA IngestTyping ==
    ASSUME TypeOK, NEW n \in Nodes, NEW p \in Proposal,
           ReceiveRewardProposal(n, p)
    PROVE  /\ proposals' \in [Nodes -> SUBSET Proposal]
           /\ finalized' \in [Nodes -> [Epochs -> Decision \cup {None}]]
           /\ events' \in [Nodes -> Seq(FinalizedEpoch)]
<1> DEFINE votes == Held(n, p)
<1>1. votes \in SUBSET Proposal
  BY HeldVotes DEF TypeOK
<1>2. CASE finalized[n][p.epoch] # None
  BY <1>2 DEF ReceiveRewardProposal, TypeOK
<1>3. CASE finalized[n][p.epoch] = None
  <2>1. proposals' = [proposals EXCEPT ![n] = @ \cup votes]
    BY <1>3 DEF ReceiveRewardProposal
  <2>2. CASE UNCHANGED <<finalized, events>>
    BY <1>1, <2>1, <2>2 DEF TypeOK
  <2>3. ASSUME NEW h \in QuorumHashes(n, votes),
               finalized' = [finalized EXCEPT ![n][p.epoch] =
                   [hash |-> h, reg |-> registered[n],
                    voters |-> VotersFor(ValidVotes(registered[n], votes), h)]],
               events' = [events EXCEPT ![n] = Append(@,
                   [epoch |-> p.epoch, hash |-> h,
                    quorum |-> Cardinality(VotersFor(ValidVotes(registered[n], votes), h))])]
        PROVE  /\ finalized' \in [Nodes -> [Epochs -> Decision \cup {None}]]
               /\ events' \in [Nodes -> Seq(FinalizedEpoch)]
    <3> DEFINE voters == VotersFor(ValidVotes(registered[n], votes), h)
    <3>1. h \in Hash /\ voters \in SUBSET Nodes /\ Cardinality(voters) \in Nat
      BY <1>1, QuorumVoters DEF TypeOK
    <3>2. p.epoch \in Epochs
      BY DEF Proposal
    <3> DEFINE d == [hash |-> h, reg |-> registered[n], voters |-> voters]
               ev == [epoch |-> p.epoch, hash |-> h, quorum |-> Cardinality(voters)]
    <3>3. d \in Decision /\ ev \in FinalizedEpoch
      BY <3>1, <3>2 DEF Decision, FinalizedEpoch, TypeOK
    <3>4. finalized' = [finalized EXCEPT ![n][p.epoch] = d]
          /\ events' = [events EXCEPT ![n] = Append(@, ev)]
      BY <2>3
    <3> HIDE DEF d, ev
    <3> QED BY <3>2, <3>3, <3>4 DEF TypeOK
  <2>4. \/ UNCHANGED <<finalized, events>>
        \/ \E h \in QuorumHashes(n, votes) :
              /\ finalized' = [finalized EXCEPT ![n][p.epoch] =
                    [hash |-> h, reg |-> registered[n],
                     voters |-> VotersFor(ValidVotes(registered[n], votes), h)]]
              /\ events' = [events EXCEPT ![n] = Append(@,
                    [epoch |-> p.epoch, hash |-> h,
                     quorum |-> Cardinality(VotersFor(ValidVotes(registered[n], votes), h))])]
    BY <1>3 DEF ReceiveRewardProposal
  <2> QED BY <1>1, <2>1, <2>2, <2>3, <2>4 DEF TypeOK
<1> QED BY <1>2, <1>3

\* Ingesting a broadcast vote leaves every held vote and every decision backed
\* by broadcast votes.
LEMMA IngestBacked ==
    ASSUME TypeOK, HeldWasSent, DecisionBacked,
           NEW n \in Nodes, NEW p \in Proposal,
           ReceiveRewardProposal(n, p),
           p \in network', network \subseteq network'
    PROVE  HeldWasSent' /\ DecisionBacked'
<1> DEFINE votes == Held(n, p)
<1>1. votes \subseteq network' /\ votes \in SUBSET Proposal
  BY HeldVotes DEF HeldWasSent, TypeOK
<1>2. HeldWasSent'
  <2>1. \/ proposals' = proposals
        \/ proposals' = [proposals EXCEPT ![n] = @ \cup votes]
    BY DEF ReceiveRewardProposal
  <2>2. proposals \in [Nodes -> SUBSET Proposal]
    BY DEF TypeOK
  <2>3. ASSUME NEW m \in Nodes PROVE proposals'[m] \subseteq network'
    <3>1. proposals'[m] = proposals[m] \/ proposals'[m] = proposals[m] \cup votes
      BY <2>1, <2>2
    <3>2. proposals[m] \subseteq network'
      BY DEF HeldWasSent
    <3> QED BY <1>1, <3>1, <3>2
  <2> QED BY <2>3 DEF HeldWasSent
<1>3. CASE finalized' = finalized
  BY <1>2, <1>3 DEF DecisionBacked
<1>4. ASSUME NEW h \in QuorumHashes(n, votes),
             finalized' = [finalized EXCEPT ![n][p.epoch] =
                 [hash |-> h, reg |-> registered[n],
                  voters |-> VotersFor(ValidVotes(registered[n], votes), h)]]
      PROVE  DecisionBacked'
  <2> DEFINE voters == VotersFor(ValidVotes(registered[n], votes), h)
             d == [hash |-> h, reg |-> registered[n], voters |-> voters]
  <2>1. /\ \A v \in voters : \E q \in votes : q.node = v /\ q.hash = h
        /\ registered[n] # {} =>
              /\ voters \subseteq registered[n]
              /\ 2 * Cardinality(voters) > Cardinality(registered[n])
    <3>1. registered[n] \in SUBSET Nodes
      BY DEF TypeOK
    <3> QED BY <1>1, <3>1, QuorumVoters
  <2>2. ASSUME NEW v \in voters
        PROVE  [epoch |-> p.epoch, node |-> v, hash |-> h] \in network'
    <3>1. PICK q \in votes : q.node = v /\ q.hash = h
      BY <2>1
    <3>2. q.epoch = p.epoch
      BY HeldVotes
    <3>3. q = [epoch |-> p.epoch, node |-> v, hash |-> h]
      BY <1>1, <3>1, <3>2 DEF Proposal
    <3> QED BY <1>1, <3>3
  <2>3. finalized' = [finalized EXCEPT ![n][p.epoch] = d]
    BY <1>4
  <2>4. d.hash = h /\ d.reg = registered[n] /\ d.voters = voters
    OBVIOUS
  <2> HIDE DEF d, voters
  <2> SUFFICES ASSUME NEW m \in Nodes, NEW e \in Epochs, finalized'[m][e] # None
               PROVE  /\ \A v \in finalized'[m][e].voters :
                            [epoch |-> e, node |-> v, hash |-> finalized'[m][e].hash] \in network'
                      /\ finalized'[m][e].reg # {} =>
                            /\ finalized'[m][e].voters \subseteq finalized'[m][e].reg
                            /\ 2 * Cardinality(finalized'[m][e].voters)
                                  > Cardinality(finalized'[m][e].reg)
    BY DEF DecisionBacked
  <2>5. CASE m = n /\ e = p.epoch
    <3>1. finalized'[m][e] = d
      BY <2>3, <2>5 DEF TypeOK
    <3> QED BY <2>1, <2>2, <2>4, <2>5, <3>1
  <2>6. CASE ~(m = n /\ e = p.epoch)
    <3>1. finalized'[m][e] = finalized[m][e]
      BY <2>3, <2>6 DEF TypeOK
    <3> QED BY <3>1 DEF DecisionBacked
  <2> QED BY <2>5, <2>6
<1>5. \/ finalized' = finalized
      \/ \E h \in QuorumHashes(n, votes) :
            finalized' = [finalized EXCEPT ![n][p.epoch] =
                [hash |-> h, reg |-> registered[n],
                 voters |-> VotersFor(ValidVotes(registered[n], votes), h)]]
  BY DEF ReceiveRewardProposal
<1> QED BY <1>2, <1>3, <1>4, <1>5

\* Every step keeps the state well typed.
LEMMA NextTyping == Typing /\ [Next]_vars => Typing'
<1> SUFFICES ASSUME Typing, [Next]_vars PROVE Typing'
  OBVIOUS
<1> USE DEF Typing
<1>1. ASSUME NEW n \in Nodes, NEW m \in Nodes, ClockHello(n, m) PROVE Typing'
  BY <1>1 DEF ClockHello, TypeOK, SealingHasSnapshot
<1>2. ASSUME NEW n \in Nodes, NEW e \in Epochs, SealSnapshot(n, e) PROVE Typing'
  <2>1. TypeOK'
    BY <1>2 DEF SealSnapshot, TypeOK, Hash
  <2>2. SealingHasSnapshot'
    BY <1>2 DEF SealSnapshot, TypeOK, SealingHasSnapshot, Hash
  <2> QED BY <2>1, <2>2
<1>3. ASSUME NEW n \in Nodes, SealPropose(n) PROVE Typing'
  <2> DEFINE vote == [epoch |-> sealing[n], node |-> n,
                      hash |-> snapshot[n][sealing[n]]]
  <2>1. vote \in Proposal
    BY <1>3 DEF SealPropose, TypeOK, SealingHasSnapshot, Proposal
  <2>2. ReceiveRewardProposal(n, vote) /\ network' = network \cup {vote}
    BY <1>3 DEF SealPropose
  <2>3. /\ sealing' = [sealing EXCEPT ![n] = None]
        /\ UNCHANGED <<store, registered, snapshot, began, meta, restarts>>
    BY <1>3 DEF SealPropose
  <2> HIDE DEF vote
  <2>4. TypeOK'
    BY <2>1, <2>2, <2>3, IngestTyping DEF TypeOK
  <2>5. SealingHasSnapshot'
    BY <2>3 DEF TypeOK, SealingHasSnapshot
  <2> QED BY <2>4, <2>5
<1>4. ASSUME NEW n \in Nodes, NEW p \in network, ConsensusProposal(n, p)
      PROVE  Typing'
  <2>1. p \in Proposal
    BY DEF TypeOK
  <2>2. /\ ReceiveRewardProposal(n, p)
        /\ UNCHANGED <<store, registered, snapshot, began, sealing, meta, network, restarts>>
    BY <1>4 DEF ConsensusProposal
  <2>3. TypeOK'
    BY <2>1, <2>2, IngestTyping DEF TypeOK
  <2> QED BY <2>2, <2>3 DEF SealingHasSnapshot
<1>5. ASSUME NEW n \in Nodes, HandleFinalized(n) PROVE Typing'
  <2> DEFINE fin == Head(events[n])
             entry == [hash |-> fin.hash, quorum |-> fin.quorum,
                       sealed_by |-> SealedBy(n, fin.epoch)]
             after == AfterEpochFinalize(meta[n][fin.epoch], entry, None, HashRank)
  <2>1. fin \in FinalizedEpoch /\ Tail(events[n]) \in Seq(FinalizedEpoch)
    BY <1>5 DEF HandleFinalized, TypeOK
  <2>2. fin.epoch \in Epochs /\ fin.hash \in Hash /\ fin.quorum \in Nat
    BY <2>1 DEF FinalizedEpoch
  <2>3. SealedBy(n, fin.epoch) \in SUBSET Nodes
    BY <2>2 DEF SealedBy, TypeOK, Hash
  <2>4. entry \in EpochMeta
    BY <2>2, <2>3 DEF EpochMeta
  <2>5. after \in EpochMeta \cup {None}
    <3>1. after = entry \/ after = meta[n][fin.epoch]
      BY DEF AfterEpochFinalize
    <3> QED BY <2>2, <2>4, <3>1 DEF TypeOK
  <2>6. /\ meta' = [meta EXCEPT ![n][fin.epoch] = after]
        /\ events' = [events EXCEPT ![n] = Tail(@)]
        /\ UNCHANGED <<store, registered, snapshot, began, sealing, proposals,
                       finalized, network, restarts>>
    BY <1>5 DEF HandleFinalized
  <2> HIDE DEF fin, entry, after
  <2>7. meta' \in [Nodes -> [Epochs -> EpochMeta \cup {None}]]
    BY <2>2, <2>5, <2>6 DEF TypeOK
  <2>8. events' \in [Nodes -> Seq(FinalizedEpoch)]
    BY <2>1, <2>6 DEF TypeOK
  <2> QED BY <2>6, <2>7, <2>8 DEF TypeOK, SealingHasSnapshot
<1>6. ASSUME NEW n \in Nodes, Restart(n) PROVE Typing'
  <2>1. TypeOK'
    BY <1>6, MaxRestartsNat DEF Restart, TypeOK
  <2>2. SealingHasSnapshot'
    BY <1>6 DEF Restart, TypeOK, SealingHasSnapshot
  <2> QED BY <2>1, <2>2
<1>7. CASE UNCHANGED vars
  BY <1>7 DEF vars, TypeOK, SealingHasSnapshot
<1> QED BY <1>1, <1>2, <1>3, <1>4, <1>5, <1>6, <1>7 DEF Next

\* Every step keeps the inductive invariant.
LEMMA NextIInv == IInv /\ [Next]_vars => IInv'
<1> SUFFICES ASSUME IInv, [Next]_vars PROVE IInv'
  OBVIOUS
<1>1. Typing'
  BY NextTyping DEF IInv
<1> SUFFICES ASSUME restarts' = 0
             PROVE  VotedEpochsClosed' /\ VotesOnce' /\ HeldWasSent' /\ DecisionBacked'
  BY <1>1 DEF IInv
<1>2. Typing /\ TypeOK
  BY DEF IInv, Typing
<1>3. restarts = 0
  <2>1. restarts' = restarts \/ restarts' = restarts + 1
    BY DEF Next, ClockHello, SealSnapshot, SealPropose, ConsensusProposal,
           HandleFinalized, Restart, vars
  <2>2. restarts \in Nat
    BY <1>2, MaxRestartsNat DEF TypeOK
  <2> QED BY <2>1, <2>2
<1>4. VotedEpochsClosed /\ VotesOnce /\ HeldWasSent /\ DecisionBacked
  BY <1>3 DEF IInv
<1>5. ASSUME NEW n \in Nodes, NEW m \in Nodes, ClockHello(n, m)
      PROVE  VotedEpochsClosed' /\ VotesOnce' /\ HeldWasSent' /\ DecisionBacked'
  BY <1>4, <1>5 DEF ClockHello, VotedEpochsClosed, VotesOnce, HeldWasSent, DecisionBacked
<1>6. ASSUME NEW n \in Nodes, NEW e \in Epochs, SealSnapshot(n, e)
      PROVE  VotedEpochsClosed' /\ VotesOnce' /\ HeldWasSent' /\ DecisionBacked'
  <2>1. VotedEpochsClosed'
    BY <1>2, <1>4, <1>6 DEF SealSnapshot, VotedEpochsClosed, TypeOK, Proposal
  <2> QED BY <1>4, <1>6, <2>1 DEF SealSnapshot, VotesOnce, HeldWasSent, DecisionBacked
<1>7. ASSUME NEW n \in Nodes, SealPropose(n)
      PROVE  VotedEpochsClosed' /\ VotesOnce' /\ HeldWasSent' /\ DecisionBacked'
  <2> DEFINE vote == [epoch |-> sealing[n], node |-> n,
                      hash |-> snapshot[n][sealing[n]]]
  <2>1. vote \in Proposal /\ sealing[n] \in began[n] /\ sealing[n] # None
        /\ sealing[n] \in Epochs
    BY <1>2, <1>7 DEF SealPropose, Typing, TypeOK, SealingHasSnapshot, Proposal
  <2>2. /\ ReceiveRewardProposal(n, vote) /\ network' = network \cup {vote}
        /\ sealing' = [sealing EXCEPT ![n] = None]
        /\ began' = began
    BY <1>7 DEF SealPropose
  <2>3. VotedEpochsClosed'
    BY <1>2, <1>4, <2>1, <2>2, NoneFresh DEF VotedEpochsClosed, TypeOK, Proposal
  <2>4. \A q \in network : ~(q.node = n /\ q.epoch = sealing[n])
    BY <1>4 DEF VotedEpochsClosed
  <2>5. VotesOnce'
    BY <1>3, <1>4, <2>2, <2>4 DEF VotesOnce
  <2>6. HeldWasSent' /\ DecisionBacked'
    BY <1>2, <1>4, <2>1, <2>2, IngestBacked
  <2> QED BY <2>3, <2>5, <2>6
<1>8. ASSUME NEW n \in Nodes, NEW p \in network, ConsensusProposal(n, p)
      PROVE  VotedEpochsClosed' /\ VotesOnce' /\ HeldWasSent' /\ DecisionBacked'
  <2>1. ReceiveRewardProposal(n, p) /\ UNCHANGED <<began, sealing, network>>
    BY <1>8 DEF ConsensusProposal
  <2>2. p \in Proposal
    BY <1>2 DEF TypeOK
  <2>3. HeldWasSent' /\ DecisionBacked'
    BY <1>2, <1>4, <2>1, <2>2, IngestBacked
  <2> QED BY <1>3, <1>4, <2>1, <2>3 DEF VotedEpochsClosed, VotesOnce
<1>9. ASSUME NEW n \in Nodes, HandleFinalized(n)
      PROVE  VotedEpochsClosed' /\ VotesOnce' /\ HeldWasSent' /\ DecisionBacked'
  BY <1>4, <1>9 DEF HandleFinalized, VotedEpochsClosed, VotesOnce, HeldWasSent, DecisionBacked
<1>10. ASSUME NEW n \in Nodes, Restart(n)
       PROVE  FALSE
  BY <1>3, <1>10 DEF Restart
<1>11. CASE UNCHANGED vars
  BY <1>4, <1>11 DEF vars, VotedEpochsClosed, VotesOnce, HeldWasSent, DecisionBacked
<1> QED BY <1>5, <1>6, <1>7, <1>8, <1>9, <1>10, <1>11 DEF Next

\* Two majorities of one registered set share a voter, who votes once.
LEMMA IInvAgreement == IInv => SameRegistryAgreement
<1> SUFFICES ASSUME IInv, restarts = 0,
                    NEW n \in Nodes, NEW m \in Nodes, NEW e \in Epochs,
                    finalized[n][e] # None, finalized[m][e] # None,
                    finalized[n][e].reg = finalized[m][e].reg,
                    finalized[n][e].reg # {}
             PROVE  finalized[n][e].hash = finalized[m][e].hash
  BY DEF SameRegistryAgreement
<1> DEFINE a == finalized[n][e]
           b == finalized[m][e]
<1>1. DecisionBacked /\ VotesOnce /\ TypeOK
  BY DEF IInv, Typing
<1>2. a \in Decision /\ b \in Decision
  BY <1>1 DEF TypeOK
<1>3. IsFiniteSet(a.reg)
  BY <1>2, NodesFinite, FS_Subset DEF Decision
<1>4. /\ a.voters \subseteq a.reg /\ 2 * Cardinality(a.voters) > Cardinality(a.reg)
      /\ b.voters \subseteq a.reg /\ 2 * Cardinality(b.voters) > Cardinality(a.reg)
  BY <1>1 DEF DecisionBacked
<1>5. IsFiniteSet(a.voters) /\ IsFiniteSet(b.voters)
  BY <1>3, <1>4, FS_Subset
<1>6. /\ Cardinality(a.reg) \in Nat /\ Cardinality(a.voters) \in Nat
      /\ Cardinality(b.voters) \in Nat
  BY <1>3, <1>5, FS_CardinalityType
<1>7. a.voters \cap b.voters # {}
  <2>1. Cardinality(a.voters) + Cardinality(b.voters) > Cardinality(a.reg)
    BY <1>4, <1>6
  <2> QED BY <1>3, <1>4, <2>1, FS_MajoritiesIntersect
<1>8. PICK v : v \in a.voters /\ v \in b.voters
  BY <1>7
<1>9. /\ [epoch |-> e, node |-> v, hash |-> a.hash] \in network
      /\ [epoch |-> e, node |-> v, hash |-> b.hash] \in network
  BY <1>1, <1>8 DEF DecisionBacked
<1> QED BY <1>1, <1>9 DEF VotesOnce

------------------------------------------------------------------------------
\* Every reachable state of the reward consensus is well typed, whatever the
\* nodes, epochs and restarts.
THEOREM TypeCorrect == Spec => []TypeOK
<1>1. IInv => TypeOK
  BY DEF IInv, Typing
<1> QED BY <1>1, InitIInv, NextIInv, PTL DEF Spec

\* A clock votes once per epoch in the life of its process (sealed-epoch handler).
THEOREM VotesOnceHolds == Spec => []VotesOnce
<1>1. IInv => VotesOnce
  BY DEF IInv, VotesOnce
<1> QED BY <1>1, InitIInv, NextIInv, PTL DEF Spec

\* Nodes that count against the same registered set finalize the same rewards
\* hash (receive_reward_proposal): for any number of nodes, any interleaving of
\* gossip, seals and registrations, and any HONE_CLOCK_QUORUM.
THEOREM Agreement == Spec => []SameRegistryAgreement
<1> QED BY IInvAgreement, InitIInv, NextIInv, PTL DEF Spec
==============================================================================
