---------------------------- MODULE EpochPipeline ---------------------------
(***************************************************************************)
(* The way of an epoch through the tasks of several nodes (main.rs,         *)
(* clock.rs): a tick resolves it, the sealed-epoch handler votes on its     *)
(* rewards, the tally decides, the finalized-epoch handler records it and   *)
(* the reward driver walks over the records.  Two broadcast channels join   *)
(* the tasks.  A channel keeps its last Capacity events: a receiver that    *)
(* lags finds the older ones gone (RecvError::Lagged) and goes on.          *)
(* All clocks are registered everywhere, so an epoch has one rewards hash;  *)
(* RewardConsensus has the other registries, ClockSeal how an epoch is      *)
(* resolved, RewardDriver the driver's restarts and the steps of its tick,  *)
(* which is one step here.                                                  *)
(***************************************************************************)
EXTENDS ClockQuorum, Sequences, FiniteSetsExt

CONSTANTS Clocks, MaxEpoch,
          MinQuorum,    \* quorum(): HONE_CLOCK_QUORUM
          Capacity,     \* events a channel keeps: 64
          Depth,        \* REWARD_FINALITY_DEPTH
          Window,       \* 64: epochs behind the tip a cold start begins, and of a walk
          Empties       \* sets of epochs no clock seals; a behaviour has one of them

PipelineBounds == /\ IsFiniteSet(Clocks) /\ MinQuorum \in Nat
                  /\ MaxEpoch \in Nat /\ Depth \in Nat /\ Window \in Nat
                  /\ Capacity \in Nat \ {0}
                  /\ \A s \in Empties : s \subseteq 1..MaxEpoch

Epochs == 1..MaxEpoch

VARIABLES
    empty,          \* the epochs no clock seals
    resolved,       \* resolved[n]: epochs n's tick has resolved as sealed
    voided,         \* voided[n]: epochs it has resolved as not sealed
    sealedCh,       \* sealedCh[n]: SealedEpoch events n's handler has not taken
    snapped,        \* snapped[n]: epochs with an epoch_validators snapshot at n
    sent,           \* sent[e]: clocks that have broadcast their vote on e
    ballots,        \* ballots[n][e]: the votes n holds
    decided,        \* decided[n]: reward_states that are finalized
    finalCh,        \* finalCh[n]: FinalizedEpoch events not taken
    record,         \* record[n][e]: the sealers of epoch_meta:{e}, as {set}; {} if none
    heard,          \* heard[n]: epochs whose EpochFinalize n has had from a peer
    tip,            \* tip[n]: Chain::current_epoch
    last,           \* last[n]: last_rewarded
    rewarded,       \* rewarded[n]: epochs with epoch_finalized_done
    floorAligned,   \* floorAligned[n]: reward_floor_aligned
    skipDone,       \* skipDone[n]: cold_start_skip_done
    missed, dropped \* events of the two channels that n lost

rewardVars == <<last, rewarded, floorAligned, skipDone>>
pipeVars == <<empty, resolved, voided, sealedCh, snapped, sent, ballots, decided, finalCh, record,
              heard, tip, rewardVars, missed, dropped>>

PipelineInit ==
    /\ empty \in Empties
    /\ resolved = [n \in Clocks |-> {}] /\ snapped = [n \in Clocks |-> {}]
    /\ sealedCh = [n \in Clocks |-> <<>>] /\ finalCh = [n \in Clocks |-> <<>>]
    /\ sent = [e \in Epochs |-> {}] /\ ballots = [n \in Clocks |-> [e \in Epochs |-> {}]]
    /\ decided = [n \in Clocks |-> {}] /\ heard = [n \in Clocks |-> {}]
    /\ record = [n \in Clocks |-> [e \in Epochs |-> {}]]
    /\ tip = [n \in Clocks |-> 0] /\ last = [n \in Clocks |-> 0]
    /\ rewarded = [n \in Clocks |-> {}]
    /\ floorAligned = [n \in Clocks |-> FALSE] /\ skipDone = [n \in Clocks |-> FALSE]
    /\ voided = [n \in Clocks |-> {}] /\ missed = [n \in Clocks |-> {}]
    /\ dropped = [n \in Clocks |-> {}]
------------------------------------------------------------------------------
(* Broadcast channels *)

Offer(ch, event) == Append(IF Len(ch) < Capacity THEN ch ELSE Tail(ch), event)
Lost(ch) == IF Len(ch) < Capacity THEN {} ELSE {Head(ch)}
------------------------------------------------------------------------------
(* The tasks of node n *)

\* ClockConsensus::tick: n resolves e, as sealed or, when too few seals have reached
\* it, as not sealed.
Resolve(n, e, s) ==
    /\ e \notin resolved[n] \cup voided[n] /\ (s => e \notin empty)
    /\ resolved' = [resolved EXCEPT ![n] = IF s THEN @ \cup {e} ELSE @]
    /\ voided' = [voided EXCEPT ![n] = IF s THEN @ ELSE @ \cup {e}]
    /\ sealedCh' = [sealedCh EXCEPT ![n] = Offer(@, [epoch |-> e, sealed |-> s])]
    /\ missed' = [missed EXCEPT ![n] = @ \cup {x.epoch : x \in Lost(sealedCh[n])}]
    /\ UNCHANGED <<empty, snapped, sent, ballots, decided, finalCh, record, heard, tip,
                   rewardVars, dropped>>

Reached(votes) == Cardinality(votes) >= QuorumNeeded(Cardinality(Clocks), MinQuorum)

\* receive_reward_proposal: a vote of m on e reaches n's tally.
Tally(n, e, m) ==
    \/ e \in decided[n] /\ UNCHANGED <<ballots, decided, finalCh, dropped>>
    \/ /\ e \notin decided[n]
       /\ ballots' = [ballots EXCEPT ![n][e] = @ \cup {m}]
       /\ \/ ~Reached(ballots[n][e] \cup {m}) /\ UNCHANGED <<decided, finalCh, dropped>>
          \/ /\ Reached(ballots[n][e] \cup {m})
             /\ decided' = [decided EXCEPT ![n] = @ \cup {e}]
             /\ finalCh' = [finalCh EXCEPT ![n] = Offer(@, e)]
             /\ dropped' = [dropped EXCEPT ![n] = @ \cup Lost(finalCh[n])]

\* Mutant: an epoch that is not sealed is voted on too.
VotesOnAny(event) == TRUE
VotesOn(event) == event.sealed

\* The sealed-epoch handler: the epoch advances, the clocks are snapshot and n votes,
\* here and on hone/consensus.  An epoch that is not sealed falls through.
HandleSealed(n) ==
    /\ sealedCh[n] # <<>> /\ sealedCh' = [sealedCh EXCEPT ![n] = Tail(@)]
    /\ LET event == Head(sealedCh[n]) IN
       \/ /\ VotesOn(event)
          /\ tip' = [tip EXCEPT ![n] = Max({@, event.epoch})]
          /\ snapped' = [snapped EXCEPT ![n] = @ \cup {event.epoch}]
          /\ sent' = [sent EXCEPT ![event.epoch] = @ \cup {n}]
          /\ Tally(n, event.epoch, n)
       \/ ~VotesOn(event) /\ UNCHANGED <<snapped, sent, ballots, decided, finalCh, tip, dropped>>
    /\ UNCHANGED <<empty, resolved, voided, record, heard, rewardVars, missed>>

\* The network handler: a peer's vote, which may also never come.
ConsensusProposal(n, e, m) ==
    /\ m \in sent[e] \ {n} /\ m \notin ballots[n][e] /\ Tally(n, e, m)
    /\ UNCHANGED <<empty, resolved, voided, sealedCh, snapped, sent, record, heard, tip,
                   rewardVars, missed>>

\* The finalized-epoch handler: the sealers are n's own snapshot, or none.
HandleFinalized(n) ==
    /\ finalCh[n] # <<>> /\ finalCh' = [finalCh EXCEPT ![n] = Tail(@)]
    /\ LET e == Head(finalCh[n])
           sealers == IF e \in snapped[n] THEN Clocks ELSE {}
       IN  record' = [record EXCEPT ![n][e] = {sealers}]
    /\ UNCHANGED <<empty, resolved, voided, sealedCh, snapped, sent, ballots, decided, heard, tip,
                   rewardVars, missed, dropped>>

\* The network handler: a peer's EpochFinalize is a system entry, and ignored.
GossipedFinalize(n, e) ==
    /\ \E m \in Clocks \ {n} : record[m][e] # {}
    /\ heard' = [heard EXCEPT ![n] = @ \cup {e}]
    /\ UNCHANGED <<empty, resolved, voided, sealedCh, snapped, sent, ballots, decided, finalCh, record,
                   tip, rewardVars, missed, dropped>>

\* Mutant: the walk stops one epoch short.
WalkableShort(n, e) == e + Depth < tip[n] /\ record[n][e] # {}
Walkable(n, e) == e + Depth <= tip[n] /\ record[n][e] # {}

\* A node that has rewarded nothing begins Window epochs behind its tip, as soon as the
\* tip is further than that ...
Aligns(n) == ~floorAligned[n] /\ last[n] = 0 /\ tip[n] > Window + 1
Floor(n) == IF Aligns(n) THEN tip[n] - Window - 1 ELSE last[n]

\* ... and then moves, once, to just below the first finalized epoch it finds.
Ready(n, from) == {e \in Epochs : e > from /\ Walkable(n, e)}
Skips(n) == (floorAligned[n] \/ Aligns(n)) /\ ~skipDone[n] /\ Ready(n, Floor(n)) # {}
Starts(n) ==
    IF Skips(n)
    THEN {e - 1 : e \in {f \in Ready(n, Floor(n)) : \A d \in Ready(n, Floor(n)) : f <= d}}
    ELSE {Floor(n)}

\* The epochs a walk from there rewards: finalized, without a gap.
Walked(n, from) ==
    {e \in Epochs : from < e /\ e <= from + 1 + Window /\ \A f \in from + 1 .. e : Walkable(n, f)}

\* A tick of the reward driver that changes something.
Reward(n) ==
    /\ Aligns(n) \/ Skips(n) \/ Walked(n, last[n]) # {}
    /\ floorAligned' = [floorAligned EXCEPT ![n] = @ \/ Aligns(n)]
    /\ skipDone' = [skipDone EXCEPT ![n] = @ \/ Skips(n)]
    /\ \E from \in Starts(n) :
          /\ rewarded' = [rewarded EXCEPT ![n] = @ \cup Walked(n, from)]
          /\ \E to \in {from} \cup Walked(n, from) :
                to + 1 \notin Walked(n, from) /\ last' = [last EXCEPT ![n] = to]
    /\ UNCHANGED <<empty, resolved, voided, sealedCh, snapped, sent, ballots, decided, finalCh, record,
                   heard, tip, missed, dropped>>

PipelineNext ==
    \/ \E n \in Clocks : HandleSealed(n) \/ HandleFinalized(n) \/ Reward(n)
    \/ \E n \in Clocks, e \in Epochs :
          \/ \E s \in BOOLEAN : Resolve(n, e, s)
          \/ \E m \in Clocks : ConsensusProposal(n, e, m)
          \/ GossipedFinalize(n, e)

PipelineSpec == PipelineInit /\ [][PipelineNext]_pipeVars
------------------------------------------------------------------------------
(* What holds *)

PipelineTypeOK ==
    /\ empty \subseteq Epochs
    /\ \A n \in Clocks :
          /\ resolved[n] \cup voided[n] \cup snapped[n] \cup decided[n] \cup heard[n] \subseteq Epochs
          /\ Len(sealedCh[n]) <= Capacity /\ Len(finalCh[n]) <= Capacity
          /\ tip[n] \in 0..MaxEpoch /\ last[n] \in 0..tip[n]
          /\ \A e \in Epochs : ballots[n][e] \subseteq Clocks

\* An epoch nobody seals is resolved without a vote (clock.rs 314-323), so no node
\* ever finalizes it or pays it.  The rewards of a node that has paid the first epoch
\* wait at it for good; only a node that had paid nothing when its tip left the
\* window, and was moved there by the cold start (main.rs 431-483), gets past it.
NothingPastEmpty ==
    \A n \in Clocks, e \in empty :
        /\ record[n][e] = {} /\ e \notin rewarded[n]
        /\ last[n] >= e => floorAligned[n] /\ 1 \notin rewarded[n]

\* What a node records as final has been voted for by a quorum of clocks, although
\* votes and handlers of several nodes overlap and channels lose events.
RecordHasQuorum ==
    \A n \in Clocks, e \in Epochs :
        record[n][e] # {} => Cardinality(sent[e]) >= QuorumNeeded(Cardinality(Clocks), MinQuorum)

\* What a node has decided it pays: in the end a node that was not moved by the cold
\* start has paid every epoch e such that it holds a quorum of votes on all epochs up to
\* e, has lost none of those decisions to a lag, and is Depth past e.
DecidedIsPaid ==
    <>[](\A n \in Clocks, e \in Epochs :
            /\ tip[n] >= e + Depth
            /\ \A f \in 1..e : Reached(ballots[n][f]) /\ f \notin dropped[n]
            => e \in rewarded[n] \/ floorAligned[n])
------------------------------------------------------------------------------
(* What the comments claim *)

\* main.rs 803-805: "this broadcasts the winning EpochFinalize - dropping it meant peers
\* never saw finalization, so rewards never applied network-wide": a node that has
\* handled a peer's EpochFinalize has the epoch finalized.
PeersSeeFinalization == \A n \in Clocks : \A e \in heard[n] : record[n][e] # {}

\* main.rs 409-410: "byte-identical": nodes that have paid an epoch paid the same sealers.
PaidAlike ==
    \A n, m \in Clocks : \A e \in rewarded[n] \cap rewarded[m] : record[n][e] = record[m][e]

\* main.rs 381-382: "reach the same quorum-agreed FinalizedEpoch": an epoch every node
\* has resolved is finalized.
EmptyIsFinalized ==
    \A e \in Epochs : (\A n \in Clocks : e \in resolved[n] \cup voided[n]) ~> (\A n \in Clocks : record[n][e] # {})
=============================================================================
