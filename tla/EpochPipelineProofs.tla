------------------------ MODULE EpochPipelineProofs -------------------------
(***************************************************************************)
(* The safety of the pipeline for any nodes, epochs, quorum, channel        *)
(* capacity and depth.  The invariant follows an epoch through the tasks:   *)
(* a record comes from a decision, a decision from votes that were sent, a  *)
(* vote from an event of a sealed epoch, and no such event is of an epoch   *)
(* in `empty`.                                                              *)
(***************************************************************************)
EXTENDS EpochPipeline, FiniteSetTheorems, SequenceTheorems, TLAPS

Event == [epoch : Epochs, sealed : BOOLEAN]

Typing ==
    /\ empty \subseteq Epochs
    /\ resolved \in [Clocks -> SUBSET Epochs] /\ voided \in [Clocks -> SUBSET Epochs]
    /\ snapped \in [Clocks -> SUBSET Epochs] /\ heard \in [Clocks -> SUBSET Epochs]
    /\ decided \in [Clocks -> SUBSET Epochs]
    /\ sealedCh \in [Clocks -> Seq(Event)] /\ finalCh \in [Clocks -> Seq(Epochs)]
    /\ sent \in [Epochs -> SUBSET Clocks]
    /\ ballots \in [Clocks -> [Epochs -> SUBSET Clocks]]
    /\ record \in [Clocks -> [Epochs -> SUBSET SUBSET Clocks]]
    /\ tip \in [Clocks -> Nat] /\ last \in [Clocks -> Nat]
    /\ rewarded \in [Clocks -> SUBSET Epochs] /\ floorAligned \in [Clocks -> BOOLEAN]

Bounded ==
    \A n \in Clocks : /\ Len(sealedCh[n]) <= Capacity /\ Len(finalCh[n]) <= Capacity
                     /\ tip[n] <= MaxEpoch /\ last[n] <= tip[n]

\* Events announce as sealed only what some clock sealed.
EventsReal ==
    \A n \in Clocks : \A i \in DOMAIN sealedCh[n] :
        sealedCh[n][i].sealed => sealedCh[n][i].epoch \notin empty

VotesReal ==
    /\ \A e \in empty : sent[e] = {}
    /\ \A n \in Clocks, e \in Epochs : ballots[n][e] \subseteq sent[e]

DecisionsBacked ==
    \A n \in Clocks : \A e \in decided[n] : Reached(sent[e]) /\ e \notin empty

RecordsDecided ==
    /\ \A n \in Clocks : \A i \in DOMAIN finalCh[n] : finalCh[n][i] \in decided[n]
    /\ \A n \in Clocks, e \in Epochs : record[n][e] # {} => e \in decided[n]

\* What is rewarded was recorded and lies behind the driver; only the cold start takes a
\* driver past an empty epoch, and it has then not rewarded the first one.
PaidRecorded ==
    \A n \in Clocks :
        /\ \A e \in rewarded[n] : record[n][e] # {} /\ e <= last[n]
        /\ \A e \in empty : last[n] >= e => floorAligned[n]
        /\ floorAligned[n] => last[n] >= 1 /\ 1 \notin rewarded[n]

PInv == /\ Typing /\ Bounded /\ EventsReal /\ VotesReal
        /\ DecisionsBacked /\ RecordsDecided /\ PaidRecorded
------------------------------------------------------------------------------
(* Channels and quorums *)

\* A channel keeps its bound, and what it holds was held before or is new.
LEMMA OfferHolds ==
    ASSUME PipelineBounds, NEW S, NEW ch \in Seq(S), NEW x \in S, Len(ch) <= Capacity
    PROVE  /\ Offer(ch, x) \in Seq(S) /\ Len(Offer(ch, x)) <= Capacity
           /\ \A i \in DOMAIN Offer(ch, x) :
                 Offer(ch, x)[i] = x \/ \E j \in DOMAIN ch : Offer(ch, x)[i] = ch[j]
<1>1. CASE Len(ch) < Capacity
  BY <1>1 DEF Offer, PipelineBounds
<1>2. CASE ~(Len(ch) < Capacity)
  <2>1. Len(ch) = Capacity /\ ch # <<>>
    BY <1>2 DEF PipelineBounds
  <2>2. /\ Tail(ch) \in Seq(S) /\ Len(Tail(ch)) = Len(ch) - 1
        /\ \A i \in 1..(Len(ch) - 1) : Tail(ch)[i] = ch[i + 1]
    BY <2>1
  <2> DEFINE t == Tail(ch)
  <2>3. /\ Append(t, x) \in Seq(S) /\ Len(Append(t, x)) = Len(ch)
        /\ \A i \in DOMAIN Append(t, x) : i \in 1..Len(ch)
        /\ Append(t, x)[Len(ch)] = x
        /\ \A i \in 1..(Len(ch) - 1) : Append(t, x)[i] = t[i]
    BY <2>1, <2>2
  <2>4. \A i \in 1..Len(ch) : i = Len(ch) \/ (i \in 1..(Len(ch) - 1) /\ i + 1 \in DOMAIN ch)
    OBVIOUS
  <2>5. Offer(ch, x) = Append(t, x)
    BY <1>2 DEF Offer
  <2> HIDE DEF t
  <2>6. \A i \in 1..(Len(ch) - 1) : t[i] = ch[i + 1]
    BY <2>2 DEF t
  <2> QED BY <2>1, <2>3, <2>4, <2>5, <2>6
<1> QED BY <1>1, <1>2

\* What is left of a channel was in it.
LEMMA TailHolds ==
    ASSUME NEW S, NEW ch \in Seq(S), ch # <<>>
    PROVE  /\ Head(ch) \in S /\ Tail(ch) \in Seq(S) /\ Len(Tail(ch)) <= Len(ch)
           /\ 1 \in DOMAIN ch /\ Head(ch) = ch[1]
           /\ \A i \in DOMAIN Tail(ch) : i + 1 \in DOMAIN ch /\ Tail(ch)[i] = ch[i + 1]
OBVIOUS

\* More votes are a quorum still.
LEMMA ReachedMore ==
    ASSUME PipelineBounds, NEW A, NEW B, A \subseteq B, B \subseteq Clocks, Reached(A)
    PROVE  Reached(B)
<1>1. IsFiniteSet(B) /\ IsFiniteSet(A) /\ IsFiniteSet(Clocks)
  BY FS_Subset DEF PipelineBounds
<1>2. Cardinality(A) <= Cardinality(B) /\ Cardinality(A) \in Nat /\ Cardinality(B) \in Nat
  BY <1>1, FS_Subset, FS_CardinalityType
<1>3. QuorumNeeded(Cardinality(Clocks), MinQuorum) \in Int
  BY <1>1, FS_CardinalityType DEF QuorumNeeded, FractionCeil, PipelineBounds
<1> QED BY <1>2, <1>3 DEF Reached
------------------------------------------------------------------------------
(* Steps *)

\* A vote that was sent on an epoch some clock sealed leaves tally and channel sound.
LEMMA TallyHolds ==
    ASSUME PipelineBounds, PInv, NEW n \in Clocks, NEW e \in Epochs \ empty, NEW m \in Clocks,
           Tally(n, e, m), sent' \in [Epochs -> SUBSET Clocks], m \in sent'[e],
           \A f \in Epochs : sent[f] \subseteq sent'[f],
           \A f \in empty : sent'[f] = {}, empty' = empty
    PROVE  /\ ballots' \in [Clocks -> [Epochs -> SUBSET Clocks]]
           /\ decided' \in [Clocks -> SUBSET Epochs] /\ finalCh' \in [Clocks -> Seq(Epochs)]
           /\ \A p \in Clocks : Len(finalCh'[p]) <= Capacity
           /\ \A p \in Clocks : decided[p] \subseteq decided'[p]
           /\ VotesReal' /\ DecisionsBacked'
           /\ \A p \in Clocks : \A i \in DOMAIN finalCh'[p] : finalCh'[p][i] \in decided'[p]
<1> USE DEF PInv, Typing
<1>1. \A p \in Clocks : \A f \in decided[p] : Reached(sent'[f]) /\ f \notin empty
  <2> SUFFICES ASSUME NEW p \in Clocks, NEW f \in decided[p]
               PROVE  Reached(sent'[f]) /\ f \notin empty
    OBVIOUS
  <2>1. f \in Epochs /\ Reached(sent[f]) /\ f \notin empty
    BY DEF DecisionsBacked
  <2>2. sent[f] \subseteq sent'[f] /\ sent'[f] \subseteq Clocks
    BY <2>1
  <2> QED BY <2>1, <2>2, ReachedMore
<1>2. ballots[n][e] \cup {m} \subseteq sent'[e] /\ sent'[e] \subseteq Clocks
  BY DEF VotesReal
<1>3. /\ ballots' \in [Clocks -> [Epochs -> SUBSET Clocks]]
      /\ \A p \in Clocks, f \in Epochs :
            ballots'[p][f] \subseteq ballots[p][f] \cup (IF p = n /\ f = e THEN {m} ELSE {})
  <2>1. CASE ballots' = ballots
    BY <2>1
  <2>2. CASE ballots' = [ballots EXCEPT ![n][e] = @ \cup {m}]
    <3>1. ballots' \in [Clocks -> [Epochs -> SUBSET Clocks]]
      BY <2>2
    <3>2. ASSUME NEW p \in Clocks, NEW f \in Epochs
          PROVE  ballots'[p][f] = IF p = n /\ f = e THEN ballots[p][f] \cup {m} ELSE ballots[p][f]
      BY <2>2
    <3> QED BY <3>1, <3>2
  <2> QED BY <2>1, <2>2 DEF Tally
<1>4. VotesReal'
  <2>1. \A p \in Clocks, f \in Epochs : ballots[p][f] \subseteq sent'[f]
    BY DEF VotesReal
  <2>2. \A p \in Clocks, f \in Epochs : ballots'[p][f] \subseteq sent'[f]
    BY <1>3, <2>1
  <2> QED BY <2>2 DEF VotesReal
<1>5. CASE decided' = decided /\ finalCh' = finalCh
  BY <1>1, <1>3, <1>4, <1>5 DEF DecisionsBacked, RecordsDecided, Bounded
<1>6. CASE ~(decided' = decided /\ finalCh' = finalCh)
  <2>1. /\ Reached(ballots[n][e] \cup {m})
        /\ decided' = [decided EXCEPT ![n] = @ \cup {e}]
        /\ finalCh' = [finalCh EXCEPT ![n] = Offer(@, e)]
    BY <1>6 DEF Tally
  <2>2. Reached(sent'[e])
    BY <1>2, <2>1, ReachedMore
  <2>3. finalCh[n] \in Seq(Epochs) /\ Len(finalCh[n]) <= Capacity
    BY DEF Bounded
  <2>4. /\ Offer(finalCh[n], e) \in Seq(Epochs) /\ Len(Offer(finalCh[n], e)) <= Capacity
        /\ \A i \in DOMAIN Offer(finalCh[n], e) :
              \/ Offer(finalCh[n], e)[i] = e
              \/ \E j \in DOMAIN finalCh[n] : Offer(finalCh[n], e)[i] = finalCh[n][j]
    BY <2>3, OfferHolds
  <2>5. /\ decided' \in [Clocks -> SUBSET Epochs]
        /\ decided'[n] = decided[n] \cup {e}
        /\ \A p \in Clocks : p # n => decided'[p] = decided[p]
    BY <2>1
  <2>6. /\ finalCh' \in [Clocks -> Seq(Epochs)] /\ finalCh'[n] = Offer(finalCh[n], e)
        /\ \A p \in Clocks : p # n => finalCh'[p] = finalCh[p]
    BY <2>1, <2>4
  <2>7. \A p \in Clocks : Len(finalCh'[p]) <= Capacity
    BY <2>4, <2>6 DEF Bounded
  <2>8. DecisionsBacked'
    BY <1>1, <2>2, <2>5 DEF DecisionsBacked
  <2>9. \A p \in Clocks : \A i \in DOMAIN finalCh'[p] : finalCh'[p][i] \in decided'[p]
    <3>1. \A p \in Clocks : \A i \in DOMAIN finalCh[p] : finalCh[p][i] \in decided[p]
      BY DEF RecordsDecided
    <3>2. \A i \in DOMAIN finalCh'[n] : finalCh'[n][i] \in decided'[n]
      BY <2>4, <2>5, <2>6, <3>1
    <3>3. \A p \in Clocks \ {n} : \A i \in DOMAIN finalCh'[p] : finalCh'[p][i] \in decided'[p]
      BY <2>5, <2>6, <3>1
    <3> QED BY <3>2, <3>3
  <2> QED BY <1>3, <1>4, <2>5, <2>6, <2>7, <2>8, <2>9
<1> QED BY <1>5, <1>6

\* Chain::apply_entry moves the epoch forward only.
LEMMA MaxOfTwo ==
    ASSUME NEW x \in Nat, NEW y \in Nat
    PROVE  Max({x, y}) \in {x, y} /\ Max({x, y}) >= x
<1>1. \E z \in {x, y} : \A w \in {x, y} : z >= w
  OBVIOUS
<1> QED BY <1>1 DEF Max

LEMMA InitPInv == PipelineBounds /\ PipelineInit => PInv
<1> SUFFICES ASSUME PipelineBounds, PipelineInit PROVE PInv
  OBVIOUS
<1> USE DEF PipelineInit, Epochs
<1>1. Typing
  BY DEF Typing, PipelineBounds
<1>2. Bounded
  BY DEF Bounded, PipelineBounds
<1>3. EventsReal /\ DecisionsBacked /\ RecordsDecided
  BY DEF EventsReal, DecisionsBacked, RecordsDecided
<1>4. VotesReal /\ PaidRecorded
  BY DEF VotesReal, PaidRecorded, PipelineBounds
<1> QED BY <1>1, <1>2, <1>3, <1>4 DEF PInv

\* The tick announces an epoch as sealed only when it is not empty.
LEMMA ResolveHolds ==
    ASSUME PipelineBounds, PInv, NEW n \in Clocks, NEW e \in Epochs, NEW s \in BOOLEAN,
           Resolve(n, e, s)
    PROVE  PInv'
<1> DEFINE event == [epoch |-> e, sealed |-> s]
<1>1. /\ sealedCh' = [sealedCh EXCEPT ![n] = Offer(@, event)]
      /\ s => e \notin empty
  BY DEF Resolve
<1>2. event \in Event /\ sealedCh[n] \in Seq(Event) /\ Len(sealedCh[n]) <= Capacity
  BY DEF PInv, Typing, Bounded, Event
<1>3. event.sealed => event.epoch \notin empty
  BY <1>1
<1> HIDE DEF event
<1>4. /\ Offer(sealedCh[n], event) \in Seq(Event) /\ Len(Offer(sealedCh[n], event)) <= Capacity
      /\ \A i \in DOMAIN Offer(sealedCh[n], event) :
            \/ Offer(sealedCh[n], event)[i] = event
            \/ \E j \in DOMAIN sealedCh[n] : Offer(sealedCh[n], event)[i] = sealedCh[n][j]
  BY <1>2, OfferHolds
<1>5. /\ sealedCh' \in [Clocks -> Seq(Event)] /\ sealedCh'[n] = Offer(sealedCh[n], event)
      /\ \A p \in Clocks : p # n => sealedCh'[p] = sealedCh[p]
  BY <1>1, <1>4 DEF PInv, Typing
<1>6. resolved' \in [Clocks -> SUBSET Epochs] /\ voided' \in [Clocks -> SUBSET Epochs]
  BY DEF Resolve, PInv, Typing
<1>7. UNCHANGED <<empty, snapped, sent, ballots, decided, finalCh, record, heard, tip, last,
                 rewarded, floorAligned>>
  BY DEF Resolve, rewardVars
<1>8. Typing'
  BY <1>5, <1>6, <1>7 DEF PInv, Typing
<1>9. Bounded'
  BY <1>4, <1>5, <1>7 DEF PInv, Bounded
<1>10. EventsReal'
  <2>1. \A i \in DOMAIN sealedCh'[n] :
            sealedCh'[n][i].sealed => sealedCh'[n][i].epoch \notin empty
    BY <1>3, <1>4, <1>5 DEF PInv, EventsReal
  <2>2. \A p \in Clocks \ {n} : \A i \in DOMAIN sealedCh'[p] :
            sealedCh'[p][i].sealed => sealedCh'[p][i].epoch \notin empty
    BY <1>5 DEF PInv, EventsReal
  <2> QED BY <1>7, <2>1, <2>2 DEF EventsReal
<1>11. VotesReal' /\ DecisionsBacked' /\ RecordsDecided' /\ PaidRecorded'
  BY <1>7 DEF PInv, VotesReal, DecisionsBacked, RecordsDecided, PaidRecorded, Reached
<1> QED BY <1>8, <1>9, <1>10, <1>11 DEF PInv

\* The sealed-epoch handler votes on sealed epochs only.
LEMMA HandleSealedHolds ==
    ASSUME PipelineBounds, PInv, NEW n \in Clocks, HandleSealed(n)
    PROVE  PInv'
<1> DEFINE event == Head(sealedCh[n])
<1>1. /\ sealedCh[n] # <<>> /\ sealedCh' = [sealedCh EXCEPT ![n] = Tail(@)]
      /\ UNCHANGED <<empty, resolved, voided, record, heard, last, rewarded, floorAligned>>
  BY DEF HandleSealed, rewardVars
<1>2. sealedCh[n] \in Seq(Event)
  BY DEF PInv, Typing
<1>3. /\ event \in Event /\ Tail(sealedCh[n]) \in Seq(Event)
      /\ Len(Tail(sealedCh[n])) <= Len(sealedCh[n])
      /\ 1 \in DOMAIN sealedCh[n] /\ event = sealedCh[n][1]
      /\ \A i \in DOMAIN Tail(sealedCh[n]) :
            i + 1 \in DOMAIN sealedCh[n] /\ Tail(sealedCh[n])[i] = sealedCh[n][i + 1]
  BY <1>1, <1>2, TailHolds
<1>4. /\ sealedCh' \in [Clocks -> Seq(Event)] /\ sealedCh'[n] = Tail(sealedCh[n])
      /\ \A p \in Clocks : p # n => sealedCh'[p] = sealedCh[p]
  BY <1>1, <1>3 DEF PInv, Typing
<1>5. \A p \in Clocks : Len(sealedCh'[p]) <= Capacity
  <2>1. Len(sealedCh[n]) \in Nat /\ Len(Tail(sealedCh[n])) \in Nat /\ Capacity \in Nat
    BY <1>2, <1>3 DEF PipelineBounds
  <2> QED BY <1>3, <1>4, <2>1, SMTT(40) DEF PInv, Bounded
<1>6. EventsReal'
  <2>1. \A i \in DOMAIN sealedCh'[n] :
            sealedCh'[n][i].sealed => sealedCh'[n][i].epoch \notin empty
    BY <1>3, <1>4 DEF PInv, EventsReal
  <2>2. \A p \in Clocks \ {n} : \A i \in DOMAIN sealedCh'[p] :
            sealedCh'[p][i].sealed => sealedCh'[p][i].epoch \notin empty
    BY <1>4 DEF PInv, EventsReal
  <2> QED BY <1>1, <2>1, <2>2 DEF EventsReal
<1>7. CASE ~VotesOn(event)
  <2>1. UNCHANGED <<snapped, sent, ballots, decided, finalCh, tip>>
    BY <1>7 DEF HandleSealed
  <2>2. Typing' /\ Bounded'
    BY <1>1, <1>4, <1>5, <2>1 DEF PInv, Typing, Bounded
  <2>3. VotesReal' /\ DecisionsBacked' /\ RecordsDecided' /\ PaidRecorded'
    BY <1>1, <2>1 DEF PInv, VotesReal, DecisionsBacked, RecordsDecided, PaidRecorded, Reached
  <2> QED BY <1>6, <2>2, <2>3 DEF PInv
<1>8. CASE VotesOn(event)
  <2>1. /\ tip' = [tip EXCEPT ![n] = Max({@, event.epoch})]
        /\ snapped' = [snapped EXCEPT ![n] = @ \cup {event.epoch}]
        /\ sent' = [sent EXCEPT ![event.epoch] = @ \cup {n}]
        /\ Tally(n, event.epoch, n)
    BY <1>8 DEF HandleSealed
  <2>2. event.epoch \in Epochs \ empty
    BY <1>3, <1>8 DEF VotesOn, PInv, EventsReal, Event
  <2> HIDE DEF event
  <2>3. /\ sent' \in [Epochs -> SUBSET Clocks] /\ n \in sent'[event.epoch]
        /\ \A f \in Epochs : sent[f] \subseteq sent'[f]
        /\ \A f \in Epochs : f # event.epoch => sent'[f] = sent[f]
    BY <2>1, <2>2 DEF PInv, Typing
  <2>4. \A f \in empty : sent'[f] = {}
    BY <2>2, <2>3 DEF PInv, VotesReal, Typing
  <2>5. /\ ballots' \in [Clocks -> [Epochs -> SUBSET Clocks]]
        /\ decided' \in [Clocks -> SUBSET Epochs] /\ finalCh' \in [Clocks -> Seq(Epochs)]
        /\ \A p \in Clocks : Len(finalCh'[p]) <= Capacity
        /\ \A p \in Clocks : decided[p] \subseteq decided'[p]
        /\ VotesReal' /\ DecisionsBacked'
        /\ \A p \in Clocks : \A i \in DOMAIN finalCh'[p] : finalCh'[p][i] \in decided'[p]
    BY <1>1, <2>1, <2>2, <2>3, <2>4, TallyHolds
  <2>6. event.epoch \in Nat /\ event.epoch <= MaxEpoch /\ tip[n] \in Nat /\ tip[n] <= MaxEpoch
    BY <2>2 DEF PInv, Typing, Bounded, Epochs
  <2>7. /\ Max({tip[n], event.epoch}) \in Nat /\ Max({tip[n], event.epoch}) <= MaxEpoch
        /\ Max({tip[n], event.epoch}) >= tip[n]
    BY <2>6, MaxOfTwo
  <2>8. /\ tip' \in [Clocks -> Nat] /\ tip'[n] = Max({tip[n], event.epoch})
        /\ \A p \in Clocks : p # n => tip'[p] = tip[p]
    BY <2>1, <2>7 DEF PInv, Typing
  <2>9. \A p \in Clocks : tip'[p] <= MaxEpoch /\ last'[p] <= tip'[p]
    <3>1. last[n] <= tip[n] /\ last[n] \in Nat /\ tip[n] \in Nat
      BY DEF PInv, Bounded, Typing
    <3>2. tip'[n] <= MaxEpoch /\ last'[n] <= tip'[n]
      BY <1>1, <2>7, <2>8, <3>1
    <3>3. \A p \in Clocks \ {n} : tip'[p] <= MaxEpoch /\ last'[p] <= tip'[p]
      BY <1>1, <2>8 DEF PInv, Bounded
    <3> QED BY <3>2, <3>3
  <2>10. snapped' \in [Clocks -> SUBSET Epochs]
    BY <2>1, <2>2 DEF PInv, Typing
  <2>11. Typing' /\ Bounded'
    BY <1>1, <1>4, <1>5, <2>3, <2>5, <2>8, <2>9, <2>10 DEF PInv, Typing, Bounded
  <2>12. RecordsDecided' /\ PaidRecorded'
    BY <1>1, <2>5 DEF PInv, RecordsDecided, PaidRecorded
  <2> QED BY <1>6, <2>5, <2>11, <2>12 DEF PInv
<1> QED BY <1>7, <1>8

\* A peer's vote was sent.
LEMMA ConsensusProposalHolds ==
    ASSUME PipelineBounds, PInv, NEW n \in Clocks, NEW e \in Epochs, NEW m \in Clocks,
           ConsensusProposal(n, e, m)
    PROVE  PInv'
<1>1. /\ m \in sent[e] /\ Tally(n, e, m)
      /\ UNCHANGED <<empty, resolved, voided, sealedCh, snapped, sent, record, heard, tip, last,
                     rewarded, floorAligned>>
  BY DEF ConsensusProposal, rewardVars
<1>2. e \notin empty /\ sent' \in [Epochs -> SUBSET Clocks] /\ \A f \in empty : sent'[f] = {}
  BY <1>1 DEF PInv, VotesReal, Typing
<1>3. /\ ballots' \in [Clocks -> [Epochs -> SUBSET Clocks]]
      /\ decided' \in [Clocks -> SUBSET Epochs] /\ finalCh' \in [Clocks -> Seq(Epochs)]
      /\ \A p \in Clocks : Len(finalCh'[p]) <= Capacity
      /\ \A p \in Clocks : decided[p] \subseteq decided'[p]
      /\ VotesReal' /\ DecisionsBacked'
      /\ \A p \in Clocks : \A i \in DOMAIN finalCh'[p] : finalCh'[p][i] \in decided'[p]
  BY <1>1, <1>2, TallyHolds
<1>4. Typing' /\ Bounded' /\ EventsReal'
  BY <1>1, <1>3 DEF PInv, Typing, Bounded, EventsReal
<1>5. RecordsDecided' /\ PaidRecorded'
  BY <1>1, <1>3 DEF PInv, RecordsDecided, PaidRecorded
<1> QED BY <1>3, <1>4, <1>5 DEF PInv

\* The finalized-epoch handler records what was decided.
LEMMA HandleFinalizedHolds ==
    ASSUME PipelineBounds, PInv, NEW n \in Clocks, HandleFinalized(n)
    PROVE  PInv'
<1> DEFINE e == Head(finalCh[n])
<1> DEFINE sealers == IF e \in snapped[n] THEN Clocks ELSE {}
<1>1. /\ finalCh[n] # <<>> /\ finalCh' = [finalCh EXCEPT ![n] = Tail(@)]
      /\ record' = [record EXCEPT ![n][e] = {sealers}]
      /\ UNCHANGED <<empty, resolved, voided, sealedCh, snapped, sent, ballots, decided, heard,
                     tip, last, rewarded, floorAligned>>
  BY DEF HandleFinalized, rewardVars
<1>2. finalCh[n] \in Seq(Epochs)
  BY DEF PInv, Typing
<1>3. /\ e \in Epochs /\ Tail(finalCh[n]) \in Seq(Epochs)
      /\ Len(Tail(finalCh[n])) <= Len(finalCh[n])
      /\ 1 \in DOMAIN finalCh[n] /\ e = finalCh[n][1]
      /\ \A i \in DOMAIN Tail(finalCh[n]) :
            i + 1 \in DOMAIN finalCh[n] /\ Tail(finalCh[n])[i] = finalCh[n][i + 1]
  BY <1>1, <1>2, TailHolds
<1>4. e \in decided[n] /\ \A i \in DOMAIN Tail(finalCh[n]) : Tail(finalCh[n])[i] \in decided[n]
  BY <1>3 DEF PInv, RecordsDecided
<1>5. /\ finalCh' \in [Clocks -> Seq(Epochs)] /\ finalCh'[n] = Tail(finalCh[n])
      /\ \A p \in Clocks : p # n => finalCh'[p] = finalCh[p]
  BY <1>1, <1>3 DEF PInv, Typing
<1>6. sealers \subseteq Clocks
  OBVIOUS
<1> HIDE DEF e, sealers
<1>7. /\ record' \in [Clocks -> [Epochs -> SUBSET SUBSET Clocks]]
      /\ \A p \in Clocks, f \in Epochs : ~(p = n /\ f = e) => record'[p][f] = record[p][f]
  BY <1>1, <1>3, <1>6 DEF PInv, Typing
<1>8. Typing'
  BY <1>1, <1>5, <1>7 DEF PInv, Typing
<1>9. Bounded'
  <2>1. Len(finalCh[n]) \in Nat /\ Len(Tail(finalCh[n])) \in Nat /\ Capacity \in Nat
    BY <1>2, <1>3 DEF PipelineBounds
  <2>2. \A p \in Clocks : Len(finalCh'[p]) <= Capacity
    BY <1>3, <1>5, <2>1 DEF PInv, Bounded
  <2> QED BY <1>1, <2>2 DEF PInv, Bounded
<1>10. RecordsDecided'
  <2>1. \A p \in Clocks : \A i \in DOMAIN finalCh'[p] : finalCh'[p][i] \in decided[p]
    BY <1>4, <1>5 DEF PInv, RecordsDecided
  <2>2. \A p \in Clocks, f \in Epochs : record'[p][f] # {} => f \in decided[p]
    BY <1>4, <1>7 DEF PInv, RecordsDecided
  <2> QED BY <1>1, <2>1, <2>2 DEF RecordsDecided
<1>11. EventsReal' /\ VotesReal' /\ DecisionsBacked'
  BY <1>1 DEF PInv, EventsReal, VotesReal, DecisionsBacked, Reached
<1>12. PaidRecorded'
  <2>1. record'[n][e] # {}
    BY <1>1, <1>3 DEF PInv, Typing
  <2>2. \A p \in Clocks : \A f \in rewarded[p] : f \in Epochs /\ record'[p][f] # {}
    BY <1>7, <2>1 DEF PInv, Typing, PaidRecorded
  <2> QED BY <1>1, <2>2 DEF PInv, PaidRecorded
<1> QED BY <1>8, <1>9, <1>10, <1>11, <1>12 DEF PInv

(* The reward driver *)

\* A walk is contiguous: it ends at the last epoch it rewards.
LEMMA WalkEnds ==
    ASSUME PipelineBounds, PInv, NEW n \in Clocks, NEW from \in Nat,
           NEW to \in {from} \cup Walked(n, from), to + 1 \notin Walked(n, from)
    PROVE  /\ to \in Nat /\ from <= to
           /\ \A e \in Walked(n, from) : e \in Epochs /\ from < e /\ e <= to /\ record[n][e] # {}
           /\ \A e \in Epochs : from < e /\ e <= to => record[n][e] # {}
           /\ to = from \/ to <= tip[n]
<1>1. \A e \in Walked(n, from) :
          /\ e \in Epochs /\ e \in Nat /\ from < e /\ e <= from + 1 + Window
          /\ \A f \in from + 1 .. e : Walkable(n, f)
  BY DEF Walked, Epochs
<1>2. \A e \in Walked(n, from) : e \in from + 1 .. e
  BY <1>1
<1>3. to \in Nat /\ from <= to
  BY <1>1
<1>4. \A e \in Walked(n, from) : e <= to
  <2> SUFFICES ASSUME NEW e \in Walked(n, from), ~(e <= to) PROVE FALSE
    OBVIOUS
  <2>1. e \in Nat /\ to + 1 <= e /\ from < to + 1 /\ to + 1 <= from + 1 + Window
    BY <1>1, <1>3 DEF PipelineBounds
  <2>2. to + 1 \in Epochs
    BY <1>1, <1>3, <2>1 DEF Epochs, PipelineBounds
  <2>3. \A f \in from + 1 .. to + 1 : f \in from + 1 .. e
    BY <1>3, <2>1
  <2> QED BY <1>1, <2>1, <2>2, <2>3 DEF Walked
<1>5. \A e \in Walked(n, from) : record[n][e] # {} /\ e + Depth <= tip[n]
  BY <1>1, <1>2 DEF Walkable
<1>6. \A e \in Epochs : from < e /\ e <= to => record[n][e] # {}
  <2> SUFFICES ASSUME NEW e \in Epochs, from < e, e <= to PROVE record[n][e] # {}
    OBVIOUS
  <2>1. e \in Nat /\ e \in from + 1 .. to /\ to \in Walked(n, from)
    BY <1>3 DEF Epochs
  <2> QED BY <1>1, <2>1 DEF Walkable
<1>7. to = from \/ to <= tip[n]
  <2>1. tip[n] \in Nat /\ Depth \in Nat
    BY DEF PInv, Typing, PipelineBounds
  <2> QED BY <1>3, <1>5, <2>1
<1> QED BY <1>1, <1>3, <1>4, <1>5, <1>6, <1>7

\* The driver starts where it stopped, unless the cold start moves it, which takes it
\* past the first epoch and not past the tip.
LEMMA StartHolds ==
    ASSUME PipelineBounds, PInv, NEW n \in Clocks, NEW from \in Starts(n)
    PROVE  /\ from \in Nat /\ last[n] <= from /\ from <= tip[n]
           /\ floorAligned[n] \/ Aligns(n) => from >= 1
           /\ ~floorAligned[n] /\ ~Aligns(n) => from = last[n]
<1>1. /\ last[n] \in Nat /\ tip[n] \in Nat /\ last[n] <= tip[n] /\ Window \in Nat /\ Depth \in Nat
      /\ floorAligned[n] => last[n] >= 1
  BY DEF PInv, Typing, Bounded, PaidRecorded, PipelineBounds
<1>2. /\ Floor(n) \in Nat /\ last[n] <= Floor(n) /\ Floor(n) <= tip[n]
      /\ floorAligned[n] \/ Aligns(n) => Floor(n) >= 1
      /\ ~Aligns(n) => Floor(n) = last[n]
  BY <1>1 DEF Floor, Aligns
<1>3. CASE ~Skips(n)
  BY <1>2, <1>3 DEF Starts
<1>4. CASE Skips(n)
  <2>1. floorAligned[n] \/ Aligns(n)
    BY <1>4 DEF Skips
  <2>2. PICK e \in Ready(n, Floor(n)) : from = e - 1
    BY <1>4 DEF Starts
  <2>3. e \in Nat /\ e > Floor(n) /\ e + Depth <= tip[n]
    BY <2>2 DEF Ready, Walkable, Epochs
  <2> QED BY <1>1, <1>2, <2>1, <2>2, <2>3
<1> QED BY <1>3, <1>4

\* A tick rewards only what is recorded, and passes other epochs only by a cold start.
LEMMA RewardHolds ==
    ASSUME PipelineBounds, PInv, NEW n \in Clocks, Reward(n)
    PROVE  PInv'
<1>1. PICK from \in Starts(n), to \in Nat :
          /\ to \in {from} \cup Walked(n, from) /\ to + 1 \notin Walked(n, from)
          /\ rewarded' = [rewarded EXCEPT ![n] = @ \cup Walked(n, from)]
          /\ last' = [last EXCEPT ![n] = to]
  <2>1. PICK from \in Starts(n) :
            /\ rewarded' = [rewarded EXCEPT ![n] = @ \cup Walked(n, from)]
            /\ \E to \in {from} \cup Walked(n, from) :
                  to + 1 \notin Walked(n, from) /\ last' = [last EXCEPT ![n] = to]
    BY DEF Reward
  <2>2. from \in Nat
    BY StartHolds
  <2>3. Walked(n, from) \subseteq Nat
    BY DEF Walked, Epochs
  <2> QED BY <2>1, <2>2, <2>3
<1>2. /\ floorAligned' = [floorAligned EXCEPT ![n] = @ \/ Aligns(n)]
      /\ UNCHANGED <<empty, resolved, voided, sealedCh, snapped, sent, ballots, decided, finalCh,
                     record, heard, tip>>
  BY DEF Reward
<1>3. /\ from \in Nat /\ last[n] <= from /\ from <= tip[n]
      /\ floorAligned[n] \/ Aligns(n) => from >= 1
      /\ ~floorAligned[n] /\ ~Aligns(n) => from = last[n]
  BY StartHolds
<1>4. /\ from <= to
      /\ \A e \in Walked(n, from) : e \in Epochs /\ from < e /\ e <= to /\ record[n][e] # {}
      /\ \A e \in Epochs : from < e /\ e <= to => record[n][e] # {}
      /\ to = from \/ to <= tip[n]
  BY <1>1, <1>3, WalkEnds
<1>5. /\ last' \in [Clocks -> Nat] /\ last'[n] = to
      /\ \A p \in Clocks : p # n => last'[p] = last[p]
  BY <1>1 DEF PInv, Typing
<1>6. /\ rewarded' \in [Clocks -> SUBSET Epochs] /\ rewarded'[n] = rewarded[n] \cup Walked(n, from)
      /\ \A p \in Clocks : p # n => rewarded'[p] = rewarded[p]
  BY <1>1, <1>4 DEF PInv, Typing
<1>7. /\ floorAligned' \in [Clocks -> BOOLEAN] /\ floorAligned'[n] = (floorAligned[n] \/ Aligns(n))
      /\ \A p \in Clocks : p # n => floorAligned'[p] = floorAligned[p]
  <2>1. floorAligned \in [Clocks -> BOOLEAN] /\ Aligns(n) \in BOOLEAN
    BY DEF PInv, Typing, Aligns
  <2> QED BY <1>2, <2>1, Zenon
<1>8. last[n] \in Nat /\ \A e \in Epochs : e \in Nat /\ e >= 1
  BY DEF PInv, Typing, Epochs
<1>9. \A e \in rewarded'[n] : record[n][e] # {} /\ e <= to
  BY <1>3, <1>4, <1>6, <1>8 DEF PInv, PaidRecorded, Typing
<1>10. \A e \in empty : to >= e => floorAligned'[n]
  <2> SUFFICES ASSUME NEW e \in empty, to >= e, ~floorAligned[n], ~Aligns(n) PROVE FALSE
    BY <1>7
  <2>1. e \in Epochs /\ e \in Nat /\ ~(last[n] >= e) /\ from = last[n]
    BY <1>3, <1>8 DEF PInv, Typing, PaidRecorded
  <2>2. from < e /\ e <= to
    BY <1>8, <2>1
  <2>3. record[n][e] # {}
    BY <1>4, <2>1, <2>2, Zenon
  <2> QED BY <2>1, <2>3 DEF PInv, RecordsDecided, DecisionsBacked
<1>11. floorAligned'[n] => to >= 1 /\ 1 \notin rewarded'[n]
  <2> SUFFICES ASSUME floorAligned[n] \/ Aligns(n) PROVE to >= 1 /\ 1 \notin rewarded'[n]
    BY <1>7
  <2>1. to >= 1 /\ 1 \notin Walked(n, from)
    BY <1>3, <1>4
  <2>2. 1 \notin rewarded[n]
    BY <1>8 DEF Aligns, PInv, PaidRecorded, Typing
  <2> QED BY <1>6, <2>1, <2>2
<1>12. PaidRecorded'
  BY <1>2, <1>5, <1>6, <1>7, <1>9, <1>10, <1>11 DEF PInv, PaidRecorded
<1>13. Typing'
  BY <1>2, <1>5, <1>6, <1>7 DEF PInv, Typing
<1>14. Bounded'
  BY <1>2, <1>3, <1>4, <1>5 DEF PInv, Bounded
<1>15. EventsReal' /\ VotesReal' /\ DecisionsBacked' /\ RecordsDecided'
  BY <1>2 DEF PInv, EventsReal, VotesReal, DecisionsBacked, RecordsDecided, Reached
<1> QED BY <1>12, <1>13, <1>14, <1>15 DEF PInv
------------------------------------------------------------------------------
(* Every step *)

LEMMA NextPInv ==
    ASSUME PipelineBounds, PInv, [PipelineNext]_pipeVars
    PROVE  PInv'
<1>1. ASSUME NEW n \in Clocks, HandleSealed(n) PROVE PInv'
  BY <1>1, HandleSealedHolds
<1>2. ASSUME NEW n \in Clocks, HandleFinalized(n) PROVE PInv'
  BY <1>2, HandleFinalizedHolds
<1>3. ASSUME NEW n \in Clocks, Reward(n) PROVE PInv'
  BY <1>3, RewardHolds
<1>4. ASSUME NEW n \in Clocks, NEW e \in Epochs, NEW s \in BOOLEAN, Resolve(n, e, s) PROVE PInv'
  BY <1>4, ResolveHolds
<1>5. ASSUME NEW n \in Clocks, NEW e \in Epochs, NEW m \in Clocks, ConsensusProposal(n, e, m)
      PROVE  PInv'
  BY <1>5, ConsensusProposalHolds
<1>6. ASSUME NEW n \in Clocks, NEW e \in Epochs, GossipedFinalize(n, e) PROVE PInv'
  <2>1. /\ heard' = [heard EXCEPT ![n] = @ \cup {e}]
        /\ UNCHANGED <<empty, resolved, voided, sealedCh, snapped, sent, ballots, decided, finalCh,
                       record, tip, last, rewarded, floorAligned>>
    BY <1>6 DEF GossipedFinalize, rewardVars
  <2>2. Typing'
    BY <2>1 DEF PInv, Typing
  <2>3. Bounded' /\ EventsReal' /\ VotesReal' /\ DecisionsBacked' /\ RecordsDecided' /\ PaidRecorded'
    BY <2>1 DEF PInv, Bounded, EventsReal, VotesReal, DecisionsBacked, RecordsDecided,
                PaidRecorded, Reached
  <2> QED BY <2>2, <2>3 DEF PInv
<1>7. CASE UNCHANGED pipeVars
  BY <1>7 DEF pipeVars, rewardVars, PInv, Typing, Bounded, EventsReal, VotesReal, DecisionsBacked,
              RecordsDecided, PaidRecorded, Reached
<1> QED BY <1>1, <1>2, <1>3, <1>4, <1>5, <1>6, <1>7 DEF PipelineNext

LEMMA PInvAlways == ASSUME PipelineBounds PROVE PipelineSpec => []PInv
<1>1. PipelineInit => PInv
  BY InitPInv
<1>2. PInv /\ [PipelineNext]_pipeVars => PInv'
  BY NextPInv
<1> QED BY <1>1, <1>2, PTL DEF PipelineSpec
------------------------------------------------------------------------------
(* What holds for any number of nodes and epochs *)

\* The channels of the tasks (clock.rs 134-161) stay within their capacity, and the
\* driver within the epochs that were sealed.
THEOREM PipelineTypeCorrect == ASSUME PipelineBounds PROVE PipelineSpec => []PipelineTypeOK
<1>1. PInv => PipelineTypeOK
  BY DEF PInv, Typing, Bounded, PipelineTypeOK, PipelineBounds
<1> QED BY <1>1, PInvAlways, PTL

\* An epoch that no clock seals is never finalized or paid at any node, and only a node
\* whose cold start (main.rs 431-483) chose a later beginning, and which has therefore not
\* paid the first epoch, pays an epoch after it.
THEOREM NothingPastEmptyHolds ==
    ASSUME PipelineBounds PROVE PipelineSpec => []NothingPastEmpty
<1>1. PInv => NothingPastEmpty
  BY DEF PInv, Typing, DecisionsBacked, RecordsDecided, PaidRecorded, NothingPastEmpty
<1> QED BY <1>1, PInvAlways, PTL

\* Whatever is recorded as final (main.rs 760-815) was voted for by a quorum of clocks,
\* however the tasks of the nodes interleave and whatever their channels lose.
THEOREM RecordHasQuorumHolds ==
    ASSUME PipelineBounds PROVE PipelineSpec => []RecordHasQuorum
<1>1. PInv => RecordHasQuorum
  BY DEF PInv, Typing, DecisionsBacked, RecordsDecided, RecordHasQuorum, Reached
<1> QED BY <1>1, PInvAlways, PTL
=============================================================================
