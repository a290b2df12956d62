--------------------------- MODULE ClockSealProofs ---------------------------
(***************************************************************************)
(* One process seals an epoch at most once, for every number of clocks and  *)
(* every skew, stale and prune window with Skew + Stale <= PruneWindow.     *)
(***************************************************************************)
EXTENDS ClockSeal, FiniteSetTheorems, TLAPS

Horizon == real + Skew
Sealing == BOOLEAN

\* An epoch that was sealed has a resolved entry; or its entry is gone, and it is
\* so old that no seal for it is taken any more.
SealedIsClosed ==
    \A e \in Epochs : sealings[e] # <<>> =>
        \/ e \in DOMAIN states /\ states[e].resolved
        \/ real > e + Stale /\ (e \in DOMAIN states => states[e].seals = {})

\* Nothing this process knows of lies further ahead than the clocks' skew.
Bounded ==
    /\ \A e \in DOMAIN states : e <= Horizon
    /\ cur <= Horizon
    /\ \A i \in DOMAIN events : events[i] <= Horizon

SInv == TypeOK /\ Bounded /\ SealedOnce /\ SealedIsClosed

LEMMA EntryType ==
    ASSUME TypeOK, NEW e \in Epochs
    PROVE  Entry(e) \in EpochState
BY DEF TypeOK, Entry, NewState, EpochState

LEMMA SealType ==
    ASSUME NEW n \in Clocks, NEW e \in Epochs
    PROVE  SealOf(n, e) \in Seal
<1>1. e \in Nat /\ Stamp[n] \in Nat /\ EpochMs \in Nat
  BY StampType, WindowsNat DEF Epochs
<1>2. e * EpochMs + Stamp[n] \in Nat
  BY <1>1
<1> QED BY <1>2 DEF SealOf, Seal

\* Ingesting a seal of an epoch that is not stale keeps the invariant.
LEMMA ReceiveStep ==
    ASSUME SInv, NEW n \in Clocks, NEW e \in Epochs,
           e <= Horizon, ~(real > e + Stale), ReceiveSeal(e, n),
           UNCHANGED <<real, peers, registered, events, cur, tracked, sealings>>,
           sent' \in 0..MaxEpoch
    PROVE  SInv'
<1> DEFINE new == WithSeal(Entry(e), SealOf(n, e))
<1>0. TypeOK
  BY DEF SInv
<1>1. new \in EpochState
  BY <1>0, EntryType, SealType DEF WithSeal, EpochState
<1>2. Entry(e).resolved => new = Entry(e)
  BY DEF WithSeal
<1> HIDE DEF new
<1>3. /\ DOMAIN states' = DOMAIN states \cup {e}
      /\ \A d \in DOMAIN states' : states'[d] = IF d = e THEN new ELSE states[d]
      /\ states' = [d \in DOMAIN states \cup {e} |-> IF d = e THEN new ELSE states[d]]
  BY DEF ReceiveSeal, new
<1>4. TypeOK'
  <2>1. DOMAIN states' \subseteq Epochs /\ states' \in [DOMAIN states' -> EpochState]
    BY <1>0, <1>1, <1>3 DEF TypeOK
  <2> QED BY <1>0, <2>1 DEF TypeOK
<1>5. Bounded'
  BY <1>3 DEF SInv, Bounded, Horizon
<1>6. SealedIsClosed'
  <2> SUFFICES ASSUME NEW d \in Epochs, sealings[d] # <<>>
               PROVE  \/ d \in DOMAIN states' /\ states'[d].resolved
                      \/ real > d + Stale /\ (d \in DOMAIN states' => states'[d].seals = {})
    BY DEF SealedIsClosed
  <2>1. CASE d = e
    <3>1. e \in DOMAIN states /\ states[e].resolved
      BY <2>1 DEF SInv, SealedIsClosed
    <3>2. new = states[e]
      BY <1>2, <3>1 DEF Entry
    <3> QED BY <1>3, <2>1, <3>1, <3>2
  <2>2. CASE d # e
    BY <1>3, <2>2 DEF SInv, SealedIsClosed
  <2> QED BY <2>1, <2>2
<1> QED BY <1>4, <1>5, <1>6 DEF SInv, SealedOnce

\* Marking an epoch resolved and pruning keeps closed epochs closed.
LEMMA ResolvedStep ==
    ASSUME SInv, NEW e \in Epochs, Open(e), Resolved(e), real' = real
    PROVE  /\ DOMAIN states' \subseteq Epochs
           /\ states' \in [DOMAIN states' -> EpochState]
           /\ \A d \in DOMAIN states' : d <= Horizon
           /\ e \in DOMAIN states' /\ states'[e].resolved
           /\ \A d \in Epochs : sealings[d] # <<>> =>
                 \/ d \in DOMAIN states' /\ states'[d].resolved
                 \/ real > d + Stale /\ (d \in DOMAIN states' => states'[d].seals = {})
<1> DEFINE kept == {x \in DOMAIN states : x + PruneWindow >= e}
           new == [states[e] EXCEPT !.resolved = TRUE]
<1>0. TypeOK /\ \A d \in Epochs : d \in Nat
  BY WindowsNat DEF SInv, Epochs
<1>1. e \in DOMAIN states /\ states[e] \in EpochState
  BY <1>0 DEF Open, TypeOK
<1>2. new \in EpochState /\ new.resolved /\ new.seals = states[e].seals
  BY <1>1 DEF EpochState
<1> HIDE DEF new
<1>3. states' = [d \in kept |-> IF d = e THEN new ELSE states[d]]
  BY DEF Resolved, new
<1>4. DOMAIN states' = kept /\ e \in kept
  BY <1>0, <1>1, <1>3, WindowsNat
<1>5. \A d \in kept : states'[d] = IF d = e THEN new ELSE states[d]
  BY <1>3
<1>6. kept \subseteq DOMAIN states
  OBVIOUS
<1>7. \A d \in DOMAIN states : d \notin kept => real > d + Stale
  <2> SUFFICES ASSUME NEW d \in DOMAIN states, d \notin kept PROVE real > d + Stale
    OBVIOUS
  <2>1. d \in Nat /\ e \in Nat /\ real \in Nat
    BY <1>0 DEF TypeOK
  <2>2. d + PruneWindow < e /\ e <= real + Skew
    BY <1>1, <2>1, WindowsNat DEF SInv, Bounded, Horizon
  <2> QED BY <2>1, <2>2, StaleBeforePrune, WindowsNat
<1> HIDE DEF kept
<1>8. DOMAIN states' \subseteq Epochs /\ states' \in [DOMAIN states' -> EpochState]
  BY <1>0, <1>2, <1>3, <1>4, <1>6 DEF TypeOK
<1>9. \A d \in DOMAIN states' : d <= Horizon
  BY <1>4, <1>6 DEF SInv, Bounded
<1>10. ASSUME NEW d \in Epochs, sealings[d] # <<>>
       PROVE  \/ d \in DOMAIN states' /\ states'[d].resolved
              \/ real > d + Stale /\ (d \in DOMAIN states' => states'[d].seals = {})
  <2>1. CASE d = e
    BY <1>2, <1>4, <1>5, <2>1
  <2>2. CASE d # e /\ d \in kept
    BY <1>4, <1>5, <1>6, <1>10, <2>2 DEF SInv, SealedIsClosed
  <2>3. CASE d \notin kept
    BY <1>4, <1>7, <1>10, <2>3 DEF SInv, SealedIsClosed
  <2> QED BY <2>1, <2>2, <2>3
<1> QED BY <1>2, <1>4, <1>5, <1>8, <1>9, <1>10

\* An epoch with a seal to count has not been sealed before.
LEMMA FirstSealing ==
    ASSUME SInv, NEW e \in Epochs, Open(e), states[e].seals # {}
    PROVE  sealings[e] = <<>>
BY DEF SInv, SealedIsClosed, Open

LEMMA SealedStep ==
    ASSUME SInv, NEW e \in Epochs, Open(e), states[e].seals # {},
           NEW S \in SUBSET Clocks, Sealed(e, S),
           UNCHANGED <<real, sent, peers, registered, cur, tracked>>
    PROVE  SInv'
<1>0. TypeOK /\ sealings[e] = <<>>
  BY FirstSealing DEF SInv
<1>1. /\ DOMAIN states' \subseteq Epochs
      /\ states' \in [DOMAIN states' -> EpochState]
      /\ \A d \in DOMAIN states' : d <= Horizon
      /\ e \in DOMAIN states' /\ states'[e].resolved
      /\ \A d \in Epochs : sealings[d] # <<>> =>
            \/ d \in DOMAIN states' /\ states'[d].resolved
            \/ real > d + Stale /\ (d \in DOMAIN states' => states'[d].seals = {})
  BY ResolvedStep DEF Sealed
<1> DEFINE rec == registered = {} \/ S \subseteq registered
<1>2. rec \in Sealing
  BY Zenon DEF Sealing
<1> HIDE DEF rec
<1>3. sealings \in [Epochs -> Seq(Sealing)] /\ events \in Seq(Epochs)
  BY <1>0 DEF TypeOK, Sealing
<1>4. /\ sealings' = [sealings EXCEPT ![e] = Append(@, rec)]
      /\ events' = Append(events, e)
  BY DEF Sealed, rec
<1>5. /\ sealings' \in [Epochs -> Seq(Sealing)]
      /\ \A d \in Epochs : d # e => sealings'[d] = sealings[d]
      /\ sealings'[e] = Append(sealings[e], rec)
  BY <1>2, <1>3, <1>4
<1>6. events' \in Seq(Epochs)
  BY <1>3, <1>4
<1>7. TypeOK'
  BY <1>0, <1>1, <1>5, <1>6 DEF TypeOK, Sealing
<1>8. Bounded'
  <2>1. e <= Horizon
    BY DEF SInv, Bounded, Open
  <2>2. \A i \in DOMAIN events' : events'[i] <= Horizon
    <3> SUFFICES ASSUME NEW i \in DOMAIN events' PROVE events'[i] <= Horizon
      OBVIOUS
    <3>1. CASE i = Len(events) + 1
      BY <1>3, <1>4, <2>1, <3>1
    <3>2. CASE i # Len(events) + 1
      <4>1. i \in DOMAIN events /\ events'[i] = events[i]
        BY <1>3, <1>4, <3>2
      <4> QED BY <4>1 DEF SInv, Bounded
    <3> QED BY <3>1, <3>2
  <2> QED BY <1>1, <2>2 DEF SInv, Bounded, Horizon
<1>9. SealedOnce'
  <2>1. Len(sealings'[e]) = 1
    BY <1>0, <1>2, <1>5
  <2> QED BY <1>5, <2>1, SMTT(40) DEF SInv, SealedOnce
<1>10. SealedIsClosed'
  BY <1>1, <1>5 DEF SealedIsClosed
<1> QED BY <1>7, <1>8, <1>9, <1>10 DEF SInv

\* A deadline that passes, or a wait that starts, changes no seal and no verdict.
LEMMA FlagStep ==
    ASSUME SInv, NEW e \in Epochs, Open(e), NEW r \in EpochState,
           r.seals = states[e].seals, r.resolved = states[e].resolved,
           states' = [states EXCEPT ![e] = r],
           UNCHANGED <<real, sent, peers, registered, events, cur, tracked, sealings>>
    PROVE  SInv'
<1>0. TypeOK /\ e \in DOMAIN states
  BY DEF SInv, Open
<1>1. DOMAIN states' = DOMAIN states /\ states' \in [DOMAIN states -> EpochState]
  BY <1>0 DEF TypeOK
<1>2. \A d \in DOMAIN states : /\ states'[d].seals = states[d].seals
                               /\ states'[d].resolved = states[d].resolved
  BY <1>0
<1>3. TypeOK'
  BY <1>0, <1>1 DEF TypeOK
<1>4. Bounded'
  BY <1>1 DEF SInv, Bounded, Horizon
<1>5. SealedIsClosed'
  BY <1>1, <1>2 DEF SInv, SealedIsClosed
<1> QED BY <1>3, <1>4, <1>5 DEF SInv, SealedOnce

\* The voters of an epoch are clocks.
LEMMA VotersType ==
    ASSUME TypeOK, NEW e \in Epochs, Open(e), NEW h
    PROVE  VotersFor(Voting(e), h) \in SUBSET Clocks
<1>1. states[e].seals \in SUBSET Seal
  BY DEF TypeOK, Open, EpochState
<1>2. Voting(e) \subseteq states[e].seals
  BY DEF Voting, ValidVotes, Inliers
<1>3. \A s \in Voting(e) : s.node \in Clocks
  BY <1>1, <1>2 DEF Seal
<1> HIDE DEF Voting
<1> QED BY <1>3 DEF VotersFor

LEMMA ResolveStep ==
    ASSUME SInv, NEW e \in Epochs, Resolve(e)
    PROVE  SInv'
<1>0. /\ TypeOK /\ Open(e) /\ UNCHANGED <<real, sent, peers, registered, cur, tracked>>
      /\ ResolveBootstrap(e) \/ ResolveEmpty(e) \/ ResolveSole(e) \/ ResolveQuorum(e)
  BY DEF Resolve, SInv
<1>s. states[e] \in EpochState /\ states[e].seals \in SUBSET Seal
  BY <1>0 DEF TypeOK, Open, EpochState
<1>1. CASE ResolveBootstrap(e)
  <2>1. PICK s \in states[e].seals : s.node = Master
    BY <1>1 DEF ResolveBootstrap, Bootstrap
  <2>2. Master \in Clocks
    BY <1>s, <2>1 DEF Seal
  <2> QED BY <1>0, <1>1, <2>1, <2>2, SealedStep DEF ResolveBootstrap
<1>2. CASE ResolveEmpty(e)
  <2>1. /\ DOMAIN states' \subseteq Epochs
        /\ states' \in [DOMAIN states' -> EpochState]
        /\ \A d \in DOMAIN states' : d <= Horizon
        /\ \A d \in Epochs : sealings[d] # <<>> =>
              \/ d \in DOMAIN states' /\ states'[d].resolved
              \/ real > d + Stale /\ (d \in DOMAIN states' => states'[d].seals = {})
    BY <1>0, <1>2, ResolvedStep DEF ResolveEmpty
  <2>2. UNCHANGED <<events, sealings>>
    BY <1>2 DEF ResolveEmpty
  <2>3. TypeOK'
    BY <1>0, <2>1, <2>2 DEF TypeOK
  <2>4. Bounded'
    BY <1>0, <2>1, <2>2 DEF SInv, Bounded, Horizon
  <2>5. SealedIsClosed' /\ SealedOnce'
    BY <1>0, <2>1, <2>2 DEF SealedIsClosed, SInv, SealedOnce
  <2> QED BY <2>3, <2>4, <2>5 DEF SInv
<1>3. CASE ResolveSole(e)
  <2>1. CASE states' = [states EXCEPT ![e].fallback = "armed"] /\ UNCHANGED <<events, sealings>>
    <3> DEFINE r == [states[e] EXCEPT !.fallback = "armed"]
    <3>1. /\ r \in EpochState /\ r.seals = states[e].seals
          /\ r.resolved = states[e].resolved
      BY <1>s DEF EpochState
    <3>2. states' = [states EXCEPT ![e] = r]
      BY <2>1
    <3> HIDE DEF r
    <3> QED BY <1>0, <2>1, <3>1, <3>2, FlagStep
  <2>2. CASE Sealed(e, {s.node : s \in states[e].seals})
    <3>1. {s.node : s \in states[e].seals} \in SUBSET Clocks
      BY <1>s DEF Seal
    <3>2. states[e].seals # {}
      <4>1. Cardinality(states[e].seals) = 1
        BY <1>3 DEF ResolveSole
      <4> QED BY <4>1, FS_EmptySet
    <3> QED BY <1>0, <2>2, <3>1, <3>2, SealedStep
  <2> QED BY <1>3, <2>1, <2>2 DEF ResolveSole
<1>4. CASE ResolveQuorum(e)
  <2>1. PICK h \in MostVoted(Voting(e)) : Sealed(e, VotersFor(Voting(e), h))
    BY <1>4 DEF ResolveQuorum
  <2>2. states[e].seals # {}
    <3>1. Cardinality(states[e].seals) > 1
      BY <1>4 DEF ResolveQuorum
    <3> QED BY <3>1, FS_EmptySet
  <2> QED BY <1>0, <2>1, <2>2, SealedStep, VotersType
<1> QED BY <1>0, <1>1, <1>2, <1>3, <1>4

\* Seeding entries adds empty ones only, up to the chain's epoch.
LEMMA TrackStep ==
    ASSUME SInv, Track
    PROVE  SInv'
<1>0. TypeOK /\ UNCHANGED <<real, sent, peers, registered, events, cur, sealings>>
  BY DEF SInv, Track
<1> DEFINE elapsed == {e \in Epochs : tracked < e /\ cur - TrackWindow <= e /\ e <= cur}
<1>1. states' = [e \in DOMAIN states \cup elapsed |-> Entry(e)]
  BY DEF Track
<1>2. elapsed \subseteq Epochs /\ \A e \in elapsed : e <= cur
  OBVIOUS
<1> HIDE DEF elapsed
<1>3. DOMAIN states' = DOMAIN states \cup elapsed
  BY <1>1
<1>4. /\ DOMAIN states' \subseteq Epochs
      /\ \A e \in DOMAIN states' : states'[e] = Entry(e) /\ states'[e] \in EpochState
  BY <1>0, <1>1, <1>2, <1>3, EntryType DEF TypeOK
<1>5. TypeOK'
  <2>1. states' \in [DOMAIN states' -> EpochState]
    BY <1>1, <1>3, <1>4
  <2>2. tracked' \in 0..(MaxEpoch + Skew)
    BY <1>0 DEF Track, TypeOK
  <2> QED BY <1>0, <1>4, <2>1, <2>2 DEF TypeOK
<1>6. Bounded'
  <2>1. \A e \in elapsed : e <= Horizon
    <3> SUFFICES ASSUME NEW e \in elapsed PROVE e <= Horizon
      OBVIOUS
    <3>1. e \in Nat /\ cur \in Nat /\ Horizon \in Nat
      BY <1>0, <1>2, WindowsNat DEF TypeOK, Horizon, Epochs
    <3>2. e <= cur /\ cur <= Horizon
      BY <1>2 DEF SInv, Bounded
    <3> HIDE DEF Horizon
    <3> QED BY <3>1, <3>2
  <2> QED BY <1>0, <1>3, <2>1 DEF SInv, Bounded, Horizon
<1>7. SealedIsClosed'
  <2> SUFFICES ASSUME NEW d \in Epochs, sealings[d] # <<>>
               PROVE  \/ d \in DOMAIN states' /\ states'[d].resolved
                      \/ real > d + Stale /\ (d \in DOMAIN states' => states'[d].seals = {})
    BY <1>0 DEF SealedIsClosed
  <2>1. CASE d \in DOMAIN states
    BY <1>3, <1>4, <2>1 DEF Entry, SInv, SealedIsClosed
  <2>2. CASE d \notin DOMAIN states
    BY <1>4, <2>2 DEF Entry, NewState, SInv, SealedIsClosed
  <2> QED BY <2>1, <2>2
<1> QED BY <1>0, <1>5, <1>6, <1>7 DEF SInv, SealedOnce

------------------------------------------------------------------------------
LEMMA InitSInv == Init => SInv
<1> SUFFICES ASSUME Init PROVE SInv
  OBVIOUS
<1> USE WindowsNat
<1>1. /\ real \in 0..MaxEpoch /\ sent \in 0..MaxEpoch /\ peers \in BOOLEAN
      /\ cur \in 0..(MaxEpoch + Skew) /\ tracked \in 0..(MaxEpoch + Skew)
  <2>1. peers \in BOOLEAN
    BY Zenon DEF Init
  <2> QED BY <2>1 DEF Init
<1>2. registered \in SUBSET Clocks /\ events \in Seq(Epochs) /\ events = <<>>
  BY RegistriesType DEF Init
<1>3. DOMAIN states = {} /\ states \in [{} -> EpochState]
  BY DEF Init
<1>4. \A e \in Epochs : sealings[e] = <<>>
  BY DEF Init
<1>5. sealings \in [Epochs -> Seq(Sealing)]
  BY DEF Init
<1>6. TypeOK
  BY <1>1, <1>2, <1>3, <1>5 DEF TypeOK, Sealing
<1>7. Bounded
  BY <1>2, <1>3 DEF Init, Bounded, Horizon
<1> QED BY <1>4, <1>6, <1>7 DEF SInv, SealedOnce, SealedIsClosed

\* Every step keeps the invariant.
LEMMA NextSInv == SInv /\ [Next]_vars => SInv'
<1> SUFFICES ASSUME SInv, [Next]_vars PROVE SInv'
  OBVIOUS
<1> USE WindowsNat
<1>0. /\ TypeOK /\ real \in Nat /\ cur \in Nat /\ Horizon \in Nat /\ real <= Horizon
      /\ \A e \in Epochs : e \in Nat
  <2>0. TypeOK
    BY DEF SInv
  <2>1. real \in Nat /\ cur \in Nat
    BY <2>0 DEF TypeOK
  <2>2. Horizon \in Nat /\ real <= Horizon
    BY <2>1 DEF Horizon
  <2>3. \A e \in Epochs : e \in Nat
    BY DEF Epochs
  <2> QED BY <2>0, <2>1, <2>2, <2>3
<1>1. CASE Clock
  <2>1. /\ real' = real + 1 /\ real' \in 0..MaxEpoch
        /\ UNCHANGED <<sent, peers, registered, states, events, cur, tracked, sealings>>
    BY <1>0, <1>1 DEF Clock, TypeOK
  <2>2. TypeOK'
    BY <1>0, <2>1 DEF TypeOK
  <2>3. \A x \in Nat : x <= Horizon => x <= Horizon'
    BY <1>0, <2>1 DEF Horizon
  <2>4. Bounded'
    <3>1. /\ \A e \in DOMAIN states : e \in Nat
          /\ \A i \in DOMAIN events : events[i] \in Nat
      BY <1>0 DEF TypeOK
    <3> QED BY <1>0, <2>1, <2>3, <3>1 DEF SInv, Bounded
  <2>5. SealedIsClosed'
    <3>1. \A e \in Epochs : real > e + Stale => real' > e + Stale
      BY <1>0, <2>1
    <3> QED BY <2>1, <3>1 DEF SInv, SealedIsClosed
  <2> QED BY <2>1, <2>2, <2>4, <2>5 DEF SInv, SealedOnce
<1>2. CASE Emit
  <2>1. real > sent /\ real \in Epochs /\ real <= Horizon /\ ~(real > real + Stale)
    BY <1>0, <1>2 DEF Emit, TypeOK, Epochs
  <2>2. sent' \in 0..MaxEpoch
    BY <1>0, <1>2 DEF Emit, TypeOK
  <2> QED BY <1>2, <2>1, <2>2, ReceiveStep, ClocksFinite DEF Emit
<1>3. ASSUME NEW e \in Epochs, NEW n \in Senders, PeerSeal(n, e) PROVE SInv'
  <2>1. sent' \in 0..MaxEpoch
    BY <1>0, <1>3 DEF PeerSeal, TypeOK
  <2>2. e <= Horizon /\ ~(real > e + Stale) /\ ReceiveSeal(e, n)
    BY <1>3 DEF PeerSeal, Horizon
  <2> QED BY <1>3, <2>1, <2>2, ReceiveStep, ClocksFinite DEF PeerSeal
<1>4. CASE UpdatePeers
  <2>1. UNCHANGED <<real, sent, registered, states, events, cur, tracked, sealings>>
    BY <1>4 DEF UpdatePeers
  <2>2. peers' \in BOOLEAN
    BY <1>4, Zenon DEF UpdatePeers
  <2> QED BY <2>1, <2>2 DEF SInv, TypeOK, Bounded, Horizon, SealedOnce, SealedIsClosed
<1>5. CASE Track
  BY <1>5, TrackStep
<1>6. CASE HandleSealed
  <2>1. /\ UNCHANGED <<real, sent, peers, states, tracked, sealings>>
        /\ events # <<>> /\ events' = Tail(events)
        /\ cur' = IF Head(events) > cur THEN Head(events) ELSE cur
    BY <1>6 DEF HandleSealed
  <2>2. registered' \in SUBSET Clocks
    BY <1>6, RegistriesType DEF HandleSealed
  <2>3. events \in Seq(Epochs)
    BY <1>0 DEF TypeOK
  <2>4. /\ events' \in Seq(Epochs) /\ Head(events) \in Epochs
        /\ Head(events) = events[1] /\ 1 \in DOMAIN events
        /\ \A i \in DOMAIN events' : i + 1 \in DOMAIN events /\ events'[i] = events[i + 1]
    BY <2>1, <2>3
  <2>5. cur' \in 0..(MaxEpoch + Skew) /\ cur' <= Horizon
    BY <1>0, <2>1, <2>4, SMTT(40) DEF SInv, Bounded, TypeOK, Epochs
  <2>6. TypeOK'
    BY <1>0, <2>1, <2>2, <2>4, <2>5 DEF TypeOK
  <2>7. Bounded'
    BY <2>1, <2>4, <2>5 DEF SInv, Bounded, Horizon
  <2> QED BY <2>1, <2>6, <2>7 DEF SInv, SealedOnce, SealedIsClosed
<1>7. ASSUME NEW e \in Epochs, Deadline(e) PROVE SInv'
  <2> DEFINE r == [states[e] EXCEPT !.due = TRUE]
  <2>0. Open(e) /\ states[e] \in EpochState
    BY <1>0, <1>7 DEF Deadline, Open, TypeOK
  <2>1. r \in EpochState /\ r.seals = states[e].seals /\ r.resolved = states[e].resolved
    BY <2>0 DEF EpochState
  <2>2. states' = [states EXCEPT ![e] = r]
    BY <1>7 DEF Deadline
  <2> HIDE DEF r
  <2> QED BY <1>7, <2>0, <2>1, <2>2, FlagStep DEF Deadline
<1>8. ASSUME NEW e \in Epochs, FallbackDeadline(e) PROVE SInv'
  <2> DEFINE r == [states[e] EXCEPT !.fallback = "expired"]
  <2>0. Open(e) /\ states[e] \in EpochState
    BY <1>0, <1>8 DEF FallbackDeadline, Open, TypeOK
  <2>1. r \in EpochState /\ r.seals = states[e].seals /\ r.resolved = states[e].resolved
    BY <2>0 DEF EpochState
  <2>2. states' = [states EXCEPT ![e] = r]
    BY <1>8 DEF FallbackDeadline
  <2> HIDE DEF r
  <2> QED BY <1>8, <2>0, <2>1, <2>2, FlagStep DEF FallbackDeadline
<1>9. ASSUME NEW e \in Epochs, Resolve(e) PROVE SInv'
  BY <1>9, ResolveStep
<1>10. CASE UNCHANGED vars
  BY <1>10 DEF vars, SInv, TypeOK, Bounded, Horizon, SealedOnce, SealedIsClosed
<1> QED BY <1>1, <1>2, <1>3, <1>4, <1>5, <1>6, <1>7, <1>8, <1>9, <1>10 DEF Next

\* The clock's state is well typed, whatever seals arrive.
THEOREM SealTypeCorrect == Spec => []TypeOK
<1>1. SInv => TypeOK
  BY DEF SInv
<1> QED BY <1>1, InitSInv, NextSInv, PTL DEF Spec

\* A process seals an epoch at most once, although it forgets epochs and seals may
\* arrive at any later time: the stale filter of the network handler
\* (main.rs 1323-1331) closes an epoch before resolve_epoch prunes it
\* (clock.rs 598-602), as long as Skew + Stale <= PruneWindow.
THEOREM SealedOnceHolds == Spec => []SealedOnce
<1>1. SInv => SealedOnce
  BY DEF SInv
<1> QED BY <1>1, InitSInv, NextSInv, PTL DEF Spec
==============================================================================
