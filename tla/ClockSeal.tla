------------------------------- MODULE ClockSeal -----------------------------
(***************************************************************************)
(* How one node turns the seals of the clocks into sealed epochs            *)
(* (clock.rs 231-333, 411-606; main.rs 383-402, 552-575, 909-986,           *)
(* 1321-1332).  Four tasks share the clock's lock:                          *)
(*   - the emitter seals the epoch the wall clock is in, once;              *)
(*   - the network handler ingests peers' seals unless they are stale;      *)
(*   - the tick loop seeds an entry for every elapsed epoch and resolves    *)
(*     those whose collection window has closed;                            *)
(*   - the sealed-epoch handler advances the chain and refreshes the        *)
(*     registered set.                                                      *)
(*                                                                          *)
(* Peers' seals may arrive at any time, never, or several times.  A seal's  *)
(* hash is a function of its epoch and its timestamp lies inside it (both   *)
(* are computed from one clock reading, main.rs 923-956); peers' clocks are *)
(* at most Skew epochs ahead.  Deadlines are events of their own.  The      *)
(* clock scores, which nothing but the API reads, are left out.             *)
(***************************************************************************)
EXTENDS ClockQuorum, Sequences

CONSTANTS Clocks,      \* nodes that emit seals, or may be registered
          Self,        \* this node
          Senders,     \* peers whose seals reach this node
          Master,      \* the bootstrap master
          Isolation,   \* HONE_BOOTSTRAP_ISOLATION
          Registries,  \* what registered_clock_nodes may return
          MaxEpoch,    \* bound on the wall clock
          Skew,        \* bound on how far peers' clocks run ahead, in epochs
          Stale,       \* the 10 epochs after which a peer's seal is dropped
          PruneWindow, \* the 20 epochs of entries kept
          TrackWindow, \* the 64 epochs the tick loop seeds at most
          Stamp,       \* Stamp[n]: where in its epochs n seals, in 0..(EpochMs - 1)
          EpochMs,     \* EPOCH_MS
          Tolerance    \* OUTLIER_EPOCH_TOLERANCE

ASSUME ClocksFinite == IsFiniteSet(Clocks) /\ Self \in Clocks /\ Senders \subseteq Clocks
ASSUME RegistriesType == Registries \subseteq SUBSET Clocks
ASSUME WindowsNat ==
    /\ MaxEpoch \in Nat /\ Skew \in Nat /\ Stale \in Nat
    /\ PruneWindow \in Nat /\ TrackWindow \in Nat
ASSUME StampType ==
    EpochMs \in Nat \ {0} /\ Tolerance \in Nat /\ Stamp \in [Clocks -> 0..(EpochMs - 1)]
\* The stale filter drops a seal before the entry it belongs to can have been pruned.
ASSUME StaleBeforePrune == Skew + Stale <= PruneWindow

Epochs == 1..(MaxEpoch + Skew)
Seal == [node : Clocks, hash : Epochs, timestamp : Nat]
EpochState == [seals : SUBSET Seal, resolved : BOOLEAN, due : BOOLEAN,
               fallback : {"none", "armed", "expired"}]

VARIABLES
    real,        \* the epoch the wall clock is in
    sent,        \* last_sent of the emitter
    peers,       \* external_peer_count > 0
    registered,  \* Inner.registered_clocks
    states,      \* epoch_states: a function on the epochs that have an entry
    events,      \* SealedEpoch events not yet handled
    cur,         \* Chain::current_epoch
    tracked,     \* last_tracked of the tick loop
    sealings     \* sealings[e]: for each sealing of e, were all who signed registered?

vars == <<real, sent, peers, registered, states, events, cur, tracked, sealings>>

TypeOK ==
    /\ real \in 0..MaxEpoch /\ sent \in 0..MaxEpoch
    /\ peers \in BOOLEAN
    /\ registered \in SUBSET Clocks
    /\ DOMAIN states \subseteq Epochs /\ states \in [DOMAIN states -> EpochState]
    /\ events \in Seq(Epochs)
    /\ cur \in 0..(MaxEpoch + Skew) /\ tracked \in 0..(MaxEpoch + Skew)
    /\ sealings \in [Epochs -> Seq(BOOLEAN)]

NewState == [seals |-> {}, resolved |-> FALSE, due |-> FALSE, fallback |-> "none"]
Entry(e) == IF e \in DOMAIN states THEN states[e] ELSE NewState
Open(e) == e \in DOMAIN states /\ ~states[e].resolved

Init ==
    /\ real = 0 /\ sent = 0 /\ peers = FALSE
    /\ registered \in Registries
    /\ states = [e \in {} |-> NewState]
    /\ events = <<>>
    /\ cur = 0 /\ tracked = 0
    /\ sealings = [e \in Epochs |-> <<>>]

\* receive_seal: the first seal of a node stands; none is taken once resolved.
SealOf(n, e) == [node |-> n, hash |-> e, timestamp |-> e * EpochMs + Stamp[n]]

WithSeal(s, seal) ==
    IF s.resolved \/ \E t \in s.seals : t.node = seal.node
    THEN s ELSE [s EXCEPT !.seals = @ \cup {seal}]

ReceiveSeal(e, n) ==
    states' = [d \in DOMAIN states \cup {e} |->
                  IF d = e THEN WithSeal(Entry(e), SealOf(n, e)) ELSE states[d]]

\* The wall clock enters the next epoch.
Clock ==
    /\ real < MaxEpoch
    /\ real' = real + 1
    /\ UNCHANGED <<sent, peers, registered, states, events, cur, tracked, sealings>>

\* The seal emitter, every 500 ms.
Emit ==
    /\ real > sent
    /\ sent' = real
    /\ ReceiveSeal(real, Self)
    /\ UNCHANGED <<real, peers, registered, events, cur, tracked, sealings>>

\* Mutant: seals of any age are ingested.
PeerSealAnyAge(n, e) ==
    /\ e <= real + Skew
    /\ ReceiveSeal(e, n)
    /\ UNCHANGED <<real, sent, peers, registered, events, cur, tracked, sealings>>

\* The network handler: a peer's seal, unless it is stale.
PeerSeal(n, e) ==
    /\ e <= real + Skew
    /\ ~(real > e + Stale)
    /\ ReceiveSeal(e, n)
    /\ UNCHANGED <<real, sent, peers, registered, events, cur, tracked, sealings>>

\* update_peers, on a connection or a disconnection.
UpdatePeers ==
    /\ peers' = ~peers
    /\ UNCHANGED <<real, sent, registered, states, events, cur, tracked, sealings>>

\* The tick loop seeds an entry (ensure_epoch_tracked) for every elapsed epoch.
Track ==
    /\ cur > tracked
    /\ LET elapsed == {e \in Epochs : tracked < e /\ cur - TrackWindow <= e /\ e <= cur}
       IN  states' = [e \in DOMAIN states \cup elapsed |-> Entry(e)]
    /\ tracked' = cur
    /\ UNCHANGED <<real, sent, peers, registered, events, cur, sealings>>

\* SEAL_COLLECT_MS and PEER_SEAL_WAIT_MS elapse.
Deadline(e) ==
    /\ Open(e) /\ ~states[e].due
    /\ states' = [states EXCEPT ![e].due = TRUE]
    /\ UNCHANGED <<real, sent, peers, registered, events, cur, tracked, sealings>>

FallbackDeadline(e) ==
    /\ Open(e) /\ states[e].fallback = "armed"
    /\ states' = [states EXCEPT ![e].fallback = "expired"]
    /\ UNCHANGED <<real, sent, peers, registered, events, cur, tracked, sealings>>

------------------------------------------------------------------------------
(* resolve_epoch *)

\* Half of the sorted timestamps are below the median, timestamps[len / 2].
Median(seals) ==
    CHOOSE t \in {s.timestamp : s \in seals} :
        LET below == Cardinality({s \in seals : s.timestamp < t})
            upto  == Cardinality({s \in seals : s.timestamp <= t})
            half  == Cardinality(seals) \div 2
        IN  below <= half /\ half < upto

Inliers(seals) ==
    {s \in seals : LET d == s.timestamp - Median(seals)
                   IN  d <= Tolerance * EpochMs /\ -d <= Tolerance * EpochMs}

\* The bootstrap master's seal is enough when nobody else can be expected.
Bootstrap(e) ==
    /\ \E s \in states[e].seals : s.node = Master
    /\ Isolation \/ (registered = {} /\ ~peers)

\* mark_resolved, and the entries older than PruneWindow go.
Resolved(e) ==
    states' = [d \in {x \in DOMAIN states : x + PruneWindow >= e} |->
                  IF d = e THEN [states[d] EXCEPT !.resolved = TRUE] ELSE states[d]]

\* A SealedEpoch with sealed: true goes to the handler.
Sealed(e, signers) ==
    /\ Resolved(e)
    /\ events' = Append(events, e)
    /\ sealings' = [sealings EXCEPT ![e] = Append(@, registered = {} \/ signers \subseteq registered)]

ResolveBootstrap(e) == Bootstrap(e) /\ Sealed(e, {Master})

\* A SealedEpoch with sealed: false has no consumer.
ResolveEmpty(e) ==
    /\ states[e].seals = {}
    /\ Resolved(e)
    /\ UNCHANGED <<events, sealings>>

\* Mutant: the wait for a peer's seal is started again on every tick.
ResolveSoleRearmed(e) ==
    /\ ~Bootstrap(e) /\ Cardinality(states[e].seals) = 1
    /\ \/ /\ peers
          /\ states' = [states EXCEPT ![e].fallback = "armed"]
          /\ UNCHANGED <<events, sealings>>
       \/ /\ ~peers
          /\ Sealed(e, {s.node : s \in states[e].seals})

\* One seal: with peers around wait for another, once; then it stands alone.
ResolveSole(e) ==
    /\ ~Bootstrap(e) /\ Cardinality(states[e].seals) = 1
    /\ \/ /\ peers /\ states[e].fallback = "none"
          /\ states' = [states EXCEPT ![e].fallback = "armed"]
          /\ UNCHANGED <<events, sealings>>
       \/ /\ ~peers \/ states[e].fallback = "expired"
          /\ Sealed(e, {s.node : s \in states[e].seals})

Voting(e) == ValidVotes(registered, Inliers(states[e].seals))
QuorumReached(e) ==
    Cardinality(Voting(e)) >= QuorumNeeded(Denominator(registered, states[e].seals), 1)

\* Mutant: the quorum has to be exceeded.
ResolveQuorumStrict(e) ==
    /\ ~Bootstrap(e) /\ Cardinality(states[e].seals) > 1
    /\ Cardinality(Voting(e)) > QuorumNeeded(Denominator(registered, states[e].seals), 1)
    /\ \E h \in MostVoted(Voting(e)) : Sealed(e, VotersFor(Voting(e), h))

\* Several seals: the registered inliers must be a quorum, or nothing happens and
\* the next tick tries again.
ResolveQuorum(e) ==
    /\ ~Bootstrap(e) /\ Cardinality(states[e].seals) > 1
    /\ QuorumReached(e)
    /\ \E h \in MostVoted(Voting(e)) : Sealed(e, VotersFor(Voting(e), h))

Resolve(e) ==
    /\ Open(e) /\ states[e].due
    /\ ResolveBootstrap(e) \/ ResolveEmpty(e) \/ ResolveSole(e) \/ ResolveQuorum(e)
    /\ UNCHANGED <<real, sent, peers, registered, cur, tracked>>

------------------------------------------------------------------------------
\* The sealed-epoch handler: EpochSeal is applied, the registered set refreshed.
HandleSealed ==
    /\ events # <<>>
    /\ cur' = IF Head(events) > cur THEN Head(events) ELSE cur
    /\ registered' \in Registries
    /\ events' = Tail(events)
    /\ UNCHANGED <<real, sent, peers, states, tracked, sealings>>

Next ==
    \/ Clock \/ Emit \/ UpdatePeers \/ Track \/ HandleSealed
    \/ \E e \in Epochs :
          \/ \E n \in Senders : PeerSeal(n, e)
          \/ Deadline(e) \/ FallbackDeadline(e) \/ Resolve(e)

Spec == Init /\ [][Next]_vars

\* Time passes, and the tick loop visits every open epoch once a second.
FairSpec ==
    Spec /\ \A e \in Epochs :
        WF_vars(Deadline(e)) /\ WF_vars(FallbackDeadline(e)) /\ WF_vars(Resolve(e))

------------------------------------------------------------------------------
(* What holds *)

\* One process seals an epoch at most once, although an entry is forgotten
\* PruneWindow epochs later and a seal that comes then would open a new one: the
\* handler behind it (pending pool, base fee, unbonding, vote) is not idempotent.
SealedOnce == \A e \in Epochs : Len(sealings[e]) <= 1

\* An epoch nobody or only one clock has sealed does not stay open: it resolves, or
\* a further seal arrives (ensure_epoch_tracked; the peer_fallback_deadline).
LoneEpochResolves ==
    \A e \in Epochs :
        (Open(e) /\ Cardinality(Entry(e).seals) <= 1)
            ~> (~Open(e) \/ Cardinality(Entry(e).seals) > 1)

\* An epoch for which a quorum of the registered clocks has sealed does not stay open
\* with its quorum, whatever peers come and go.  It may lose the quorum, for
\* clock.rs 539-554 counts anew on every tick: no further seal takes it away, but a
\* registered set refreshed in between may leave too few of the seals, for ever.
QuorumResolves ==
    /\ \A e \in Epochs :
          (Open(e) /\ QuorumReached(e)) ~> (~Open(e) \/ ~QuorumReached(e))
    /\ [][\A e \in Epochs : Open(e) /\ QuorumReached(e) /\ Open(e)' /\ ~QuorumReached(e)'
             => registered' # registered]_vars

------------------------------------------------------------------------------
(* What the comments claim *)

\* clock.rs 528-529: "When the registered set is known, only registered seals count
\* toward quorum": no unregistered clock signs a sealed epoch.
OnlyRegisteredSign ==
    \A e \in Epochs : \A i \in DOMAIN sealings[e] : sealings[e][i]
==============================================================================
