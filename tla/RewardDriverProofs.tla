-------------------------- MODULE RewardDriverProofs -------------------------
(***************************************************************************)
(* Proofs about the reward driver: types, how often and how deep epochs are *)
(* paid for all constants, and that a node following the chain from genesis *)
(* implements the exactly-once, in-order promise of OrderedRewards.         *)
(***************************************************************************)
EXTENDS RewardDriver, WellFoundedInduction, TLAPS

\* A set of naturals that is not empty has a least element.
LEMMA LeastNat ==
    ASSUME NEW S \in SUBSET Nat, S # {}
    PROVE  \E m \in S : \A k \in S : m <= k
<1> DEFINE R == {ss \in Nat \X Nat : ss[1] < ss[2]}
<1>1. IsWellFoundedOn(R, Nat)
  BY NatLessThanWellFounded DEF OpToRel
<1>2. \E m \in S : \A k \in S : ~(<<k, m>> \in R)
  <2> HIDE DEF R
  <2> QED BY <1>1, WFMin
<1>3. \A k, m \in Nat : k < m => <<k, m>> \in R
  OBVIOUS
<1> HIDE DEF R
<1>4. PICK m \in S : \A k \in S : ~(<<k, m>> \in R)
  BY <1>2
<1>5. ASSUME NEW k \in S PROVE m <= k
  <2>1. k \in Nat /\ m \in Nat /\ ~(k < m)
    BY <1>3, <1>4
  <2> QED BY <2>1
<1> QED BY <1>5

\* The restart position exists and is an epoch number.
LEMMA HighestContiguousType ==
    ASSUME NEW d \in SUBSET Epochs
    PROVE  HighestContiguous(d) \in 0..MaxEpoch
<1> DEFINE S == {j \in 1..(MaxEpoch + 1) : j \notin d}
<1>1. S \in SUBSET Nat /\ MaxEpoch + 1 \in S
  BY BoundsNat DEF Epochs
<1>2. PICK m \in S : \A k \in S : m <= k
  BY <1>1, LeastNat
<1>3. m - 1 \in 0..MaxEpoch /\ 1..(m - 1) \subseteq d /\ (m - 1) + 1 \notin d
  BY <1>2, BoundsNat
<1> QED BY <1>3 DEF HighestContiguous

\* From a done set without gaps, the restart position is its end.
LEMMA HighestContiguousInterval ==
    ASSUME NEW k \in 0..MaxEpoch
    PROVE  HighestContiguous(1..k) = k
<1>1. 1..k \subseteq 1..k /\ k + 1 \notin 1..k
  BY BoundsNat
<1>2. ASSUME NEW j \in 0..MaxEpoch, 1..j \subseteq 1..k, j + 1 \notin 1..k
      PROVE  j = k
  <2>1. ~(j < k)
    BY <1>2, BoundsNat
  <2>2. ~(j > k)
    <3>1. j > k => j \in 1..j /\ j \notin 1..k
      BY BoundsNat
    <3> QED BY <1>2, <3>1
  <2> QED BY <2>1, <2>2, BoundsNat
<1> QED BY <1>1, <1>2 DEF HighestContiguous

------------------------------------------------------------------------------
\* Where a tick starts its walk.
TickStart ==
    IF SkipScan(AlignedLast) /\ Ready(AlignedLast) # {}
    THEN Lowest(Ready(AlignedLast)) - 1 ELSE AlignedLast

\* The start is an epoch number, at or above the position of the last tick.
LEMMA TickStartType ==
    ASSUME TypeOK
    PROVE  /\ TickStart \in 0..MaxEpoch
           /\ SafeTip \in 0..MaxEpoch
           /\ AlignedLast \in 0..MaxEpoch
<1>1. SafeTip \in 0..MaxEpoch
  BY BoundsNat DEF TypeOK, SafeTip, Minus
<1>2. AlignedLast \in 0..MaxEpoch
  BY BoundsNat DEF TypeOK, AlignedLast, Minus, Floor
<1>3. CASE Ready(AlignedLast) # {}
  <2>1. Ready(AlignedLast) \in SUBSET Nat
    <3>1. finalized \in SUBSET Nat
      BY BoundsNat DEF TypeOK, Epochs
    <3> QED BY <3>1 DEF Ready
  <2>2. \E e \in Ready(AlignedLast) : \A d \in Ready(AlignedLast) : e <= d
    BY <1>3, <2>1, LeastNat
  <2>3. Lowest(Ready(AlignedLast)) \in Ready(AlignedLast)
    BY <2>2 DEF Lowest
  <2>4. Lowest(Ready(AlignedLast)) \in Epochs
    BY <2>3 DEF Ready, TypeOK
  <2> QED BY <1>1, <1>2, <2>4, BoundsNat DEF TickStart, Epochs
<1>4. CASE Ready(AlignedLast) = {}
  BY <1>1, <1>2, <1>4 DEF TickStart
<1> QED BY <1>3, <1>4

LEMMA TickStep ==
    ASSUME Tick
    PROVE  /\ pc = "idle"
           /\ aligned' = (aligned \/ Aligns)
           /\ skipped' = (skipped \/ (SkipScan(AlignedLast) /\ Ready(AlignedLast) # {}))
           /\ last' = TickStart
           /\ \/ /\ SafeTip > TickStart
                 /\ pc' = "walk"
                 /\ next' = TickStart + 1
                 /\ stop' = IF SafeTip < TickStart + 1 + WalkBound
                            THEN SafeTip ELSE TickStart + 1 + WalkBound
              \/ UNCHANGED <<pc, next, stop>>
           /\ UNCHANGED <<cur, finalized, done, paid, restarts, crashes>>
BY DEF Tick, TickStart, durable

------------------------------------------------------------------------------
\* Every step of the driver keeps the state well typed.
LEMMA NextTypeOK == TypeOK /\ [Next]_vars => TypeOK'
<1> SUFFICES ASSUME TypeOK, [Next]_vars PROVE TypeOK'
  OBVIOUS
<1> USE BoundsNat
<1>1. ASSUME NEW e \in Epochs, EpochSeal(e) PROVE TypeOK'
  BY <1>1 DEF EpochSeal, TypeOK, local, Epochs
<1>2. ASSUME NEW e \in Epochs, EpochFinalize(e) PROVE TypeOK'
  BY <1>2 DEF EpochFinalize, TypeOK, local
<1>3. CASE Tick
  <2>1. TickStart \in 0..MaxEpoch /\ SafeTip \in 0..MaxEpoch
    BY TickStartType
  <2>2. last' \in 0..MaxEpoch /\ aligned' \in BOOLEAN /\ skipped' \in BOOLEAN
    BY <1>3, <2>1, TickStep DEF TypeOK
  <2>3. pc' \in {"idle", "walk"} /\ next' \in 1..(MaxEpoch + 1) /\ stop' \in 0..MaxEpoch
    BY <1>3, <2>1, TickStep DEF TypeOK
  <2> QED BY <1>3, <2>2, <2>3, TickStep DEF TypeOK
<1>4. CASE Walk
  <2>1. CASE pc' = "mark"
    <3>1. next \in Epochs /\ paid' = [paid EXCEPT ![next] = @ + 1]
      BY <1>4, <2>1 DEF Walk, TypeOK, Epochs
    <3>2. /\ UNCHANGED <<cur, finalized, done, last, next>>
          /\ UNCHANGED <<aligned, skipped, stop, restarts, crashes>>
      BY <1>4, <2>1 DEF Walk
    <3>3. paid' \in [Epochs -> Nat]
      BY <3>1 DEF TypeOK
    <3> QED BY <2>1, <3>1, <3>2, <3>3 DEF TypeOK
  <2>2. CASE pc' # "mark"
    <3>1. paid' = paid /\ last' \in 0..MaxEpoch /\ next' \in 1..(MaxEpoch + 1)
          /\ pc' \in {"idle", "walk"}
      BY <1>4, <2>2 DEF Walk, TypeOK, durable
    <3> QED BY <1>4, <2>2, <3>1 DEF Walk, TypeOK, durable
  <2> QED BY <2>1, <2>2
<1>5. CASE Mark
  BY <1>5 DEF Mark, TypeOK, Epochs
<1>6. ASSUME Boot, restarts' \in 0..MaxRestarts, crashes' \in 0..MaxCrashes
      PROVE  TypeOK'
  <2>1. aligned' \in BOOLEAN /\ skipped' \in BOOLEAN
    BY <1>6, Zenon DEF Boot
  <2>2. last' \in 0..MaxEpoch
    BY <1>6, HighestContiguousType DEF Boot, TypeOK
  <2>3. /\ pc' \in {"idle", "walk", "mark"} /\ (pc' = "mark" => next' \in Epochs)
        /\ next' \in 1..(MaxEpoch + 1) /\ stop' \in 0..MaxEpoch
        /\ UNCHANGED <<cur, finalized, done, paid>>
    BY <1>6 DEF Boot, durable
  <2> QED BY <1>6, <2>1, <2>2, <2>3 DEF TypeOK
<1>7. CASE Restart
  BY <1>6, <1>7 DEF Restart, TypeOK
<1>8. CASE Crash
  BY <1>6, <1>8 DEF Crash, TypeOK
<1>9. CASE UNCHANGED vars
  BY <1>9 DEF vars, durable, local, TypeOK
<1> QED BY <1>1, <1>2, <1>3, <1>4, <1>5, <1>7, <1>8, <1>9 DEF Next

LEMMA InitTypeOK == Init => TypeOK
<1> SUFFICES ASSUME Init PROVE TypeOK
  OBVIOUS
<1>1. aligned \in BOOLEAN /\ skipped \in BOOLEAN
  BY Zenon DEF Init
<1>2. paid \in [Epochs -> Nat]
  BY DEF Init
<1>3. /\ cur \in 0..MaxEpoch /\ last \in 0..MaxEpoch /\ next \in 1..(MaxEpoch + 1)
      /\ stop \in 0..MaxEpoch /\ restarts \in 0..MaxRestarts /\ crashes \in 0..MaxCrashes
  BY BoundsNat DEF Init
<1>4. /\ finalized \in SUBSET Epochs /\ done \in SUBSET Epochs
      /\ pc \in {"idle", "walk", "mark"} /\ (pc = "mark" => next \in Epochs)
  BY DEF Init
<1> QED BY <1>1, <1>2, <1>3, <1>4 DEF TypeOK

\* The driver's counters stay within the epochs, whatever the windows, depth,
\* restarts and crashes.
THEOREM DriverTypeCorrect == Spec => []TypeOK
BY InitTypeOK, NextTypeOK, PTL DEF Spec

\* The strengthening: a payment is accounted for by the epoch's done key, by the
\* walk being between the two writes, or by a crash that happened there.
CrashInv ==
    /\ TypeOK
    /\ \A e \in Epochs :
          paid[e] <= crashes + (IF e \in done \/ (pc = "mark" /\ e = next) THEN 1 ELSE 0)

\* Every step keeps the account of payments.
LEMMA CrashStep == CrashInv /\ [Next]_vars => CrashInv'
<1> SUFFICES ASSUME CrashInv, [Next]_vars PROVE CrashInv'
  OBVIOUS
<1>t. TypeOK /\ TypeOK'
  BY NextTypeOK DEF CrashInv
<1>a. /\ crashes \in Nat /\ crashes' \in Nat
      /\ \A e \in Epochs : paid[e] \in Nat
  BY <1>t, BoundsNat DEF TypeOK
<1>1. ASSUME UNCHANGED <<done, paid, crashes>>, pc # "mark" PROVE CrashInv'
  BY <1>1, <1>t, <1>a DEF CrashInv
<1>2. ASSUME UNCHANGED <<done, paid, crashes, pc, next>> PROVE CrashInv'
  BY <1>2, <1>t DEF CrashInv
<1>3. ASSUME NEW e \in Epochs, EpochSeal(e) \/ EpochFinalize(e) PROVE CrashInv'
  BY <1>2, <1>3 DEF EpochSeal, EpochFinalize, local
<1>4. CASE Tick
  BY <1>1, <1>4, TickStep
<1>5. CASE Walk
  <2>1. CASE pc' = "mark"
    <3>1. /\ next \in Epochs /\ next \notin done /\ pc = "walk"
          /\ paid' = [paid EXCEPT ![next] = @ + 1]
          /\ UNCHANGED <<done, next, crashes>>
      BY <1>5, <1>t, <2>1 DEF Walk, TypeOK, Epochs
    <3>2. paid[next] <= crashes
      BY <1>a, <3>1 DEF CrashInv
    <3>3. paid'[next] <= crashes' + 1
      BY <1>a, <1>t, <3>1, <3>2 DEF TypeOK
    <3>4. \A e \in Epochs : e # next => paid'[e] = paid[e]
      BY <1>t, <3>1 DEF TypeOK
    <3>5. ASSUME NEW e \in Epochs
          PROVE  paid'[e] <= crashes' + (IF e \in done' \/ (pc' = "mark" /\ e = next')
                                         THEN 1 ELSE 0)
      BY <2>1, <3>1, <3>3, <3>4 DEF CrashInv
    <3> QED BY <1>t, <3>5 DEF CrashInv
  <2>2. CASE pc' # "mark"
    BY <1>1, <1>5, <2>2 DEF Walk, durable
  <2> QED BY <2>1, <2>2
<1>6. CASE Mark
  <2>1. /\ pc = "mark" /\ pc' = "walk" /\ done' = done \cup {next}
        /\ UNCHANGED <<paid, crashes>>
    BY <1>6 DEF Mark
  <2> QED BY <1>t, <2>1 DEF CrashInv
<1>7. CASE Restart
  BY <1>1, <1>7 DEF Restart, Boot, durable
<1>8. CASE Crash
  <2>1. crashes' = crashes + 1 /\ UNCHANGED <<done, paid>>
    BY <1>8 DEF Crash, Boot, durable
  <2>2. \A e \in Epochs : paid'[e] <= crashes'
    BY <1>a, <2>1 DEF CrashInv
  <2>3. \A e \in Epochs : paid'[e] \in Nat
    BY <1>a, <2>1
  <2> QED BY <1>a, <1>t, <2>2, <2>3 DEF CrashInv
<1>9. CASE UNCHANGED vars
  BY <1>2, <1>9 DEF vars, durable, local
<1> QED BY <1>3, <1>4, <1>5, <1>6, <1>7, <1>8, <1>9 DEF Next

\* However often the node stops between ticks, and wherever its cold start puts it,
\* an epoch is paid again only if the process died between the mutation and the
\* done key (main.rs 526-538), once for each time that happened.
THEOREM PaidOncePerCrashHolds == Spec => []PaidOncePerCrash
<1>1. Init => CrashInv
  <2>1. Init => \A e \in Epochs : paid[e] = 0 /\ crashes = 0
    BY DEF Init
  <2> QED BY <2>1, InitTypeOK DEF CrashInv
<1>2. CrashInv => PaidOncePerCrash
  BY BoundsNat DEF CrashInv, PaidOncePerCrash, TypeOK
<1> QED BY <1>1, <1>2, CrashStep, PTL DEF Spec

------------------------------------------------------------------------------
\* The strengthening: the walk under way never reaches past the safe tip.
DepthInv == TypeOK /\ PaidIsDeep /\ (pc # "idle" => stop + Depth <= cur)

\* Every step keeps the finality depth.
LEMMA DepthStep == DepthInv /\ [Next]_vars => DepthInv'
<1> SUFFICES ASSUME DepthInv, [Next]_vars PROVE DepthInv'
  OBVIOUS
<1> USE BoundsNat
<1>t. TypeOK /\ TypeOK'
  BY NextTypeOK DEF DepthInv
<1>a. /\ cur \in Nat /\ cur' \in Nat /\ stop \in Nat /\ stop' \in Nat
      /\ Epochs \subseteq Nat /\ finalized \subseteq finalized'
  <2>1. cur \in Nat /\ cur' \in Nat /\ stop \in Nat /\ stop' \in Nat /\ Epochs \subseteq Nat
    BY <1>t DEF TypeOK, Epochs
  <2>2. finalized \subseteq finalized'
    BY DEF Next, EpochSeal, EpochFinalize, Tick, Walk, Mark, Restart, Crash, Boot,
           vars, durable
  <2> QED BY <2>1, <2>2
<1>1. ASSUME cur <= cur', paid' = paid PROVE PaidIsDeep'
  BY <1>1, <1>a DEF DepthInv, PaidIsDeep
<1>2. ASSUME NEW e \in Epochs, EpochSeal(e) PROVE DepthInv'
  <2>1. cur < cur' /\ paid' = paid /\ UNCHANGED <<pc, stop>>
    BY <1>2, <1>a DEF EpochSeal, local
  <2> QED BY <2>1, <1>1, <1>a, <1>t DEF DepthInv
<1>3. ASSUME NEW e \in Epochs, EpochFinalize(e) PROVE DepthInv'
  <2>1. UNCHANGED <<cur, paid, pc, stop>>
    BY <1>3 DEF EpochFinalize, local
  <2> QED BY <2>1, <1>1, <1>a, <1>t DEF DepthInv
<1>4. CASE Tick
  <2>1. SafeTip \in Nat /\ TickStart \in Nat
    BY TickStartType, <1>t
  <2>2. pc' # "idle" => stop' <= SafeTip /\ SafeTip > 0
    BY <1>4, <2>1, TickStep
  <2>3. SafeTip > 0 => SafeTip + Depth = cur
    BY <1>a DEF SafeTip, Minus
  <2>4. cur' = cur /\ paid' = paid
    BY <1>4, TickStep
  <2>5. ASSUME pc' # "idle" PROVE stop' + Depth <= cur
    <3>1. stop' <= SafeTip /\ SafeTip + Depth = cur
      BY <2>2, <2>3, <2>5
    <3>2. \A s, t, d, c \in Nat : s <= t /\ t + d = c => s + d <= c
      OBVIOUS
    <3>3. stop' \in Nat /\ SafeTip \in Nat /\ Depth \in Nat /\ cur \in Nat
      BY <1>a, <2>1
    <3> QED BY <3>1, <3>2, <3>3, Zenon
  <2>6. cur <= cur'
    BY <1>a, <2>4
  <2>7. pc' # "idle" => stop' + Depth <= cur'
    BY <2>4, <2>5
  <2> QED BY <1>1, <1>t, <2>4, <2>6, <2>7 DEF DepthInv
<1>5. CASE Walk
  <2>1. pc = "walk" /\ UNCHANGED <<cur, stop, finalized>>
    BY <1>5 DEF Walk, durable
  <2>2. CASE paid' = paid
    BY <2>1, <2>2, <1>1, <1>a, <1>t DEF DepthInv
  <2>3. CASE paid' # paid
    <3>1. /\ next <= stop /\ next \in finalized
          /\ paid' = [paid EXCEPT ![next] = @ + 1]
      BY <1>5, <2>3 DEF Walk, durable
    <3>2. next \in Epochs /\ next + Depth <= cur
      BY <3>1, <2>1, <1>a, <1>t DEF DepthInv, TypeOK
    <3>3. \A e \in Epochs : e # next => paid'[e] = paid[e]
      BY <3>1, <1>t DEF TypeOK
    <3>4. PaidIsDeep'
      BY <3>1, <3>2, <3>3, <2>1 DEF PaidIsDeep, DepthInv
    <3> QED BY <3>4, <2>1, <1>t DEF DepthInv
  <2> QED BY <2>2, <2>3
<1>6. CASE Mark
  <2>1. pc = "mark" /\ UNCHANGED <<cur, stop, paid>>
    BY <1>6 DEF Mark
  <2> QED BY <2>1, <1>1, <1>a, <1>t DEF DepthInv
<1>7. CASE Restart \/ Crash
  <2>1. pc' = "idle" /\ UNCHANGED <<cur, paid>>
    BY <1>7 DEF Restart, Crash, Boot, durable
  <2> QED BY <2>1, <1>1, <1>a, <1>t DEF DepthInv
<1>8. CASE UNCHANGED vars
  <2>1. UNCHANGED <<cur, paid, pc, stop>>
    BY <1>8 DEF vars, durable, local
  <2> QED BY <2>1, <1>1, <1>a, <1>t DEF DepthInv
<1> QED BY <1>2, <1>3, <1>4, <1>5, <1>6, <1>7, <1>8 DEF Next

\* No epoch is paid before it is finalized and Depth behind the tip, whatever the
\* order of seals, finality records, restarts and crashes (main.rs 443-447).
THEOREM PaidIsDeepHolds == Spec => []PaidIsDeep
<1>1. Init => DepthInv
  <2>1. Init => PaidIsDeep /\ pc = "idle"
    BY DEF Init, PaidIsDeep
  <2> QED BY <2>1, InitTypeOK DEF DepthInv
<1>2. DepthInv => PaidIsDeep
  BY DEF DepthInv
<1> QED BY <1>1, <1>2, DepthStep, PTL DEF Spec

------------------------------------------------------------------------------
(* The promise of OrderedRewards, for a node that follows the chain from genesis *)

\* The chain never outran the cold-start window before epoch 1 was rewarded.
FollowsFromGenesis == last = 0 => Floor <= 1

\* The strengthening: the done keys have no gap and end at last_rewarded, the walk
\* is at the epoch after it, and exactly the epochs done, plus the one between its
\* mutation and its done key, have been paid.
GenesisInv ==
    /\ TypeOK
    /\ aligned = FALSE
    /\ done = 1..last
    /\ pc # "idle" => next = last + 1
    /\ \A e \in Epochs : paid[e] = IF e <= last \/ (pc = "mark" /\ e = next) THEN 1 ELSE 0

\* The driver boots with nothing paid and nothing done.
LEMMA InitGenesis == Init => GenesisInv
<1> SUFFICES ASSUME Init PROVE GenesisInv
  OBVIOUS
<1>1. TypeOK
  BY InitTypeOK
<1>2. aligned = FALSE
  BY Zenon DEF Init
<1>3. done = 1..last /\ (pc # "idle" => next = last + 1)
  BY DEF Init
<1>4. \A e \in Epochs : paid[e] = 0 /\ ~(e <= last) /\ pc # "mark"
  BY BoundsNat DEF Init, Epochs
<1> QED BY <1>1, <1>2, <1>3, <1>4 DEF GenesisInv

\* On a node that follows from genesis a tick neither aligns nor skips.
LEMMA GenesisTick ==
    ASSUME GenesisInv, FollowsFromGenesis, Tick
    PROVE  /\ aligned' = FALSE
           /\ last' = last /\ done' = done /\ paid' = paid
           /\ pc = "idle"
           /\ \/ pc' = "walk" /\ next' = last + 1
              \/ pc' = "idle"
<1>1. aligned = FALSE /\ ~Aligns
  <2>1. last = 0 => ~(Floor > 1)
    <3>1. Floor \in Nat
      BY BoundsNat DEF GenesisInv, TypeOK, Floor, Minus
    <3> QED BY <3>1 DEF FollowsFromGenesis
  <2> QED BY <2>1 DEF GenesisInv, Aligns
<1>2. AlignedLast = last /\ ~SkipScan(AlignedLast)
  BY <1>1 DEF AlignedLast, SkipScan
<1>3. TickStart = last
  BY <1>2 DEF TickStart
<1>4. aligned' = FALSE
  BY <1>1, TickStep, Zenon
<1> QED BY <1>3, <1>4, TickStep

\* Every step keeps the strengthening and is a step of the promise or changes no
\* payment.
LEMMA GenesisStep ==
    ASSUME MaxCrashes = 0, GenesisInv, FollowsFromGenesis, [Next]_vars
    PROVE  GenesisInv' /\ [Promise!Next]_paid
<1> USE BoundsNat
<1>t. TypeOK /\ TypeOK'
  BY NextTypeOK DEF GenesisInv
<1>a. /\ cur \in 0..MaxEpoch /\ last \in 0..MaxEpoch /\ last' \in 0..MaxEpoch
      /\ next \in 1..(MaxEpoch + 1) /\ next' \in 1..(MaxEpoch + 1)
      /\ paid \in [Epochs -> Nat]
  BY <1>t DEF TypeOK
<1>b. Epochs = Promise!Epochs /\ \A e \in Epochs : e \in Nat
  BY DEF Epochs, Promise!Epochs
<1>1. ASSUME aligned' = aligned, UNCHANGED <<done, last, paid, pc, next>>
      PROVE  GenesisInv' /\ [Promise!Next]_paid
  BY <1>1, <1>t DEF GenesisInv
<1>2. ASSUME NEW e \in Epochs, EpochSeal(e) \/ EpochFinalize(e)
      PROVE  GenesisInv' /\ [Promise!Next]_paid
  BY <1>1, <1>2 DEF EpochSeal, EpochFinalize, local
<1>3. CASE Tick
  <2>1. /\ aligned' = FALSE
        /\ last' = last /\ done' = done /\ paid' = paid /\ pc = "idle"
        /\ (pc' = "walk" /\ next' = last + 1) \/ pc' = "idle"
    BY <1>3, GenesisTick
  <2>2. pc # "mark" /\ pc' # "mark"
    BY <2>1
  <2> QED BY <2>1, <2>2, <1>t DEF GenesisInv
<1>4. CASE Walk
  <2>0. aligned' = FALSE /\ pc = "walk" /\ next = last + 1 /\ done' = done
    BY <1>4 DEF Walk, GenesisInv, durable
  <2>1. CASE pc' = "mark"
    <3>1. /\ next \in Epochs /\ paid' = [paid EXCEPT ![next] = @ + 1]
          /\ last' = last /\ next' = next
      BY <1>4, <2>1, <1>t DEF Walk, Epochs, TypeOK
    <3>2. \A e \in Epochs : paid[e] = IF e < next THEN 1 ELSE 0
      BY <2>0, <1>a, <1>b DEF GenesisInv
    <3>3. \A e \in Epochs : paid'[e] = IF e <= next THEN 1 ELSE 0
      BY <3>1, <3>2, <1>a, <1>b
    <3>4. GenesisInv'
      <4>1. \A e \in Epochs : e <= next <=> (e <= last' \/ e = next')
        BY <2>0, <3>1, <1>a, <1>b
      <4>2. \A e \in Epochs : paid'[e] = IF e <= last' \/ (pc' = "mark" /\ e = next')
                                         THEN 1 ELSE 0
        BY <2>1, <3>3, <4>1
      <4> QED BY <2>0, <3>1, <4>2, <1>t DEF GenesisInv
    <3>5. Promise!Pay(next)
      <4>0. paid[next] = 0
        BY <3>1, <3>2, <1>a
      <4>1. paid[next] = 0 /\ paid' = [paid EXCEPT ![next] = 1]
        BY <3>1, <4>0
      <4>2. \A d \in 1..(next - 1) : d \in Epochs /\ d < next
        BY <1>a, <3>1 DEF Epochs
      <4>3. \A d \in 1..(next - 1) : paid[d] = 1
        BY <3>2, <4>2
      <4> QED BY <4>1, <4>3 DEF Promise!Pay
    <3> QED BY <1>b, <3>1, <3>4, <3>5 DEF Promise!Next
  <2>2. CASE pc' # "mark"
    <3>1. next \notin done
      BY <2>0, <1>a DEF GenesisInv
    <3>2. UNCHANGED <<last, paid, next>> /\ pc' = "idle"
      BY <1>4, <2>2, <3>1 DEF Walk, durable
    <3> QED BY <2>0, <3>2, <1>t DEF GenesisInv
  <2> QED BY <2>1, <2>2
<1>5. CASE Mark
  <2>1. /\ pc = "mark" /\ pc' = "walk" /\ last' = next /\ next' = next + 1
        /\ done' = done \cup {next} /\ paid' = paid
    BY <1>5 DEF Mark
  <2>2. next = last + 1 /\ done = 1..last
    BY <2>1 DEF GenesisInv
  <2>3. done' = 1..last'
    BY <2>1, <2>2, <1>a
  <2>4. \A e \in Epochs : e <= last' <=> (e <= last \/ e = next)
    BY <2>1, <2>2, <1>a, <1>b
  <2>5. \A e \in Epochs : paid'[e] = IF e <= last' \/ (pc' = "mark" /\ e = next') THEN 1 ELSE 0
    BY <2>1, <2>4 DEF GenesisInv
  <2>6. aligned' = FALSE
    BY <1>5 DEF Mark, GenesisInv
  <2> QED BY <2>1, <2>3, <2>5, <2>6, <1>t DEF GenesisInv
<1>6. CASE Restart
  <2>1. /\ pc = "idle" /\ pc' = "idle" /\ last' = HighestContiguous(done)
        /\ done' = done /\ paid' = paid
    BY <1>6 DEF Restart, Boot, durable
  <2>2. last' = last
    BY <2>1, <1>a, HighestContiguousInterval DEF GenesisInv
  <2>3. aligned' = FALSE
    BY <1>6, Zenon DEF Restart, Boot
  <2> QED BY <2>1, <2>2, <2>3, <1>t DEF GenesisInv
<1>7. CASE Crash
  BY <1>7, <1>t DEF Crash, TypeOK
<1>8. CASE UNCHANGED vars
  BY <1>1, <1>8 DEF vars, durable, local
<1> QED BY <1>2, <1>3, <1>4, <1>5, <1>6, <1>7, <1>8 DEF Next

\* A node that follows the chain from genesis and never dies inside a walk
\* applies every epoch's rewards exactly once and in ascending order, for every
\* depth, window and number of restarts between ticks (main.rs 403-411, 494-496).
THEOREM GenesisOrder ==
    ASSUME MaxCrashes = 0
    PROVE  Spec /\ []FollowsFromGenesis => OrderedOnce
<1>1. Init => Promise!Init
  BY DEF Init, Promise!Init, Epochs, Promise!Epochs
<1>2. GenesisInv /\ FollowsFromGenesis /\ [Next]_vars => GenesisInv' /\ [Promise!Next]_paid
  BY GenesisStep
<1> QED BY <1>1, <1>2, InitGenesis, PTL DEF Spec, OrderedOnce, Promise!Spec
==============================================================================
