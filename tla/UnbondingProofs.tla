--------------------------- MODULE UnbondingProofs ---------------------------
(***************************************************************************)
(* The unbonding window for any number of accounts, any amounts and fees,   *)
(* and any UNBONDING_EPOCHS > STALE_WINDOW.                                 *)
(***************************************************************************)
EXTENDS Unbonding, TLAPS

USE AccountsFinite, AmountsNat, WeightsNat, EpochsNat, NoneFresh, StaleBeforeRelease

\* A fee is never more than what is left to pay it from.
LEMMA ChargedBound ==
    ASSUME TypeOK, NEW left \in Nat, NEW weight \in Nat
    PROVE  Charged(left, weight) \in Nat /\ Charged(left, weight) <= left
<1>1. fee \in Nat
  BY DEF TypeOK
<1>2. weight * fee \in Nat
  BY <1>1
<1> QED BY <1>2 DEF Charged

\* A fresh entry's tokens are released after the current epoch, and no sooner than
\* UNBONDING_EPOCHS - STALE_WINDOW epochs from it.
LEMMA FreshRelease ==
    ASSUME TypeOK, NEW epoch \in Nat, Fresh(epoch)
    PROVE  /\ ReleaseEpoch(epoch) > cur
           /\ ReleaseEpoch(epoch) >= cur + UnbondingEpochs - StaleWindow
BY DEF TypeOK, Fresh, ReleaseEpoch

LEMMA TransferType ==
    ASSUME TypeOK, NEW a \in Accounts, NEW b \in Accounts, NEW amount \in Amounts,
           NEW e \in Nat, Transfer(a, b, amount, e)
    PROVE  TypeOK'
<1> DEFINE moved == [[balance EXCEPT ![a] = @ - amount] EXCEPT ![b] = @ + amount]
           charged == Charged(moved[a], MicroWeight)
<1>1. balance \in [Accounts -> Nat] /\ recycle \in Nat /\ amount \in Nat /\ balance[a] >= amount
  BY DEF TypeOK, Transfer
<1>2. moved \in [Accounts -> Nat]
  BY <1>1
<1>3. charged \in Nat /\ charged <= moved[a]
  BY <1>2, ChargedBound
<1>4. balance' = [moved EXCEPT ![a] = @ - charged] /\ recycle' = recycle + charged
  BY DEF Transfer
<1> HIDE DEF moved, charged
<1>5. balance' \in [Accounts -> Nat] /\ recycle' \in Nat
  BY <1>1, <1>2, <1>3, <1>4
<1> QED BY <1>5 DEF TypeOK, Transfer, Applies

LEMMA StakeType ==
    ASSUME TypeOK, NEW a \in Accounts, NEW amount \in Amounts, NEW e \in Nat,
           Stake(a, amount, e)
    PROVE  TypeOK'
<1> DEFINE charged == Charged(balance[a] - amount, StandardWeight)
<1>1. /\ balance \in [Accounts -> Nat] /\ stake \in [Accounts -> Nat] /\ recycle \in Nat
      /\ amount \in Nat /\ balance[a] >= amount
  BY DEF TypeOK, Stake
<1>2. balance[a] - amount \in Nat
  BY <1>1
<1>3. charged \in Nat /\ charged <= balance[a] - amount
  BY <1>2, ChargedBound
<1>4. /\ balance' = [balance EXCEPT ![a] = @ - amount - charged]
      /\ recycle' = recycle + charged /\ stake' = [stake EXCEPT ![a] = @ + amount]
  BY DEF Stake
<1> HIDE DEF charged
<1>5. balance' \in [Accounts -> Nat] /\ recycle' \in Nat /\ stake' \in [Accounts -> Nat]
  BY <1>1, <1>2, <1>3, <1>4
<1> QED BY <1>5 DEF TypeOK, Stake, Applies

\* A transfer touches no record of unbonding.
LEMMA TransferFrame ==
    ASSUME NEW a, NEW b, NEW amount, NEW e, Transfer(a, b, amount, e)
    PROVE  Applies(e) /\ UNCHANGED unbonding /\ UNCHANGED since
           /\ UNCHANGED <<unbonding, since>>
BY DEF Transfer

\* The same of a stake.
LEMMA StakeFrame ==
    ASSUME NEW a, NEW amount, NEW e, Stake(a, amount, e)
    PROVE  Applies(e) /\ UNCHANGED unbonding /\ UNCHANGED since
           /\ UNCHANGED <<unbonding, since>>
BY DEF Stake

\* What an Unstake does to the records: its own grows, the others stay.
LEMMA UnstakeRecords ==
    ASSUME TypeOK, NEW a \in Accounts, NEW amount \in Amounts,
           NEW e \in 0..(MaxEpoch + Ahead), Unstake(a, amount, e)
    PROVE  /\ TypeOK'
           /\ ReleaseEpoch(e) \in Releases
           /\ unbonding'[ReleaseEpoch(e)][a] > 0 /\ since'[ReleaseEpoch(e)][a] = cur
           /\ \A r \in Releases, b \in Accounts : r # ReleaseEpoch(e) \/ b # a =>
                 unbonding'[r][b] = unbonding[r][b] /\ since'[r][b] = since[r][b]
<1> DEFINE charged == Charged(balance[a], StandardWeight)
           r == ReleaseEpoch(e)
<1>0. r \in Releases
  BY DEF ReleaseEpoch, Releases
<1>1. /\ balance \in [Accounts -> Nat] /\ stake \in [Accounts -> Nat] /\ recycle \in Nat
      /\ unbonding \in [Releases -> [Accounts -> Nat]]
      /\ since \in [Releases -> [Accounts -> 0..MaxEpoch]]
      /\ amount \in Nat /\ amount > 0 /\ stake[a] >= amount /\ cur \in 0..MaxEpoch
  BY DEF TypeOK, Unstake
<1>2. charged \in Nat /\ charged <= balance[a]
  BY <1>1, ChargedBound
<1>3. /\ balance' = [balance EXCEPT ![a] = @ - charged] /\ recycle' = recycle + charged
      /\ stake' = [stake EXCEPT ![a] = @ - amount]
      /\ unbonding' = [unbonding EXCEPT ![r][a] = @ + amount]
      /\ since' = [since EXCEPT ![r][a] = cur]
  BY DEF Unstake, Joined
<1> HIDE DEF charged, r
<1>4. balance' \in [Accounts -> Nat] /\ recycle' \in Nat /\ stake' \in [Accounts -> Nat]
  BY <1>1, <1>2, <1>3
<1>5. unbonding' \in [Releases -> [Accounts -> Nat]]
  BY <1>0, <1>1, <1>3
<1>6. since' \in [Releases -> [Accounts -> 0..MaxEpoch]]
  BY <1>0, <1>1, <1>3
<1>7. TypeOK'
  BY <1>4, <1>5, <1>6 DEF TypeOK, Unstake, Applies
<1>8. unbonding'[r][a] > 0 /\ since'[r][a] = cur
  BY <1>0, <1>1, <1>3
<1>9. \A q \in Releases, b \in Accounts : q # r \/ b # a =>
         unbonding'[q][b] = unbonding[q][b] /\ since'[q][b] = since[q][b]
  BY <1>0, <1>1, <1>3
<1> QED BY <1>0, <1>7, <1>8, <1>9 DEF r

(***************************************************************************)
(* Type correctness                                                        *)
(***************************************************************************)

LEMMA DrainType ==
    ASSUME TypeOK, draining # None, NEW a \in Accounts
    PROVE  draining \in Releases /\ unbonding[draining][a] \in Nat
<1>1. draining \in 0..MaxEpoch /\ unbonding \in [Releases -> [Accounts -> Nat]]
  BY DEF TypeOK
<1>2. draining \in Releases
  BY <1>1 DEF Releases
<1> QED BY <1>1, <1>2

LEMMA TypeStep == TypeOK /\ (credited # None => draining # None) /\ [Next]_vars => TypeOK'
<1> SUFFICES ASSUME TypeOK, credited # None => draining # None, [Next]_vars PROVE TypeOK'
  OBVIOUS
<1>1. CASE \E a, b \in Accounts, amount \in Amounts, e \in AuthorEpochs :
              Transfer(a, b, amount, e)
  BY <1>1, TransferType DEF AuthorEpochs
<1>2. CASE \E a \in Accounts, amount \in Amounts, e \in AuthorEpochs : Stake(a, amount, e)
  BY <1>2, StakeType DEF AuthorEpochs
<1>3. CASE \E a \in Accounts, amount \in Amounts, e \in AuthorEpochs : Unstake(a, amount, e)
  BY <1>3, UnstakeRecords DEF AuthorEpochs
<1>4. CASE \E e \in 1..MaxEpoch : SealStart(e)
  BY <1>4 DEF TypeOK, SealStart
<1>5. CASE \E a \in Accounts : DrainCredit(a)
  <2>1. PICK a \in Accounts : DrainCredit(a)
    BY <1>5
  <2>2. unbonding[draining][a] \in Nat
    BY <2>1, DrainType DEF DrainCredit
  <2>3. balance' \in [Accounts -> Nat]
    BY <2>1, <2>2 DEF TypeOK, DrainCredit
  <2> QED BY <2>1, <2>3 DEF TypeOK, DrainCredit
<1>6. CASE DrainDelete
  <2>1. credited \in Accounts /\ draining \in Releases
    BY <1>6, DrainType DEF TypeOK, DrainDelete
  <2>2. unbonding' \in [Releases -> [Accounts -> Nat]]
    BY <1>6, <2>1 DEF TypeOK, DrainDelete
  <2> QED BY <1>6, <2>2 DEF TypeOK, DrainDelete
<1>7. CASE SealEnd
  BY <1>7 DEF TypeOK, SealEnd
<1>8. CASE Crash
  BY <1>8 DEF TypeOK, Crash
<1>9. CASE UNCHANGED vars
  BY <1>9 DEF TypeOK, vars
<1> QED BY <1>1, <1>2, <1>3, <1>4, <1>5, <1>6, <1>7, <1>8, <1>9 DEF Next

(***************************************************************************)
(* The window: a record never falls due before the tokens in it have       *)
(* waited, and a drained epoch is never ahead of the chain.                 *)
(***************************************************************************)

WindowInv ==
    /\ TypeOK
    /\ credited # None => draining # None
    /\ draining # None => draining <= cur
    /\ \A r \in Releases, a \in Accounts :
          unbonding[r][a] # 0 => r >= since[r][a] + UnbondingEpochs - StaleWindow

LEMMA WindowInit == Init => WindowInv
<1> SUFFICES ASSUME Init PROVE WindowInv
  OBVIOUS
<1>1. TypeOK
  BY DEF Init, TypeOK
<1> QED BY <1>1 DEF Init, WindowInv

LEMMA WindowStep == WindowInv /\ [Next]_vars => WindowInv'
<1> SUFFICES ASSUME WindowInv, [Next]_vars PROVE WindowInv'
  OBVIOUS
<1>0. TypeOK /\ TypeOK'
  BY TypeStep DEF WindowInv
<1>1. CASE \E a \in Accounts, amount \in Amounts, e \in AuthorEpochs : Unstake(a, amount, e)
  <2>1. PICK a \in Accounts, amount \in Amounts, e \in AuthorEpochs : Unstake(a, amount, e)
    BY <1>1
  <2>2. e \in 0..(MaxEpoch + Ahead) /\ e \in Nat
    BY DEF AuthorEpochs
  <2>3. Fresh(e) /\ UNCHANGED <<cur, draining, credited>>
    BY <2>1 DEF Unstake, Applies
  <2>4. ReleaseEpoch(e) >= cur + UnbondingEpochs - StaleWindow
    BY <1>0, <2>2, <2>3, FreshRelease
  <2>5. \A r \in Releases, b \in Accounts :
           unbonding'[r][b] # 0 => r >= since'[r][b] + UnbondingEpochs - StaleWindow
    <3>1. \A r \in Releases, b \in Accounts : r # ReleaseEpoch(e) \/ b # a =>
             unbonding'[r][b] = unbonding[r][b] /\ since'[r][b] = since[r][b]
      BY <1>0, <2>1, <2>2, UnstakeRecords
    <3>2. since'[ReleaseEpoch(e)][a] = cur
      BY <1>0, <2>1, <2>2, UnstakeRecords
    <3> QED BY <2>4, <3>1, <3>2 DEF WindowInv
  <2> QED BY <1>0, <2>3, <2>5 DEF WindowInv
<1>2. CASE \E e \in 1..MaxEpoch : SealStart(e)
  BY <1>0, <1>2 DEF WindowInv, SealStart, TypeOK
<1>3. CASE DrainDelete
  <2>1. \A r \in Releases, b \in Accounts :
           /\ unbonding'[r][b] = 0 \/ unbonding'[r][b] = unbonding[r][b]
           /\ since'[r][b] = since[r][b]
    BY <1>0, <1>3 DEF TypeOK, DrainDelete
  <2> QED BY <1>0, <1>3, <2>1 DEF WindowInv, DrainDelete
<1>4. CASE \/ \E a, b \in Accounts, amount \in Amounts, e \in AuthorEpochs :
                  Transfer(a, b, amount, e)
           \/ \E a \in Accounts, amount \in Amounts, e \in AuthorEpochs : Stake(a, amount, e)
  <2>1. \E e \in AuthorEpochs : Applies(e) /\ UNCHANGED <<unbonding, since>>
    BY <1>4, TransferFrame, StakeFrame, Zenon
  <2>2. UNCHANGED <<cur, unbonding, since, draining, credited>>
    BY <2>1 DEF Applies
  <2> QED BY <1>0, <2>2 DEF WindowInv
<1>5. CASE (\E a \in Accounts : DrainCredit(a)) \/ SealEnd \/ Crash \/ UNCHANGED vars
  BY <1>0, <1>5 DEF WindowInv, DrainCredit, SealEnd, Crash, vars
<1> QED BY <1>1, <1>2, <1>3, <1>4, <1>5 DEF Next

LEMMA WindowAlways == Spec => []WindowInv
BY WindowInit, WindowStep, PTL DEF Spec

\* Balances, stakes and records stay natural numbers: no debit of a transfer, a
\* stake, an unstake or a fee (tx.rs 2177-2192) takes more than there is.
THEOREM UnbondingTypeCorrect == Spec => []TypeOK
<1>1. WindowInv => TypeOK
  BY DEF WindowInv
<1> QED BY <1>1, WindowAlways, PTL

\* Unstaked tokens wait UNBONDING_EPOCHS - STALE_WINDOW epochs from the epoch in
\* which the Unstake was applied, through crashes and epochs that are skipped or
\* come out of order (chain.rs 923-942, 3878-3893).
THEOREM HeldForWindowHolds == Spec => HeldForWindow
<1> DEFINE Held1(r, a) == unbonding[r][a] # 0 /\ unbonding'[r][a] = 0 =>
                             cur >= since[r][a] + UnbondingEpochs - StaleWindow
<1>1. ASSUME WindowInv, [Next]_vars
      PROVE  [\A r \in Releases, a \in Accounts : Held1(r, a)]_vars
  <2> SUFFICES ASSUME Next, NEW r \in Releases, NEW a \in Accounts,
                      unbonding[r][a] # 0, unbonding'[r][a] = 0
               PROVE  cur >= since[r][a] + UnbondingEpochs - StaleWindow
    BY <1>1
  <2>0. TypeOK
    BY <1>1 DEF WindowInv
  <2>1. CASE DrainDelete
    <3>1. draining # None /\ draining \in 0..MaxEpoch /\ draining <= cur /\ cur \in Nat
      BY <1>1, <2>0, <2>1 DEF WindowInv, DrainDelete, TypeOK
    <3>2. r = draining
      BY <2>0, <2>1 DEF DrainDelete, TypeOK
    <3>3. r >= since[r][a] + UnbondingEpochs - StaleWindow /\ since[r][a] \in Nat
      BY <1>1, <2>0 DEF WindowInv, TypeOK
    <3> QED BY <3>1, <3>2, <3>3
  <2>2. CASE \E b \in Accounts, amount \in Amounts, e \in AuthorEpochs : Unstake(b, amount, e)
    <3>1. PICK b \in Accounts, amount \in Amounts, e \in AuthorEpochs : Unstake(b, amount, e)
      BY <2>2
    <3>2. e \in 0..(MaxEpoch + Ahead)
      BY DEF AuthorEpochs
    <3> QED BY <2>0, <3>1, <3>2, UnstakeRecords
  <2>3. CASE UNCHANGED unbonding
    BY <2>3
  <2>4. DrainDelete \/ UNCHANGED unbonding
        \/ \E b \in Accounts, amount \in Amounts, e \in AuthorEpochs : Unstake(b, amount, e)
    BY TransferFrame, StakeFrame, Zenon DEF Next, SealStart, DrainCredit, SealEnd, Crash
  <2> QED BY <2>1, <2>2, <2>3, <2>4
<1> QED BY <1>1, WindowAlways, PTL DEF Spec, HeldForWindow

(***************************************************************************)
(* Release: a handled epoch is behind the chain, an Unstake only ever joins *)
(* a record ahead of it.                                                    *)
(***************************************************************************)

ReleaseInv ==
    /\ TypeOK
    /\ credited # None => draining # None
    /\ \A r \in handled : r <= cur
    /\ HandledReleased

LEMMA ReleaseStep == ReleaseInv /\ [Next]_vars => ReleaseInv'
<1> SUFFICES ASSUME ReleaseInv, [Next]_vars PROVE ReleaseInv'
  OBVIOUS
<1>0. TypeOK /\ TypeOK'
  BY TypeStep DEF ReleaseInv
<1>h. cur \in Nat /\ Releases \subseteq Nat /\ handled \subseteq Releases
  BY <1>0 DEF TypeOK, Releases
<1>1. CASE \E a \in Accounts, amount \in Amounts, e \in AuthorEpochs : Unstake(a, amount, e)
  <2>1. PICK a \in Accounts, amount \in Amounts, e \in AuthorEpochs : Unstake(a, amount, e)
    BY <1>1
  <2>2. e \in 0..(MaxEpoch + Ahead) /\ e \in Nat
    BY DEF AuthorEpochs
  <2>3. Fresh(e) /\ UNCHANGED <<cur, draining, handled, credited>>
    BY <2>1 DEF Unstake, Applies
  <2>4. ReleaseEpoch(e) > cur
    BY <1>0, <2>2, <2>3, FreshRelease
  <2>5. ASSUME NEW r \in handled, NEW b \in Accounts
        PROVE  unbonding'[r][b] = unbonding[r][b]
    <3>1. r # ReleaseEpoch(e)
      BY <1>h, <2>2, <2>4 DEF ReleaseInv, ReleaseEpoch
    <3> QED BY <1>0, <1>h, <2>1, <2>2, <3>1, UnstakeRecords, ZenonT(40)
  <2> QED BY <1>0, <2>3, <2>5 DEF ReleaseInv, HandledReleased
<1>2. CASE \E e \in 1..MaxEpoch : SealStart(e)
  <2>1. PICK e \in 1..MaxEpoch : SealStart(e)
    BY <1>2
  <2>2. /\ draining = None /\ draining' = e /\ handled' = handled \cup {e}
        /\ cur' = (IF e > cur THEN e ELSE cur) /\ UNCHANGED <<unbonding, credited>>
    BY <2>1 DEF SealStart
  <2>3. \A r \in handled' : r <= cur'
    BY <1>h, <2>2 DEF ReleaseInv
  <2>4. None \notin handled
    <3>1. handled \subseteq 0..MaxEpoch
      BY <1>0 DEF TypeOK
    <3> QED BY <3>1
  <2>5. HandledReleased'
    BY <2>2, <2>4 DEF ReleaseInv, HandledReleased
  <2> QED BY <1>0, <2>2, <2>3, <2>5 DEF ReleaseInv
<1>3. CASE DrainDelete
  <2>1. \A r \in Releases, b \in Accounts :
           unbonding'[r][b] = 0 \/ unbonding'[r][b] = unbonding[r][b]
    BY <1>0, <1>3 DEF TypeOK, DrainDelete
  <2> QED BY <1>0, <1>h, <1>3, <2>1 DEF ReleaseInv, HandledReleased, DrainDelete
<1>4. CASE SealEnd
  BY <1>0, <1>4 DEF ReleaseInv, HandledReleased, SealEnd
<1>5. CASE \/ \E a, b \in Accounts, amount \in Amounts, e \in AuthorEpochs :
                  Transfer(a, b, amount, e)
           \/ \E a \in Accounts, amount \in Amounts, e \in AuthorEpochs : Stake(a, amount, e)
  <2>1. \E e \in AuthorEpochs : Applies(e) /\ UNCHANGED unbonding
    BY <1>5, TransferFrame, StakeFrame, Zenon
  <2>2. UNCHANGED <<cur, unbonding, draining, handled, credited>>
    BY <2>1 DEF Applies
  <2> QED BY <1>0, <2>2 DEF ReleaseInv, HandledReleased
<1>6. CASE (\E a \in Accounts : DrainCredit(a)) \/ UNCHANGED vars
  BY <1>0, <1>6 DEF ReleaseInv, HandledReleased, DrainCredit, vars
<1>7. CASE Crash
  BY <1>0, <1>7 DEF ReleaseInv, HandledReleased, Crash
<1> QED BY <1>1, <1>2, <1>3, <1>4, <1>5, <1>6, <1>7 DEF Next

\* No record is left, and none can appear, in an epoch the running process has
\* handled, whatever epochs are skipped or come out of order and however late an
\* Unstake is: drain_unbonding (chain.rs 3878-3893) visits an epoch's records once,
\* and the stale-entry guard keeps every later Unstake out of them.
THEOREM HandledReleasedHolds == Spec => []HandledReleased
<1>1. Init => ReleaseInv
  <2> SUFFICES ASSUME Init PROVE ReleaseInv
    OBVIOUS
  <2>1. TypeOK
    BY WindowInit DEF WindowInv
  <2> QED BY <2>1 DEF Init, ReleaseInv, HandledReleased
<1>2. ReleaseInv => HandledReleased
  BY DEF ReleaseInv
<1> QED BY <1>1, <1>2, ReleaseStep, PTL DEF Spec
==============================================================================
