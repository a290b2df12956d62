--------------------------- MODULE ForkChoiceProofs --------------------------
(***************************************************************************)
(* What the fork-choice rule records whatever the order in which entries    *)
(* are applied, for every set of entries.                                   *)
(***************************************************************************)
EXTENDS ForkChoice, TLAPS

\* What a node records it has applied.
MetaApplied ==
    \A n \in Nodes : (applied[n] = {} /\ meta[n] = None) \/ meta[n] \in applied[n]

\* A hash that dominates what a node has applied is the one it records.
DominantRecorded ==
    \A n \in Nodes : \A x \in applied[n] : Dominates(x.hash, applied[n]) => meta[n].hash = x.hash

FInv == TypeOK /\ MetaApplied /\ EvidenceComplete /\ DominantRecorded

\* An entry that has more authority replaces the record, and a record that has more is
\* kept.
LEMMA RuleKeepsHeavier ==
    ASSUME NEW p \in Entries, NEW x \in Entries
    PROVE  LET r == AfterEpochFinalize(p, x, None, Rank)
           IN  /\ r \in {p, x} /\ (p.hash = x.hash => r = x)
               /\ (Heavier(x, p) => r = x) /\ (p.hash # x.hash /\ Heavier(p, x) => r = p)
<1>1. /\ p.quorum \in Nat /\ x.quorum \in Nat /\ Rank[p.hash] \in Nat /\ Rank[x.hash] \in Nat
      /\ p # None
  BY EntriesType
<1> QED BY <1>1 DEF AfterEpochFinalize, NewWins, Heavier

\* If h dominates when the entry x is added, the rule leaves h recorded.
LEMMA RuleKeepsDominant ==
    ASSUME NEW S \in SUBSET Entries, NEW x \in Entries, NEW p, NEW h,
           (S = {} /\ p = None) \/ p \in S,
           Dominates(h, S) => p.hash = h,
           Dominates(h, S \cup {x})
    PROVE  AfterEpochFinalize(p, x, None, Rank).hash = h
<1> DEFINE r == AfterEpochFinalize(p, x, None, Rank)
<1>1. CASE S = {} /\ p = None
  <2>1. r = x /\ x.hash = h
    BY <1>1 DEF AfterEpochFinalize, Dominates
  <2> QED BY <2>1
<1>2. CASE p \in S
  <2>1. /\ p \in Entries /\ r \in {p, x} /\ (p.hash = x.hash => r = x)
        /\ (Heavier(x, p) => r = x) /\ (p.hash # x.hash /\ Heavier(p, x) => r = p)
    BY <1>2, RuleKeepsHeavier
  <2> HIDE DEF r
  <2>2. CASE x.hash = h
    <3>1. p.hash # h => Heavier(x, p)
      BY <1>2, <2>2 DEF Dominates
    <3> QED BY <2>1, <2>2, <3>1 DEF r
  <2>3. CASE x.hash # h
    <3>1. Dominates(h, S)
      BY <2>3 DEF Dominates
    <3>2. p.hash = h /\ Heavier(p, x)
      BY <1>2, <2>3, <3>1 DEF Dominates
    <3> QED BY <2>1, <2>3, <3>2 DEF r
  <2> QED BY <2>2, <2>3
<1> QED BY <1>1, <1>2

LEMMA NextFInv == FInv /\ [Next]_vars => FInv'
<1> SUFFICES ASSUME FInv, [Next]_vars PROVE FInv'
  OBVIOUS
<1>t. TypeOK
  BY DEF FInv
<1>1. ASSUME NEW n \in Nodes, NEW x \in Entries, EpochFinalize(n, x) PROVE FInv'
  <2> DEFINE r == AfterEpochFinalize(meta[n], x, None, Rank)
             ev == evidence[n] \/ IsFork(meta[n], x, None)
  <2>0. /\ meta[n] \in Entries \cup {None} /\ applied[n] \subseteq Entries
        /\ evidence[n] \in BOOLEAN
    BY <1>t DEF TypeOK
  <2>1. /\ (applied[n] = {} /\ meta[n] = None) \/ meta[n] \in applied[n]
        /\ r \in applied[n] \cup {x}
    BY DEF FInv, MetaApplied, AfterEpochFinalize
  <2>d. \A y \in applied[n] \cup {x} : Dominates(y.hash, applied[n] \cup {x}) => r.hash = y.hash
    <3> SUFFICES ASSUME NEW y \in applied[n] \cup {x}, Dominates(y.hash, applied[n] \cup {x})
                 PROVE  r.hash = y.hash
      OBVIOUS
    <3>1. Dominates(y.hash, applied[n]) => meta[n].hash = y.hash
      BY DEF FInv, DominantRecorded, Dominates
    <3> QED BY <2>0, <2>1, <3>1, RuleKeepsDominant
  <2>2. ev <=> \E y, z \in applied[n] \cup {x} : y.hash # z.hash
    <3>1. evidence[n] <=> \E y, z \in applied[n] : y.hash # z.hash
      BY DEF FInv, EvidenceComplete
    <3>2. CASE applied[n] = {} /\ meta[n] = None
      BY <3>1, <3>2 DEF IsFork
    <3>3. CASE meta[n] \in applied[n]
      <4>1. meta[n] # None
        BY <2>0, <3>3, EntriesType
      <4> QED BY <3>1, <3>3, <4>1 DEF IsFork
    <3> QED BY <2>1, <3>2, <3>3
  <2> HIDE DEF r, ev
  <2>3. /\ meta' = [meta EXCEPT ![n] = r]
        /\ evidence' = [evidence EXCEPT ![n] = ev]
        /\ applied' = [applied EXCEPT ![n] = @ \cup {x}]
    BY <1>1 DEF EpochFinalize, r, ev
  <2>4. ev \in BOOLEAN
    BY <2>0, Zenon DEF ev
  <2>5. TypeOK'
    BY <1>t, <2>0, <2>1, <2>3, <2>4 DEF TypeOK
  <2>6. /\ meta'[n] = r /\ evidence'[n] = ev /\ applied'[n] = applied[n] \cup {x}
        /\ \A m \in Nodes : m # n => /\ meta'[m] = meta[m] /\ evidence'[m] = evidence[m]
                                     /\ applied'[m] = applied[m]
    BY <1>t, <2>3 DEF TypeOK
  <2>7. MetaApplied'
    BY <2>1, <2>6 DEF FInv, MetaApplied
  <2>9. DominantRecorded'
    <3>1. \A y \in applied'[n] : Dominates(y.hash, applied'[n]) => meta'[n].hash = y.hash
      BY <2>6, <2>d
    <3>2. \A m \in Nodes : m # n =>
             \A y \in applied'[m] : Dominates(y.hash, applied'[m]) => meta'[m].hash = y.hash
      BY <2>6 DEF FInv, DominantRecorded
    <3>3. \A m \in Nodes : \A y \in applied'[m] :
             Dominates(y.hash, applied'[m]) => meta'[m].hash = y.hash
      BY <3>1, <3>2, Zenon
    <3> QED BY <3>3 DEF DominantRecorded, Dominates, Heavier
  <2>8. EvidenceComplete'
    BY <2>2, <2>6 DEF FInv, EvidenceComplete
  <2> QED BY <2>5, <2>7, <2>8, <2>9 DEF FInv
<1>2. CASE UNCHANGED vars
  BY <1>2 DEF vars, FInv, TypeOK, MetaApplied, DominantRecorded, EvidenceComplete
<1> QED BY <1>1, <1>2 DEF Next

LEMMA InitFInv == Init => FInv
<1> SUFFICES ASSUME Init PROVE FInv
  OBVIOUS
<1>1. TypeOK
  BY DEF Init, TypeOK
<1>2. \A n \in Nodes : applied[n] = {} /\ meta[n] = None /\ evidence[n] = FALSE
  BY DEF Init
<1> QED BY <1>1, <1>2 DEF FInv, MetaApplied, DominantRecorded, EvidenceComplete

LEMMA DominantConverges == FInv => Converged
<1> SUFFICES ASSUME FInv, NEW n \in Nodes, NEW m \in Nodes, NEW x \in applied[n],
                    Dominates(x.hash, applied[n]), Dominates(x.hash, applied[m])
             PROVE  meta[n].hash = meta[m].hash
  BY DEF Converged
<1>1. PICK y \in applied[m] : y.hash = x.hash
  BY DEF Dominates
<1>2. meta[n].hash = x.hash /\ meta[m].hash = y.hash
  BY <1>1 DEF FInv, DominantRecorded
<1> QED BY <1>1, <1>2

\* Whatever the order and the repetitions, and whatever vote counts the EpochFinalize
\* entries report, nodes at which the same hash dominates record that hash
\* (chain.rs 1118-1172).
THEOREM OrderIndependence == Spec => []Converged
<1> QED BY NextFInv, InitFInv, DominantConverges, PTL DEF Spec

\* Fork evidence (chain.rs 1140-1149) is complete and never spurious: a node has it
\* exactly when it has applied two entries of different hashes, whatever their counts.
THEOREM EvidenceCompleteHolds == Spec => []EvidenceComplete
<1>1. FInv => EvidenceComplete
  BY DEF FInv
<1> QED BY <1>1, NextFInv, InitFInv, PTL DEF Spec
==============================================================================
