-------------------------- MODULE MCRewardConsensus --------------------------
(* Instances of RewardConsensus for TLC; nodes are numbers 1, 2, ... *)
EXTENDS RewardConsensus, FiniteSetsExt

\* One node is fresh, the others have them all.
KnownButOne == [n \in Nodes |-> IF n = 3 THEN {} ELSE Nodes]
\* Two pairs, each founded without having met the other (for EpochAgreement).
KnownPairs == [n \in Nodes |-> IF n <= 2 THEN {1, 2} ELSE {3, 4}]

\* No registration crosses between the pairs while they seal.
Partitioned == \A n \in Nodes : store[n] = Known[n] \cup {n}

\* A lexicographic order of the hashes.
BinaryRank == [h \in SUBSET Nodes |-> MapThenSumSet(LAMBDA n : 2 ^ n, h)]
==============================================================================
