----------------------------- MODULE FinalizeRule ----------------------------
(***************************************************************************)
(* The fork-choice rule of Chain::apply_entry for EpochFinalize             *)
(* (chain.rs 1114-1172), as an operator on finality records.  A record has  *)
(* fields hash and quorum (sealed_by and the rest travel with it); `rank'   *)
(* is the position of a hash in the lexicographic order of hex strings.     *)
(***************************************************************************)
EXTENDS Integers

\* Mutant: at equal quorum the later entry wins.
NewWinsOnTie(prev, new, rank) == new.quorum >= prev.quorum

\* new_wins: more signers, or as many and the smaller hash.
NewWins(prev, new, rank) ==
    \/ new.quorum > prev.quorum
    \/ new.quorum = prev.quorum /\ rank[new.hash] < rank[prev.hash]

\* What the epoch's record is after the entry: the incoming one, unless a
\* record of another hash beats it.  An entry with the hash already recorded
\* falls through to the write.
AfterEpochFinalize(prev, new, none, rank) ==
    IF prev = none \/ prev.hash = new.hash \/ NewWins(prev, new, rank)
    THEN new ELSE prev

\* Competing hashes leave fork_evidence:{epoch}, whoever wins.
IsFork(prev, new, none) == prev # none /\ prev.hash # new.hash
==============================================================================
