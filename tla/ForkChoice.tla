------------------------------ MODULE ForkChoice -----------------------------
(***************************************************************************)
(* Competing EpochFinalize entries of one epoch, applied by several nodes,  *)
(* each in an order of its own and possibly again (Chain::apply_entry,      *)
(* chain.rs 1114-1172): which record each node ends up with.                *)
(***************************************************************************)
EXTENDS FinalizeRule, FiniteSets

CONSTANTS Nodes,
          Entries,  \* EpochFinalize entries: [hash, quorum, sealed_by]
          Rank,     \* position of a hash in the lexicographic order
          None

ASSUME EntriesType ==
    /\ \A x \in Entries : x.quorum \in Nat /\ Rank[x.hash] \in Nat
    /\ \A x, y \in Entries : Rank[x.hash] = Rank[y.hash] => x.hash = y.hash
    /\ None \notin Entries

VARIABLES
    meta,      \* meta[n]: epoch_meta of the epoch at n, or None
    evidence,  \* evidence[n]: fork_evidence:{epoch} has been written
    applied    \* applied[n]: the entries n has applied so far

vars == <<meta, evidence, applied>>

TypeOK ==
    /\ meta \in [Nodes -> Entries \cup {None}]
    /\ evidence \in [Nodes -> BOOLEAN]
    /\ applied \in [Nodes -> SUBSET Entries]

Init ==
    /\ meta = [n \in Nodes |-> None]
    /\ evidence = [n \in Nodes |-> FALSE]
    /\ applied = [n \in Nodes |-> {}]

\* Node n applies x, for the first time or again.
EpochFinalize(n, x) ==
    /\ meta' = [meta EXCEPT ![n] = AfterEpochFinalize(@, x, None, Rank)]
    /\ evidence' = [evidence EXCEPT ![n] = @ \/ IsFork(meta[n], x, None)]
    /\ applied' = [applied EXCEPT ![n] = @ \cup {x}]

Next == \E n \in Nodes, x \in Entries : EpochFinalize(n, x)

Spec == Init /\ [][Next]_vars

------------------------------------------------------------------------------
\* x has more authority than y: the heaviest-quorum rule with its tiebreaker.
Heavier(x, y) ==
    \/ x.quorum > y.quorum
    \/ x.quorum = y.quorum /\ Rank[x.hash] < Rank[y.hash]

\* Whichever vote count an entry of hash h reports, it has more authority than any
\* entry of another hash in S.
Dominates(h, S) ==
    /\ \E x \in S : x.hash = h
    /\ \A x, y \in S : x.hash = h /\ y.hash # h => Heavier(x, y)

\* Nodes that have applied EpochFinalize entries in whatever order and however often,
\* not even the same ones, record the same hash when one hash dominates what each has
\* applied.  An entry reports the votes its proposer had counted when it decided
\* (clock.rs 212-217), so a hash may come with several counts.
Converged ==
    \A n, m \in Nodes :
        (\E x \in applied[n] : Dominates(x.hash, applied[n]) /\ Dominates(x.hash, applied[m])) =>
            meta[n].hash = meta[m].hash

\* "Record fork evidence for auditors regardless of outcome" (chain.rs 1140): a
\* node has evidence exactly when it has applied entries of different hashes.
EvidenceComplete ==
    \A n \in Nodes :
        evidence[n] <=> \E x, y \in applied[n] : x.hash # y.hash

\* chain.rs 1115-1117: "the one with more registered signers wins. Equal quorum:
\* smaller rewards_hash wins".
HeaviestWins ==
    \A n \in Nodes : \A x \in applied[n] : ~Heavier(x, meta[n])
==============================================================================
