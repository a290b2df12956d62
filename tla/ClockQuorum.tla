----------------------------- MODULE ClockQuorum -----------------------------
(***************************************************************************)
(* Vote counting shared by the clock's two quorums (clock.rs): epoch seals  *)
(* (resolve_epoch) and reward proposals (receive_reward_proposal).  A vote  *)
(* is any record with a "node" and a "hash" field; nodes vote at most once  *)
(* in the sets these operators are applied to.                              *)
(***************************************************************************)
EXTENDS Integers, FiniteSets

\* ceil(n * MIN_QUORUM_FRACTION), the fraction being 51/100.
FractionCeil(n) == (51 * n + 99) \div 100

\* Mutant: the fraction rounds down and the absolute floor is forgotten.
QuorumRoundedDown(denominator, floor) == (51 * denominator) \div 100

\* The larger of the two bounds a quorum has to meet: the fraction of the
\* denominator, and an absolute floor.
QuorumNeeded(denominator, floor) ==
    IF FractionCeil(denominator) > floor THEN FractionCeil(denominator) ELSE floor

\* Unregistered nodes cannot vote once the registered set is known.
ValidVotes(registered, votes) ==
    IF registered = {} THEN votes ELSE {v \in votes : v.node \in registered}

\* The registered set when it is known, else the votes observed.
Denominator(registered, votes) ==
    IF registered = {} THEN Cardinality(votes) ELSE Cardinality(registered)

\* The nodes behind one hash.
VotersFor(votes, hash) == {v.node : v \in {w \in votes : w.hash = hash}}

\* The hashes max_by_key may return: those with the most voters.  HashMap
\* iteration order decides between several.
MostVoted(votes) ==
    {h \in {v.hash : v \in votes} :
        \A v \in votes : Cardinality(VotersFor(votes, v.hash))
                            <= Cardinality(VotersFor(votes, h))}
==============================================================================
