---------------------------- MODULE MCGovernance ----------------------------
(* Small instances of Governance: a stake minimum of 2 that may rise by half. *)
EXTENDS Governance

CONSTANTS a1, a2, minStake, governance_keys

\* A motion, a change of the stake minimum, and a change of the council.
OneMotion == {[action |-> "param_set", key |-> minStake, value |-> 4]}
RateChanges == {[key |-> minStake, value |-> v] : v \in {1, 3, 6}}
AllChanges == RateChanges \cup {[key |-> governance_keys, value |-> {a2}]}
=============================================================================
