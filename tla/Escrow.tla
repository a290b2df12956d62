------------------------------- MODULE Escrow -------------------------------
(***************************************************************************)
(* What a market that holds deposits promises: the deposit of an item is    *)
(* taken once, given out only after it was taken, and given out once.       *)
(* Every fault, a write that is lost when the process stops or that meets   *)
(* another, may make the market forget one of these and do it once more.    *)
(***************************************************************************)
EXTENDS Naturals

CONSTANT Items
VARIABLES
    taken, given,   \* how often the deposit of an item came in and went out
    faults

vars == <<taken, given, faults>>

Init == taken = [i \in Items |-> 0] /\ given = [i \in Items |-> 0] /\ faults = 0

\* A fault may come with the movement it allows.
Fault == faults' = faults + 1

Take(i) == /\ taken[i] <= faults'
           /\ taken' = [taken EXCEPT ![i] = @ + 1]
           /\ UNCHANGED given

Give(i) == /\ taken[i] > 0 /\ given[i] <= faults'
           /\ given' = [given EXCEPT ![i] = @ + 1]
           /\ UNCHANGED taken

Next ==
    /\ Fault \/ UNCHANGED faults
    /\ UNCHANGED <<taken, given>> \/ \E i \in Items : Take(i) \/ Give(i)

Spec == Init /\ [][Next]_vars
=============================================================================
