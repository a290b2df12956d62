---------------------------- MODULE OrderedRewards ---------------------------
(***************************************************************************)
(* What the reward driver promises (main.rs 403-411): the rewards of every  *)
(* epoch are applied exactly once, in ascending order, from epoch 1.        *)
(***************************************************************************)
EXTENDS Integers

CONSTANT MaxEpoch   \* the last epoch considered

VARIABLE paid       \* paid[e]: how often the rewards of e have been applied

Epochs == 1..MaxEpoch

Init == paid = [e \in Epochs |-> 0]

\* The next epoch in line is paid, once.
Pay(e) ==
    /\ paid[e] = 0
    /\ \A d \in 1..(e - 1) : paid[d] = 1
    /\ paid' = [paid EXCEPT ![e] = 1]

Next == \E e \in Epochs : Pay(e)

Spec == Init /\ [][Next]_paid
==============================================================================
