----------------------------- MODULE MCClockSeal -----------------------------
(* Instances of ClockSeal for TLC; clocks are numbers 1, 2, ... *)
EXTENDS ClockSeal

FourClocks == {1, 2, 3, 4}
Second == {2}

\* Nobody is registered, the two clocks that seal, or two more: their seals are a quorum
\* of the first two sets and not of the third.
SomeRegistries == {{}, {1, 2}, Clocks}
\* A clock whose registration has not reached this node (for OnlyRegisteredSign).
FirstOnly == {{1}}

\* The clocks seal at the start and at the end of their epochs.
Spread == [n \in Clocks |-> IF n = 1 THEN 0 ELSE EpochMs - 1]
==============================================================================
