----------------------------- MODULE MCForkChoice ----------------------------
(* Instances of ForkChoice for TLC; hashes are numbers in lexicographic order *)
EXTENDS ForkChoice

HashOrder == [h \in 1..4 |-> h]

Finalize(h, q, s) == [hash |-> h, quorum |-> q, sealed_by |-> s]

\* Four hashes, a tie between two of them, and two vote counts and sealer sets for one:
\* hash 3 dominates the fourth with both, and the first two only with the higher.
Recounted == {Finalize(1, 2, {}), Finalize(2, 2, {1}), Finalize(3, 3, {1, 2}),
              Finalize(3, 2, {}), Finalize(4, 1, {2})}
==============================================================================
