---------------------------- MODULE MCInference -----------------------------
(* Instances of InferenceMarket for TLC *)
EXTENDS InferenceMarket

\* A board of three and a crash, without overlap; then one worker and one verifier whose
\* handlers overlap with the daemon's.
JobsLimits ==
    {[bidders |-> {2, 3}, board |-> {1, 3, 4}, committers |-> {4}, reviewers |-> {1, 2, 4},
      sizes |-> {3}, overlap |-> FALSE, crashes |-> 1],
     [bidders |-> {2}, board |-> {3}, committers |-> {}, reviewers |-> {}, sizes |-> {1},
      overlap |-> TRUE, crashes |-> 1]}

\* A dispute nobody claims.
ClaimsLimits ==
    {[bidders |-> {2}, board |-> {3}, committers |-> {3}, reviewers |-> {1}, sizes |-> {1},
      overlap |-> FALSE, crashes |-> 0]}
=============================================================================
