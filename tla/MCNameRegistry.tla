--------------------------- MODULE MCNameRegistry ---------------------------
(***************************************************************************)
(* One name that is auctioned or minted and sold, an item, two credential   *)
(* ids (the second is read back as the first).                              *)
(***************************************************************************)
EXTENDS NameRegistry

\* A lone guardian with a backup account, and a pair with the founders behind it.
Lone == [guardians |-> {"bob"}, threshold |-> 1, dest |-> "carol", backstop |-> FALSE]
Pair == [guardians |-> {"bob", "carol"}, threshold |-> 2, dest |-> "alice", backstop |-> TRUE]

MCConfigs == {Lone, Pair}

MCLimits ==
    {[lots |-> {"n1", "i1"}, opens |-> 2, crashes |-> 1, names |-> {}, tokens |-> {},
      configs |-> {}],
     [lots |-> {"n2"}, opens |-> 1, crashes |-> 0, names |-> {"n1", "n2"}, tokens |-> {},
      configs |-> {Lone}],
     [lots |-> {}, opens |-> 0, crashes |-> 0, names |-> {"n1"}, tokens |-> TokenIds,
      configs |-> {Lone}],
     [lots |-> {}, opens |-> 0, crashes |-> 0, names |-> {"n1"}, tokens |-> {},
      configs |-> MCConfigs]}

MCTier == [n \in Names |-> 1]

MCTail == [t \in TokenIds |-> "t1"]
==============================================================================
