------------------------- MODULE MCReidPersistence -------------------------
(* ReidPersistence with two slots, in several mixes of events.              *)
EXTENDS ReidPersistence

Mix(f) == [e \in Events |-> IF e \in DOMAIN f THEN f[e] ELSE 0]

MCBudgets ==
  {Mix([sessions |-> 1, crops |-> 2, withdrawals |-> 1, requestFaults |-> 1]),
   Mix([sessions |-> 2, crops |-> 2, requestFaults |-> 1, crashes |-> 1]),
   Mix([sessions |-> 1, crops |-> 2, evidenceFaults |-> 1, timeouts |-> 1, clears |-> 1])}
=============================================================================
