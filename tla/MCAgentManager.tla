--------------------------- MODULE MCAgentManager ---------------------------
EXTENDS AgentManager, TLC

CONSTANTS c1, c2, r1, r2, s1

\* One write of the configuration, which switches the memory backend.
Switch == [v \in 0..1 |-> v]
\* No write: the only reload there is would find no other generation anyway.
Fixed == [v \in {0} |-> v]
Symmetry == Permutations(Clients) \cup Permutations(Reloads)
=============================================================================
