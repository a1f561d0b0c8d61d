--------------------------- MODULE MCUnifiedQueue ---------------------------
EXTENDS UnifiedQueue

CONSTANTS k1, k2, m1, m2, m3, m4, s1, s2, s3

OneKey == [m \in Messages |-> k1]
TwoKeys == [m \in Messages |-> IF m = m1 THEN k1 ELSE k2]

\* QueueStates are interchangeable, and so are the payloads of k2.
Symmetry == Permutations(States) \cup Permutations({m2, m3, m4})
=============================================================================
