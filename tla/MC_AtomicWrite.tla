---------------------------- MODULE MC_AtomicWrite ----------------------------
\* Concurrent calls on one destination, every failure enabled: three calls for
\* the safety properties, two for the refinement and the liveness property,
\* which symmetry would not preserve.
EXTENDS AtomicWrite, TLC

CONSTANTS w1, w2, w3

MC_Writers == {w1, w2, w3}
MC_Pair == {w1, w2}
MC_Symmetry == Permutations(MC_Writers)
===============================================================================
