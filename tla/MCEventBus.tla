----------------------------- MODULE MCEventBus -----------------------------
EXTENDS RedisEventBus, TLC
CONSTANTS k1, k2, k3, e1, e2
MCKeys == {k1, k2, k3}
MCEvents == {e1, e2}
Symmetry == Permutations(MCKeys) \union Permutations(MCEvents)
=============================================================================
