--------------------------- MODULE MCCacheEnhancer --------------------------
EXTENDS CacheEnhancer, TLC
CONSTANTS a, b, i1, i2, i3, s1, s2
MCInputs == {i1, i2, i3}
MCSlots == {s1, s2}
Symmetry == Permutations(MCInputs) \union Permutations(MCSlots)
=============================================================================
