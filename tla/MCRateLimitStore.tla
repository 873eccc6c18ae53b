-------------------------- MODULE MCRateLimitStore --------------------------
EXTENDS RateLimitStore, TLC
CONSTANTS k1, k2, k3, k4
MCKeys == {k1, k2, k3, k4}
SameWindow == [k \in MCKeys |-> 2]
Symmetry == Permutations(MCKeys)
=============================================================================
