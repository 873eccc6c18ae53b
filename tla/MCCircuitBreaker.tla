-------------------------- MODULE MCCircuitBreaker --------------------------
(* The breaker with three concurrent calls (safety) and with two (liveness). *)
EXTENDS CircuitBreaker, TLC

CONSTANTS c1, c2, c3

MCCalls == {c1, c2, c3}
Symmetry == Permutations(MCCalls)
=============================================================================
