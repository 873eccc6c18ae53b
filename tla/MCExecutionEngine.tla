------------------------- MODULE MCExecutionEngine --------------------------
(* Every shape of capability with up to MaxGuards guards of each kind.       *)
EXTENDS ExecutionEngine
=============================================================================
