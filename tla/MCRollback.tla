----------------------------- MODULE MCRollback -----------------------------
(* One invocation under every enhancer stack, up to MaxSteps registrations.  *)
EXTENDS Rollback
=============================================================================
