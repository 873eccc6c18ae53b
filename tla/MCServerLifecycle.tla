------------------------- MODULE MCServerLifecycle --------------------------
EXTENDS ServerLifecycle
CONSTANTS c1, c2
=============================================================================
