---------------------------- MODULE MCWsTransport ---------------------------
EXTENDS WsTransport, TLC
CONSTANTS c1, c2, e1, e2
=============================================================================
