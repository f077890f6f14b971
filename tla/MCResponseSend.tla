--------------------------- MODULE MCResponseSend ---------------------------
EXTENDS ResponseSend, TLC

CONSTANTS t1, t2
=============================================================================
