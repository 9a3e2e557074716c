--------------------------- MODULE MCOrderLadder ---------------------------
EXTENDS OrderLadder
=============================================================================
