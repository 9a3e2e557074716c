------------------------- MODULE MCStreamSupervisor -------------------------
EXTENDS StreamSupervisor
=============================================================================
