----------------------------- MODULE MCV2Ladder -----------------------------
EXTENDS V2Ladder
=============================================================================
