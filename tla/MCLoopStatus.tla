---------------------------- MODULE MCLoopStatus ----------------------------
EXTENDS LoopStatus
=============================================================================
