-------------------------- MODULE MCWakelockBlocker --------------------------
EXTENDS WakelockBlocker
CONSTANTS s1, s2, r1, pm
=============================================================================
