------------------------------ MODULE MCSlabd -------------------------------
EXTENDS Slabd, TLC
CONSTANTS c1, c2, m1, root
=============================================================================
