------------------------------ MODULE MCWakeup ------------------------------
EXTENDS WakeupEvents, TLC
CONSTANTS s1, s2, d1, r1, pm
Sym == Permutations(Sources)
=============================================================================
