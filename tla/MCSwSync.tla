------------------------------ MODULE MCSwSync ------------------------------
EXTENDS SwSync
CONSTANTS p1, p2, p3, t1, t2
Sym == Permutations({p1, p2, p3}) \cup Permutations({t1, t2})
=============================================================================
