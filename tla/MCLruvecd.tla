----------------------------- MODULE MCLruvecd ------------------------------
EXTENDS Lruvecd, FiniteSetsExt, TLC
CONSTANTS p1, p2, r1, r2
(* p1 is a base page, p2 a compound one of two.                             *)
Sizes == [S \in SUBSET Pages |-> MapThenSumSet(LAMBDA p : IF p = p2 THEN 2 ELSE 1, S)]
=============================================================================
