--------------------------- MODULE MCBinderBoost ---------------------------
EXTENDS BinderBoost, TLC
CONSTANTS t1, t2
(* Both probe from the same slot.                                           *)
Collide == (t1 :> 0) @@ (t2 :> 0)
=============================================================================
