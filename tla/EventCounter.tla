----------------------------- MODULE EventCounter -----------------------------
(***************************************************************************)
(* combined_event_count of drivers/base/power/wakeup.c: one atomic_t whose *)
(* high half counts the registered wakeup events and whose low half counts *)
(* the events in progress.                                                  *)
(***************************************************************************)
EXTENDS Naturals

CONSTANT Modulus   (* 1 << IN_PROGRESS_BITS: 2^16 in the code               *)

ASSUME ModulusAssumption == Modulus \in Nat \ {0, 1}

Counter == [cnt: 0..Modulus-1, inpr: 0..Modulus-1]

Wrap(n) == IF n < Modulus THEN n ELSE n - Modulus

(* atomic_inc_return() carries into the count when all the low bits are     *)
(* set; adding MAX_IN_PROGRESS borrows when none is.                         *)
IncCounter(c) ==
  IF c.inpr = Modulus - 1 THEN [cnt |-> Wrap(c.cnt + 1), inpr |-> 0]
                          ELSE [c EXCEPT !.inpr = @ + 1]

(* Mutant: the count is not cut to its width.                               *)
AddMaxUncut(c) ==
  IF c.inpr = 0 THEN [c EXCEPT !.inpr = Modulus - 1]
                ELSE [cnt |-> c.cnt + 1, inpr |-> c.inpr - 1]

AddMaxInProgress(c) ==
  IF c.inpr = 0 THEN [c EXCEPT !.inpr = Modulus - 1]
                ELSE [cnt |-> Wrap(c.cnt + 1), inpr |-> c.inpr - 1]
=============================================================================
