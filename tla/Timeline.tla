------------------------------ MODULE Timeline ------------------------------
(***************************************************************************)
(* What a software sync timeline promises: a count that only grows and     *)
(* fences that are done exactly when it has reached them, or when the      *)
(* timeline has ended.                                                     *)
(***************************************************************************)
EXTENDS Naturals

CONSTANT Fences

VARIABLES count, fence, ended

tvars == <<count, fence, ended>>

(* A fence is not there, done, or due when the count reaches a number.     *)
Absent == [state |-> "absent", at |-> 0]
Done   == [state |-> "done", at |-> 0]

IsDue(f) == f.state = "due"

TInit == count = 0 /\ ended = FALSE /\ fence = [p \in Fences |-> Absent]

Add(p) ==
  /\ ~ended /\ fence[p] = Absent
  /\ fence' = [fence EXCEPT ![p] = fence'[p]]
  /\ \/ fence'[p] = Done
     \/ fence'[p] = [state |-> "due", at |-> fence'[p].at] /\ fence'[p].at > count
  /\ UNCHANGED <<count, ended>>

Advance ==
  /\ ~ended
  /\ count' >= count
  /\ fence' = [p \in Fences |-> IF IsDue(fence[p]) /\ fence[p].at <= count' THEN Done
                                ELSE fence[p]]
  /\ UNCHANGED ended

Remove(p) ==
  /\ fence[p] # Absent
  /\ fence' = [fence EXCEPT ![p] = Absent]
  /\ UNCHANGED <<count, ended>>

End ==
  /\ ~ended
  /\ ended' = TRUE
  /\ fence' = [p \in Fences |-> IF IsDue(fence[p]) THEN Done ELSE fence[p]]
  /\ UNCHANGED count

TNext == (\E p \in Fences : Add(p) \/ Remove(p)) \/ Advance \/ End

TSpec == TInit /\ [][TNext]_tvars
=============================================================================
