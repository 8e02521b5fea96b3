---------------------------- MODULE ReclaimQueue ----------------------------
(***************************************************************************)
(* What the slab reclaim offload promises: a bounded queue that accepts or *)
(* drops a request, and one worker that serves what was accepted in order, *)
(* each request once, and in the end every one of them.                    *)
(***************************************************************************)
EXTENDS Naturals, Sequences

CONSTANTS Requests, Capacity, Nothing

VARIABLES queue, serving

qvars == <<queue, serving>>

QInit == queue = <<>> /\ serving = Nothing

Accept(r) ==
  /\ Len(queue) < Capacity
  /\ queue' = Append(queue, r)
  /\ UNCHANGED serving

Serve ==
  /\ serving = Nothing /\ queue # <<>>
  /\ serving' = Head(queue)
  /\ queue' = Tail(queue)

Finish ==
  /\ serving # Nothing
  /\ serving' = Nothing
  /\ UNCHANGED queue

QNext == (\E r \in Requests : Accept(r)) \/ Serve \/ Finish

QSafe == QInit /\ [][QNext]_qvars

QSpec == QSafe /\ WF_qvars(Serve) /\ WF_qvars(Finish)
=============================================================================
