------------------------------- MODULE IoQueue -------------------------------
(***************************************************************************)
(* What an I/O scheduler promises: what was submitted is issued, in        *)
(* contiguous pieces of one direction, and nothing is lost, issued twice   *)
(* or issued after it was completed.                                       *)
(***************************************************************************)
EXTENDS Naturals

CONSTANTS Ios, Dirs, Sectors

VARIABLES
  waiting,   (* submitted and not with the device                          *)
  inflight   (* the pieces the device has                                  *)

qvars == <<waiting, inflight>>

QInit == waiting = {} /\ inflight = {}

Submit(b) ==
  /\ b \notin waiting \cup UNION inflight
  /\ waiting' = waiting \cup {b} /\ UNCHANGED inflight

Contiguous(S) ==
  /\ \A a, b \in S : Dirs[a] = Dirs[b] /\ (Sectors[a] = Sectors[b] => a = b)
  /\ \A a, b \in S : \A n \in Sectors[a]..Sectors[b] : \E c \in S : Sectors[c] = n

Issue(S) ==
  /\ S # {} /\ S \subseteq waiting /\ Contiguous(S)
  /\ waiting' = waiting \ S /\ inflight' = inflight \cup {S}

Complete(S) == S \in inflight /\ inflight' = inflight \ {S} /\ UNCHANGED waiting

Requeue(S) ==
  /\ S \in inflight /\ inflight' = inflight \ {S}
  /\ waiting' = waiting \cup S

QNext ==
  \/ \E b \in Ios : Submit(b)
  \/ \E S \in SUBSET waiting : Issue(S)
  \/ \E S \in inflight : Complete(S) \/ Requeue(S)

QSpec == QInit /\ [][QNext]_qvars
=============================================================================
