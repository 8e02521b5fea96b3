------------------------------- MODULE SwSync -------------------------------
(***************************************************************************)
(* drivers/dma-buf/sw_sync.c: one timeline, the points on it and the tasks *)
(* that have its file open.                                                *)
(*                                                                         *)
(* Grain: what runs under the timeline's lock is one step; a reference     *)
(* dropped and the release it leads to are steps of their own, and so is   *)
(* each of the two calls in the loop of sync_timeline_signal() that has no *)
(* lock.  The tree holds the points of pt_list in that order and is not    *)
(* kept apart.                                                              *)
(***************************************************************************)
EXTENDS Naturals, SequencesExt, FiniteSetsExt

CONSTANTS
  Points,    (* memory of struct sync_pt                                   *)
  Tasks,     (* tasks in an ioctl of the timeline's file                   *)
  None,
  Half,      (* 2^31: INT_MAX is Half - 1, an unsigned int wraps at 2*Half *)
  Steps,     (* the increments user space asks for                         *)
  MaxFiles,  (* bound: sync files of one point                             *)
  MaxTotal   (* bound: no increment starts when the count has reached it      *)

ASSUME HalfAssumption == Half \in Nat \ {0, 1}
ASSUME PointAssumption == IsFiniteSet(Points) /\ IsFiniteSet(Tasks) /\ None \notin Points
ASSUME StepAssumption == Steps \subseteq 0..(2 * Half - 1)
ASSUME LimitAssumption == MaxFiles \in Nat /\ MaxTotal \in Nat

VARIABLES
  file,       (* the timeline's file is open                               *)
  kref,       (* its reference count                                       *)
  value, pt_list,
  phase,      (* a point: see Phases                                       *)
  seqno, signaled, refs,
  files,      (* sync files of a point that user space has                 *)
  pc, pt,     (* where a task is, the point it creates                     *)
  left,       (* what it has still to add to the timeline                  *)
  signalled,  (* the points it signalled and has still to put: its local   *)
              (* list, after the point it is about to put (pc "put")       *)
  broken,     (* a point was taken off the tree that was not in it, or     *)
              (* freed memory was put                                      *)
  total,      (* history: the value without its wrap                       *)
  target      (* history: the total at which a pending point is due        *)

taskVars  == <<pc, pt, left, signalled>>
pointVars == <<phase, seqno, signaled, refs, files>>
lineVars  == <<file, kref, value, pt_list>>
history   == <<total, target>>
vars == <<lineVars, pointVars, taskVars, broken, history>>

(* "dying": no reference left, on its way to the lock of its release;      *)
(* "unlinked": past it.                                                     *)
Phases == {"free", "used", "dying", "unlinked"}
(* "put": the head of signalled is off the local list and not put yet;     *)
(* "lost": its memory has been freed meanwhile.                             *)
Pc == {"idle", "install", "signal", "drop", "put", "lost"}

Word == 0..(2 * Half - 1)

-----------------------------------------------------------------------------
(* __dma_fence_is_later() on 32 bits: the signed difference is positive.    *)
Ahead(a, b) == (a + 2 * Half - b) % (2 * Half)

Later(a, b) == Ahead(a, b) \in 1..(Half - 1)

Advanced(v, n) == (v + n) % (2 * Half)

DropRef(p) ==
  /\ refs' = [refs EXCEPT ![p] = @ - 1]
  /\ phase' = [phase EXCEPT ![p] = IF refs[p] = 1 THEN "dying" ELSE @]

(* The model ends with the first step whose outcome is undefined.           *)
Intact == ~broken /\ UNCHANGED broken

TaskGoto(t, from, to) == pc[t] = from /\ pc' = [pc EXCEPT ![t] = to]

-----------------------------------------------------------------------------
(* sync_pt_create().  Before the lock it takes memory and a reference to a *)
(* timeline whose file is open; nobody sees either.                         *)
Create(t, p) ==
  /\ file
  /\ TaskGoto(t, "idle", "install")
  /\ pt' = [pt EXCEPT ![t] = p]
  /\ Intact /\ UNCHANGED <<file, value, files, left, signalled, total>>

New(p, v, s) ==
  /\ phase[p] = "free"
  /\ phase' = [phase EXCEPT ![p] = "used"]
  /\ seqno' = [seqno EXCEPT ![p] = v]
  /\ signaled' = [signaled EXCEPT ![p] = s]
  /\ refs' = [refs EXCEPT ![p] = 1]
  /\ kref' = kref + 1

CreatePassed(t, p, v) ==
  /\ ~Later(v, value)
  /\ Create(t, p)
  /\ New(p, v, TRUE)
  /\ UNCHANGED <<pt_list, target>>

(* The pending point of that value with a reference left.  Equal values go  *)
(* to the left, so it is the leftmost of them and the search meets it.      *)
Twin(v) == {q \in Range(pt_list) : seqno[q] = v /\ refs[q] > 0}

(* Mutant: the timeline's reference for the point that is given up stays.   *)
MergeKeepsKref(t, q, v) ==
  /\ Later(v, value)
  /\ q \in Twin(v)
  /\ Create(t, q)
  /\ refs' = [refs EXCEPT ![q] = @ + 1]
  /\ kref' = kref + 1
  /\ UNCHANGED <<phase, seqno, signaled, pt_list, target>>

CreateMerge(t, q, v) ==
  /\ Later(v, value)
  /\ q \in Twin(v)
  /\ Create(t, q)
  /\ refs' = [refs EXCEPT ![q] = @ + 1]
  /\ UNCHANGED <<phase, seqno, signaled, kref, pt_list, target>>

(* Mutant: values compared as plain unsigned numbers.                       *)
PlaceUnsigned(v) == 1 + Cardinality({q \in Range(pt_list) : v > seqno[q]})

(* Its place in the tree: to the right of what it is later than.            *)
Place(v) == 1 + Cardinality({q \in Range(pt_list) : Later(v, seqno[q])})

CreateInsert(t, p, v) ==
  /\ Later(v, value)
  /\ Twin(v) = {}
  /\ Create(t, p)
  /\ New(p, v, FALSE)
  /\ pt_list' = InsertAt(pt_list, Place(v), p)
  /\ target' = [target EXCEPT ![p] = total + Ahead(v, value)]

(* sync_file_create() and the put of the creator's own reference; on a      *)
(* failure, or when the result cannot be copied out, there is no file.      *)
Install(t, ok) ==
  LET p == pt[t]
  IN /\ TaskGoto(t, "install", "idle")
     /\ pt' = [pt EXCEPT ![t] = None]
     /\ IF ok THEN /\ files[p] < MaxFiles
                   /\ files' = [files EXCEPT ![p] = @ + 1]
                   /\ UNCHANGED <<refs, phase>>
              ELSE DropRef(p) /\ UNCHANGED files
     /\ Intact /\ UNCHANGED <<lineVars, seqno, signaled, left, signalled,
                              history>>

-----------------------------------------------------------------------------
(* sw_sync_ioctl_inc(): steps of at most INT_MAX.                           *)
(* Mutant: one step whatever the increment.                                 *)
ChunkWhole(n) == n

Chunk(n) == IF n > Half - 1 THEN Half - 1 ELSE n

(* The loop under the lock takes points until one is later than the value.  *)
Passed(v) ==
  CHOOSE k \in 0..Len(pt_list) :
    /\ \A i \in 1..k : ~Later(seqno[pt_list[i]], v)
    /\ k < Len(pt_list) => Later(seqno[pt_list[k + 1]], v)

(* The walk that has no lock, then the next step of the increment.          *)
SignalPc(rest, list) ==
  IF list # <<>> THEN "drop" ELSE IF rest > 0 THEN "signal" ELSE "idle"

(* sync_timeline_signal() for the first step of what is left to add.        *)
(* dma_fence_get() of a point whose last reference is gone leaves it so.    *)
SignalStep(t, rest) ==
  LET n == Chunk(rest)
      v == Advanced(value, n)
      k == Passed(v)
      gone == {pt_list[i] : i \in 1..k}
  IN /\ value' = v
     /\ total' = total + n
     /\ left' = [left EXCEPT ![t] = rest - n]
     /\ signalled' = [signalled EXCEPT ![t] = SubSeq(pt_list, 1, k)]
     /\ pc' = [pc EXCEPT ![t] = SignalPc(left'[t], signalled'[t])]
     /\ pt_list' = SubSeq(pt_list, k + 1, Len(pt_list))
     /\ signaled' = [p \in Points |-> signaled[p] \/ p \in gone]
     /\ target' = [p \in Points |-> IF p \in gone THEN 0 ELSE target[p]]
     /\ refs' = [p \in Points |-> IF p \in gone /\ refs[p] > 0 THEN refs[p] + 1
                                  ELSE refs[p]]
     /\ Intact /\ UNCHANGED <<file, kref, phase, seqno, files, pt>>

Inc(t, n) ==
  /\ file /\ pc[t] = "idle"
  /\ total < MaxTotal
  /\ SignalStep(t, n)

IncMore(t) == pc[t] = "signal" /\ SignalStep(t, left[t])

(* list_del_init().                                                         *)
DropUnlink(t) ==
  /\ TaskGoto(t, "drop", "put")
  /\ Intact /\ UNCHANGED <<lineVars, pointVars, pt, left, signalled, history>>

Taken(t) ==
  /\ pc[t] = "put"
  /\ signalled' = [signalled EXCEPT ![t] = Tail(@)]
  /\ pc' = [pc EXCEPT ![t] = SignalPc(left[t], signalled'[t])]

(* Mutant: the walk's reference is not put.                                 *)
PutNothing(t) ==
  /\ Taken(t)
  /\ Intact /\ UNCHANGED <<lineVars, pointVars, pt, left, history>>

(* dma_fence_put(): of a point whose references were gone when the walk    *)
(* took its own it releases nothing.                                        *)
DropPut(t) ==
  LET p == Head(signalled[t])
  IN /\ Taken(t)
     /\ IF refs[p] > 0 THEN DropRef(p) ELSE UNCHANGED <<refs, phase>>
     /\ Intact /\ UNCHANGED <<lineVars, seqno, signaled, files, pt, left,
                              history>>

Break == ~broken /\ broken' = TRUE /\ UNCHANGED <<lineVars, pointVars, taskVars, history>>

(* It hits freed memory; the model ends here.                               *)
DropFreed(t) == pc[t] = "lost" /\ Break

-----------------------------------------------------------------------------
(* timeline_fence_release(): the lock, then the timeline's reference.       *)
(* list_del(), if the link is in use at all.                                *)
Without(s, p) ==
  IF p \in Range(s) THEN RemoveAt(s, CHOOSE i \in 1..Len(s) : s[i] = p) ELSE s

Linked(t) == Range(IF pc[t] = "put" THEN Tail(signalled[t]) ELSE signalled[t])

OnSignalled(p) == \E t \in Tasks : p \in Linked(t)

ReleaseUnlink(p) ==
  /\ phase[p] = "dying"
  /\ ~OnSignalled(p)
  /\ pt_list' = Without(pt_list, p)
  /\ phase' = [phase EXCEPT ![p] = "unlinked"]
  /\ Intact /\ UNCHANGED <<file, kref, value, seqno, signaled, refs, files,
                           taskVars, history>>

(* Its link is on a local list: rb_erase() of a node that is in no tree.    *)
(* What follows is undefined, the model ends here.                          *)
ReleaseCorrupts(p) == phase[p] = "dying" /\ OnSignalled(p) /\ Break

(* A walk may be about to put it: its link was empty, so nothing was wrong  *)
(* so far.                                                                   *)
Putting(t, p) == pc[t] = "put" /\ Head(signalled[t]) = p

ReleaseFree(p) ==
  /\ phase[p] = "unlinked"
  /\ phase' = [phase EXCEPT ![p] = "free"]
  /\ seqno' = [seqno EXCEPT ![p] = 0]
  /\ signaled' = [signaled EXCEPT ![p] = FALSE]
  /\ target' = [target EXCEPT ![p] = 0]
  /\ kref' = kref - 1
  /\ pc' = [t \in Tasks |-> IF Putting(t, p) THEN "lost" ELSE pc[t]]
  /\ signalled' = [t \in Tasks |-> IF Putting(t, p) THEN Tail(signalled[t])
                                   ELSE signalled[t]]
  /\ Intact /\ UNCHANGED <<file, value, pt_list, refs, files, pt, left, total>>

(* The last close of a sync file, and a query through timeline_fence_signaled(). *)
CloseFence(p) ==
  /\ files[p] > 0
  /\ files' = [files EXCEPT ![p] = @ - 1]
  /\ DropRef(p)
  /\ Intact /\ UNCHANGED <<lineVars, seqno, signaled, taskVars, history>>

QueryFence(p) ==
  /\ files[p] > 0
  /\ signaled' = [signaled EXCEPT ![p] = @ \/ ~Later(seqno[p], value)]
  /\ Intact /\ UNCHANGED <<lineVars, phase, seqno, refs, files, taskVars,
                           history>>

(* sw_sync_debugfs_release(), when no ioctl is running any more: what is    *)
(* pending is signalled with an error and stays on the list.                *)
CloseTimeline ==
  /\ file
  /\ \A t \in Tasks : pc[t] = "idle"
  /\ file' = FALSE
  /\ signaled' = [p \in Points |-> signaled[p] \/ p \in Range(pt_list)]
  /\ target' = [p \in Points |-> 0]
  /\ kref' = kref - 1
  /\ Intact /\ UNCHANGED <<value, pt_list, phase, seqno, refs, files, taskVars,
                           total>>

-----------------------------------------------------------------------------
Init ==
  /\ file = TRUE /\ kref = 1 /\ value = 0 /\ pt_list = <<>>
  /\ phase = [p \in Points |-> "free"]
  /\ seqno = [p \in Points |-> 0]
  /\ signaled = [p \in Points |-> FALSE]
  /\ refs = [p \in Points |-> 0]
  /\ files = [p \in Points |-> 0]
  /\ pc = [t \in Tasks |-> "idle"]
  /\ pt = [t \in Tasks |-> None]
  /\ left = [t \in Tasks |-> 0]
  /\ signalled = [t \in Tasks |-> <<>>]
  /\ broken = FALSE
  /\ total = 0 /\ target = [p \in Points |-> 0]

ReleaseStep(p) == ReleaseUnlink(p) \/ ReleaseCorrupts(p) \/ ReleaseFree(p)

Next ==
  \/ \E t \in Tasks, p \in Points, v \in Word :
       \/ CreatePassed(t, p, v)
       \/ CreateMerge(t, p, v)
       \/ CreateInsert(t, p, v)
  \/ \E t \in Tasks, ok \in BOOLEAN : Install(t, ok)
  \/ \E t \in Tasks, n \in Steps : Inc(t, n)
  \/ \E t \in Tasks : IncMore(t) \/ DropUnlink(t) \/ DropPut(t) \/ DropFreed(t)
  \/ \E p \in Points : ReleaseStep(p) \/ CloseFence(p) \/ QueryFence(p)
  \/ CloseTimeline

Spec == Init /\ [][Next]_vars

-----------------------------------------------------------------------------
TypeOK ==
  /\ file \in BOOLEAN /\ kref \in Nat /\ value \in Word
  /\ pt_list \in Seq(Points)
  /\ phase \in [Points -> Phases]
  /\ seqno \in [Points -> Word]
  /\ signaled \in [Points -> BOOLEAN]
  /\ refs \in [Points -> Nat] /\ files \in [Points -> Nat]
  /\ pc \in [Tasks -> Pc]
  /\ pt \in [Tasks -> Points \cup {None}]
  /\ left \in [Tasks -> Word]
  /\ signalled \in [Tasks -> Seq(Points)]
  /\ broken \in BOOLEAN
  /\ total \in Nat /\ target \in [Points -> Nat]

(* A point has as many references as there are files, creators and walks    *)
(* of sync_timeline_signal() that hold it, until the last is put; then no   *)
(* file and no creator has it.  A walk may: it took it too late, and what  *)
(* becomes of that is ReleaseCorrupts and DropFreed.                        *)
RefsExact ==
  \A p \in Points :
    IF phase[p] = "used"
    THEN refs[p] = files[p] + Cardinality({t \in Tasks : pt[t] = p})
                   + Cardinality({t \in Tasks : p \in Range(signalled[t])})
    ELSE refs[p] = 0 /\ files[p] = 0 /\ \A t \in Tasks : pt[t] # p

(* The timeline, and with it the lock of its points, exists as long as its *)
(* file is open or a point is left.                                         *)
TimelineKept ==
  kref = Cardinality({p \in Points : phase[p] # "free"}) + (IF file THEN 1 ELSE 0)

(* What is pending is ahead of the value, by less than half the range, and *)
(* in order, so the loop may stop at the first point that is later; of two *)
(* points with one value the first is on its way out.                       *)
PendingSorted ==
  /\ file => \A i \in 1..Len(pt_list) :
       /\ Later(seqno[pt_list[i]], value)
       /\ i > 1 => Ahead(seqno[pt_list[i - 1]], value) <= Ahead(seqno[pt_list[i]], value)
  /\ \A p, q \in Range(pt_list) :
       seqno[p] = seqno[q] /\ refs[p] > 0 /\ refs[q] > 0 => p = q

(* The timeline is the counter of Timeline, that never wraps: an increment *)
(* signals "any fence that has a seqno smaller or equal to it", no other    *)
(* and none early, whatever the wrap of the 32 bits and however large the   *)
(* increment.                                                               *)
Line == INSTANCE Timeline WITH
  Fences <- Points,
  count  <- total,
  ended  <- ~file,
  fence  <- [p \in Points |->
               IF refs[p] = 0 THEN [state |-> "absent", at |-> 0]
               ELSE IF signaled[p] THEN [state |-> "done", at |-> 0]
               ELSE [state |-> "due", at |-> target[p]]]

ImplementsTimeline == Line!TSpec
=============================================================================
