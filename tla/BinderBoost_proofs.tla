-------------------------- MODULE BinderBoost_proofs --------------------------
(***************************************************************************)
(* Proofs about BinderBoost: types, that no boost leaks, and that a thread *)
(* gets back what user space set, for every table size and hash, every set  *)
(* of tasks and every choice of tunables.                                   *)
(***************************************************************************)
EXTENDS BinderBoost, TLAPS

(* The find returns one slot.                                               *)
LEMMA FindUnique ==
  ASSUME NEW t \in Tasks, NEW b \in BOOLEAN, NEW r \in Slots, NEW s \in Slots,
         Finds(t, r, b), Finds(t, s, b)
  PROVE  r = s
<1>1. PICK j \in Slots : r = Probe(t, j) /\ Hit(t, r, b)
                         /\ \A i \in Slots : i < j => ~Hit(t, Probe(t, i), b)
  BY DEF Finds
<1>2. PICK k \in Slots : s = Probe(t, k) /\ Hit(t, s, b)
                         /\ \A i \in Slots : i < k => ~Hit(t, Probe(t, i), b)
  BY DEF Finds
<1>3. ~(j < k) /\ ~(k < j)
  BY <1>1, <1>2
<1>4. j \in Nat /\ k \in Nat
  BY SlotAssumption DEF Slots
<1>5. j = k
  BY <1>3, <1>4
<1> QED
  BY <1>1, <1>2, <1>5

(* What a task finds of its own does not depend on the slots of others.     *)
LEMMA FindStable ==
  ASSUME NEW t \in Tasks, NEW s \in Slots,
         \A r \in Slots : (binder_boost_tbl'[r].task = t) <=> (binder_boost_tbl[r].task = t),
         \A j \in Slots : Probe(t, j) \in Slots,
         Finds(t, s, FALSE)
  PROVE  Finds(t, s, FALSE)'
<1>1. PICK k \in Slots : s = Probe(t, k) /\ Hit(t, s, FALSE)
                         /\ \A i \in Slots : i < k => ~Hit(t, Probe(t, i), FALSE)
  BY DEF Finds
<1>2. Hit(t, s, FALSE)'
  BY <1>1 DEF Hit
<1>3. \A i \in Slots : i < k => ~Hit(t, Probe(t, i), FALSE)'
  BY <1>1 DEF Hit
<1> QED
  BY <1>1, <1>2, <1>3 DEF Finds, Probe, Slots

LEMMA ProbeInTable == \A t \in Tasks, k \in Slots : Probe(t, k) \in Slots
BY SlotAssumption DEF Probe, Slots

(* A hole that is taken is found by its new owner from then on.             *)
LEMMA ReserveFinds ==
  ASSUME NEW t \in Tasks, NEW s \in Slots,
         Finds(t, s, TRUE),
         binder_boost_tbl'[s].task = t,
         \A r \in Slots : r # s => binder_boost_tbl'[r].task = binder_boost_tbl[r].task
  PROVE  Finds(t, s, FALSE)'
<1>1. PICK k \in Slots : s = Probe(t, k) /\ Hit(t, s, TRUE)
                         /\ \A i \in Slots : i < k => ~Hit(t, Probe(t, i), TRUE)
  BY DEF Finds
<1>2. \A i \in Slots : i < k => Probe(t, i) \in Slots /\ Probe(t, i) # s
  BY <1>1, ProbeInTable
<1>3. \A i \in Slots : i < k => ~Hit(t, Probe(t, i), FALSE)'
  BY <1>1, <1>2 DEF Hit
<1>4. Hit(t, s, FALSE)'
  BY DEF Hit
<1> QED
  BY <1>1, <1>3, <1>4 DEF Finds, Probe, Slots

Kept(t) ==
  /\ "floor" \in lent[t] => Owing(t, FALSE) # {}
  /\ "rt" \in lent[t] => Owing(t, TRUE) # {}

(* What a step leaves of a task it does not run keeps its invariants.       *)
LEMMA Frame ==
  ASSUME NEW u \in Tasks,
         \A r \in Slots : \/ binder_boost_tbl'[r] = binder_boost_tbl[r]
                          \/ binder_boost_tbl[r].task # u /\ binder_boost_tbl'[r].task # u,
         pc'[u] = pc[u], saved'[u] = saved[u], lent'[u] \subseteq lent[u],
         FirstSlot(u), Kept(u)
  PROVE  FirstSlot(u)' /\ Kept(u)'
<1>1. \A b : Owing(u, b)' = Owing(u, b)
  BY DEF Owing
<1>2. Kept(u)'
  BY <1>1 DEF Kept
<1>3. \A r \in Slots : (binder_boost_tbl'[r].task = u) <=> (binder_boost_tbl[r].task = u)
  OBVIOUS
<1>4. \A s \in Slots : Finds(u, s, FALSE) => /\ Finds(u, s, FALSE)'
                                             /\ binder_boost_tbl'[s] = binder_boost_tbl[s]
  <2> SUFFICES ASSUME NEW s \in Slots, Finds(u, s, FALSE)
               PROVE  Finds(u, s, FALSE)' /\ binder_boost_tbl'[s] = binder_boost_tbl[s]
    OBVIOUS
  <2>1. Finds(u, s, FALSE)'
    BY <1>3, ProbeInTable, FindStable
  <2>2. binder_boost_tbl[s].task = u
    BY DEF Finds, Hit
  <2> QED
    BY <2>1, <2>2
<1>5. \A s \in Slots : binder_boost_tbl'[s] = binder_boost_tbl[s] /\ Spare(u, s) => Spare(u, s)'
  BY <1>1 DEF Spare
<1>6. pc[u] \in {"apply", "clear"} =>
        \E s \in Slots : Finds(u, s, FALSE)' /\ Spare(u, s)'
                         /\ (pc[u] = "apply" => ~binder_boost_tbl'[s].save.rt)
  <2> SUFFICES ASSUME pc[u] \in {"apply", "clear"}
               PROVE  \E s \in Slots : Finds(u, s, FALSE)' /\ Spare(u, s)'
                         /\ (pc[u] = "apply" => ~binder_boost_tbl'[s].save.rt)
    OBVIOUS
  <2>1. PICK s \in Slots : /\ Finds(u, s, FALSE) /\ Spare(u, s)
                           /\ pc[u] = "apply" => ~binder_boost_tbl[s].save.rt
    BY DEF FirstSlot
  <2> QED
    BY <2>1, <1>4, <1>5
<1>7. pc[u] \in {"restore", "mark"} =>
        \E s \in Slots : Finds(u, s, FALSE)' /\ binder_boost_tbl'[s].save = saved[u]
  BY <1>4 DEF FirstSlot
<1>8. (pc[u] = "mark" => ~saved[u].rt) /\ (pc[u] = "reserve" => ~saved[u].rt)
  BY DEF FirstSlot
<1> QED
  BY <1>2, <1>6, <1>7, <1>8 DEF FirstSlot

-----------------------------------------------------------------------------
LEMMA InitType == Init => TypeOK
BY SlotAssumption, TaskAssumption, ScaleAssumption, PolicyAssumption
DEF Init, TypeOK, Free, Nothing, Fresh, FreshWant, NoArg, Saved, State, Values, Policies

LEMMA GoOnType ==
  ASSUME TypeOK, NEW t \in Tasks,
         NEW to \in {"idle", "reserve", "apply", "clear", "restore", "mark"},
         GoOn(t, to)
  PROVE  /\ pc' \in [Tasks -> {"idle", "reserve", "apply", "clear", "restore", "mark"}]
         /\ arg' \in [Tasks -> [mode : 0..2, target : Values]]
         /\ saved' \in [Tasks -> Saved]
<1>1. NoArg \in [mode : 0..2, target : Values] /\ Nothing \in Saved
  BY ScaleAssumption DEF NoArg, Nothing, Values, Saved, Policies
<1>2. pc' \in [Tasks -> {"idle", "reserve", "apply", "clear", "restore", "mark"}]
  BY DEF TypeOK, GoOn
<1>3. CASE to \in {"idle", "clear"}
  <2>1. arg' = [arg EXCEPT ![t] = NoArg] /\ saved' = [saved EXCEPT ![t] = Nothing]
    BY <1>3 DEF GoOn
  <2>2. arg' \in [Tasks -> [mode : 0..2, target : Values]]
    BY <1>1, <2>1 DEF TypeOK
  <2>3. saved' \in [Tasks -> Saved]
    BY <1>1, <2>1 DEF TypeOK
  <2> QED
    BY <1>2, <2>2, <2>3
<1>4. CASE to \notin {"idle", "clear"}
  BY <1>2, <1>4 DEF TypeOK, GoOn
<1> QED
  BY <1>3, <1>4

LEMMA WithPolicyType ==
  ASSUME NEW r \in [min : Values, user_defined : BOOLEAN, policy : Policies, max : Values],
         NEW p \in Policies
  PROVE  WithPolicy(r, p) \in [min : Values, user_defined : BOOLEAN, policy : Policies,
                               max : Values]
<1>1. Scale \in Values /\ 0 \in Values
  BY ScaleAssumption DEF Values
<1> QED
  BY <1>1 DEF WithPolicy

LEMMA WithMinType ==
  ASSUME NEW r \in [min : Values, user_defined : BOOLEAN, policy : Policies, max : Values],
         NEW v \in Values, NEW b \in BOOLEAN
  PROVE  WithMin(r, v, b) \in [min : Values, user_defined : BOOLEAN, policy : Policies,
                               max : Values]
BY DEF WithMin

LEMMA SavedType ==
  ASSUME NEW r \in Saved, NEW p \in Policies, NEW b \in BOOLEAN, NEW v \in Values
  PROVE  /\ [r EXCEPT !.policy = p] \in Saved
         /\ [r EXCEPT !.policy = p, !.rt = b] \in Saved
         /\ [r EXCEPT !.min = v, !.user_defined = b] \in Saved
BY DEF Saved

LEMMA EntryType ==
  \A e \in [task : Tasks \cup {None}, save : Saved], v \in Saved :
    [e EXCEPT !.save = v] \in [task : Tasks \cup {None}, save : Saved]
OBVIOUS

LEMMA UndoneType ==
  ASSUME TypeOK, NEW t \in Tasks, NEW k, NEW rt, Undone(t, k, rt)
  PROVE  lent' \in [Tasks -> SUBSET {"floor", "rt"}] /\ lent'[t] \subseteq lent[t]
BY DEF TypeOK, Undone

LEMMA TargetType == \A v \in Floors : Target(v) \in Values
BY ScaleAssumption DEF Target, Values

LEMMA BoostType ==
  ASSUME TypeOK, NEW t \in Tasks, Received(t) \/ Reserve(t) \/ ClearSlot(t)
  PROVE  TypeOK'
<1>1. CASE Received(t)
  <2>1. arg' \in [Tasks -> [mode : 0..2, target : Values]]
    BY <1>1, TargetType DEF Received, TypeOK
  <2>2. saved' \in [Tasks -> Saved]
    <3>1. Nothing \in Saved
      BY ScaleAssumption DEF Nothing, Saved, Values, Policies
    <3>2. [Nothing EXCEPT !.min = task[t].min, !.user_defined = task[t].user_defined] \in Saved
      BY <3>1, SavedType DEF TypeOK, Policies
    <3> QED
      BY <1>1, <3>1, <3>2 DEF Received, TypeOK
  <2> QED
    BY <1>1, <2>1, <2>2 DEF Received, TypeOK, tunables, history
<1>2. CASE Reserve(t)
  <2>1. \A s \in Slots :
          [task |-> t, save |-> [saved[t] EXCEPT !.policy = task[t].policy]]
          \in [task : Tasks \cup {None}, save : Saved]
    BY SavedType DEF TypeOK
  <2>2. binder_boost_tbl' \in [Slots -> [task : Tasks \cup {None}, save : Saved]]
    BY <1>2, <2>1 DEF Reserve, TypeOK
  <2>3. GoOn(t, "idle") \/ GoOn(t, "apply")
    BY <1>2 DEF Reserve
  <2>4. /\ pc' \in [Tasks -> {"idle", "reserve", "apply", "clear", "restore", "mark"}]
        /\ arg' \in [Tasks -> [mode : 0..2, target : Values]]
        /\ saved' \in [Tasks -> Saved]
    BY <2>3, GoOnType
  <2> QED
    BY <1>2, <2>2, <2>4 DEF Reserve, TypeOK, tunables, history
<1>3. CASE ClearSlot(t)
  <2>1. Free \in [task : Tasks \cup {None}, save : Saved]
    BY ScaleAssumption DEF Free, Nothing, Saved, Values, Policies
  <2>2. binder_boost_tbl' \in [Slots -> [task : Tasks \cup {None}, save : Saved]]
    BY <1>3, <2>1 DEF ClearSlot, TypeOK
  <2>3. GoOn(t, "idle")
    BY <1>3 DEF ClearSlot
  <2>4. /\ pc' \in [Tasks -> {"idle", "reserve", "apply", "clear", "restore", "mark"}]
        /\ arg' \in [Tasks -> [mode : 0..2, target : Values]]
        /\ saved' \in [Tasks -> Saved]
    BY <2>3, GoOnType
  <2> QED
    BY <1>3, <2>2, <2>4 DEF ClearSlot, TypeOK, tunables, history
<1> QED
  BY <1>1, <1>2, <1>3

LEMMA ApplyType ==
  ASSUME TypeOK, NEW t \in Tasks, NEW ok \in BOOLEAN, ApplyFloor(t, ok) \/ PromoteRt(t, ok)
  PROVE  TypeOK'
<1>1. GoOn(t, "idle") \/ GoOn(t, "clear")
  BY DEF ApplyFloor, PromoteRt
<1>2. /\ pc' \in [Tasks -> {"idle", "reserve", "apply", "clear", "restore", "mark"}]
      /\ arg' \in [Tasks -> [mode : 0..2, target : Values]]
      /\ saved' \in [Tasks -> Saved]
  BY <1>1, GoOnType
<1>3. lent' \in [Tasks -> SUBSET {"floor", "rt"}]
  <2>1. CASE ApplyFloor(t, ok)
    <3>1. lent' = [lent EXCEPT ![t] = @ \cup {"floor"}] \/ lent' = lent
      BY <2>1 DEF ApplyFloor
    <3> QED
      BY <3>1 DEF TypeOK
  <2>2. CASE PromoteRt(t, ok)
    <3>1. lent' = [lent EXCEPT ![t] = @ \cup {"rt"}] \/ lent' = lent
      BY <2>2 DEF PromoteRt
    <3> QED
      BY <3>1 DEF TypeOK
  <2> QED
    BY <2>1, <2>2
<1>4. CASE ApplyFloor(t, ok)
  <2>1. task' \in [Tasks -> [min : Values, user_defined : BOOLEAN, policy : Policies,
                             max : Values]]
    <3>1. WithMin(task[t], arg[t].target, TRUE) \in
            [min : Values, user_defined : BOOLEAN, policy : Policies, max : Values]
      BY WithMinType DEF TypeOK
    <3>2. task' = task \/ task' = [task EXCEPT ![t] = WithMin(@, arg[t].target, TRUE)]
      BY <1>4 DEF ApplyFloor
    <3> QED
      BY <3>1, <3>2 DEF TypeOK
  <2> QED
    BY <1>2, <1>3, <1>4, <2>1 DEF ApplyFloor, TypeOK, tunables
<1>5. CASE PromoteRt(t, ok)
  <2>1. WithPolicy(task[t], "fifo") \in [min : Values, user_defined : BOOLEAN,
                                         policy : Policies, max : Values]
    BY WithPolicyType DEF TypeOK, Policies
  <2>2. task' \in [Tasks -> [min : Values, user_defined : BOOLEAN, policy : Policies,
                             max : Values]]
    BY <1>5, <2>1 DEF PromoteRt, TypeOK
  <2>3. binder_boost_tbl' \in [Slots -> [task : Tasks \cup {None}, save : Saved]]
    <3>1. \A s \in Slots :
            [binder_boost_tbl[s].save EXCEPT !.policy = "normal", !.rt = TRUE] \in Saved
      BY SavedType DEF TypeOK, Policies
    <3> QED
      <4>1. CASE binder_boost_tbl' = binder_boost_tbl
        BY <4>1 DEF TypeOK
      <4>2. CASE \E s \in Slots : binder_boost_tbl' = [binder_boost_tbl EXCEPT
                  ![s].save = [@ EXCEPT !.policy = "normal", !.rt = TRUE]]
        <5>1. PICK s \in Slots : binder_boost_tbl' = [binder_boost_tbl EXCEPT
                  ![s].save = [@ EXCEPT !.policy = "normal", !.rt = TRUE]]
          BY <4>2
        <5>2. [binder_boost_tbl[s] EXCEPT !.save =
                 [@ EXCEPT !.policy = "normal", !.rt = TRUE]]
              \in [task : Tasks \cup {None}, save : Saved]
          <6>1. binder_boost_tbl[s] \in [task : Tasks \cup {None}, save : Saved]
            BY DEF TypeOK
          <6> QED
            BY <3>1, <6>1, EntryType
        <5> QED
          BY <5>1, <5>2 DEF TypeOK
      <4> QED
        BY <1>5, <4>1, <4>2 DEF PromoteRt
  <2> QED
    BY <1>2, <1>3, <1>5, <2>2, <2>3 DEF PromoteRt, TypeOK, tunables
<1> QED
  BY <1>4, <1>5

LEMMA RestoreType ==
  ASSUME TypeOK, NEW t \in Tasks, NEW ok \in BOOLEAN,
         \/ Unboost(t) \/ MarkUserDefined(t)
         \/ RestorePolicy(t, ok) \/ RestoreFloor(t, ok)
  PROVE  TypeOK'
<1>1. CASE Unboost(t)
  <2>1. saved' \in [Tasks -> Saved]
    BY <1>1 DEF Unboost, TypeOK
  <2> QED
    BY <1>1, <2>1 DEF Unboost, TypeOK, tunables, history
<1>2. CASE MarkUserDefined(t)
  <2>1. GoOn(t, "clear") /\ Undone(t, "floor", FALSE)
    BY <1>2 DEF MarkUserDefined
  <2>2. task' \in [Tasks -> [min : Values, user_defined : BOOLEAN, policy : Policies,
                             max : Values]]
    BY <1>2, WithMinType DEF MarkUserDefined, TypeOK, Saved
  <2>3. /\ pc' \in [Tasks -> {"idle", "reserve", "apply", "clear", "restore", "mark"}]
        /\ arg' \in [Tasks -> [mode : 0..2, target : Values]]
        /\ saved' \in [Tasks -> Saved]
    BY <2>1, GoOnType
  <2>4. lent' \in [Tasks -> SUBSET {"floor", "rt"}]
    BY <2>1, UndoneType
  <2> QED
    BY <1>2, <2>2, <2>3, <2>4 DEF MarkUserDefined, TypeOK, tunables
<1>3. CASE RestorePolicy(t, ok)
  <2>1. GoOn(t, "clear") \/ GoOn(t, "idle")
    BY <1>3 DEF RestorePolicy
  <2>2. WithPolicy(task[t], saved[t].policy) \in [min : Values, user_defined : BOOLEAN,
                                                  policy : Policies, max : Values]
    BY WithPolicyType DEF TypeOK, Saved
  <2>3. task' \in [Tasks -> [min : Values, user_defined : BOOLEAN, policy : Policies,
                             max : Values]]
    BY <1>3, <2>2 DEF RestorePolicy, TypeOK
  <2>4. lent' \in [Tasks -> SUBSET {"floor", "rt"}]
    BY <1>3, UndoneType DEF RestorePolicy, TypeOK
  <2>5. /\ pc' \in [Tasks -> {"idle", "reserve", "apply", "clear", "restore", "mark"}]
        /\ arg' \in [Tasks -> [mode : 0..2, target : Values]]
        /\ saved' \in [Tasks -> Saved]
    BY <2>1, GoOnType
  <2> QED
    BY <1>3, <2>3, <2>4, <2>5 DEF RestorePolicy, TypeOK, tunables
<1>4. CASE RestoreFloor(t, ok)
  <2>1. GoOn(t, "mark") \/ GoOn(t, "idle")
    BY <1>4 DEF RestoreFloor
  <2>2. task' \in [Tasks -> [min : Values, user_defined : BOOLEAN, policy : Policies,
                             max : Values]]
    <3>1. WithMin(task[t], saved[t].min, TRUE) \in
            [min : Values, user_defined : BOOLEAN, policy : Policies, max : Values]
      BY WithMinType DEF TypeOK, Saved
    <3>2. task' = task \/ task' = [task EXCEPT ![t] = WithMin(@, saved[t].min, TRUE)]
      BY <1>4 DEF RestoreFloor
    <3> QED
      BY <3>1, <3>2 DEF TypeOK
  <2>3. /\ pc' \in [Tasks -> {"idle", "reserve", "apply", "clear", "restore", "mark"}]
        /\ arg' \in [Tasks -> [mode : 0..2, target : Values]]
        /\ saved' \in [Tasks -> Saved]
    BY <2>1, GoOnType
  <2> QED
    BY <1>4, <2>2, <2>3 DEF RestoreFloor, TypeOK, tunables, history
<1> QED
  BY <1>1, <1>2, <1>3, <1>4

LEMMA UserType ==
  ASSUME TypeOK, NEW t \in Tasks, UserStep(t)
  PROVE  TypeOK'
<1>1. Fresh \in [min : Values, user_defined : BOOLEAN, policy : Policies, max : Values]
      /\ FreshWant \in State
  BY ScaleAssumption DEF Fresh, FreshWant, Values, Policies, State
<1>2. task' \in [Tasks -> [min : Values, user_defined : BOOLEAN, policy : Policies,
                           max : Values]]
  <2>1. CASE \E v \in Values : SetMin(t, v)
    <3>1. PICK v \in Values : SetMin(t, v)
      BY <2>1
    <3>2. WithMin(task[t], v, TRUE) \in
            [min : Values, user_defined : BOOLEAN, policy : Policies, max : Values]
      BY WithMinType DEF TypeOK
    <3> QED
      BY <3>1, <3>2 DEF SetMin, TypeOK
  <2>4. CASE \E v \in Values : SetMax(t, v)
    BY <2>4 DEF SetMax, TypeOK
  <2>2. CASE \E p \in UserPolicies : SetPolicy(t, p)
    <3>1. PICK p \in UserPolicies : SetPolicy(t, p)
      BY <2>2
    <3>2. WithPolicy(task[t], p) \in [min : Values, user_defined : BOOLEAN,
                                      policy : Policies, max : Values]
      BY WithPolicyType, PolicyAssumption DEF TypeOK, Policies
    <3> QED
      BY <3>1, <3>2 DEF SetPolicy, TypeOK
  <2>3. CASE Exit(t)
    BY <2>3, <1>1 DEF Exit, TypeOK
  <2> QED
    BY <2>1, <2>2, <2>3, <2>4 DEF UserStep
<1>3. Own(t)' \in State
  BY <1>2 DEF Own, State
<1>4. ASSUME NEW undoes, UserSets(t, undoes)
      PROVE  TypeOK'
  <2>1. want' \in [Tasks -> State]
    BY <1>4, <1>1, <1>3 DEF UserSets, TypeOK
  <2>2. dirty' \in [Tasks -> BOOLEAN]
    BY <1>4 DEF UserSets, TypeOK, Boosting, HasSlot
  <2>3. lent' \in [Tasks -> SUBSET {"floor", "rt"}]
    BY <1>4 DEF UserSets, TypeOK
  <2> QED
    BY <1>2, <1>4, <2>1, <2>2, <2>3 DEF UserSets, TypeOK, tunables, local
<1>5. CASE \E v \in Values : SetMin(t, v)
  BY <1>4, <1>5 DEF SetMin
<1>6. CASE \E v \in Values : SetMax(t, v)
  BY <1>2, <1>6 DEF SetMax, TypeOK, tunables, local, history
<1>7. CASE \E p \in UserPolicies : SetPolicy(t, p)
  BY <1>4, <1>7 DEF SetPolicy
<1>8. CASE Exit(t)
  <2>1. dirty' \in [Tasks -> BOOLEAN]
    BY <1>8 DEF Exit, TypeOK, HasSlot
  <2> QED
    BY <1>1, <1>2, <1>8, <2>1 DEF Exit, TypeOK, tunables, local
<1> QED
  BY <1>5, <1>6, <1>7, <1>8 DEF UserStep

LEMMA TypeStep == TypeOK /\ [Next]_vars => TypeOK'
<1> SUFFICES ASSUME TypeOK, [Next]_vars PROVE TypeOK'
  OBVIOUS
<1>1. ASSUME NEW t \in Tasks, HookStep(t) PROVE TypeOK'
  BY <1>1, BoostType, ApplyType, RestoreType DEF HookStep
<1>2. ASSUME NEW t \in Tasks, UserStep(t) PROVE TypeOK'
  BY <1>2, UserType
<1>3. ASSUME NEW m \in 0..2, NEW v \in Floors, SetTunables(m, v) PROVE TypeOK'
  BY <1>3 DEF SetTunables, TypeOK, local, history
<1>4. CASE UNCHANGED vars
  BY <1>4 DEF TypeOK, vars, tunables, local, history
<1> QED
  BY <1>1, <1>2, <1>3, <1>4 DEF Next

(* The types of BinderBoost hold for every table, scale and set of tasks.   *)
THEOREM TypeCorrect == Spec => []TypeOK
BY InitType, TypeStep, PTL DEF Spec

-----------------------------------------------------------------------------
LEMMA Others ==
  ASSUME NEW t \in Tasks, NEW u \in Tasks, u # t,
         \A r \in Slots :
           \/ binder_boost_tbl'[r] = binder_boost_tbl[r]
           \/ binder_boost_tbl[r].task \in {t, None} /\ binder_boost_tbl'[r].task \in {t, None},
         pc'[u] = pc[u], saved'[u] = saved[u], lent'[u] = lent[u],
         FirstSlot(u), Kept(u)
  PROVE  FirstSlot(u)' /\ Kept(u)'
<1>1. u \notin {t, None}
  BY TaskAssumption
<1>2. \A r \in Slots : \/ binder_boost_tbl'[r] = binder_boost_tbl[r]
                       \/ binder_boost_tbl[r].task # u /\ binder_boost_tbl'[r].task # u
  BY <1>1
<1> QED
  BY <1>2, Frame

(* What a step of t on its own does not change, and where it may write.     *)
LEMMA HookFrame ==
  ASSUME TypeOK, NEW t \in Tasks, HookStep(t)
  PROVE  /\ \A u \in Tasks : u # t => pc'[u] = pc[u] /\ saved'[u] = saved[u]
                                      /\ lent'[u] = lent[u]
         /\ \A r \in Slots :
              \/ binder_boost_tbl'[r] = binder_boost_tbl[r]
              \/ binder_boost_tbl[r].task \in {t, None} /\ binder_boost_tbl'[r].task \in {t, None}
<1>1. ASSUME NEW to, GoOn(t, to), NEW u \in Tasks, u # t
      PROVE  pc'[u] = pc[u] /\ saved'[u] = saved[u]
  <2>1. pc'[u] = pc[u]
    BY <1>1 DEF GoOn, TypeOK
  <2>2. saved' = saved \/ saved' = [saved EXCEPT ![t] = Nothing]
    BY <1>1 DEF GoOn
  <2>3. saved'[u] = saved[u]
    BY <1>1, <2>2 DEF TypeOK
  <2> QED
    BY <2>1, <2>3
<1>2. ASSUME NEW u \in Tasks, u # t
      PROVE  pc'[u] = pc[u] /\ saved'[u] = saved[u]
  <2>1. CASE Received(t)
    BY <1>2, <2>1 DEF Received, TypeOK
  <2>2. CASE Unboost(t)
    BY <1>2, <2>2 DEF Unboost, TypeOK
  <2>3. CASE Reserve(t) \/ ClearSlot(t) \/ MarkUserDefined(t)
    BY <1>1, <1>2, <2>3 DEF Reserve, ClearSlot, MarkUserDefined
  <2>4. ASSUME NEW ok \in BOOLEAN,
               \/ ApplyFloor(t, ok) \/ PromoteRt(t, ok)
               \/ RestorePolicy(t, ok) \/ RestoreFloor(t, ok)
        PROVE  pc'[u] = pc[u] /\ saved'[u] = saved[u]
    BY <1>1, <1>2, <2>4 DEF ApplyFloor, PromoteRt, RestorePolicy, RestoreFloor
  <2> QED
    BY <2>1, <2>2, <2>3, <2>4 DEF HookStep
<1>3. ASSUME NEW u \in Tasks, u # t
      PROVE  lent'[u] = lent[u]
  <2>1. CASE Received(t) \/ Reserve(t) \/ ClearSlot(t) \/ Unboost(t)
    BY <2>1 DEF Received, Reserve, ClearSlot, Unboost, history
  <2>2. ASSUME NEW k, NEW rt, Undone(t, k, rt)
        PROVE  lent'[u] = lent[u]
    BY <1>3, <2>2 DEF Undone, TypeOK
  <2>3. CASE MarkUserDefined(t)
    BY <2>2, <2>3 DEF MarkUserDefined
  <2>4. ASSUME NEW ok \in BOOLEAN, RestorePolicy(t, ok) \/ RestoreFloor(t, ok)
        PROVE  lent'[u] = lent[u]
    BY <2>2, <2>4 DEF RestorePolicy, RestoreFloor, history
  <2>5. ASSUME NEW ok \in BOOLEAN, ApplyFloor(t, ok) \/ PromoteRt(t, ok)
        PROVE  lent'[u] = lent[u]
    <3>1. \/ lent' = lent
          \/ lent' = [lent EXCEPT ![t] = @ \cup {"floor"}]
          \/ lent' = [lent EXCEPT ![t] = @ \cup {"rt"}]
      BY <2>5 DEF ApplyFloor, PromoteRt
    <3> QED
      BY <1>3, <3>1 DEF TypeOK
  <2> QED
    BY <2>1, <2>3, <2>4, <2>5 DEF HookStep
<1>4. ASSUME NEW r \in Slots
      PROVE  \/ binder_boost_tbl'[r] = binder_boost_tbl[r]
             \/ binder_boost_tbl[r].task \in {t, None} /\ binder_boost_tbl'[r].task \in {t, None}
  <2>1. CASE Received(t) \/ Unboost(t) \/ MarkUserDefined(t)
    BY <2>1 DEF Received, Unboost, MarkUserDefined
  <2>2. CASE Reserve(t)
    <3>1. CASE binder_boost_tbl' = binder_boost_tbl
      BY <3>1
    <3>2. CASE \E s \in Slots : /\ Finds(t, s, TRUE)
                                /\ binder_boost_tbl' = [binder_boost_tbl EXCEPT ![s] =
                                     [task |-> t, save |-> [saved[t] EXCEPT !.policy = task[t].policy]]]
      <4>1. PICK s \in Slots :
              /\ Finds(t, s, TRUE)
              /\ binder_boost_tbl' = [binder_boost_tbl EXCEPT ![s] =
                   [task |-> t, save |-> [saved[t] EXCEPT !.policy = task[t].policy]]]
        BY <3>2
      <4>2. binder_boost_tbl[s].task \in {t, None}
        BY <4>1 DEF Finds, Hit
      <4>3. binder_boost_tbl'[s].task = t
        BY <4>1 DEF TypeOK
      <4>4. r # s => binder_boost_tbl'[r] = binder_boost_tbl[r]
        BY <4>1 DEF TypeOK
      <4> QED
        BY <4>2, <4>3, <4>4
    <3> QED
      BY <2>2, <3>1, <3>2 DEF Reserve
  <2>3. CASE ClearSlot(t)
    BY <2>3 DEF ClearSlot, Finds, Hit, TypeOK, Free
  <2>4. ASSUME NEW ok \in BOOLEAN,
               ApplyFloor(t, ok) \/ RestorePolicy(t, ok) \/ RestoreFloor(t, ok)
        PROVE  binder_boost_tbl'[r] = binder_boost_tbl[r]
    BY <2>4 DEF ApplyFloor, RestorePolicy, RestoreFloor
  <2>5. ASSUME NEW ok \in BOOLEAN, PromoteRt(t, ok)
        PROVE  \/ binder_boost_tbl'[r] = binder_boost_tbl[r]
               \/ /\ binder_boost_tbl[r].task \in {t, None}
                  /\ binder_boost_tbl'[r].task \in {t, None}
    <3>1. CASE binder_boost_tbl' = binder_boost_tbl
      BY <3>1
    <3>2. CASE \E s \in Slots : /\ Finds(t, s, FALSE)
                                /\ binder_boost_tbl' = [binder_boost_tbl EXCEPT
                                     ![s].save = [@ EXCEPT !.policy = "normal", !.rt = TRUE]]
      BY <3>2 DEF Finds, Hit, TypeOK
    <3> QED
      BY <2>5, <3>1, <3>2 DEF PromoteRt
  <2> QED
    BY <2>1, <2>2, <2>3, <2>4, <2>5 DEF HookStep
<1> QED
  BY <1>2, <1>3, <1>4

LEMMA ReceivedKeeps ==
  ASSUME TypeOK, NEW t \in Tasks, FirstSlot(t), Kept(t), Received(t) \/ Unboost(t)
  PROVE  FirstSlot(t)' /\ Kept(t)'
<1>1. binder_boost_tbl' = binder_boost_tbl /\ lent' = lent
  BY DEF Received, Unboost, history
<1>2. Kept(t)'
  BY <1>1 DEF Kept, Owing
<1>3. CASE Received(t)
  <2>1. pc'[t] = "reserve"
    BY <1>3 DEF Received, TypeOK
  <2>2. saved'[t].rt = FALSE
    BY <1>3 DEF Received, TypeOK, Nothing
  <2> QED
    BY <1>2, <2>1, <2>2 DEF FirstSlot
<1>4. CASE Unboost(t)
  <2>1. PICK s \in Slots : Finds(t, s, FALSE)
                           /\ saved' = [saved EXCEPT ![t] = binder_boost_tbl[s].save]
    BY <1>4 DEF Unboost
  <2>2. pc'[t] = "restore" /\ saved'[t] = binder_boost_tbl[s].save
    BY <1>4, <2>1 DEF Unboost, TypeOK
  <2>3. Finds(t, s, FALSE)'
    BY <1>1, <2>1 DEF Finds, Hit, Probe, Slots
  <2> QED
    BY <1>1, <1>2, <2>2, <2>3 DEF FirstSlot
<1> QED
  BY <1>3, <1>4

LEMMA ReserveKeeps ==
  ASSUME TypeOK, NEW t \in Tasks, FirstSlot(t), Kept(t), Reserve(t)
  PROVE  FirstSlot(t)' /\ Kept(t)'
<1>1. pc[t] = "reserve" /\ lent' = lent
  BY DEF Reserve, history
<1>2. CASE GoOn(t, "idle") /\ binder_boost_tbl' = binder_boost_tbl
  <2>1. pc'[t] = "idle"
    BY <1>2 DEF GoOn, TypeOK
  <2> QED
    BY <1>1, <1>2, <2>1 DEF FirstSlot, Kept, Owing
<1>3. CASE \E s \in Slots :
             /\ Finds(t, s, TRUE) /\ binder_boost_tbl[s].task # t
             /\ GoOn(t, "apply")
             /\ binder_boost_tbl' = [binder_boost_tbl EXCEPT ![s] =
                  [task |-> t, save |-> [saved[t] EXCEPT !.policy = task[t].policy]]]
  <2>1. PICK s \in Slots :
             /\ Finds(t, s, TRUE) /\ binder_boost_tbl[s].task # t
             /\ GoOn(t, "apply")
             /\ binder_boost_tbl' = [binder_boost_tbl EXCEPT ![s] =
                  [task |-> t, save |-> [saved[t] EXCEPT !.policy = task[t].policy]]]
    BY <1>3
  <2>2. pc'[t] = "apply"
    BY <2>1 DEF GoOn, TypeOK
  <2>3. \A r \in Slots : r # s => binder_boost_tbl'[r] = binder_boost_tbl[r]
    BY <2>1 DEF TypeOK
  <2>4. /\ binder_boost_tbl'[s].task = t
        /\ binder_boost_tbl'[s].save = [saved[t] EXCEPT !.policy = task[t].policy]
    BY <2>1 DEF TypeOK
  <2>5. binder_boost_tbl'[s].save.rt = FALSE
    BY <1>1, <2>4 DEF FirstSlot, TypeOK, Saved
  <2>6. Finds(t, s, FALSE)'
    BY <2>1, <2>3, <2>4, ReserveFinds
  <2>7. \A b : Owing(t, b) \subseteq Owing(t, b)' /\ s \notin Owing(t, b)
    BY <2>1, <2>3 DEF Owing
  <2>8. Kept(t)'
    BY <1>1, <2>7 DEF Kept
  <2>9. Spare(t, s)'
    BY <1>1, <2>5, <2>7 DEF Spare, Kept
  <2> QED
    BY <2>2, <2>5, <2>6, <2>8, <2>9 DEF FirstSlot
<1> QED
  BY <1>2, <1>3 DEF Reserve

LEMMA ClearKeeps ==
  ASSUME TypeOK, NEW t \in Tasks, FirstSlot(t), Kept(t), ClearSlot(t)
  PROVE  FirstSlot(t)' /\ Kept(t)'
<1>1. pc[t] = "clear" /\ pc'[t] = "idle" /\ lent' = lent
  BY DEF ClearSlot, history, GoOn, TypeOK
<1>2. PICK s \in Slots : Finds(t, s, FALSE)
                         /\ binder_boost_tbl' = [binder_boost_tbl EXCEPT ![s] = Free]
  BY DEF ClearSlot
<1>3. Spare(t, s)
  BY <1>1, <1>2, FindUnique DEF FirstSlot
<1>4. \A r \in Slots : r # s => binder_boost_tbl'[r] = binder_boost_tbl[r]
  BY <1>2 DEF TypeOK
<1>5. \A b : Owing(t, b) \ {s} \subseteq Owing(t, b)'
  BY <1>4 DEF Owing
<1>6. binder_boost_tbl[s].save.rt \in BOOLEAN
  BY DEF TypeOK, Saved
<1>7. CASE binder_boost_tbl[s].save.rt = TRUE
  <2>1. s \notin Owing(t, FALSE)
    BY <1>7 DEF Owing
  <2> QED
    BY <1>1, <1>3, <1>5, <1>7, <2>1 DEF Kept, Spare, FirstSlot
<1>8. CASE binder_boost_tbl[s].save.rt = FALSE
  <2>1. s \notin Owing(t, TRUE)
    BY <1>8 DEF Owing
  <2> QED
    BY <1>1, <1>3, <1>5, <1>8, <2>1 DEF Kept, Spare, FirstSlot
<1> QED
  BY <1>6, <1>7, <1>8

(* A step that leaves the table alone leaves what depends on it alone.      *)
LEMMA SameTable ==
  ASSUME NEW t \in Tasks, binder_boost_tbl' = binder_boost_tbl
  PROVE  /\ \A s \in Slots : Finds(t, s, FALSE)' <=> Finds(t, s, FALSE)
         /\ \A b : Owing(t, b)' = Owing(t, b)
BY DEF Finds, Hit, Probe, Slots, Owing

LEMMA FloorKeeps ==
  ASSUME TypeOK, NEW t \in Tasks, FirstSlot(t), Kept(t), NEW ok \in BOOLEAN, ApplyFloor(t, ok)
  PROVE  FirstSlot(t)' /\ Kept(t)'
<1>1. pc[t] = "apply" /\ binder_boost_tbl' = binder_boost_tbl
  BY DEF ApplyFloor
<1>2. PICK s \in Slots : Finds(t, s, FALSE) /\ Spare(t, s) /\ ~binder_boost_tbl[s].save.rt
  BY <1>1 DEF FirstSlot
<1>3. CASE GoOn(t, "idle") /\ lent' = [lent EXCEPT ![t] = @ \cup {"floor"}]
  <2>1. pc'[t] = "idle" /\ lent'[t] = lent[t] \cup {"floor"}
    BY <1>3 DEF GoOn, TypeOK
  <2>2. binder_boost_tbl[s].save.rt = FALSE
    BY <1>2 DEF TypeOK, Saved
  <2>3. s \in Owing(t, FALSE)'
    BY <1>1, <1>2, <2>2 DEF Finds, Hit, Owing
  <2>4. Owing(t, TRUE)' = Owing(t, TRUE)
    BY <1>1, SameTable
  <2>5. Kept(t)'
    BY <2>1, <2>3, <2>4 DEF Kept
  <2> QED
    BY <2>1, <2>5 DEF FirstSlot
<1>4. CASE GoOn(t, "clear") /\ lent' = lent
  <2>1. pc'[t] = "clear"
    BY <1>4 DEF GoOn, TypeOK
  <2>2. Finds(t, s, FALSE)' /\ Spare(t, s)'
    BY <1>1, <1>2, <1>4, SameTable DEF Spare
  <2>3. Kept(t)'
    BY <1>1, <1>4, SameTable DEF Kept
  <2> QED
    BY <2>1, <2>2, <2>3 DEF FirstSlot
<1> QED
  BY <1>3, <1>4 DEF ApplyFloor

LEMMA PromoteKeeps ==
  ASSUME TypeOK, NEW t \in Tasks, FirstSlot(t), Kept(t), NEW ok \in BOOLEAN, PromoteRt(t, ok)
  PROVE  FirstSlot(t)' /\ Kept(t)'
<1>1. pc[t] = "apply"
  BY DEF PromoteRt
<1>2. PICK s \in Slots : Finds(t, s, FALSE) /\ Spare(t, s) /\ ~binder_boost_tbl[s].save.rt
  BY <1>1 DEF FirstSlot
<1>3. CASE /\ GoOn(t, "idle") /\ lent' = [lent EXCEPT ![t] = @ \cup {"rt"}]
           /\ \E r \in Slots : /\ Finds(t, r, FALSE)
                               /\ binder_boost_tbl' = [binder_boost_tbl EXCEPT
                                    ![r].save = [@ EXCEPT !.policy = "normal", !.rt = TRUE]]
  <2>1. binder_boost_tbl' = [binder_boost_tbl EXCEPT
          ![s].save = [@ EXCEPT !.policy = "normal", !.rt = TRUE]]
    BY <1>2, <1>3, FindUnique
  <2>2. pc'[t] = "idle" /\ lent'[t] = lent[t] \cup {"rt"}
    BY <1>3 DEF GoOn, TypeOK
  <2>3. \A r \in Slots : r # s => binder_boost_tbl'[r] = binder_boost_tbl[r]
    BY <2>1 DEF TypeOK
  <2>4. binder_boost_tbl'[s].task = t /\ binder_boost_tbl'[s].save.rt = TRUE
    BY <1>2, <2>1 DEF TypeOK, Saved, Finds, Hit
  <2>5. s \in Owing(t, TRUE)'
    BY <2>4 DEF Owing
  <2>6. Owing(t, FALSE) \ {s} \subseteq Owing(t, FALSE)'
    BY <2>3 DEF Owing
  <2>7. binder_boost_tbl[s].save.rt = FALSE
    BY <1>2 DEF TypeOK, Saved
  <2>8. "floor" \in lent[t] => Owing(t, FALSE)' # {}
    BY <1>2, <2>6, <2>7 DEF Spare
  <2>9. Kept(t)'
    BY <2>2, <2>5, <2>8 DEF Kept
  <2> QED
    BY <2>2, <2>9 DEF FirstSlot
<1>4. CASE GoOn(t, "clear") /\ lent' = lent /\ binder_boost_tbl' = binder_boost_tbl
  <2>1. pc'[t] = "clear"
    BY <1>4 DEF GoOn, TypeOK
  <2>2. Finds(t, s, FALSE)' /\ Spare(t, s)'
    BY <1>2, <1>4, SameTable DEF Spare
  <2>3. Kept(t)'
    BY <1>4, SameTable DEF Kept
  <2> QED
    BY <2>1, <2>2, <2>3 DEF FirstSlot
<1> QED
  BY <1>3, <1>4 DEF PromoteRt

(* What is undone of one kind leaves the slot that is about to be cleared   *)
(* spare.                                                                   *)
LEMMA UndoneSpare ==
  ASSUME TypeOK, NEW t \in Tasks, Kept(t), NEW s \in Slots, binder_boost_tbl[s].task = t,
         NEW k, NEW rt \in BOOLEAN, binder_boost_tbl[s].save.rt = rt,
         k = (IF rt THEN "rt" ELSE "floor"),
         Undone(t, k, rt), binder_boost_tbl' = binder_boost_tbl
  PROVE  Spare(t, s)' /\ Kept(t)'
<1>1. \A b : Owing(t, b)' = Owing(t, b)
  BY SameTable
<1>2. lent'[t] \subseteq lent[t]
  BY UndoneType
<1>3. Kept(t)'
  BY <1>1, <1>2 DEF Kept
<1>4. k \in lent'[t] => Owing(t, rt) \ {s} # {}
  <2> SUFFICES ASSUME k \in lent'[t] PROVE Owing(t, rt) \ {s} # {}
    OBVIOUS
  <2>1. lent'[t] = IF \E q, r \in Owing(t, rt) : q # r THEN lent[t] ELSE lent[t] \ {k}
    BY DEF Undone, TypeOK
  <2>2. PICK q \in Owing(t, rt), r \in Owing(t, rt) : q # r
    BY <2>1
  <2> QED
    BY <2>2
<1>5. Spare(t, s)'
  BY <1>1, <1>4 DEF Spare
<1> QED
  BY <1>3, <1>5

LEMMA RestoreKeeps ==
  ASSUME TypeOK, NEW t \in Tasks, FirstSlot(t), Kept(t), NEW ok \in BOOLEAN,
         RestorePolicy(t, ok) \/ RestoreFloor(t, ok) \/ MarkUserDefined(t)
  PROVE  FirstSlot(t)' /\ Kept(t)'
<1>1. pc[t] \in {"restore", "mark"} /\ binder_boost_tbl' = binder_boost_tbl
  BY DEF RestorePolicy, RestoreFloor, MarkUserDefined
<1>2. PICK s \in Slots : Finds(t, s, FALSE) /\ binder_boost_tbl[s].save = saved[t]
  BY <1>1 DEF FirstSlot
<1>3. Finds(t, s, FALSE)' /\ binder_boost_tbl[s].task = t
  BY <1>1, <1>2, SameTable DEF Finds, Hit
<1>4. saved[t].rt \in BOOLEAN
  BY DEF TypeOK, Saved
<1>5. ASSUME GoOn(t, "idle"), lent' = lent
      PROVE  FirstSlot(t)' /\ Kept(t)'
  <2>1. pc'[t] = "idle"
    BY <1>5 DEF GoOn, TypeOK
  <2> QED
    BY <1>1, <1>5, <2>1, SameTable DEF FirstSlot, Kept
<1>6. ASSUME GoOn(t, "clear"), Spare(t, s)', Kept(t)'
      PROVE  FirstSlot(t)' /\ Kept(t)'
  <2>1. pc'[t] = "clear"
    BY <1>6 DEF GoOn, TypeOK
  <2> QED
    BY <1>3, <1>6, <2>1 DEF FirstSlot
<1>7. CASE RestorePolicy(t, ok)
  <2>1. CASE ok
    <3>1. GoOn(t, "clear") /\ Undone(t, "rt", TRUE) /\ saved[t].rt = TRUE
      BY <1>4, <1>7, <2>1 DEF RestorePolicy
    <3>2. Spare(t, s)' /\ Kept(t)'
      BY <1>1, <1>2, <1>3, <3>1, UndoneSpare
    <3> QED
      BY <1>6, <3>1, <3>2
  <2>2. CASE ~ok
    BY <1>5, <1>7, <2>2 DEF RestorePolicy
  <2> QED
    BY <2>1, <2>2
<1>8. CASE MarkUserDefined(t)
  <2>1. GoOn(t, "clear") /\ Undone(t, "floor", FALSE) /\ pc[t] = "mark"
    BY <1>8 DEF MarkUserDefined
  <2>2. saved[t].rt = FALSE
    BY <1>4, <2>1 DEF FirstSlot
  <2>3. Spare(t, s)' /\ Kept(t)'
    BY <1>1, <1>2, <1>3, <2>1, <2>2, UndoneSpare
  <2> QED
    BY <1>6, <2>1, <2>3
<1>9. CASE RestoreFloor(t, ok)
  <2>1. lent' = lent /\ ~saved[t].rt
    BY <1>9 DEF RestoreFloor, history
  <2>2. CASE GoOn(t, "idle")
    BY <1>5, <2>1, <2>2
  <2>3. CASE GoOn(t, "mark")
    <3>1. pc'[t] = "mark" /\ saved' = saved
      BY <2>3 DEF GoOn, TypeOK
    <3>2. Kept(t)'
      BY <1>1, <2>1, SameTable DEF Kept
    <3> QED
      BY <1>1, <1>2, <1>3, <2>1, <3>1, <3>2 DEF FirstSlot
  <2> QED
    BY <1>9, <2>2, <2>3 DEF RestoreFloor
<1> QED
  BY <1>7, <1>8, <1>9

LEMMA UserKeeps ==
  ASSUME TypeOK, NEW t \in Tasks, UserStep(t), NEW u \in Tasks, FirstSlot(u), Kept(u)
  PROVE  FirstSlot(u)' /\ Kept(u)'
<1>1. binder_boost_tbl' = binder_boost_tbl /\ pc' = pc /\ saved' = saved
  BY DEF UserStep, SetMin, SetMax, SetPolicy, Exit, UserSets, local
<1>2. \/ lent' = lent
      \/ \E undoes : lent' = [lent EXCEPT ![t] = @ \ undoes]
      \/ lent' = [lent EXCEPT ![t] = {}]
  BY DEF UserStep, SetMin, SetMax, SetPolicy, Exit, UserSets, history
<1>3. lent'[u] \subseteq lent[u]
  BY <1>2 DEF TypeOK
<1> QED
  BY <1>1, <1>3, Frame

LEMMA InitInv == Init => IInv
<1> SUFFICES ASSUME Init PROVE IInv
  OBVIOUS
<1>1. TypeOK
  BY InitType
<1>2. NoBoostLeaks /\ \A t \in Tasks : FirstSlot(t)
  BY DEF Init, NoBoostLeaks, FirstSlot
<1> QED
  BY <1>1, <1>2 DEF IInv

LEMMA InvStep == IInv /\ [Next]_vars => IInv'
<1> SUFFICES ASSUME IInv, [Next]_vars PROVE IInv'
  OBVIOUS
<1>1. TypeOK /\ TypeOK'
  BY TypeStep DEF IInv
<1>2. \A u \in Tasks : FirstSlot(u) /\ Kept(u)
  BY DEF IInv, NoBoostLeaks, Kept
<1>3. ASSUME NEW t \in Tasks, HookStep(t), NEW u \in Tasks
      PROVE  FirstSlot(u)' /\ Kept(u)'
  <2>1. CASE u # t
    BY <1>1, <1>2, <1>3, <2>1, HookFrame, Others
  <2>2. FirstSlot(t)' /\ Kept(t)'
    BY <1>1, <1>2, <1>3, ReceivedKeeps, ReserveKeeps, ClearKeeps, FloorKeeps, PromoteKeeps,
       RestoreKeeps DEF HookStep
  <2> QED
    BY <2>1, <2>2
<1>4. ASSUME NEW t \in Tasks, UserStep(t), NEW u \in Tasks
      PROVE  FirstSlot(u)' /\ Kept(u)'
  BY <1>1, <1>2, <1>4, UserKeeps
<1>5. ASSUME NEW m \in 0..2, NEW v \in Floors, SetTunables(m, v), NEW u \in Tasks
      PROVE  FirstSlot(u)' /\ Kept(u)'
  BY <1>2, <1>5, Frame DEF SetTunables, local, history
<1>6. ASSUME UNCHANGED vars, NEW u \in Tasks
      PROVE  FirstSlot(u)' /\ Kept(u)'
  BY <1>2, <1>6, Frame DEF vars, local, history
<1>7. \A u \in Tasks : FirstSlot(u)' /\ Kept(u)'
  BY <1>3, <1>4, <1>5, <1>6 DEF Next
<1> QED
  BY <1>1, <1>7 DEF IInv, NoBoostLeaks, Kept

(* The table invariant: what has been lent to a thread is owed by a slot of *)
(* it, and a thread in a hook works on the slot its search finds first.     *)
THEOREM TableInvariant == Spec => []IInv
BY InitInv, InvStep, PTL DEF Spec

(* No boost leaks, whatever the size of the table, the hash, the failures   *)
(* and the settings of user space.                                          *)
THEOREM BoostsReturned == Spec => []NoBoostLeaks
<1>1. IInv => NoBoostLeaks
  BY DEF IInv
<1> QED
  BY <1>1, TableInvariant, PTL

-----------------------------------------------------------------------------
(* The slots of a task are a stack in the order of its probe.               *)
LEMMA ProbeOnce ==
  ASSUME NEW t \in Tasks, NEW j \in Slots, NEW k \in Slots, Probe(t, j) = Probe(t, k)
  PROVE  j = k
<1>1. NSlots \in Nat /\ NSlots > 0 /\ Hash[t] \in 0..(NSlots - 1)
  BY SlotAssumption
<1>2. \A x \in 0..(NSlots - 1) : (Hash[t] + x) % NSlots =
        IF Hash[t] + x < NSlots THEN Hash[t] + x ELSE Hash[t] + x - NSlots
  BY <1>1
<1>3. j \in 0..(NSlots - 1) /\ k \in 0..(NSlots - 1)
  BY DEF Slots
<1>4. QED BY <1>1, <1>2, <1>3 DEF Probe

LEMMA HeldIs ==
  ASSUME NEW t, NEW k \in Slots
  PROVE  /\ k \in Held(t) <=> binder_boost_tbl[Probe(t, k)].task = t
         /\ Saves(t)[k] = binder_boost_tbl[Probe(t, k)].save
BY DEF Held, Saves

LEMMA HeldNext ==
  ASSUME NEW t, NEW k \in Slots
  PROVE  /\ k \in Held(t)' <=> binder_boost_tbl'[Probe(t, k)].task = t
         /\ Saves(t)'[k] = binder_boost_tbl'[Probe(t, k)].save
BY DEF Held, Saves, Probe, Slots

LEMMA HeldSlots == \A t : Held(t) \subseteq Slots /\ Held(t)' \subseteq Slots
BY DEF Held, Slots

LEMMA FirstOnce ==
  ASSUME NEW D \in SUBSET Slots, NEW j, NEW k, First(j, D), First(k, D)
  PROVE  j = k
<1>1. j \in Nat /\ k \in Nat /\ j <= k /\ k <= j
  BY SlotAssumption DEF First, Slots
<1>2. QED BY <1>1

LEMMA FoundFirst ==
  ASSUME NEW t \in Tasks, NEW s \in Slots, Finds(t, s, FALSE)
  PROVE  \E k \in Slots : s = Probe(t, k) /\ First(k, Held(t))
<1>1. PICK k \in Slots : /\ s = Probe(t, k) /\ Hit(t, s, FALSE)
                         /\ \A j \in Slots : j < k => ~Hit(t, Probe(t, j), FALSE)
  BY DEF Finds
<1>2. k \in Held(t)
  BY <1>1, HeldIs DEF Hit
<1>3. ASSUME NEW j \in Held(t) PROVE k <= j
  <2>1. j \in Slots /\ binder_boost_tbl[Probe(t, j)].task = t
    BY HeldSlots, HeldIs
  <2>2. ~(j < k) /\ j \in Nat /\ k \in Nat
    BY <1>1, <2>1, SlotAssumption DEF Hit, Slots
  <2>3. QED BY <2>2
<1>4. QED BY <1>1, <1>2, <1>3 DEF First

LEMMA UndoesSame ==
  ASSUME NEW D, NEW s, NEW z, NEW own, NEW o, NEW set, \A k \in D : s[k] = z[k],
         own.policy = o.policy, own.min = o.min, own.user_defined = o.user_defined,
         Undoes(D, s, own, set)
  PROVE  Undoes(D, z, o, set)
BY DEF Undoes

LEMMA HeldSame ==
  ASSUME NEW t, binder_boost_tbl' = binder_boost_tbl
  PROVE  Held(t)' = Held(t) /\ Saves(t)' = Saves(t)
BY DEF Held, Saves, Probe, Slots

(* Unwinds in the next state, with everything it depends on                 *)
UnwindsOf(p, m, D, s, own, set, v) ==
  /\ p \in {"idle", "reserve", "restore", "mark"} => Undoes(D, s, own, set)
  /\ p \in {"apply", "clear"} =>
       \E k \in Slots : /\ First(k, D) /\ Undoes(D \ {k}, s, own, set)
                        /\ p = "apply" => (m # 2 => s[k].min = own.min
                                                    /\ s[k].user_defined = own.user_defined)
  /\ p \in {"reserve", "apply"} => own.policy # "fifo"
  /\ p = "reserve" => (m # 2 => v.min = own.min /\ v.user_defined = own.user_defined)
  /\ p = "mark" => own.min = v.min

LEMMA UnwindsIs ==
  ASSUME NEW t
  PROVE  Unwinds(t) <=> UnwindsOf(pc[t], arg[t].mode, Held(t), Saves(t), task[t], want[t],
                                  saved[t])
BY DEF Unwinds, UnwindsOf, SavedOwn

LEMMA UnwindsNext ==
  ASSUME NEW t
  PROVE  Unwinds(t)' <=> UnwindsOf(pc'[t], arg'[t].mode, Held(t)', Saves(t)', task'[t],
                                   want'[t], saved'[t])
BY DEF Unwinds, UnwindsOf, SavedOwn, Undoes, First, Last, Slots

(* What a step leaves of a task it does not run                             *)
LEMMA UnwindsFrame ==
  ASSUME NEW u \in Tasks,
         \A r \in Slots : \/ binder_boost_tbl'[r] = binder_boost_tbl[r]
                          \/ binder_boost_tbl[r].task # u /\ binder_boost_tbl'[r].task # u,
         pc'[u] = pc[u], arg'[u] = arg[u], saved'[u] = saved[u], want'[u] = want[u],
         task'[u].policy = task[u].policy, task'[u].min = task[u].min,
         task'[u].user_defined = task[u].user_defined, Unwinds(u)
  PROVE  Unwinds(u)'
<1>1. \A k \in Slots : Probe(u, k) \in Slots
  BY ProbeInTable
<1>2. \A k \in Slots : k \in Held(u)' <=> k \in Held(u)
  BY <1>1, HeldIs, HeldNext
<1>3. Held(u)' = Held(u)
  BY <1>2, HeldSlots
<1>4. \A k \in Held(u) : Saves(u)'[k] = Saves(u)[k]
  <2> SUFFICES ASSUME NEW k \in Held(u) PROVE Saves(u)'[k] = Saves(u)[k]
    OBVIOUS
  <2>1. k \in Slots /\ binder_boost_tbl[Probe(u, k)].task = u
    BY HeldSlots, HeldIs
  <2>2. binder_boost_tbl'[Probe(u, k)] = binder_boost_tbl[Probe(u, k)]
    BY <1>1, <2>1
  <2>3. QED BY <2>1, <2>2, HeldIs, HeldNext
<1> PICK D : D = Held(u)
  OBVIOUS
<1> PICK s : s = Saves(u)
  OBVIOUS
<1> PICK z : z = Saves(u)'
  OBVIOUS
<1> PICK o : o = task'[u]
  OBVIOUS
<1>5. UnwindsOf(pc[u], arg[u].mode, D, s, task[u], want[u], saved[u])
  BY UnwindsIs
<1>6. \A k \in D : z[k] = s[k]
  BY <1>4
<1>7. Undoes(D, s, task[u], want[u]) => Undoes(D, z, o, want[u])
  BY <1>6, UndoesSame
<1>8. ASSUME NEW k \in Slots
      PROVE  Undoes(D \ {k}, s, task[u], want[u]) => Undoes(D \ {k}, z, o, want[u])
  BY <1>6, UndoesSame
<1>9. \A k \in Slots : First(k, D) => k \in D
  BY DEF First
<1>10. UnwindsOf(pc[u], arg[u].mode, D, z, o, want[u], saved[u])
  BY <1>5, <1>6, <1>7, <1>8, <1>9 DEF UnwindsOf
<1>11. QED BY <1>3, <1>10, UnwindsNext

LEMMA UndoesPlaces ==
  ASSUME NEW D \in SUBSET Slots, NEW s, NEW own, NEW set, Undoes(D, s, own, set),
         NEW k \in D, s[k].rt
  PROVE  /\ First(k, D) /\ s[k].policy = "normal"
         /\ own.policy = "fifo" /\ set.policy = "normal"
         /\ \A j \in D : s[j].rt => j = k
<1>1. \A j \in D : s[j].rt => First(j, D)
  BY DEF Undoes
<1>2. QED BY <1>1, FirstOnce DEF Undoes

LEMMA ReceivedUnwinds ==
  ASSUME TypeOK, NEW t \in Tasks, Unwinds(t), Received(t) \/ Unboost(t)
  PROVE  Unwinds(t)'
<1> PICK D : D = Held(t)
  OBVIOUS
<1> PICK s : s = Saves(t)
  OBVIOUS
<1>1. /\ pc[t] = "idle" /\ Held(t)' = D /\ Saves(t)' = s
      /\ task' = task /\ want' = want
  BY HeldSame DEF Received, Unboost, history
<1>2. Undoes(D, s, task[t], want[t])
  BY <1>1, UnwindsIs DEF UnwindsOf
<1>3. CASE Received(t)
  <2>1. /\ pc'[t] = "reserve" /\ arg'[t].mode = mode /\ task[t].policy # "fifo"
        /\ mode # 2 => /\ saved'[t].min = task[t].min
                       /\ saved'[t].user_defined = task[t].user_defined
    BY <1>3 DEF Received, Eligible, TypeOK, Nothing
  <2>2. UnwindsOf("reserve", mode, D, s, task[t], want[t], saved'[t])
    BY <1>2, <2>1 DEF UnwindsOf
  <2>3. QED BY <1>1, <2>1, <2>2, UnwindsNext
<1>4. CASE Unboost(t)
  <2>1. pc'[t] = "restore"
    BY <1>4 DEF Unboost, TypeOK
  <2>2. UnwindsOf("restore", arg'[t].mode, D, s, task[t], want[t], saved'[t])
    BY <1>2 DEF UnwindsOf
  <2>3. QED BY <1>1, <2>1, <2>2, UnwindsNext
<1>5. QED BY <1>3, <1>4

(* A step that goes back to idle or to the clearing of the slot             *)
LEMMA Ends ==
  ASSUME TypeOK, NEW t \in Tasks,
         \/ /\ GoOn(t, "idle")
            /\ Undoes(Held(t)', Saves(t)', task'[t], want'[t])
         \/ /\ GoOn(t, "clear")
            /\ \E k \in Slots : /\ First(k, Held(t)')
                                /\ Undoes(Held(t)' \ {k}, Saves(t)', task'[t], want'[t])
  PROVE  Unwinds(t)'
<1>1. GoOn(t, "idle") => pc'[t] = "idle"
  BY DEF GoOn, TypeOK
<1>2. GoOn(t, "clear") => pc'[t] = "clear"
  BY DEF GoOn, TypeOK
<1>3. UnwindsOf(pc'[t], arg'[t].mode, Held(t)', Saves(t)', task'[t], want'[t], saved'[t])
  BY <1>1, <1>2 DEF UnwindsOf
<1>4. QED BY <1>3, UnwindsNext

LEMMA ReserveUnwinds ==
  ASSUME TypeOK, NEW t \in Tasks, Unwinds(t), Reserve(t)
  PROVE  Unwinds(t)'
<1> PICK D : D = Held(t)
  OBVIOUS
<1> PICK s : s = Saves(t)
  OBVIOUS
<1>1. pc[t] = "reserve" /\ task' = task /\ want' = want
  BY DEF Reserve, history
<1>2. /\ Undoes(D, s, task[t], want[t]) /\ task[t].policy # "fifo"
      /\ arg[t].mode # 2 => /\ saved[t].min = task[t].min
                            /\ saved[t].user_defined = task[t].user_defined
  BY <1>1, UnwindsIs DEF UnwindsOf
<1>3. CASE GoOn(t, "idle") /\ binder_boost_tbl' = binder_boost_tbl
  <2>1. Held(t)' = D /\ Saves(t)' = s
    BY <1>3, HeldSame
  <2>2. Undoes(Held(t)', Saves(t)', task'[t], want'[t])
    BY <1>1, <1>2, <2>1
  <2>3. QED BY <1>3, <2>2, Ends
<1>4. CASE \E r \in Slots :
             /\ Finds(t, r, TRUE) /\ binder_boost_tbl[r].task # t
             /\ GoOn(t, "apply")
             /\ binder_boost_tbl' = [binder_boost_tbl EXCEPT ![r] =
                  [task |-> t, save |-> [saved[t] EXCEPT !.policy = task[t].policy]]]
  <2>1. PICK r \in Slots :
             /\ Finds(t, r, TRUE) /\ binder_boost_tbl[r].task # t
             /\ GoOn(t, "apply")
             /\ binder_boost_tbl' = [binder_boost_tbl EXCEPT ![r] =
                  [task |-> t, save |-> [saved[t] EXCEPT !.policy = task[t].policy]]]
    BY <1>4
  <2>2. PICK k \in Slots : /\ r = Probe(t, k)
                           /\ \A j \in Slots : j < k => ~Hit(t, Probe(t, j), TRUE)
    BY <2>1 DEF Finds
  <2>3. /\ binder_boost_tbl'[r].task = t
        /\ binder_boost_tbl'[r].save = [saved[t] EXCEPT !.policy = task[t].policy]
        /\ \A q \in Slots : q # r => binder_boost_tbl'[q] = binder_boost_tbl[q]
    BY <2>1 DEF TypeOK
  <2> PICK E : E = Held(t)'
    OBVIOUS
  <2> PICK z : z = Saves(t)'
    OBVIOUS
  <2>4. ASSUME NEW j \in Slots, j # k
        PROVE  (j \in E <=> j \in D) /\ z[j] = s[j]
    <3>1. Probe(t, j) \in Slots /\ Probe(t, j) # r
      BY <2>2, <2>4, ProbeInTable, ProbeOnce
    <3>2. QED BY <2>3, <3>1, HeldIs, HeldNext
  <2>5. k \in E /\ k \notin D
    BY <2>1, <2>2, <2>3, HeldIs, HeldNext
  <2>6. E \ {k} = D
    <3>1. \A j : j \in E \ {k} <=> j \in D
      BY <2>4, <2>5, HeldSlots
    <3>2. QED BY <3>1
  <2>7. \A j \in D : z[j] = s[j]
    BY <2>4, <2>5, HeldSlots
  <2>8. First(k, E)
    <3>1. ASSUME NEW j \in E PROVE k <= j
      <4>1. j \in Slots /\ (j # k => j \in D)
        BY <2>6, HeldSlots
      <4>2. j # k => Hit(t, Probe(t, j), TRUE)
        BY <4>1, HeldIs DEF Hit
      <4>3. j \in Nat /\ k \in Nat
        BY <4>1, SlotAssumption DEF Slots
      <4>4. ~(j < k)
        <5> SUFFICES ASSUME j < k PROVE FALSE
          OBVIOUS
        <5>1. j \in Slots
          BY <4>1
        <5>2. ~Hit(t, Probe(t, j), TRUE)
          BY <2>2, <5>1
        <5>3. j # k
          BY <4>3
        <5>4. QED BY <4>2, <5>2, <5>3
      <4>5. QED BY <4>3, <4>4
    <3>2. QED BY <2>5, <3>1 DEF First
  <2>9. Undoes(E \ {k}, z, task[t], want[t])
    BY <1>2, <2>6, <2>7, UndoesSame
  <2>10. /\ z[k].min = saved[t].min /\ z[k].user_defined = saved[t].user_defined
    <3>1. z[k] = [saved[t] EXCEPT !.policy = task[t].policy]
      BY <2>2, <2>3, HeldNext
    <3>2. QED BY <3>1 DEF TypeOK, Saved
  <2>11. pc'[t] = "apply" /\ arg' = arg
    BY <2>1 DEF GoOn, TypeOK
  <2>12. UnwindsOf("apply", arg[t].mode, E, z, task[t], want[t], saved'[t])
    BY <1>2, <2>8, <2>9, <2>10 DEF UnwindsOf
  <2>13. QED BY <1>1, <2>11, <2>12, UnwindsNext
<1>5. QED BY <1>3, <1>4 DEF Reserve

LEMMA ClearUnwinds ==
  ASSUME TypeOK, NEW t \in Tasks, Unwinds(t), ClearSlot(t)
  PROVE  Unwinds(t)'
<1> PICK D : D = Held(t)
  OBVIOUS
<1> PICK s : s = Saves(t)
  OBVIOUS
<1>1. pc[t] = "clear" /\ task' = task /\ want' = want /\ GoOn(t, "idle")
  BY DEF ClearSlot, history
<1>2. PICK r \in Slots : Finds(t, r, FALSE)
                         /\ binder_boost_tbl' = [binder_boost_tbl EXCEPT ![r] = Free]
  BY DEF ClearSlot
<1>3. PICK k \in Slots : r = Probe(t, k) /\ First(k, D)
  BY <1>2, FoundFirst
<1>4. Undoes(D \ {k}, s, task[t], want[t])
  <2>1. PICK j \in Slots : First(j, D) /\ Undoes(D \ {j}, s, task[t], want[t])
    BY <1>1, UnwindsIs DEF UnwindsOf
  <2>2. D \in SUBSET Slots
    BY HeldSlots
  <2>3. j = k
    BY <1>3, <2>1, <2>2, FirstOnce
  <2>4. QED BY <2>1, <2>3
<1> PICK E : E = Held(t)'
  OBVIOUS
<1> PICK z : z = Saves(t)'
  OBVIOUS
<1>5. binder_boost_tbl'[r].task = None
      /\ \A q \in Slots : q # r => binder_boost_tbl'[q] = binder_boost_tbl[q]
  BY <1>2 DEF TypeOK, Free
<1>6. ASSUME NEW j \in Slots, j # k
      PROVE  (j \in E <=> j \in D) /\ z[j] = s[j]
  <2>1. Probe(t, j) \in Slots /\ Probe(t, j) # r
    BY <1>3, <1>6, ProbeInTable, ProbeOnce
  <2>2. QED BY <1>5, <2>1, HeldIs, HeldNext
<1>7. k \notin E
  BY <1>3, <1>5, HeldNext, TaskAssumption
<1>8. E = D \ {k}
  <2>1. \A j : j \in E <=> j \in D \ {k}
    BY <1>6, <1>7, HeldSlots
  <2>2. QED BY <2>1
<1>9. \A j \in E : z[j] = s[j]
  BY <1>6, <1>7, HeldSlots
<1>10. Undoes(E, z, task[t], want[t])
  BY <1>4, <1>8, <1>9, UndoesSame
<1>11. Undoes(Held(t)', Saves(t)', task'[t], want'[t])
  BY <1>1, <1>10
<1>12. QED BY <1>1, <1>11, Ends

(* The slot a task in a hook works on                                       *)
LEMMA SlotFirst ==
  ASSUME NEW t \in Tasks, FirstSlot(t), NEW k \in Slots, First(k, Held(t))
  PROVE  /\ pc[t] = "apply" => ~Saves(t)[k].rt
         /\ pc[t] \in {"restore", "mark"} => Saves(t)[k] = saved[t]
         /\ pc[t] = "mark" => ~saved[t].rt
<1>1. ASSUME NEW s \in Slots, Finds(t, s, FALSE)
      PROVE  Saves(t)[k] = binder_boost_tbl[s].save
  <2>1. PICK j \in Slots : s = Probe(t, j) /\ First(j, Held(t))
    BY <1>1, FoundFirst
  <2>2. j = k
    BY <2>1, HeldSlots, FirstOnce
  <2>3. QED BY <2>1, <2>2, HeldIs
<1>2. QED BY <1>1 DEF FirstSlot

LEMMA OneHeld ==
  ASSUME NEW D \in SUBSET Slots, NEW k \in Slots, First(k, D), Last(k, D)
  PROVE  D \ {k} = {}
<1>1. \A j \in D : k <= j /\ j <= k /\ j \in Nat /\ k \in Nat
  BY SlotAssumption DEF First, Last, Slots
<1>2. \A j \in D : j = k
  BY <1>1
<1>3. QED BY <1>2

LEMMA FloorUnwinds ==
  ASSUME TypeOK, NEW t \in Tasks, FirstSlot(t), Unwinds(t), NEW ok \in BOOLEAN, ApplyFloor(t, ok)
  PROVE  Unwinds(t)'
<1> PICK D : D = Held(t)
  OBVIOUS
<1> PICK s : s = Saves(t)
  OBVIOUS
<1>1. /\ pc[t] = "apply" /\ arg[t].mode # 2 /\ want' = want
      /\ Held(t)' = D /\ Saves(t)' = s /\ D \in SUBSET Slots
  BY HeldSame, HeldSlots DEF ApplyFloor
<1>2. PICK k \in Slots : /\ First(k, D) /\ Undoes(D \ {k}, s, task[t], want[t])
                         /\ s[k].min = task[t].min /\ s[k].user_defined = task[t].user_defined
                         /\ task[t].policy # "fifo"
  BY <1>1, UnwindsIs DEF UnwindsOf
<1>3. ~s[k].rt
  BY <1>1, <1>2, SlotFirst
<1>4. CASE GoOn(t, "clear") /\ task' = task
  BY <1>1, <1>2, <1>4, Ends
<1>5. CASE /\ GoOn(t, "idle")
           /\ task' = [task EXCEPT ![t] = WithMin(@, arg[t].target, TRUE)]
  <2> PICK o : o = task'[t]
    OBVIOUS
  <2>1. o.policy = task[t].policy
    BY <1>5 DEF TypeOK, WithMin
  <2>2. \A j \in D : ~s[j].rt
    BY <1>2, <1>3, UndoesPlaces DEF Undoes
  <2>3. o.policy = want[t].policy
    BY <1>2, <2>1, <2>2 DEF Undoes
  <2>4. ASSUME NEW l \in D, Last(l, D)
        PROVE  s[l].min = want[t].min /\ s[l].user_defined = want[t].user_defined
    <3>1. CASE l # k
      <4>1. Last(l, D \ {k})
        BY <2>4, <3>1 DEF Last
      <4>2. QED BY <1>2, <2>2, <3>1, <4>1 DEF Undoes
    <3>2. CASE l = k
      <4>1. D \ {k} = {}
        BY <1>1, <1>2, <2>4, <3>2, OneHeld
      <4>2. QED BY <1>2, <3>2, <4>1 DEF Undoes
    <3>3. QED BY <3>1, <3>2
  <2>5. D # {}
    BY <1>2 DEF First
  <2>6. Undoes(D, s, o, want[t])
    BY <2>2, <2>3, <2>4, <2>5 DEF Undoes
  <2>7. QED BY <1>1, <1>5, <2>6, Ends
<1>6. QED BY <1>4, <1>5 DEF ApplyFloor

LEMMA PromoteUnwinds ==
  ASSUME TypeOK, NEW t \in Tasks, FirstSlot(t), Unwinds(t), NEW ok \in BOOLEAN,
         PromoteRt(t, ok)
  PROVE  Unwinds(t)'
<1> PICK D : D = Held(t)
  OBVIOUS
<1> PICK s : s = Saves(t)
  OBVIOUS
<1>1. pc[t] = "apply" /\ want' = want /\ D \in SUBSET Slots
  BY HeldSlots DEF PromoteRt
<1>2. PICK k \in Slots : First(k, D) /\ Undoes(D \ {k}, s, task[t], want[t])
                         /\ task[t].policy # "fifo"
  BY <1>1, UnwindsIs DEF UnwindsOf
<1>3. \A j \in D : j # k => ~s[j].rt
  BY <1>1, <1>2 DEF Undoes
<1>4. CASE GoOn(t, "clear") /\ task' = task /\ binder_boost_tbl' = binder_boost_tbl
  BY <1>1, <1>2, <1>4, HeldSame, Ends
<1>5. CASE /\ GoOn(t, "idle") /\ task[t].policy = "normal"
           /\ task' = [task EXCEPT ![t] = WithPolicy(@, "fifo")]
           /\ \E r \in Slots : /\ Finds(t, r, FALSE)
                               /\ binder_boost_tbl' = [binder_boost_tbl EXCEPT
                                    ![r].save = [@ EXCEPT !.policy = "normal", !.rt = TRUE]]
  <2>1. PICK r \in Slots : /\ Finds(t, r, FALSE)
                           /\ binder_boost_tbl' = [binder_boost_tbl EXCEPT
                                ![r].save = [@ EXCEPT !.policy = "normal", !.rt = TRUE]]
    BY <1>5
  <2>2. r = Probe(t, k)
    BY <1>1, <1>2, <2>1, FoundFirst, FirstOnce
  <2>3. \A q \in Slots : q # r => binder_boost_tbl'[q] = binder_boost_tbl[q]
    BY <2>1 DEF TypeOK
  <2>4. /\ binder_boost_tbl'[r].task = binder_boost_tbl[r].task
        /\ binder_boost_tbl'[r].save.rt = TRUE
        /\ binder_boost_tbl'[r].save.policy = "normal"
    BY <2>1 DEF TypeOK, Saved
  <2> PICK E : E = Held(t)'
    OBVIOUS
  <2> PICK z : z = Saves(t)'
    OBVIOUS
  <2>5. ASSUME NEW j \in Slots, j # k
        PROVE  (j \in E <=> j \in D) /\ z[j] = s[j]
    <3>1. Probe(t, j) \in Slots /\ Probe(t, j) # r
      BY <2>2, <2>5, ProbeInTable, ProbeOnce
    <3>2. QED BY <2>3, <3>1, HeldIs, HeldNext
  <2>6. k \in E /\ k \in D /\ z[k].rt = TRUE /\ z[k].policy = "normal"
    BY <1>2, <2>2, <2>4, HeldIs, HeldNext DEF First
  <2>7. E = D
    <3>1. \A j : j \in E <=> j \in D
      BY <2>5, <2>6, HeldSlots
    <3>2. QED BY <3>1
  <2>8. \A j \in D : z[j].rt => j = k
    BY <1>1, <1>3, <2>5
  <2> PICK o : o = task'[t]
    OBVIOUS
  <2>9. /\ o.policy = "fifo" /\ o.user_defined = task[t].user_defined
        /\ task[t].user_defined => o.min = task[t].min
    BY <1>5 DEF TypeOK, WithPolicy
  <2>10. want[t].policy = "normal"
    BY <1>1, <1>2, <1>3, <1>5 DEF Undoes
  <2>11. ASSUME NEW l \in D, Last(l, D)
         PROVE  IF z[l].rt THEN /\ o.user_defined = want[t].user_defined
                                /\ o.user_defined => o.min = want[t].min
                ELSE z[l].min = want[t].min /\ z[l].user_defined = want[t].user_defined
    <3>1. CASE l # k
      <4>1. Last(l, D \ {k})
        BY <2>11, <3>1 DEF Last
      <4>2. /\ ~s[l].rt
            /\ s[l].min = want[t].min /\ s[l].user_defined = want[t].user_defined
        BY <1>2, <1>3, <3>1, <4>1 DEF Undoes
      <4>3. z[l] = s[l]
        BY <1>1, <2>5, <3>1
      <4>4. QED BY <4>2, <4>3
    <3>2. CASE l = k
      <4>1. D \ {k} = {}
        BY <1>1, <1>2, <2>11, <3>2, OneHeld
      <4>2. task[t].user_defined = want[t].user_defined /\ task[t].min = want[t].min
        BY <1>2, <4>1 DEF Undoes
      <4>3. QED BY <2>6, <2>9, <3>2, <4>2
    <3>3. QED BY <3>1, <3>2
  <2>12. Undoes(D, z, o, want[t])
    BY <1>2, <2>6, <2>8, <2>9, <2>10, <2>11 DEF Undoes
  <2>13. Undoes(Held(t)', Saves(t)', task'[t], want'[t])
    BY <1>1, <2>7, <2>12
  <2>14. QED BY <1>5, <2>13, Ends
<1>6. QED BY <1>4, <1>5 DEF PromoteRt

LEMMA RestoreUnwinds ==
  ASSUME TypeOK, NEW t \in Tasks, FirstSlot(t), Unwinds(t), ByClass(want[t]),
         NEW ok \in BOOLEAN, RestorePolicy(t, ok)
  PROVE  Unwinds(t)'
<1> PICK D : D = Held(t)
  OBVIOUS
<1> PICK s : s = Saves(t)
  OBVIOUS
<1>1. /\ pc[t] = "restore" /\ saved[t].rt /\ want' = want
      /\ Held(t)' = D /\ Saves(t)' = s /\ D \in SUBSET Slots
  BY HeldSame, HeldSlots DEF RestorePolicy
<1>2. Undoes(D, s, task[t], want[t])
  BY <1>1, UnwindsIs DEF UnwindsOf
<1>3. CASE GoOn(t, "idle") /\ task' = task
  BY <1>1, <1>2, <1>3, Ends
<1>4. CASE /\ GoOn(t, "clear")
           /\ task' = [task EXCEPT ![t] = WithPolicy(@, saved[t].policy)]
  <2>1. PICK r \in Slots : Finds(t, r, FALSE)
    BY <1>1 DEF FirstSlot
  <2>2. PICK k \in Slots : First(k, D)
    BY <2>1, FoundFirst
  <2>3. k \in D /\ s[k] = saved[t]
    BY <1>1, <2>2, SlotFirst DEF First
  <2>4. /\ s[k].policy = "normal" /\ want[t].policy = "normal"
        /\ \A j \in D : s[j].rt => j = k
    BY <1>1, <1>2, <2>3, UndoesPlaces
  <2> PICK o : o = task'[t]
    OBVIOUS
  <2>5. /\ o.policy = "normal" /\ o.user_defined = task[t].user_defined
        /\ o.min = IF task[t].user_defined THEN task[t].min ELSE 0
    BY <1>4, <2>3, <2>4 DEF TypeOK, WithPolicy
  <2>6. D \ {k} = {} => o.min = want[t].min /\ o.user_defined = want[t].user_defined
    <3> SUFFICES ASSUME D \ {k} = {}
                 PROVE  o.min = want[t].min /\ o.user_defined = want[t].user_defined
      OBVIOUS
    <3>1. Last(k, D)
      <4>1. \A j \in D : j = k
        OBVIOUS
      <4>2. k <= k
        BY SlotAssumption DEF Slots
      <4>3. QED BY <2>3, <4>1, <4>2 DEF Last
    <3>2. /\ task[t].user_defined = want[t].user_defined
          /\ task[t].user_defined => task[t].min = want[t].min
      BY <1>1, <1>2, <2>3, <3>1 DEF Undoes
    <3>3. want[t].user_defined \/ want[t].min = 0
      BY <2>4 DEF ByClass
    <3>4. QED BY <2>5, <3>2, <3>3
  <2>7. ASSUME NEW l \in D \ {k}, Last(l, D \ {k})
        PROVE  s[l].min = want[t].min /\ s[l].user_defined = want[t].user_defined
    <3>1. Last(l, D)
      BY <2>2, <2>7 DEF First, Last
    <3>2. QED BY <1>2, <2>4, <3>1 DEF Undoes
  <2>8. Undoes(D \ {k}, s, o, want[t])
    BY <2>4, <2>5, <2>6, <2>7 DEF Undoes
  <2>9. QED BY <1>1, <1>4, <2>2, <2>8, Ends
<1>5. QED BY <1>3, <1>4 DEF RestorePolicy

LEMMA RestoreFloorUnwinds ==
  ASSUME TypeOK, NEW t \in Tasks, FirstSlot(t), Unwinds(t), NEW ok \in BOOLEAN,
         RestoreFloor(t, ok)
  PROVE  Unwinds(t)'
<1> PICK D : D = Held(t)
  OBVIOUS
<1> PICK s : s = Saves(t)
  OBVIOUS
<1>1. /\ pc[t] = "restore" /\ ~saved[t].rt /\ want' = want
      /\ Held(t)' = D /\ Saves(t)' = s /\ D \in SUBSET Slots
  BY HeldSame, HeldSlots DEF RestoreFloor, history
<1>2. Undoes(D, s, task[t], want[t])
  BY <1>1, UnwindsIs DEF UnwindsOf
<1>3. CASE GoOn(t, "idle") /\ task' = task
  BY <1>1, <1>2, <1>3, Ends
<1>4. CASE /\ GoOn(t, "mark")
           /\ task' = [task EXCEPT ![t] = WithMin(@, saved[t].min, TRUE)]
  <2>1. PICK r \in Slots : Finds(t, r, FALSE)
    BY <1>1 DEF FirstSlot
  <2>2. PICK k \in Slots : First(k, D)
    BY <2>1, FoundFirst
  <2>3. k \in D /\ s[k] = saved[t]
    BY <1>1, <2>2, SlotFirst DEF First
  <2>4. \A j \in D : ~s[j].rt
    <3> SUFFICES ASSUME NEW j \in D, s[j].rt PROVE FALSE
      OBVIOUS
    <3>1. First(j, D)
      BY <1>2 DEF Undoes
    <3>2. j = k
      BY <1>1, <2>2, <3>1, FirstOnce
    <3>3. QED BY <1>1, <2>3, <3>2
  <2> PICK o : o = task'[t]
    OBVIOUS
  <2>5. o.policy = task[t].policy /\ o.min = saved[t].min
    BY <1>4 DEF TypeOK, WithMin
  <2>6. Undoes(D, s, o, want[t])
    BY <1>2, <2>3, <2>4, <2>5 DEF Undoes
  <2>7. pc'[t] = "mark" /\ saved' = saved
    BY <1>4 DEF GoOn, TypeOK
  <2>8. UnwindsOf("mark", arg'[t].mode, D, s, o, want[t], saved[t])
    BY <2>5, <2>6 DEF UnwindsOf
  <2>9. QED BY <1>1, <2>7, <2>8, UnwindsNext
<1>5. QED BY <1>3, <1>4 DEF RestoreFloor

LEMMA MarkUnwinds ==
  ASSUME TypeOK, NEW t \in Tasks, FirstSlot(t), Unwinds(t), MarkUserDefined(t)
  PROVE  Unwinds(t)'
<1> PICK D : D = Held(t)
  OBVIOUS
<1> PICK s : s = Saves(t)
  OBVIOUS
<1>1. /\ pc[t] = "mark" /\ want' = want /\ GoOn(t, "clear")
      /\ Held(t)' = D /\ Saves(t)' = s /\ D \in SUBSET Slots
  BY HeldSame, HeldSlots DEF MarkUserDefined
<1>2. Undoes(D, s, task[t], want[t]) /\ task[t].min = saved[t].min
  BY <1>1, UnwindsIs DEF UnwindsOf
<1>3. PICK r \in Slots : Finds(t, r, FALSE)
  BY <1>1 DEF FirstSlot
<1>4. PICK k \in Slots : First(k, D)
  BY <1>3, FoundFirst
<1>5. k \in D /\ s[k] = saved[t] /\ ~saved[t].rt
  BY <1>1, <1>4, SlotFirst DEF First
<1>6. \A j \in D : ~s[j].rt
  <2> SUFFICES ASSUME NEW j \in D, s[j].rt PROVE FALSE
    OBVIOUS
  <2>1. First(j, D)
    BY <1>2 DEF Undoes
  <2>2. j = k
    BY <1>1, <1>4, <2>1, FirstOnce
  <2>3. QED BY <1>5, <2>2
<1> PICK o : o = task'[t]
  OBVIOUS
<1>7. /\ o.policy = task[t].policy /\ o.min = task[t].min
      /\ o.user_defined = saved[t].user_defined
  BY DEF MarkUserDefined, TypeOK, WithMin
<1>8. o.policy = want[t].policy
  BY <1>2, <1>6, <1>7 DEF Undoes
<1>9. D \ {k} = {} => o.min = want[t].min /\ o.user_defined = want[t].user_defined
  <2> SUFFICES ASSUME D \ {k} = {}
               PROVE  o.min = want[t].min /\ o.user_defined = want[t].user_defined
    OBVIOUS
  <2>1. Last(k, D)
    <3>1. \A j \in D : j = k
      OBVIOUS
    <3>2. k <= k
      BY SlotAssumption DEF Slots
    <3>3. QED BY <1>5, <3>1, <3>2 DEF Last
  <2>2. s[k].min = want[t].min /\ s[k].user_defined = want[t].user_defined
    BY <1>2, <1>5, <1>6, <2>1 DEF Undoes
  <2>3. QED BY <1>2, <1>5, <1>7, <2>2
<1>10. ASSUME NEW l \in D \ {k}, Last(l, D \ {k})
       PROVE  s[l].min = want[t].min /\ s[l].user_defined = want[t].user_defined
  <2>1. Last(l, D)
    BY <1>4, <1>10 DEF First, Last
  <2>2. QED BY <1>2, <1>6, <2>1 DEF Undoes
<1>11. Undoes(D \ {k}, s, o, want[t])
  BY <1>6, <1>8, <1>9, <1>10 DEF Undoes
<1>12. QED BY <1>1, <1>4, <1>11, Ends

LEMMA HookUnwinds ==
  ASSUME TypeOK, NEW t \in Tasks, HookStep(t), FirstSlot(t), ByClass(want[t]), Unwinds(t)
  PROVE  Unwinds(t)'
BY ReceivedUnwinds, ReserveUnwinds, ClearUnwinds, FloorUnwinds, PromoteUnwinds, RestoreUnwinds,
   RestoreFloorUnwinds, MarkUnwinds DEF HookStep

LEMMA HookOthers ==
  ASSUME TypeOK, NEW t \in Tasks, HookStep(t)
  PROVE  /\ want' = want /\ dirty' = dirty
         /\ \A u \in Tasks : u # t => arg'[u] = arg[u] /\ task'[u] = task[u]
<1>1. want' = want /\ dirty' = dirty
  BY DEF HookStep, Received, Reserve, ClearSlot, Unboost, MarkUserDefined, ApplyFloor, PromoteRt,
         RestorePolicy, RestoreFloor, history
<1>2. ASSUME NEW u \in Tasks, u # t PROVE task'[u] = task[u]
  BY <1>2 DEF HookStep, Received, Reserve, ClearSlot, Unboost, MarkUserDefined, ApplyFloor,
              PromoteRt, RestorePolicy, RestoreFloor, TypeOK
<1>3. ASSUME NEW u \in Tasks, u # t PROVE arg'[u] = arg[u]
  <2>1. ASSUME NEW to, GoOn(t, to) PROVE arg'[u] = arg[u]
    BY <1>3, <2>1 DEF GoOn, TypeOK
  <2>2. CASE Received(t) \/ Unboost(t)
    BY <1>3, <2>2 DEF Received, Unboost, TypeOK
  <2>3. CASE Reserve(t) \/ ClearSlot(t) \/ MarkUserDefined(t)
    BY <2>1, <2>3 DEF Reserve, ClearSlot, MarkUserDefined
  <2>4. ASSUME NEW ok \in BOOLEAN,
               \/ ApplyFloor(t, ok) \/ PromoteRt(t, ok)
               \/ RestorePolicy(t, ok) \/ RestoreFloor(t, ok)
        PROVE  arg'[u] = arg[u]
    BY <2>1, <2>4 DEF ApplyFloor, PromoteRt, RestorePolicy, RestoreFloor
  <2>5. QED BY <2>2, <2>3, <2>4 DEF HookStep
<1>4. QED BY <1>1, <1>2, <1>3

Clean(t) == ByClass(want[t]) /\ (~dirty[t] => Unwinds(t))

(* Without a boost what user space sets is what the task has.               *)
LEMMA NothingHeld ==
  ASSUME TypeOK, NEW t \in Tasks, ~Boosting(t), binder_boost_tbl' = binder_boost_tbl, pc' = pc,
         task'[t].policy = want'[t].policy, task'[t].min = want'[t].min,
         task'[t].user_defined = want'[t].user_defined
  PROVE  Unwinds(t)'
<1>1. pc[t] = "idle" /\ ~HasSlot(t)
  BY DEF Boosting
<1>2. Held(t) = {}
  <2>1. \A k \in Slots : k \notin Held(t)
    BY <1>1, HeldIs, ProbeInTable DEF HasSlot
  <2>2. QED BY <2>1, HeldSlots
<1>3. Held(t)' = {}
  BY <1>2, HeldSame
<1>4. Undoes({}, Saves(t)', task'[t], want'[t])
  BY DEF Undoes
<1>5. UnwindsOf("idle", arg'[t].mode, Held(t)', Saves(t)', task'[t], want'[t], saved'[t])
  BY <1>3, <1>4 DEF UnwindsOf
<1>6. QED BY <1>1, <1>5, UnwindsNext

LEMMA UserClean ==
  ASSUME TypeOK, TypeOK', NEW t \in Tasks, UserStep(t), NEW u \in Tasks, Clean(u)
  PROVE  Clean(u)'
<1>1. binder_boost_tbl' = binder_boost_tbl /\ pc' = pc /\ saved' = saved /\ arg' = arg
  BY DEF UserStep, SetMin, SetMax, SetPolicy, Exit, UserSets, local
<1>2. CASE u # t
  <2>1. want'[u] = want[u] /\ dirty'[u] = dirty[u] /\ task'[u] = task[u]
    BY <1>2 DEF UserStep, SetMin, SetMax, SetPolicy, Exit, UserSets, TypeOK, history
  <2>2. Unwinds(u) => Unwinds(u)'
    BY <1>1, <2>1, UnwindsFrame
  <2>3. QED BY <2>1, <2>2 DEF Clean, ByClass
<1>3. CASE \E v \in Values : SetMax(u, v)
  <2>1. /\ want' = want /\ dirty' = dirty /\ task'[u].policy = task[u].policy
        /\ task'[u].min = task[u].min /\ task'[u].user_defined = task[u].user_defined
    BY <1>3 DEF SetMax, TypeOK, history
  <2>2. Unwinds(u) => Unwinds(u)'
    BY <1>1, <2>1, UnwindsFrame
  <2>3. QED BY <2>1, <2>2 DEF Clean, ByClass
<1>4. ASSUME NEW undoes, UserSets(u, undoes),
             task'[u].user_defined \/ task'[u].min = IF task'[u].policy = "fifo" THEN Scale ELSE 0
      PROVE  Clean(u)'
  <2>1. dirty'[u] = Boosting(u) /\ want'[u] = IF Boosting(u) THEN FreshWant ELSE Own(u)'
    BY <1>4 DEF UserSets, TypeOK
  <2>2. CASE Boosting(u)
    BY <2>1, <2>2 DEF Clean, ByClass, FreshWant
  <2>3. CASE ~Boosting(u)
    <3>1. /\ want'[u].policy = task'[u].policy /\ want'[u].min = task'[u].min
          /\ want'[u].user_defined = task'[u].user_defined
      BY <2>1, <2>3 DEF Own
    <3>2. Unwinds(u)'
      BY <1>1, <2>3, <3>1, NothingHeld
    <3>3. QED BY <1>4, <3>1, <3>2 DEF Clean, ByClass
  <2>4. QED BY <2>2, <2>3
<1>5. CASE \E v \in Values : SetMin(u, v)
  <2>1. task'[u].user_defined = TRUE
    BY <1>5 DEF SetMin, WithMin, TypeOK
  <2>2. QED BY <1>4, <1>5, <2>1 DEF SetMin
<1>6. CASE \E p \in UserPolicies : SetPolicy(u, p)
  <2>1. PICK p \in UserPolicies : SetPolicy(u, p)
    BY <1>6
  <2>2. task'[u] = WithPolicy(task[u], p)
    BY <2>1 DEF SetPolicy, TypeOK
  <2>3. /\ task'[u].policy = p /\ task'[u].user_defined = task[u].user_defined
        /\ ~task[u].user_defined => task'[u].min = IF p = "fifo" THEN Scale ELSE 0
    BY <2>2 DEF WithPolicy, TypeOK
  <2>4. QED BY <1>4, <2>1, <2>3 DEF SetPolicy
<1>7. CASE Exit(u)
  <2>1. /\ task'[u] = Fresh /\ want'[u] = FreshWant /\ dirty'[u] = HasSlot(u)
        /\ pc[u] = "idle"
    BY <1>7 DEF Exit, TypeOK
  <2>2. ByClass(want'[u])
    BY <2>1 DEF ByClass, FreshWant
  <2>3. ~HasSlot(u) => Unwinds(u)'
    <3>1. /\ task'[u].policy = want'[u].policy /\ task'[u].min = want'[u].min
          /\ task'[u].user_defined = want'[u].user_defined
      BY <2>1 DEF Fresh, FreshWant
    <3>2. ~HasSlot(u) => ~Boosting(u)
      BY <2>1 DEF Boosting
    <3>3. QED BY <1>1, <3>1, <3>2, NothingHeld
  <2>4. QED BY <2>1, <2>2, <2>3 DEF Clean, ByClass
<1>8. QED BY <1>2, <1>3, <1>5, <1>6, <1>7 DEF UserStep

LEMMA StackStep == IInv /\ StackInv /\ [Next]_vars => StackInv'
<1> SUFFICES ASSUME IInv, StackInv, [Next]_vars, NEW u \in Tasks PROVE Clean(u)'
  BY DEF StackInv, Clean, ByClass
<1>1. TypeOK /\ TypeOK' /\ FirstSlot(u) /\ Clean(u)
  BY TypeStep DEF IInv, StackInv, Clean
<1>2. ASSUME NEW t \in Tasks, HookStep(t) PROVE Clean(u)'
  <2>1. want' = want /\ dirty' = dirty
    BY <1>1, <1>2, HookOthers
  <2>2. CASE u = t
    <3>1. ByClass(want[u]) /\ (~dirty[u] => Unwinds(u)')
      BY <1>1, <1>2, <2>2, HookUnwinds DEF Clean
    <3>2. QED BY <2>1, <3>1 DEF Clean, ByClass
  <2>3. CASE u # t
    <3>1. /\ pc'[u] = pc[u] /\ saved'[u] = saved[u]
          /\ arg'[u] = arg[u] /\ task'[u] = task[u]
      BY <1>1, <1>2, <2>3, HookFrame, HookOthers
    <3>2. \A r \in Slots : \/ binder_boost_tbl'[r] = binder_boost_tbl[r]
                           \/ binder_boost_tbl[r].task # u /\ binder_boost_tbl'[r].task # u
      <4>1. u \notin {t, None}
        BY <2>3, TaskAssumption
      <4>2. QED BY <1>1, <1>2, <4>1, HookFrame
    <3>3. Unwinds(u) => Unwinds(u)'
      BY <2>1, <3>1, <3>2, UnwindsFrame
    <3>4. QED BY <1>1, <2>1, <3>3 DEF Clean, ByClass
  <2>4. QED BY <2>2, <2>3
<1>3. ASSUME NEW t \in Tasks, UserStep(t) PROVE Clean(u)'
  BY <1>1, <1>3, UserClean
<1>4. CASE UNCHANGED <<binder_boost_tbl, task, local, history>>
  <2>1. Unwinds(u) => Unwinds(u)'
    BY <1>4, UnwindsFrame DEF local, history
  <2>2. QED BY <1>1, <1>4, <2>1 DEF Clean, ByClass, history
<1>5. QED BY <1>2, <1>3, <1>4 DEF Next, SetTunables, vars

LEMMA InitStack == Init => StackInv
<1> SUFFICES ASSUME Init, NEW t \in Tasks PROVE ByClass(want[t]) /\ Unwinds(t)
  BY DEF StackInv
<1>1. Held(t) = {}
  <2>1. \A k \in Slots : k \notin Held(t)
    BY HeldIs, ProbeInTable, TaskAssumption DEF Init, Free
  <2>2. QED BY <2>1, HeldSlots
<1>2. Undoes({}, Saves(t), task[t], want[t])
  BY DEF Init, Undoes, Fresh, FreshWant
<1>3. UnwindsOf("idle", arg[t].mode, Held(t), Saves(t), task[t], want[t], saved[t])
  BY <1>1, <1>2 DEF UnwindsOf
<1>4. pc[t] = "idle" /\ ByClass(want[t])
  BY DEF Init, ByClass, FreshWant
<1>5. QED BY <1>3, <1>4, UnwindsIs

(* The slots of a thread are a stack of what was before each boost, at      *)
(* whatever places of the table they are, and the oldest is what user space *)
(* set.                                                                     *)
THEOREM StackInvariant == Spec => [](IInv /\ StackInv)
BY InitInv, InvStep, InitStack, StackStep, PTL DEF Spec

(* A thread without a slot runs as user space set it, for every table and   *)
(* hash: whatever was nested, failed, was tried again or taken by others    *)
(* in between, unless user space itself came in between                     *)
(* (binder_sched_opt_boost, binder_sched_opt_unboost).                      *)
THEOREM StateRestored == Spec => []Restored
<1>1. IInv /\ StackInv => Restored
  <2> SUFFICES ASSUME IInv, StackInv, NEW t \in Tasks, ~Boosting(t), ~dirty[t]
               PROVE  Own(t) = want[t]
    BY DEF Restored
  <2>1. pc[t] = "idle" /\ ~HasSlot(t)
    BY DEF Boosting
  <2>2. Held(t) = {}
    <3>1. \A k \in Slots : k \notin Held(t)
      BY <2>1, HeldIs, ProbeInTable DEF HasSlot
    <3>2. QED BY <3>1, HeldSlots
  <2>3. Undoes({}, Saves(t), task[t], want[t])
    BY <2>1, <2>2, UnwindsIs DEF StackInv, UnwindsOf
  <2>4. /\ task[t].policy = want[t].policy /\ task[t].min = want[t].min
        /\ task[t].user_defined = want[t].user_defined
    BY <2>3 DEF Undoes
  <2>5. want[t] \in State
    BY DEF IInv, TypeOK
  <2>6. QED BY <2>4, <2>5 DEF State, Own
<1>2. QED BY <1>1, StackInvariant, PTL
=============================================================================
