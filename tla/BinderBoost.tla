----------------------------- MODULE BinderBoost -----------------------------
(***************************************************************************)
(* drivers/android/binder_sched_opt.c: the table of boosted threads.       *)
(*                                                                         *)
(* Grain: both hooks run in the thread they are about, so a thread is in   *)
(* one of them at a time; threads meet in the table and user space sets    *)
(* their scheduling at any moment.  A section under binder_boost_lock is   *)
(* one step, and so is what lies between two of them, except for the       *)
(* user_defined marker, which is written after sched_setattr() returned.   *)
(* The master switch has the effect of mode 0; SCHED_RESET_ON_FORK, nice   *)
(* values and the counters of the status file are left out.                *)
(***************************************************************************)
EXTENDS Naturals

CONSTANTS
  Tasks,      (* the addresses of task_structs that can match              *)
  None,
  NSlots,     (* BINDER_BOOST_SLOTS                                        *)
  Hash,       (* binder_boost_hash() of each                               *)
  Scale,      (* SCHED_CAPACITY_SCALE                                      *)
  Floors,     (* values of the tunable uclamp_min                          *)
  UserPolicies,   (* the policies user space sets                          *)
  Settable    (* bound: the tasks user space sets, and that exit           *)

ASSUME SlotAssumption == NSlots \in Nat \ {0} /\ Hash \in [Tasks -> 0..(NSlots - 1)]
ASSUME TaskAssumption == None \notin Tasks /\ Settable \subseteq Tasks
ASSUME ScaleAssumption == Scale \in Nat \ {0} /\ Floors \subseteq Nat
ASSUME PolicyAssumption == UserPolicies \subseteq {"normal", "batch", "fifo", "idle"}

VARIABLES
  binder_boost_tbl,
  mode, uclamp_min,   (* the tunables                                      *)
  task,       (* uclamp_req (min, user_defined, max) and policy of a task  *)
  pc, arg,    (* where a task is in a hook, the mode and target it read    *)
  saved,      (* what it read of itself, or copied from its slot           *)
  lent,       (* history: which changes to a task are still to be undone   *)
  want,       (* history: what user space set                              *)
  dirty       (* history: user space has set something during a boost, or  *)
              (* the thread has come to the slot of one that exited        *)

tunables == <<mode, uclamp_min>>
local == <<pc, arg, saved>>
history == <<lent, want, dirty>>
vars == <<binder_boost_tbl, tunables, task, local, history>>

Slots == 0..(NSlots - 1)
Policies == {"normal", "batch", "fifo", "idle"}
Values == 0..Scale

State == [min : Values, user_defined : BOOLEAN, policy : Policies]
Saved == [min : Values, user_defined : BOOLEAN, policy : Policies, rt : BOOLEAN]

Nothing == [min |-> 0, user_defined |-> FALSE, policy |-> "normal", rt |-> FALSE]
Free == [task |-> None, save |-> Nothing]

Fresh == [min |-> 0, user_defined |-> FALSE, policy |-> "normal", max |-> Scale]
FreshWant == [min |-> 0, user_defined |-> FALSE, policy |-> "normal"]

Own(t) == [min |-> task[t].min, user_defined |-> task[t].user_defined,
           policy |-> task[t].policy]

-----------------------------------------------------------------------------
Probe(t, k) == (Hash[t] + k) % NSlots

Hit(t, s, for_insert) ==
  binder_boost_tbl[s].task = t \/ (for_insert /\ binder_boost_tbl[s].task = None)

(* binder_boost_find() returns slot s.                                      *)
Finds(t, s, for_insert) ==
  \E k \in Slots :
    /\ s = Probe(t, k)
    /\ Hit(t, s, for_insert)
    /\ \A j \in Slots : j < k => ~Hit(t, Probe(t, j), for_insert)

FindsNone(t, for_insert) == \A s \in Slots : ~Finds(t, s, for_insert)

NoArg == [mode |-> 0, target |-> 0]

(* To the next step; what is not used from there on is forgotten.           *)
GoOn(t, to) ==
  /\ pc' = [pc EXCEPT ![t] = to]
  /\ IF to \in {"idle", "clear"}
     THEN arg' = [arg EXCEPT ![t] = NoArg] /\ saved' = [saved EXCEPT ![t] = Nothing]
     ELSE UNCHANGED <<arg, saved>>

(* __setscheduler_uclamp(): a clamp that user space has not defined follows *)
(* the class.                                                               *)
WithPolicy(r, p) ==
  [r EXCEPT !.policy = p,
            !.min = IF r.user_defined THEN @ ELSE IF p = "fifo" THEN Scale ELSE 0]

WithMin(r, v, defined) == [r EXCEPT !.min = v, !.user_defined = defined]

-----------------------------------------------------------------------------
(* binder_sched_opt_transaction_received() and boost() up to the lock.      *)
Target(v) == IF v > Scale THEN Scale ELSE v

Eligible(t, m) ==
  IF m = 2 THEN task[t].policy = "normal"
  ELSE /\ m # 0 /\ uclamp_min # 0
       /\ task[t].policy \in {"normal", "batch"}
       /\ task[t].min < Target(uclamp_min)

Received(t) ==
  /\ pc[t] = "idle" /\ pc' = [pc EXCEPT ![t] = "reserve"]
  /\ Eligible(t, mode)
  /\ arg' = [arg EXCEPT ![t] = [mode |-> mode, target |-> Target(uclamp_min)]]
  /\ saved' = [saved EXCEPT ![t] =
       IF mode = 2 THEN Nothing
       ELSE [Nothing EXCEPT !.min = task[t].min, !.user_defined = task[t].user_defined]]
  /\ UNCHANGED <<binder_boost_tbl, tunables, task, history>>

(* The slot is reserved; none is left, or the task has one (nested).        *)
Reserve(t) ==
  /\ pc[t] = "reserve"
  /\ \/ /\ FindsNone(t, TRUE)
        /\ GoOn(t, "idle")
        /\ UNCHANGED binder_boost_tbl
     \/ \E s \in Slots :
          /\ Finds(t, s, TRUE)
          /\ IF binder_boost_tbl[s].task = t
             THEN GoOn(t, "idle") /\ UNCHANGED binder_boost_tbl
             ELSE /\ GoOn(t, "apply")
                  /\ binder_boost_tbl' = [binder_boost_tbl EXCEPT ![s] =
                       [task |-> t, save |-> [saved[t] EXCEPT !.policy = task[t].policy]]]
  /\ UNCHANGED <<tunables, task, history>>

(* binder_uclamp_write() succeeds in a context that may sleep, ok, if the  *)
(* value is within the task's own maximum.                                  *)
Writable(t, v, ok) == ok /\ v <= task[t].max

ApplyFloor(t, ok) ==
  /\ pc[t] = "apply" /\ arg[t].mode # 2
  /\ IF Writable(t, arg[t].target, ok)
     THEN /\ task' = [task EXCEPT ![t] = WithMin(@, arg[t].target, TRUE)]
          /\ lent' = [lent EXCEPT ![t] = @ \cup {"floor"}]
          /\ GoOn(t, "idle")
     ELSE UNCHANGED <<task, lent>> /\ GoOn(t, "clear")
  /\ UNCHANGED <<binder_boost_tbl, tunables, want, dirty>>

(* binder_sched_opt_promote_rt() on the slot just reserved, the only one of *)
(* the task that no find could come before.                                 *)
PromoteRt(t, ok) ==
  /\ pc[t] = "apply" /\ arg[t].mode = 2
  /\ IF ok /\ task[t].policy = "normal"
     THEN /\ task' = [task EXCEPT ![t] = WithPolicy(@, "fifo")]
          /\ \E s \in Slots :
               /\ Finds(t, s, FALSE)
               /\ binder_boost_tbl' = [binder_boost_tbl EXCEPT
                    ![s].save = [@ EXCEPT !.policy = "normal", !.rt = TRUE]]
          /\ lent' = [lent EXCEPT ![t] = @ \cup {"rt"}]
          /\ GoOn(t, "idle")
     ELSE UNCHANGED <<task, binder_boost_tbl, lent>> /\ GoOn(t, "clear")
  /\ UNCHANGED <<tunables, want, dirty>>

(* The rollback of a boost and the end of a restore.                        *)
ClearSlot(t) ==
  /\ pc[t] = "clear" /\ GoOn(t, "idle")
  /\ \E s \in Slots :
       /\ Finds(t, s, FALSE)
       /\ binder_boost_tbl' = [binder_boost_tbl EXCEPT ![s] = Free]
  /\ UNCHANGED <<tunables, task, history>>

-----------------------------------------------------------------------------
(* binder_sched_opt_unboost(): whatever the mode is now.                    *)
Unboost(t) ==
  /\ pc[t] = "idle" /\ pc' = [pc EXCEPT ![t] = "restore"]
  /\ \E s \in Slots :
       Finds(t, s, FALSE) /\ saved' = [saved EXCEPT ![t] = binder_boost_tbl[s].save]
  /\ UNCHANGED <<binder_boost_tbl, tunables, task, arg, history>>

(* The slots that owe the task a restore of one kind; the change they are  *)
(* for is undone with the last of them.                                     *)
Owing(t, rt) == {s \in Slots : binder_boost_tbl[s].task = t /\ binder_boost_tbl[s].save.rt = rt}

Undone(t, kind, rt) ==
  lent' = [lent EXCEPT ![t] = IF \E r, s \in Owing(t, rt) : r # s THEN @ ELSE @ \ {kind}]

(* Mutant: the slot is cleared also when nothing was restored.              *)
RestorePolicyClears(t, ok) ==
  /\ pc[t] = "restore" /\ saved[t].rt
  /\ IF ok THEN /\ task' = [task EXCEPT ![t] = WithPolicy(@, saved[t].policy)]
                /\ Undone(t, "rt", TRUE)
     ELSE UNCHANGED <<task, lent>>
  /\ GoOn(t, "clear")
  /\ UNCHANGED <<binder_boost_tbl, tunables, want, dirty>>

(* Its slot stays when the restore could not run.                           *)
RestorePolicy(t, ok) ==
  /\ pc[t] = "restore" /\ saved[t].rt
  /\ IF ok
     THEN /\ task' = [task EXCEPT ![t] = WithPolicy(@, saved[t].policy)]
          /\ Undone(t, "rt", TRUE)
          /\ GoOn(t, "clear")
     ELSE UNCHANGED <<task, lent>> /\ GoOn(t, "idle")
  /\ UNCHANGED <<binder_boost_tbl, tunables, want, dirty>>

RestoreFloor(t, ok) ==
  /\ pc[t] = "restore" /\ ~saved[t].rt
  /\ IF Writable(t, saved[t].min, ok)
     THEN /\ task' = [task EXCEPT ![t] = WithMin(@, saved[t].min, TRUE)]
          /\ GoOn(t, "mark")
     ELSE UNCHANGED task /\ GoOn(t, "idle")
  /\ UNCHANGED <<binder_boost_tbl, tunables, history>>

(* Mutant: the marker stays as the write set it.                            *)
MarkDefined(t) ==
  /\ pc[t] = "mark" /\ GoOn(t, "clear")
  /\ Undone(t, "floor", FALSE)
  /\ UNCHANGED <<binder_boost_tbl, tunables, task, want, dirty>>

MarkUserDefined(t) ==
  /\ pc[t] = "mark" /\ GoOn(t, "clear")
  /\ task' = [task EXCEPT ![t] = WithMin(@, @.min, saved[t].user_defined)]
  /\ Undone(t, "floor", FALSE)
  /\ UNCHANGED <<binder_boost_tbl, tunables, want, dirty>>

-----------------------------------------------------------------------------
(* User space, and binder itself, set the scheduling of a thread.           *)
HasSlot(t) == \E s \in Slots : binder_boost_tbl[s].task = t

Boosting(t) == pc[t] # "idle" \/ HasSlot(t)

UserSets(t, undoes) ==
  /\ t \in Settable
  /\ dirty' = [dirty EXCEPT ![t] = Boosting(t)]
  /\ want' = [want EXCEPT ![t] = IF Boosting(t) THEN FreshWant ELSE Own(t)']
  /\ lent' = [lent EXCEPT ![t] = @ \ undoes]
  /\ UNCHANGED <<binder_boost_tbl, tunables, local>>

SetMin(t, v) ==
  /\ v <= task[t].max
  /\ task' = [task EXCEPT ![t] = WithMin(@, v, TRUE)]
  /\ UserSets(t, {"floor"})

SetPolicy(t, p) ==
  /\ task' = [task EXCEPT ![t] = WithPolicy(@, p)]
  /\ UserSets(t, {"rt"})

(* A maximum is not what a boost changes.                                   *)
SetMax(t, v) ==
  /\ t \in Settable
  /\ task[t].min <= v
  /\ task' = [task EXCEPT ![t].max = v]
  /\ UNCHANGED <<binder_boost_tbl, tunables, local, history>>

SetTunables(m, v) ==
  /\ mode' = m /\ uclamp_min' = v
  /\ UNCHANGED <<binder_boost_tbl, task, local, history>>

(* A thread is killed in its transaction and its address is used again: no *)
(* hook clears its slot, which the new thread then has.                     *)
Exit(t) ==
  /\ t \in Settable /\ pc[t] = "idle"
  /\ task' = [task EXCEPT ![t] = Fresh]
  /\ lent' = [lent EXCEPT ![t] = {}]
  /\ want' = [want EXCEPT ![t] = FreshWant]
  /\ dirty' = [dirty EXCEPT ![t] = HasSlot(t)]
  /\ UNCHANGED <<binder_boost_tbl, tunables, local>>

-----------------------------------------------------------------------------
Init ==
  /\ binder_boost_tbl = [s \in Slots |-> Free]
  /\ mode = 1 /\ uclamp_min \in Floors
  /\ task = [t \in Tasks |-> Fresh]
  /\ pc = [t \in Tasks |-> "idle"]
  /\ arg = [t \in Tasks |-> NoArg]
  /\ saved = [t \in Tasks |-> Nothing]
  /\ lent = [t \in Tasks |-> {}]
  /\ want = [t \in Tasks |-> FreshWant]
  /\ dirty = [t \in Tasks |-> FALSE]

HookStep(t) ==
  \/ Received(t) \/ Reserve(t) \/ ClearSlot(t)
  \/ Unboost(t) \/ MarkUserDefined(t)
  \/ \E ok \in BOOLEAN :
       ApplyFloor(t, ok) \/ PromoteRt(t, ok) \/ RestorePolicy(t, ok) \/ RestoreFloor(t, ok)

UserStep(t) ==
  \/ \E v \in Values : SetMin(t, v) \/ SetMax(t, v)
  \/ \E p \in UserPolicies : SetPolicy(t, p)
  \/ Exit(t)

Next ==
  \/ \E t \in Tasks : HookStep(t) \/ UserStep(t)
  \/ \E m \in 0..2, v \in Floors : SetTunables(m, v)

Spec == Init /\ [][Next]_vars

-----------------------------------------------------------------------------
TypeOK ==
  /\ binder_boost_tbl \in [Slots -> [task : Tasks \cup {None}, save : Saved]]
  /\ mode \in 0..2 /\ uclamp_min \in Floors
  /\ task \in [Tasks -> [min : Values, user_defined : BOOLEAN, policy : Policies,
                         max : Values]]
  /\ pc \in [Tasks -> {"idle", "reserve", "apply", "clear", "restore", "mark"}]
  /\ arg \in [Tasks -> [mode : 0..2, target : Values]]
  /\ saved \in [Tasks -> Saved]
  /\ lent \in [Tasks -> SUBSET {"floor", "rt"}]
  /\ want \in [Tasks -> State]
  /\ dirty \in [Tasks -> BOOLEAN]

(* "losing a boost is harmless, leaking one is not": a raised floor and a  *)
(* promotion that nobody else has replaced are in a slot, from which a      *)
(* restore will find them; whatever fails, and however the tunables change. *)
NoBoostLeaks ==
  \A t \in Tasks :
    /\ "floor" \in lent[t] => Owing(t, FALSE) # {}
    /\ "rt" \in lent[t] => Owing(t, TRUE) # {}

(* A thread without a slot has the floor, the marker and the policy that    *)
(* user space gave it, through nested boosts, changes of mode and floor and *)
(* restores that failed; unless user space set them while it was boosted,  *)
(* or the slot was one that a thread left behind.                           *)
Restored ==
  \A t \in Tasks : ~Boosting(t) /\ ~dirty[t] => Own(t) = want[t]

(* What makes NoBoostLeaks inductive.  A task past its reservation has its *)
(* slot first in its probe order, and one about to be cleared is not the    *)
(* only one owing what it owes.                                             *)
Spare(t, s) ==
  LET rt == binder_boost_tbl[s].save.rt
  IN (IF rt THEN "rt" ELSE "floor") \in lent[t] => Owing(t, rt) \ {s} # {}

FirstSlot(t) ==
  /\ pc[t] \in {"apply", "clear"} =>
       \E s \in Slots : /\ Finds(t, s, FALSE) /\ Spare(t, s)
                        /\ pc[t] = "apply" => ~binder_boost_tbl[s].save.rt
  /\ pc[t] \in {"restore", "mark"} =>
       \E s \in Slots : Finds(t, s, FALSE) /\ binder_boost_tbl[s].save = saved[t]
  /\ pc[t] = "mark" => ~saved[t].rt
  /\ pc[t] = "reserve" => ~saved[t].rt

IInv == TypeOK /\ NoBoostLeaks /\ \A t \in Tasks : FirstSlot(t)

(* What makes Restored inductive.  An insertion takes a hole in front of    *)
(* the slots a task has, and a find returns the first: they are a stack,   *)
(* kept in the places of the probe.                                         *)
Held(t) == {k \in Slots : binder_boost_tbl[Probe(t, k)].task = t}
Saves(t) == [k \in Slots |-> binder_boost_tbl[Probe(t, k)].save]
First(k, D) == k \in D /\ \A j \in D : k <= j
Last(k, D) == k \in D /\ \A j \in D : j <= k

(* With the saves in D undone, the first of them first, own is what set is: *)
(* the oldest has saved it, and a promotion is the newest, since nothing    *)
(* boosts a thread that has one.                                            *)
Undoes(D, save, own, set) ==
  /\ D = {} => /\ own.policy = set.policy /\ own.min = set.min
               /\ own.user_defined = set.user_defined
  /\ (\A k \in D : ~save[k].rt) => own.policy = set.policy
  /\ \A k \in D : save[k].rt =>
       /\ First(k, D) /\ save[k].policy = "normal"
       /\ own.policy = "fifo" /\ set.policy = "normal"
  /\ \A k \in D : Last(k, D) =>
       IF save[k].rt THEN /\ own.user_defined = set.user_defined
                          /\ own.user_defined => own.min = set.min
       ELSE save[k].min = set.min /\ save[k].user_defined = set.user_defined

(* What a boost that is not a promotion saves                               *)
SavedOwn(t, save) ==
  arg[t].mode # 2 => save.min = task[t].min /\ save.user_defined = task[t].user_defined

Unwinds(t) ==
  /\ pc[t] \in {"idle", "reserve", "restore", "mark"} =>
       Undoes(Held(t), Saves(t), task[t], want[t])
  /\ pc[t] \in {"apply", "clear"} =>
       \E k \in Slots : /\ First(k, Held(t))
                        /\ Undoes(Held(t) \ {k}, Saves(t), task[t], want[t])
                        /\ pc[t] = "apply" => SavedOwn(t, Saves(t)[k])
  /\ pc[t] \in {"reserve", "apply"} => task[t].policy # "fifo"
  /\ pc[t] = "reserve" => SavedOwn(t, saved[t])
  /\ pc[t] = "mark" => task[t].min = saved[t].min

ByClass(r) == r.user_defined \/ r.min = IF r.policy = "fifo" THEN Scale ELSE 0

StackInv == \A t \in Tasks : ByClass(want[t]) /\ (~dirty[t] => Unwinds(t))
=============================================================================
