----------------------------- MODULE QosInherit -----------------------------
(***************************************************************************)
(* kernel/sched/sew_qos_inherit.c: the clamp lent to the threads of one    *)
(* process while they wait on a futex.                                     *)
(*                                                                         *)
(* Grain: a hook runs in the task it is about; its section under           *)
(* sew_qi_hint_lock is one step, what it looks at before the lock another. *)
(* sched_setattr() by anyone falls before or after a section.  The bucket  *)
(* goes with the value and is left out.                                    *)
(***************************************************************************)
EXTENDS Integers, FiniteSets

CONSTANTS
  Waiters,      (* tasks, each known by its tid                            *)
  TgidOf,       (* the process of each                                     *)
  NoTid,        (* tid 0                                                   *)
  HINT_SLOTS,   (* SEW_QI_HINT_SLOTS                                       *)
  Tgids,        (* what is written as vip_tgid; 0 is nobody                *)
  Hints,        (* what is written as uclamp_min                           *)
  Clamps,       (* what sched_setattr() is given                           *)
  MaxActive     (* bound: hints counted, those forgotten included          *)

Utils == 0..1024   (* up to SCHED_CAPACITY_SCALE *)

ASSUME HintAssumption ==
  /\ IsFiniteSet(Waiters) /\ NoTid \notin Waiters
  /\ TgidOf \in [Waiters -> Nat \ {0}] /\ Tgids \subseteq Nat
  /\ HINT_SLOTS \in Nat /\ MaxActive \in Nat
  /\ Hints \subseteq Utils /\ Hints # {} /\ Clamps \subseteq Utils

VARIABLES
  vip_tgid, hint_min,   (* sew_qi_vip_tgid, sew_qi_uclamp_min              *)
  hints,                (* sew_qi_hints                                    *)
  active_hints,
  uclamp_req,           (* of each task its UCLAMP_MIN request             *)
  hooks,                (* where the module is, and so its hooks           *)
  wait,                 (* where a task is in futex_wait()                 *)
  asked,                (* history: the clamp each task last asked for     *)
  overtaken,            (* history: tasks that asked during a loan         *)
  forgotten             (* history: tasks whose wait ended without a hook  *)

waiting == <<hooks, wait>>
tuning == <<vip_tgid, hint_min>>
table == <<hints, active_hints, uclamp_req>>
past == <<asked, overtaken, forgotten>>
qvars == <<tuning, table, waiting, past>>

HintSlots == 1..HINT_SLOTS
NoHint == [tid |-> NoTid, prev |-> 0]

SlotsOf(t) == {i \in HintSlots : hints[i].tid = t}
Used == {i \in HintSlots : hints[i].tid # NoTid}

StartHooked == hooks \in {"half", "loaded"}
EndHooked == hooks \in {"loaded", "half_off"}

(* The search of wait_start(): the slot of the task, or the first free one. *)
Candidates(t) ==
  LET own == SlotsOf(t)
      of == IF own # {} THEN own ELSE SlotsOf(NoTid)
  IN {i \in of : \A j \in of : i <= j}

WaitTo(t, from, to) == wait[t] = from /\ wait' = [wait EXCEPT ![t] = to]

-----------------------------------------------------------------------------
(* futex_wait(): sew_qi_wait_start() up to its lock                         *)
WaitStart(t) ==
  /\ WaitTo(t, "out", IF StartHooked /\ vip_tgid # 0 /\ TgidOf[t] = vip_tgid
                        THEN "start" ELSE "waiting")
  /\ UNCHANGED <<tuning, table, hooks, past>>

(* sew_qi_wait_start() under the lock; a full table refuses.                *)
TakeHint(t) ==
  /\ active_hints < MaxActive
  /\ WaitTo(t, "start", "waiting")
  /\ IF Candidates(t) = {} THEN UNCHANGED table
     ELSE /\ \E i \in Candidates(t) :
               hints' = [hints EXCEPT ![i] = [tid |-> t, prev |-> uclamp_req[t]]]
          /\ active_hints' = active_hints + 1
          /\ uclamp_req' = [uclamp_req EXCEPT ![t] = hint_min]
  /\ UNCHANGED <<tuning, hooks, past>>

(* Mutant: only the threads of the process that is chosen now are looked at.*)
EndsOfVip(t) == active_hints # 0 /\ TgidOf[t] = vip_tgid

(* sew_qi_wait_end() goes on to take the lock.                              *)
Ends(t) == active_hints # 0

(* The wait is over: sew_qi_wait_end() up to its lock                       *)
WaitEnd(t) ==
  /\ WaitTo(t, "waiting", IF EndHooked /\ Ends(t) THEN "end" ELSE "out")
  /\ forgotten' = IF EndHooked THEN forgotten ELSE forgotten \cup {t}
  /\ UNCHANGED <<tuning, table, hooks, asked, overtaken>>

(* sew_qi_wait_end() under the lock                                         *)
ReturnHint(t) ==
  /\ WaitTo(t, "end", "out")
  /\ IF SlotsOf(t) = {} THEN UNCHANGED table
     ELSE /\ \E i \in {k \in SlotsOf(t) : \A j \in SlotsOf(t) : k <= j} :
               /\ uclamp_req' = [uclamp_req EXCEPT ![t] = hints[i].prev]
               /\ hints' = [hints EXCEPT ![i].tid = NoTid]
          /\ active_hints' = active_hints - 1
  /\ UNCHANGED <<tuning, hooks, past>>

(* sched_setattr() on a task, by itself or another                          *)
SetAttr(t, clamp) ==
  /\ uclamp_req' = [uclamp_req EXCEPT ![t] = clamp]
  /\ asked' = [asked EXCEPT ![t] = clamp]
  /\ overtaken' = IF SlotsOf(t) # {} THEN overtaken \cup {t} ELSE overtaken \ {t}
  /\ forgotten' = IF SlotsOf(t) # {} THEN forgotten ELSE forgotten \ {t}
  /\ UNCHANGED <<tuning, hints, active_hints, waiting>>

(* sew_qi_proc_write()                                                      *)
SetVip(tgid) ==
  /\ vip_tgid' = tgid
  /\ UNCHANGED <<hint_min, table, waiting, past>>

SetHint(clamp) ==
  /\ hint_min' = clamp
  /\ UNCHANGED <<vip_tgid, table, waiting, past>>

(* sew_qos_inherit_init() registers one hook and then the other, and takes  *)
(* them off in that order if there is no proc entry; sew_qos_inherit_exit().*)
HooksTo(from, to) ==
  /\ hooks = from /\ hooks' = to
  /\ UNCHANGED <<tuning, table, wait, past>>

QosInit ==
  /\ vip_tgid = 0 /\ hint_min \in Hints
  /\ hints = [i \in HintSlots |-> NoHint] /\ active_hints = 0
  /\ asked \in [Waiters -> Clamps] /\ uclamp_req = asked
  /\ hooks = "none"
  /\ wait = [t \in Waiters |-> "out"]
  /\ overtaken = {} /\ forgotten = {}

QosNext ==
  \/ \E t \in Waiters : WaitStart(t)
  \/ \E t \in Waiters : TakeHint(t)
  \/ \E t \in Waiters : WaitEnd(t)
  \/ \E t \in Waiters : ReturnHint(t)
  \/ \E t \in Waiters, clamp \in Clamps : SetAttr(t, clamp)
  \/ \E tgid \in Tgids : SetVip(tgid)
  \/ \E clamp \in Hints : SetHint(clamp)
  \/ HooksTo("none", "half")
  \/ HooksTo("half", "gone")
  \/ HooksTo("half", "loaded")
  \/ HooksTo("loaded", "half_off")
  \/ HooksTo("half_off", "gone")

QosSpec == QosInit /\ [][QosNext]_qvars

-----------------------------------------------------------------------------
(* Types: tids in the table, clamps within 0..1024.                         *)
QosTypeOK ==
  /\ vip_tgid \in Nat /\ hint_min \in Hints
  /\ hints \in [HintSlots -> [tid : Waiters \cup {NoTid}, prev : Utils]]
  /\ active_hints \in Int
  /\ uclamp_req \in [Waiters -> Utils] /\ asked \in [Waiters -> Utils]
  /\ hooks \in {"none", "half", "loaded", "half_off", "gone"}
  /\ wait \in [Waiters -> {"out", "start", "waiting", "end"}]
  /\ overtaken \subseteq Waiters /\ forgotten \subseteq Waiters

(* A slot belongs to one task, which is in a wait unless the module forgot  *)
(* it; the count that lets a wait end without a search is never too small.  *)
SlotsHeld ==
  /\ \A i, j \in Used : hints[i].tid = hints[j].tid => i = j
  /\ \A i \in Used : \/ wait[hints[i].tid] \in {"waiting", "end"}
                     \/ hints[i].tid \in forgotten
  /\ active_hints >= Cardinality(Used)

(* A loan ends with the wait it was made for: out of a wait a task has the  *)
(* clamp it asked for, whatever has been written to vip_tgid and uclamp_min *)
(* meanwhile and however full the table was.  Excepted are tasks that asked *)
(* during the loan, whose wish is overwritten, and tasks whose wait ended   *)
(* with the module unloaded (sew_qi_wait_start, sew_qi_wait_end).           *)
HintsReturned ==
  \A t \in Waiters :
    t \notin overtaken \cup forgotten =>
      \/ wait[t] \in {"waiting", "end"} /\ SlotsOf(t) # {}
      \/ uclamp_req[t] = asked[t]
=============================================================================
