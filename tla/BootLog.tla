------------------------------- MODULE BootLog -------------------------------
(***************************************************************************)
(* drivers/xiaomi/boottime/boottime.c: the log behind /proc/bootprof and   *)
(* the initcalls it times.                                                 *)
(*                                                                         *)
(* Grain: a section under bootprof_lock or initcall_lock is one step, the  *)
(* (un)registration of a probe is another; a callback that has been entered*)
(* goes on although its probe is taken away.  Clock readings are not kept: *)
(* an entry is known by the number of the initcall of its task, and whether*)
(* one took longer than the threshold is open.                             *)
(***************************************************************************)
EXTENDS Integers, SequencesExt

CONSTANTS
  Callers,      (* tasks that run initcalls                                *)
  Writers,      (* tasks that write to /proc/bootprof                      *)
  NULL,
  BUF_COUNT, LOGS_PER_BUF,
  AsModule,     (* built as a module, not into the kernel                  *)
  MaxCalls      (* bound: the initcalls of each task                         *)

(* A buffer, its entries written yet or not                                 *)
Buffers == [0..(LOGS_PER_BUF - 1) -> Callers \cup Writers \cup {NULL}]

ASSUME LogAssumption ==
  /\ BUF_COUNT \in Nat \ {0} /\ LOGS_PER_BUF \in Nat \ {0} /\ MaxCalls \in [Callers -> Nat]
  /\ AsModule \in BOOLEAN
  /\ Callers \cap Writers = {} /\ NULL \notin Callers \cup Writers
  /\ NULL \notin Buffers

VARIABLES
  enabled, boot_finish,
  log_count,
  bootprof,       (* the buffers; of an entry its comm_event, written as   *)
                  (* the task that logged it                               *)
  initcall_list,
  probes,         (* the tracepoints whose callback is registered          *)
  booting,        (* where bootprof_init() is                              *)
  step,           (* where a task is                                       *)
  call,           (* the number of its initcall                            *)
  missed          (* history: tasks whose last recorded initcall ended     *)
                  (* without the finish callback                           *)

logvars == <<enabled, log_count, bootprof>>
listvars == <<initcall_list, missed>>
bvars == <<logvars, boot_finish, listvars, probes, booting, step, call>>

Actors == Callers \cup Writers
LogSize == BUF_COUNT * LOGS_PER_BUF
Empty == [i \in 0..(LOGS_PER_BUF - 1) |-> NULL]

Buf(k) == k \div LOGS_PER_BUF
Pos(k) == k % LOGS_PER_BUF

(* Mutant: an entry counts before its text is there.                        *)
LogFailedCounted(b) == bootprof' = b /\ log_count' = log_count + 1 /\ enabled' = FALSE

(* No memory for the text of an entry (err 3)                               *)
LogFailed(b) == bootprof' = b /\ enabled' = FALSE /\ UNCHANGED log_count

(* The entry is the first one of a further buffer.                          *)
FirstOfBuffer == log_count # 0 /\ Pos(log_count) = 0

(* kcalloc() of a buffer, in place of what was there                        *)
Grown(mem) ==
  IF FirstOfBuffer THEN [bootprof EXCEPT ![Buf(log_count)] = IF mem THEN Empty ELSE NULL]
               ELSE bootprof

(* bootprof_log_boot(), with memory for a buffer and for the text or not    *)
LogBoot(a, mem, text) ==
  IF ~enabled THEN UNCHANGED logvars
  ELSE IF log_count >= LogSize
    THEN enabled' = FALSE /\ UNCHANGED <<log_count, bootprof>>
  ELSE IF Grown(mem)[Buf(log_count)] = NULL
    THEN bootprof' = Grown(mem) /\ UNCHANGED <<enabled, log_count>>
  ELSE IF ~text THEN LogFailed(Grown(mem))
  ELSE /\ bootprof' = [Grown(mem) EXCEPT ![Buf(log_count)][Pos(log_count)] = a]
       /\ log_count' = log_count + 1
       /\ UNCHANGED enabled

StepTo(a, from, to) == step[a] = from /\ step' = [step EXCEPT ![a] = to]

-----------------------------------------------------------------------------
(* do_one_initcall(): a task begins one, and ends it.                       *)
InitcallBegins(t) ==
  /\ call[t] < MaxCalls[t]
  /\ StepTo(t, "out", IF "initcall_start" \in probes THEN "starting" ELSE "in")
  /\ call' = [call EXCEPT ![t] = @ + 1]
  /\ UNCHANGED <<logvars, boot_finish, listvars, probes, booting>>

Started(t) == [task |-> t, call |-> call[t]]

(* Mutant: a second entry of the task next to the first.                    *)
DuplicatesKept(t) == initcall_list

(* The first n entries without those of t                                   *)
DuplicatesOut(t) ==
  LET kept[n \in 0..Len(initcall_list)] ==
        IF n = 0 THEN <<>>
        ELSE IF initcall_list[n].task = t THEN kept[n - 1]
        ELSE Append(kept[n - 1], initcall_list[n])
  IN kept[Len(initcall_list)]

(* tp_initcall_start_cb(); without memory nothing is recorded.              *)
StartCb(t, mem) ==
  /\ StepTo(t, "starting", "in")
  /\ IF mem THEN /\ initcall_list' = Append(DuplicatesOut(t), Started(t))
                 /\ missed' = missed \ {t}
            ELSE UNCHANGED listvars
  /\ UNCHANGED <<logvars, boot_finish, probes, booting, call>>

InitcallEnds(t) ==
  /\ StepTo(t, "in", IF "initcall_finish" \in probes THEN "finishing" ELSE "out")
  /\ missed' = IF "initcall_finish" \in probes THEN missed ELSE missed \cup {t}
  /\ UNCHANGED <<logvars, boot_finish, initcall_list, probes, booting, call>>

EntriesOf(t) == {i \in DOMAIN initcall_list : initcall_list[i].task = t}

EntryTaken(t) ==
  IF EntriesOf(t) = {} THEN initcall_list
  ELSE RemoveAt(initcall_list, CHOOSE i \in EntriesOf(t) : \A j \in EntriesOf(t) : i <= j)

(* tp_initcall_finish_cb() under initcall_lock: an entry that is missing is *)
(* taken for that of this module, others are for bootprof_initcall().       *)
FinishCb(t, slow) ==
  /\ LET logs == IF EntriesOf(t) = {} THEN AsModule ELSE slow
     IN StepTo(t, "finishing", IF logs THEN "logging" ELSE "out")
  /\ initcall_list' = EntryTaken(t)
  /\ UNCHANGED <<logvars, boot_finish, missed, probes, booting, call>>

LogInitcall(t, mem, text) ==
  /\ StepTo(t, "logging", "out")
  /\ LogBoot(t, mem, text)
  /\ UNCHANGED <<boot_finish, listvars, probes, booting, call>>

-----------------------------------------------------------------------------
(* bootprof_init() after proc_create(): tp_init(), then the switch.         *)
Register(tp, next) ==
  /\ booting = tp /\ booting' = next
  /\ probes' = probes \cup {tp}
  /\ UNCHANGED <<logvars, boot_finish, listvars, step, call>>

(* The kernel has no such tracepoint: tp_deinit() of what is registered.    *)
NotFound(tp) ==
  /\ booting = tp /\ booting' = "unload"
  /\ UNCHANGED <<logvars, boot_finish, listvars, probes, step, call>>

UnloadProbes ==
  /\ booting = "unload" /\ booting' = "unload_list"
  /\ probes' = {}
  /\ UNCHANGED <<logvars, boot_finish, listvars, step, call>>

UnloadList ==
  /\ booting = "unload_list" /\ booting' = "on"
  /\ initcall_list' = <<>>
  /\ UNCHANGED <<logvars, boot_finish, missed, probes, step, call>>

FirstSwitchOn ==
  /\ booting = "on" /\ booting' = "done"
  /\ enabled' = TRUE
  /\ UNCHANGED <<log_count, bootprof, boot_finish, listvars, probes, step, call>>

(* mt_bootprof_write() of a text                                            *)
WriteLog(w, mem, text) ==
  /\ step[w] = "out"
  /\ LogBoot(w, mem, text)
  /\ UNCHANGED <<boot_finish, listvars, probes, booting, step, call>>

(* mt_bootprof_switch() under bootprof_lock                                 *)
SwitchOn(w) ==
  /\ step[w] = "out"
  /\ enabled' = TRUE
  /\ UNCHANGED <<log_count, bootprof, boot_finish, listvars, probes, booting, step, call>>

SwitchOff(w) ==
  /\ StepTo(w, "out", IF enabled THEN "off" ELSE "out")
  /\ enabled' = FALSE
  /\ UNCHANGED <<log_count, bootprof, boot_finish, listvars, probes, booting, call>>

(* Two writers may both find it unset.                                      *)
TestBootFinish(w) ==
  /\ StepTo(w, "off", IF boot_finish THEN "out" ELSE "finish")
  /\ UNCHANGED <<logvars, boot_finish, listvars, probes, booting, call>>

SetBootFinish(w) ==
  /\ StepTo(w, "finish", "initcall_start")
  /\ boot_finish' = TRUE
  /\ UNCHANGED <<logvars, listvars, probes, booting, call>>

(* tp_deinit(): one callback, the other, then the list; a callback that is  *)
(* not registered any more is left alone.                                   *)
Unregister(w, tp, next) ==
  /\ StepTo(w, tp, next)
  /\ probes' = probes \ {tp}
  /\ UNCHANGED <<logvars, boot_finish, listvars, booting, call>>

EmptyList(w) ==
  /\ StepTo(w, "empty", "out")
  /\ initcall_list' = <<>>
  /\ UNCHANGED <<logvars, boot_finish, missed, probes, booting, call>>

BootInit ==
  /\ enabled = FALSE /\ boot_finish = FALSE /\ log_count = 0
  /\ bootprof = [i \in 0..(BUF_COUNT - 1) |-> IF i = 0 THEN Empty ELSE NULL]
  /\ initcall_list = <<>> /\ probes = {} /\ booting = "initcall_start"
  /\ step = [a \in Actors |-> "out"]
  /\ call = [t \in Callers |-> 0]
  /\ missed = {}

BootNext ==
  \/ \E t \in Callers : InitcallBegins(t)
  \/ \E t \in Callers, mem \in BOOLEAN : StartCb(t, mem)
  \/ \E t \in Callers : InitcallEnds(t)
  \/ \E t \in Callers, slow \in BOOLEAN : FinishCb(t, slow)
  \/ \E t \in Callers, mem, text \in BOOLEAN : LogInitcall(t, mem, text)
  \/ Register("initcall_start", "initcall_finish")
  \/ Register("initcall_finish", "on")
  \/ NotFound("initcall_start")
  \/ NotFound("initcall_finish")
  \/ UnloadProbes
  \/ UnloadList
  \/ FirstSwitchOn
  \/ \E w \in Writers, mem, text \in BOOLEAN : WriteLog(w, mem, text)
  \/ \E w \in Writers : SwitchOn(w)
  \/ \E w \in Writers : SwitchOff(w)
  \/ \E w \in Writers : TestBootFinish(w)
  \/ \E w \in Writers : SetBootFinish(w)
  \/ \E w \in Writers : Unregister(w, "initcall_start", "initcall_finish")
  \/ \E w \in Writers : Unregister(w, "initcall_finish", "empty")
  \/ \E w \in Writers : EmptyList(w)

BootSpec == BootInit /\ [][BootNext]_bvars

-----------------------------------------------------------------------------
(* mt_bootprof_show() takes no lock: what it follows for the entries below  *)
(* log_count is there, whichever allocation failed before and however often *)
(* logging was switched off and on (bootprof_log_boot, mt_bootprof_show).   *)
LogComplete ==
  /\ log_count <= LogSize
  /\ \A k \in 0..(log_count - 1) :
       bootprof[Buf(k)] # NULL /\ bootprof[Buf(k)][Pos(k)] # NULL

(* The time of an initcall is taken from the start of that initcall: a task *)
(* has one entry at most, none while it runs no initcall unless the finish  *)
(* callback was not called for it, and an entry of its own current initcall *)
(* otherwise (tp_initcall_start_cb, tp_initcall_finish_cb).                 *)
StartsMatch ==
  \A t \in Callers :
    /\ \A i, j \in EntriesOf(t) : i = j
    /\ t \notin missed =>
         \A i \in EntriesOf(t) :
           step[t] \in {"in", "finishing"} /\ initcall_list[i].call = call[t]
=============================================================================
