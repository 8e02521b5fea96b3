----------------------------- MODULE YieldPenalty -----------------------------
(***************************************************************************)
(* kernel/sched/sew_yield_penalty.c: sched_yield() of the threads of one   *)
(* process is replaced by a sleep on the way back to user space.           *)
(*                                                                         *)
(* Grain: the hook runs in the task that yields and is one step, the       *)
(* callback of the work it queues another.  task_work_add() does not fail: *)
(* a task that yields has not run its last work.                           *)
(***************************************************************************)
EXTENDS Integers

CONSTANTS
  Tids,       (* of threads; 0 is none of them                             *)
  Tgid,       (* of each, the process                                      *)
  Fps,        (* what is written to target_fps                             *)
  Headrooms,  (* what is written to penalty_headroom                       *)
  MaxYields   (* bound: yields that are penalized                          *)

VARIABLES
  hook,           (* where the module is                                   *)
  target_pid, target_fps, headroom_pct,
  yield_count, sleep_ns,
  app,            (* threads with the uid of an app                        *)
  pc,             (* where a thread is: in user space, on its way back to  *)
                  (* it, on its way out, or gone                           *)
  work            (* of each its sew_penalty_work, lo = 0 if there is none *)

tunables == <<target_pid, target_fps, headroom_pct>>
stats == <<yield_count, sleep_ns>>
yvars == <<hook, tunables, stats, app, pc, work>>

NSEC_PER_SEC == 1000000000
NoWork == [lo |-> 0, hi |-> 0]

-----------------------------------------------------------------------------
FrameNs == NSEC_PER_SEC \div target_fps

(* sew_penalty_before_yield(): lo and hi; hi <= lo never.                   *)
PenaltyWork ==
  [lo |-> FrameNs \div 2, hi |-> FrameNs + (FrameNs * headroom_pct) \div 100]

(* Mutant: the check when target_pid is written is the only one.            *)
PenalizedByPid(t) ==
  hook = "registered" /\ target_pid # 0 /\ Tgid[t] = target_pid

(* With sew_penalty_uid_allowed() at the time of the yield                  *)
Penalized(t) ==
  /\ hook = "registered" /\ target_pid # 0
  /\ Tgid[t] = target_pid /\ t \in app

(* sched_yield() with the hook; without memory for the work it just yields. *)
BeforeYield(t) ==
  /\ pc[t] = "user" /\ Penalized(t)
  /\ yield_count < MaxYields
  /\ work' = [work EXCEPT ![t] = PenaltyWork]
  /\ pc' = [pc EXCEPT ![t] = "return"]
  /\ UNCHANGED <<hook, tunables, stats, app>>

(* sew_penalty_do_sleep(), on the way to user space or from do_exit(): the  *)
(* times go to usleep_range() as they are, which takes microseconds.        *)
DoSleep(t) ==
  /\ pc[t] \in {"return", "exit"} /\ hook # "unloaded"
  /\ yield_count' = yield_count + 1
  /\ sleep_ns' = sleep_ns + (work[t].hi - work[t].lo)
  /\ work' = [work EXCEPT ![t] = NoWork]
  /\ pc' = [pc EXCEPT ![t] = IF @ = "return" THEN "user" ELSE "gone"]
  /\ UNCHANGED <<hook, tunables, app>>

Kill(t) ==
  /\ pc[t] \in {"user", "return"}
  /\ pc' = [pc EXCEPT ![t] = IF @ = "return" THEN "exit" ELSE "gone"]
  /\ UNCHANGED <<hook, tunables, stats, app, work>>

(* The tid is used again, by an app or not.                                 *)
Fork(t, isApp) ==
  /\ pc[t] = "gone"
  /\ pc' = [pc EXCEPT ![t] = "user"]
  /\ app' = IF isApp THEN app \cup {t} ELSE app \ {t}
  /\ UNCHANGED <<hook, tunables, stats, work>>

-----------------------------------------------------------------------------
Files == hook \in {"files", "registered", "files_only"}

(* target_pid_store(): no pid, or a thread with the uid of an app           *)
TargetPidStore(val) ==
  /\ Files
  /\ val <= 0 \/ (val \in app /\ pc[val] # "gone")
  /\ target_pid' = val
  /\ UNCHANGED <<hook, target_fps, headroom_pct, stats, app, pc, work>>

TargetFpsStore(val) ==
  /\ Files /\ val \in 10..240
  /\ target_fps' = val
  /\ UNCHANGED <<hook, target_pid, headroom_pct, stats, app, pc, work>>

HeadroomStore(val) ==
  /\ Files /\ val \in 0..100
  /\ headroom_pct' = val
  /\ UNCHANGED <<hook, target_pid, target_fps, stats, app, pc, work>>

(* sew_yield_penalty_init(): the files, then the probe, without which the   *)
(* files go again; sew_yield_penalty_exit(): the probe, then the files.     *)
HookTo(from, to) ==
  /\ hook = from /\ hook' = to
  /\ UNCHANGED <<tunables, stats, app, pc, work>>

YieldInit ==
  /\ hook = "loading"
  /\ target_pid = 0 /\ target_fps = 60 /\ headroom_pct = 10
  /\ yield_count = 0 /\ sleep_ns = 0
  /\ app \in SUBSET Tids
  /\ pc = [t \in Tids |-> "user"]
  /\ work = [t \in Tids |-> NoWork]

YieldNext ==
  \/ \E t \in Tids : BeforeYield(t)
  \/ \E t \in Tids : DoSleep(t)
  \/ \E t \in Tids : Kill(t)
  \/ \E t \in Tids, isApp \in BOOLEAN : Fork(t, isApp)
  \/ \E val \in Tids \cup {0, -1} : TargetPidStore(val)
  \/ \E val \in Fps : TargetFpsStore(val)
  \/ \E val \in Headrooms : HeadroomStore(val)
  \/ HookTo("loading", "files")
  \/ HookTo("files", "unloaded")
  \/ HookTo("files", "registered")
  \/ HookTo("registered", "files_only")
  \/ HookTo("files_only", "unloaded")

YieldSpec == YieldInit /\ [][YieldNext]_yvars

-----------------------------------------------------------------------------
(* "Even a forged target cannot pass": what sleeps for its yield is a thread*)
(* of an app, whoever has got the tid that was written to target_pid, or is *)
(* in the process of that tid (sew_penalty_uid_allowed).                    *)
OnlyAppsPenalized == \A t \in Tids : pc[t] \in {"return", "exit"} => t \in app
=============================================================================
