------------------------------- MODULE MCSmall -------------------------------
(***************************************************************************)
(* Four modules that have nothing to do with each other, checked in one    *)
(* run: the initial state chooses one, whose actions are then taken while  *)
(* the others stay as they are.                                            *)
(***************************************************************************)
EXTENDS FrameMonitor, BootLog, QosInherit, YieldPenalty
CONSTANTS p1, p2, r1, Ids1, Ids2, q1, q2, c1, c2
Ids == [p \in Pids |-> IF p = p1 THEN Ids1 ELSE Ids2]
TwoOfOne == [t \in Tids |-> IF t = 3 THEN 3 ELSE 1]
OneProcess == [t \in Waiters |-> 1]
CallsOf == [c \in Callers |-> IF c = c1 THEN 2 ELSE 1]

VARIABLE chosen

all == <<vars, bvars, qvars, yvars, chosen>>

Frames == chosen = "frames" /\ UNCHANGED <<bvars, qvars, yvars, chosen>>
Boot == chosen = "boot" /\ UNCHANGED <<vars, qvars, yvars, chosen>>
Qos == chosen = "qos" /\ UNCHANGED <<vars, bvars, yvars, chosen>>
Yield == chosen = "yield" /\ UNCHANGED <<vars, bvars, qvars, chosen>>

(* Of a module that is not chosen one initial state is enough.              *)
SmallInit ==
  /\ chosen \in {"frames", "boot", "qos", "yield"}
  /\ Init /\ BootInit /\ QosInit /\ YieldInit
  /\ chosen # "frames" => notify_buffer_work_fp
  /\ chosen # "qos" => asked = [t \in Waiters |-> CHOOSE c \in Clamps : TRUE]
  /\ chosen # "yield" => app = {}

SmallNext ==
  \/ Frames /\ \E p \in Pids : BufferVsync(p)
  \/ Frames /\ \E t \in Threads, p \in Pids : BufferQueue(t, p)
  \/ Frames /\ \E t \in Threads : ThreadExits(t)
  \/ Frames /\ VsyncKnown
  \/ Frames /\ VsyncOfGone
  \/ Frames /\ VsyncRecycles
  \/ Frames /\ VsyncAdds
  \/ Frames /\ QueueDropped
  \/ Frames /\ \E i \in DOMAIN buffer_record_list : QueueRepeated(i)
  \/ Frames /\ \E i \in DOMAIN buffer_record_list : QueueUnknown(i)
  \/ Frames /\ \E i \in DOMAIN buffer_record_list : QueueCounted(i)
  \/ Boot /\ \E t \in Callers : InitcallBegins(t)
  \/ Boot /\ \E t \in Callers, mem \in BOOLEAN : StartCb(t, mem)
  \/ Boot /\ \E t \in Callers : InitcallEnds(t)
  \/ Boot /\ \E t \in Callers, slow \in BOOLEAN : FinishCb(t, slow)
  \/ Boot /\ \E t \in Callers, mem, text \in BOOLEAN : LogInitcall(t, mem, text)
  \/ Boot /\ Register("initcall_start", "initcall_finish")
  \/ Boot /\ Register("initcall_finish", "on")
  \/ Boot /\ NotFound("initcall_start")
  \/ Boot /\ NotFound("initcall_finish")
  \/ Boot /\ UnloadProbes
  \/ Boot /\ UnloadList
  \/ Boot /\ FirstSwitchOn
  \/ Boot /\ \E w \in Writers, mem, text \in BOOLEAN : WriteLog(w, mem, text)
  \/ Boot /\ \E w \in Writers : SwitchOn(w)
  \/ Boot /\ \E w \in Writers : SwitchOff(w)
  \/ Boot /\ \E w \in Writers : TestBootFinish(w)
  \/ Boot /\ \E w \in Writers : SetBootFinish(w)
  \/ Boot /\ \E w \in Writers : Unregister(w, "initcall_start", "initcall_finish")
  \/ Boot /\ \E w \in Writers : Unregister(w, "initcall_finish", "empty")
  \/ Boot /\ \E w \in Writers : EmptyList(w)
  \/ Qos /\ \E t \in Waiters : WaitStart(t)
  \/ Qos /\ \E t \in Waiters : TakeHint(t)
  \/ Qos /\ \E t \in Waiters : WaitEnd(t)
  \/ Qos /\ \E t \in Waiters : ReturnHint(t)
  \/ Qos /\ \E t \in Waiters, clamp \in Clamps : SetAttr(t, clamp)
  \/ Qos /\ \E tgid \in Tgids : SetVip(tgid)
  \/ Qos /\ \E clamp \in Hints : SetHint(clamp)
  \/ Qos /\ HooksTo("none", "half")
  \/ Qos /\ HooksTo("half", "gone")
  \/ Qos /\ HooksTo("half", "loaded")
  \/ Qos /\ HooksTo("loaded", "half_off")
  \/ Qos /\ HooksTo("half_off", "gone")
  \/ Yield /\ \E t \in Tids : BeforeYield(t)
  \/ Yield /\ \E t \in Tids : DoSleep(t)
  \/ Yield /\ \E t \in Tids : Kill(t)
  \/ Yield /\ \E t \in Tids, isApp \in BOOLEAN : Fork(t, isApp)
  \/ Yield /\ \E val \in Tids \cup {0, -1} : TargetPidStore(val)
  \/ Yield /\ \E val \in Fps : TargetFpsStore(val)
  \/ Yield /\ \E val \in Headrooms : HeadroomStore(val)
  \/ Yield /\ HookTo("loading", "files")
  \/ Yield /\ HookTo("files", "unloaded")
  \/ Yield /\ HookTo("files", "registered")
  \/ Yield /\ HookTo("registered", "files_only")
  \/ Yield /\ HookTo("files_only", "unloaded")

SmallSpec == SmallInit /\ [][SmallNext]_all
=============================================================================
