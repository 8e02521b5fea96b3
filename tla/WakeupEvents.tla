---------------------------- MODULE WakeupEvents ----------------------------
(***************************************************************************)
(* drivers/base/power/wakeup.c without CONFIG_BOEFFLA_WL_BLOCKER: wakeup   *)
(* sources, the combined counter of registered events and of events in     *)
(* progress, and the gate a suspend has to pass.  WakelockBlocker has the  *)
(* same fields with the blocker compiled in.                                *)
(*                                                                         *)
(* Grain: what runs under ws->lock (or under events_lock) is one step, and *)
(* a walk of the source list, which holds no ws->lock and only reads a     *)
(* source, is one step per visit.  Statistics (times, event_count, ...)    *)
(* are left out, and so is device_set_wakeup_capable().                     *)
(***************************************************************************)
EXTENDS EventCounter, FiniteSets

CONSTANTS
  Sources,         (* memory of struct wakeup_source objects               *)
  Devices,         (* devices that may be enabled for wakeup               *)
  Readers,         (* tasks that only read /sys/power/wakeup_count         *)
  Suspender,       (* the one power manager: reads, writes back, suspends  *)
  None,            (* no device, no source                                 *)
  MaxActivations,  (* bound: activations in one life of a source           *)
  MaxAbort         (* bound: pm_abort_suspend                              *)

Tasks == Readers \cup {Suspender}

ASSUME SourcesAssumption == IsFiniteSet(Sources) /\ None \notin Sources
ASSUME DevicesAssumption == None \notin Devices
ASSUME ReadersAssumption == Suspender \notin Readers
(* Fewer sources than the low half of the counter can hold.                *)
ASSUME WidthAssumption == Cardinality(Sources) < Modulus
ASSUME BoundsAssumption ==
  MaxActivations \in Nat /\ MaxAbort \in Nat

VARIABLES
  phase,      (* life of a source: see Phases                              *)
  owner,      (* the device a source was registered for, or None           *)
  src,        (* the fields of a source that ws->lock protects             *)
  wakeup,     (* dev->power.wakeup                                         *)
  running,    (* sources whose pm_wakeup_timer_fn has been dequeued to run *)
  grace,      (* SRCU readers that wakeup_source_remove() waits for        *)
  combined_event_count,
  events_check_enabled,
  saved_count,
  pm_abort_suspend,
  waiting,    (* tasks on wakeup_count_wait_queue, TASK_INTERRUPTIBLE      *)
  signalled,  (* tasks with a signal pending                               *)
  pc,         (* where each task is                                        *)
  todo,       (* sources a list walk has still to visit                    *)
  cur,        (* the source a list walk is at                              *)
  after,      (* where the walk returns to                                 *)
  count,      (* the count the power manager read and will write back      *)
  since       (* history: activations since that read, at most Modulus, as *)
              (* long as the count or the check it was saved for is in use *)

lifeVars  == <<phase, owner, wakeup>>
gateVars  == <<events_check_enabled, saved_count>>
walkVars  == <<todo, cur, after>>
taskVars  == <<pc, count, signalled, walkVars>>
vars == <<lifeVars, src, running, grace, combined_event_count, gateVars,
          pm_abort_suspend, waiting, taskVars, since>>

-----------------------------------------------------------------------------
(* Types.  A source is "free", "listed" (on wakeup_sources), "attached" to  *)
(* its device, "detached" (about to be removed), "unlisted" (list_del_rcu   *)
(* done, waiting for SRCU) and "retired" (timer.function is NULL).          *)
Phases == {"free", "listed", "attached", "detached", "unlisted", "retired"}

Expiry == {"none", "future", "due"}   \* ws->timer_expires against jiffies

Source == [active: BOOLEAN, active_count: Nat, relax_count: Nat,
           expires: Expiry, pending: BOOLEAN]

NewSource == [active |-> FALSE, active_count |-> 0, relax_count |-> 0,
              expires |-> "none", pending |-> FALSE]

Pc == {"idle", "prepare", "check", "walk", "schedule", "read", "got",
       "save", "saved", "armed", "suspending", "asleep", "rcuwalk"}

Listed     == {s \in Sources : phase[s] \in {"listed", "attached", "detached"}}
Registered == {s \in Sources : phase[s] \notin {"free", "retired"}}
ActiveSet  == {s \in Sources : src[s].active}

cnt  == combined_event_count.cnt
inpr == combined_event_count.inpr

-----------------------------------------------------------------------------
(* What the code does with ws->lock held, as functions on the source at    *)
(* hand, the counter and the history; "wake" asks for a wake_up().          *)
(* The power manager holds a count, or the check it armed is on.            *)
CountInUse == pc[Suspender] \in {"got", "save"} \/ events_check_enabled

View(s) == [w |-> src[s], comb |-> combined_event_count, since |-> since,
            wake |-> FALSE]

Activated(w)   == [w EXCEPT !.active = TRUE, !.active_count = @ + 1]
TimerOff(w)    == [w EXCEPT !.expires = "none", !.pending = FALSE]
TimerOn(w)     == [w EXCEPT !.expires = "future", !.pending = TRUE]
Deactivated(w) == TimerOff([w EXCEPT !.active = FALSE, !.relax_count = @ + 1])

Activate(k, registered) ==
  IF ~registered THEN k
  ELSE [k EXCEPT !.w = Activated(@), !.comb = IncCounter(@),
                 !.since = IF CountInUse /\ @ < Modulus THEN @ + 1 ELSE @]

(* Mutant: the value before the addition decides who is woken.              *)
AccountStale(k) ==
  [k EXCEPT !.comb = AddMaxInProgress(@), !.wake = (k.comb.inpr = 0)]

(* One event registered and no longer in progress; the waiters are woken   *)
(* if none is left.                                                         *)
Account(k) ==
  LET c == AddMaxInProgress(k.comb)
  IN [k EXCEPT !.comb = c, !.wake = (c.inpr = 0)]

(* relax_count is raised, compared, and lowered again on a mismatch.        *)
Deactivate(k) ==
  IF k.w.relax_count + 1 # k.w.active_count THEN k
  ELSE Account([k EXCEPT !.w = Deactivated(@)])

PmRelax(k) == IF k.w.active THEN Deactivate(k) ELSE k

(* Mutant: an active source is activated again.                             *)
ReportAgain(k, registered) == Activate(k, registered)

ReportEvent(k, registered) == IF k.w.active THEN k ELSE Activate(k, registered)

CancelTimer(k) == [k EXCEPT !.w = TimerOff(@)]

(* mod_timer() unless an expiry at least as late is already set.  An       *)
(* expiry that is due is always earlier than jiffies + msec.                *)
ArmTimer(k, later) ==
  IF k.w.expires = "future" /\ ~later THEN k
  ELSE [k EXCEPT !.w = TimerOn(@)]

Publish(k) ==
  /\ combined_event_count' = k.comb
  /\ since' = k.since
  /\ waiting' = IF k.wake THEN {} ELSE waiting

LockedUpdate(s, k) == src' = [src EXCEPT ![s] = k.w] /\ Publish(k)

-----------------------------------------------------------------------------
(* Life of a source.                                                        *)
WakeupSourceRegister(s, d) ==
  /\ phase[s] = "free"
  /\ phase' = [phase EXCEPT ![s] = "listed"]
  /\ owner' = [owner EXCEPT ![s] = d]
  /\ src' = [src EXCEPT ![s] = NewSource]
  /\ UNCHANGED <<wakeup, running, grace, combined_event_count, gateVars,
                 pm_abort_suspend, waiting, taskVars, since>>

(* Mutant: the second of two enables wins.                                  *)
AttachOver(s) ==
  /\ phase[s] = "listed" /\ owner[s] \in Devices
  /\ wakeup' = [wakeup EXCEPT ![owner[s]] = s]
  /\ phase' = [phase EXCEPT ![s] = "attached"]
  /\ UNCHANGED <<owner, src, running, grace, combined_event_count, gateVars,
                 pm_abort_suspend, waiting, taskVars, since>>

(* device_wakeup_enable() after registration: attach under power.lock, or  *)
(* -EEXIST and unregister when another enable came first.                   *)
DeviceWakeupAttach(s) ==
  /\ phase[s] = "listed" /\ owner[s] \in Devices
  /\ IF wakeup[owner[s]] = None
     THEN /\ wakeup' = [wakeup EXCEPT ![owner[s]] = s]
          /\ phase' = [phase EXCEPT ![s] = "attached"]
     ELSE /\ phase' = [phase EXCEPT ![s] = "detached"]
          /\ UNCHANGED wakeup
  /\ UNCHANGED <<owner, src, running, grace, combined_event_count, gateVars,
                 pm_abort_suspend, waiting, taskVars, since>>

DeviceWakeupDisable(d) ==
  /\ wakeup[d] # None
  /\ wakeup' = [wakeup EXCEPT ![d] = None]
  /\ phase' = [phase EXCEPT ![wakeup[d]] = "detached"]
  /\ UNCHANGED <<owner, src, running, grace, combined_event_count, gateVars,
                 pm_abort_suspend, waiting, taskVars, since>>

(* The owner of a source without a device unregisters it.                   *)
UnregisterVirtual(s) ==
  /\ phase[s] = "listed" /\ owner[s] = None
  /\ phase' = [phase EXCEPT ![s] = "detached"]
  /\ UNCHANGED <<owner, wakeup, src, running, grace, combined_event_count, gateVars,
                 pm_abort_suspend, waiting, taskVars, since>>

(* list_del_rcu(), and synchronize_srcu() starts to wait.                   *)
RemoveFromList(s) ==
  /\ phase[s] = "detached"
  /\ phase' = [phase EXCEPT ![s] = "unlisted"]
  /\ grace' = [grace EXCEPT ![s] = {t \in Tasks : pc[t] = "walk"}]
  /\ UNCHANGED <<owner, wakeup, src, running, combined_event_count, gateVars,
                 pm_abort_suspend, waiting, taskVars, since>>

(* Mutant: no synchronize_srcu().                                           *)
RemoveNoGrace(s) ==
  /\ phase[s] = "unlisted" /\ s \notin running
  /\ phase' = [phase EXCEPT ![s] = "retired"]
  /\ src' = [src EXCEPT ![s].pending = FALSE]
  /\ UNCHANGED <<owner, wakeup, running, grace, combined_event_count, gateVars,
                 pm_abort_suspend, waiting, taskVars, since>>

(* synchronize_srcu() returns, del_timer_sync(), timer.function = NULL.     *)
RemoveFinish(s) ==
  /\ phase[s] = "unlisted" /\ grace[s] = {} /\ s \notin running
  /\ phase' = [phase EXCEPT ![s] = "retired"]
  /\ src' = [src EXCEPT ![s].pending = FALSE]
  /\ UNCHANGED <<owner, wakeup, running, grace, combined_event_count, gateVars,
                 pm_abort_suspend, waiting, taskVars, since>>

WakeupSourceDestroy(s) ==
  /\ phase[s] = "retired"
  /\ phase' = [phase EXCEPT ![s] = "free"]
  /\ owner' = [owner EXCEPT ![s] = None]
  /\ src' = [src EXCEPT ![s] = NewSource]
  /\ Publish(PmRelax(View(s)))
  /\ UNCHANGED <<wakeup, running, grace, gateVars, pm_abort_suspend,
                 taskVars>>

-----------------------------------------------------------------------------
(* Events.  A device's source is reached under dev->power.lock, held for   *)
(* the whole call; a source without a device is reached by its owner.       *)
Reachable(s) ==
  \/ \E d \in Devices : wakeup[d] = s
  \/ phase[s] = "listed" /\ owner[s] = None

(* A bound on activations, not on reports of a source already active.       *)
WithinBounds(s) == src[s].active \/ src[s].active_count < MaxActivations

eventUnchanged == UNCHANGED <<lifeVars, running, grace, gateVars,
                              pm_abort_suspend, taskVars>>

(* A driver may still call it after wakeup_source_remove(): WARN_ONCE.      *)
PmStayAwake(s) ==
  /\ Reachable(s) \/ (phase[s] = "retired" /\ owner[s] = None)
  /\ WithinBounds(s)
  /\ LockedUpdate(s, CancelTimer(ReportEvent(View(s), s \in Registered)))
  /\ eventUnchanged

PmRelaxCall(s) ==
  /\ Reachable(s)
  /\ LockedUpdate(s, PmRelax(View(s)))
  /\ eventUnchanged

(* msec = 0 deactivates at once, else the timer is armed.  The code        *)
(* receives "hard" and makes no use of it.                                  *)
PmWakeupWsEvent(s, nonzero) ==
  /\ Reachable(s) /\ WithinBounds(s)
  /\ \E later \in BOOLEAN :
       LET k == ReportEvent(View(s), s \in Registered)
       IN LockedUpdate(s, IF nonzero THEN ArmTimer(k, later) ELSE Deactivate(k))
  /\ eventUnchanged

(* jiffies passes timer_expires.                                            *)
TimePasses(s) ==
  /\ src[s].expires = "future"
  /\ src' = [src EXCEPT ![s].expires = "due"]
  /\ UNCHANGED <<combined_event_count, since, waiting>>
  /\ eventUnchanged

(* The timer softirq takes the timer off its wheel; ws->lock comes later.   *)
TimerExpires(s) ==
  /\ src[s].pending /\ src[s].expires = "due" /\ s \notin running
  /\ src' = [src EXCEPT ![s].pending = FALSE]
  /\ running' = running \cup {s}
  /\ UNCHANGED <<lifeVars, grace, combined_event_count, gateVars, pm_abort_suspend,
                 waiting, taskVars, since>>

PmWakeupTimerFn(s) ==
  /\ s \in running
  /\ running' = running \ {s}
  /\ LET k == View(s)
     IN LockedUpdate(s, IF k.w.active /\ k.w.expires = "due"
                        THEN Deactivate(k) ELSE k)
  /\ UNCHANGED <<lifeVars, grace, gateVars, pm_abort_suspend,
                 taskVars>>

PmSystemWakeup ==
  /\ pm_abort_suspend < MaxAbort
  /\ pm_abort_suspend' = pm_abort_suspend + 1
  /\ UNCHANGED <<lifeVars, src, running, grace, combined_event_count, gateVars,
                 waiting, taskVars, since>>

PmSystemCancelWakeup ==
  /\ pm_abort_suspend > 0
  /\ pm_abort_suspend' = pm_abort_suspend - 1
  /\ UNCHANGED <<lifeVars, src, running, grace, combined_event_count, gateVars,
                 waiting, taskVars, since>>

-----------------------------------------------------------------------------
(* Tasks.                                                                   *)
Goto(t, from, to) == pc[t] = from /\ pc' = [pc EXCEPT ![t] = to]

taskUnchanged == UNCHANGED <<lifeVars, running>>

(* pm_print_active_wakeup_sources(): srcu_read_lock(), then every source   *)
(* on the list, in an order left open, then srcu_read_unlock().             *)
StartWalk(t, from, to) ==
  /\ Goto(t, from, "walk")
  /\ todo' = [todo EXCEPT ![t] = Listed]
  /\ after' = [after EXCEPT ![t] = to]
  /\ UNCHANGED cur

(* The walk reads ws->active and follows ws->entry.next; until it is at the *)
(* next source it holds a pointer to this one.                              *)
WalkVisit(t, s) ==
  /\ pc[t] = "walk" /\ s \in todo[t]
  /\ todo' = [todo EXCEPT ![t] = @ \ {s}]
  /\ cur' = [cur EXCEPT ![t] = s]
  /\ UNCHANGED <<pc, after, count, signalled, src, grace, combined_event_count,
                 gateVars, pm_abort_suspend, waiting, since>>
  /\ taskUnchanged

(* An aborted suspend goes on to pm_get_active_wakeup_sources().            *)
WalkEnd(t) ==
  /\ todo[t] = {}
  /\ Goto(t, "walk", after[t])
  /\ grace' = [s \in Sources |-> grace[s] \ {t}]
  /\ todo' = [todo EXCEPT ![t] = IF after[t] = "rcuwalk" THEN Listed ELSE {}]
  /\ after' = [after EXCEPT ![t] = "idle"]
  /\ cur' = [cur EXCEPT ![t] = None]
  /\ UNCHANGED <<count, signalled, src, combined_event_count,
                 gateVars, pm_abort_suspend, waiting, since>>
  /\ taskUnchanged

(* pm_get_active_wakeup_sources() walks under rcu_read_lock(), for which   *)
(* synchronize_srcu() does not wait.                                        *)
RcuWalkVisit(t, s) ==
  /\ pc[t] = "rcuwalk" /\ s \in todo[t]
  /\ todo' = [todo EXCEPT ![t] = @ \ {s}]
  /\ UNCHANGED <<pc, cur, after, count, signalled, src, grace,
                 combined_event_count, gateVars, pm_abort_suspend, waiting,
                 since>>
  /\ taskUnchanged

RcuWalkEnd(t) ==
  /\ todo[t] = {}
  /\ Goto(t, "rcuwalk", "idle")
  /\ UNCHANGED <<walkVars, count, signalled, src, grace, combined_event_count,
                 gateVars, pm_abort_suspend, waiting, since>>
  /\ taskUnchanged

-----------------------------------------------------------------------------
(* pm_get_wakeup_count(&count, block).                                      *)
GetWakeupCount(t, block) ==
  /\ Goto(t, "idle", IF block THEN "prepare" ELSE "read")
  /\ UNCHANGED <<walkVars, count, signalled, src, grace, combined_event_count,
                 gateVars, pm_abort_suspend, waiting, since>>
  /\ taskUnchanged

PrepareToWait(t) ==
  /\ Goto(t, "prepare", "check")
  /\ waiting' = waiting \cup {t}
  /\ UNCHANGED <<walkVars, count, signalled, src, grace, combined_event_count,
                 gateVars, pm_abort_suspend, since>>
  /\ taskUnchanged

CheckInProgress(t) ==
  /\ pc[t] = "check"
  /\ IF inpr = 0 \/ t \in signalled
     THEN /\ Goto(t, "check", "read")
          /\ waiting' = waiting \ {t}
          /\ UNCHANGED walkVars
     ELSE StartWalk(t, "check", "schedule") /\ UNCHANGED waiting
  /\ UNCHANGED <<count, signalled, src, grace, combined_event_count,
                 gateVars, pm_abort_suspend, since>>
  /\ taskUnchanged

(* schedule() returns once a wake_up or a signal has made t runnable.       *)
Schedule(t) ==
  /\ t \notin waiting
  /\ Goto(t, "schedule", "prepare")
  /\ UNCHANGED <<walkVars, count, signalled, src, grace, combined_event_count,
                 gateVars, pm_abort_suspend, waiting, since>>
  /\ taskUnchanged

Signal(t) ==
  /\ pc[t] = "schedule" /\ t \notin signalled
  /\ signalled' = signalled \cup {t}
  /\ waiting' = waiting \ {t}
  /\ UNCHANGED <<pc, walkVars, count, src, grace, combined_event_count,
                 gateVars, pm_abort_suspend, since>>
  /\ taskUnchanged

(* A result of false is -EINTR for the caller: nothing more is done.        *)
ReadCount(t) ==
  /\ signalled' = signalled \ {t}
  /\ IF inpr = 0 /\ t = Suspender
     THEN Goto(t, "read", "got") /\ count' = cnt /\ since' = 0
     ELSE Goto(t, "read", "idle") /\ UNCHANGED <<count, since>>
  /\ UNCHANGED <<walkVars, src, grace, combined_event_count,
                 gateVars, pm_abort_suspend, waiting>>
  /\ taskUnchanged

-----------------------------------------------------------------------------
(* pm_save_wakeup_count(count): the flag is cleared before events_lock is  *)
(* taken and read again after it is released.                               *)
SaveDisable ==
  /\ Goto(Suspender, "got", "save")
  /\ events_check_enabled' = FALSE
  /\ UNCHANGED <<walkVars, count, signalled, src, grace, combined_event_count,
                 saved_count, pm_abort_suspend, waiting, since>>
  /\ taskUnchanged

SaveCompare ==
  /\ Goto(Suspender, "save", "saved")
  /\ IF cnt = count /\ inpr = 0
     THEN saved_count' = count /\ events_check_enabled' = TRUE /\ UNCHANGED since
     ELSE since' = 0 /\ UNCHANGED gateVars
  /\ count' = 0
  /\ UNCHANGED <<walkVars, signalled, src, grace, combined_event_count,
                 pm_abort_suspend, waiting>>
  /\ taskUnchanged

SaveReturn ==
  /\ Goto(Suspender, "saved", IF events_check_enabled THEN "armed" ELSE "idle")
  /\ UNCHANGED <<walkVars, count, signalled, src, grace, combined_event_count,
                 gateVars, pm_abort_suspend, waiting, since>>
  /\ taskUnchanged

(* A write to /sys/power/state, armed or not, which begins with            *)
(* pm_wakeup_clear(0) in freeze_processes().                                *)
SuspendStart ==
  /\ \/ Goto(Suspender, "armed", "suspending")
     \/ Goto(Suspender, "idle", "suspending")
  /\ pm_abort_suspend' = 0
  /\ UNCHANGED <<walkVars, count, signalled, src, grace, combined_event_count,
                 gateVars, waiting, since>>
  /\ taskUnchanged

(* Mutant: only events in progress are looked at.                           *)
MissedNoCount == events_check_enabled /\ inpr > 0

(* pm_wakeup_pending(), polled by the phases of a suspend; the last poll   *)
(* that returns false lets the system sleep.                                *)
EventsMissed == events_check_enabled /\ (cnt # saved_count \/ inpr > 0)

PmWakeupPending ==
  /\ pc[Suspender] = "suspending"
  /\ IF EventsMissed
     THEN StartWalk(Suspender, "suspending", "rcuwalk")
     ELSE /\ \/ pm_abort_suspend > 0 /\ Goto(Suspender, "suspending", "idle")
             \/ pm_abort_suspend = 0 /\ Goto(Suspender, "suspending", "asleep")
          /\ UNCHANGED walkVars
  /\ events_check_enabled' = (events_check_enabled /\ ~EventsMissed)
  /\ since' = IF EventsMissed THEN 0 ELSE since
  /\ UNCHANGED <<saved_count, count, signalled, src, grace, combined_event_count,
                 pm_abort_suspend, waiting>>
  /\ taskUnchanged

(* suspend_enter() switches the check off on the way back.                  *)
Resume ==
  /\ Goto(Suspender, "asleep", "idle")
  /\ events_check_enabled' = FALSE
  /\ since' = 0
  /\ UNCHANGED <<walkVars, count, signalled, src, grace, combined_event_count,
                 saved_count, pm_abort_suspend, waiting>>
  /\ taskUnchanged

-----------------------------------------------------------------------------
Init ==
  /\ phase = [s \in Sources |-> "free"]
  /\ owner = [s \in Sources |-> None]
  /\ src = [s \in Sources |-> NewSource]
  /\ wakeup = [d \in Devices |-> None]
  /\ running = {}
  /\ grace = [s \in Sources |-> {}]
  /\ combined_event_count = [cnt |-> 0, inpr |-> 0]
  /\ events_check_enabled = FALSE
  /\ saved_count = 0
  /\ pm_abort_suspend = 0
  /\ waiting = {}
  /\ signalled = {}
  /\ pc = [t \in Tasks |-> "idle"]
  /\ todo = [t \in Tasks |-> {}]
  /\ cur = [t \in Tasks |-> None]
  /\ after = [t \in Tasks |-> "idle"]
  /\ count = 0
  /\ since = 0

LifeStep(s) ==
  \/ \E d \in Devices \cup {None} : WakeupSourceRegister(s, d)
  \/ DeviceWakeupAttach(s)
  \/ UnregisterVirtual(s)
  \/ RemoveFromList(s)
  \/ RemoveFinish(s)
  \/ WakeupSourceDestroy(s)

EventStep(s) ==
  \/ PmStayAwake(s)
  \/ PmRelaxCall(s)
  \/ \E nonzero \in BOOLEAN : PmWakeupWsEvent(s, nonzero)
  \/ TimePasses(s)
  \/ TimerExpires(s)
  \/ PmWakeupTimerFn(s)

WalkStep(t) ==
  \/ \E s \in Sources : WalkVisit(t, s)
  \/ WalkEnd(t)
  \/ \E s \in Sources : RcuWalkVisit(t, s)
  \/ RcuWalkEnd(t)

CountStep(t) ==
  \/ PrepareToWait(t)
  \/ CheckInProgress(t)
  \/ Schedule(t)
  \/ ReadCount(t)

SuspendStep ==
  \/ SaveDisable
  \/ SaveCompare
  \/ SaveReturn
  \/ SuspendStart
  \/ PmWakeupPending
  \/ Resume

Next ==
  \/ \E s \in Sources : LifeStep(s) \/ EventStep(s)
  \/ \E d \in Devices : DeviceWakeupDisable(d)
  \/ \E t \in Tasks : WalkStep(t) \/ CountStep(t) \/ Signal(t)
  \/ \E t \in Tasks, block \in BOOLEAN : GetWakeupCount(t, block)
  \/ PmSystemWakeup
  \/ PmSystemCancelWakeup
  \/ SuspendStep

Spec == Init /\ [][Next]_vars

(* A task inside a call keeps running; what drivers, user space and the    *)
(* hardware do next is their affair.                                        *)
FairSpec == Spec /\ \A t \in Tasks : WF_vars(WalkStep(t) \/ CountStep(t))

-----------------------------------------------------------------------------
TypeOK ==
  /\ phase \in [Sources -> Phases]
  /\ owner \in [Sources -> Devices \cup {None}]
  /\ src \in [Sources -> Source]
  /\ wakeup \in [Devices -> Sources \cup {None}]
  /\ running \subseteq Sources
  /\ grace \in [Sources -> SUBSET Tasks]
  /\ combined_event_count \in Counter
  /\ events_check_enabled \in BOOLEAN
  /\ saved_count \in 0..Modulus-1
  /\ pm_abort_suspend \in Nat
  /\ waiting \subseteq Tasks
  /\ signalled \subseteq Tasks
  /\ pc \in [Tasks -> Pc]
  /\ todo \in [Tasks -> SUBSET Sources]
  /\ cur \in [Tasks -> Sources \cup {None}]
  /\ after \in [Tasks -> {"idle", "schedule", "rcuwalk"}]
  /\ count \in 0..Modulus-1
  /\ since \in 0..Modulus

(* The low half of combined_event_count is the number of active sources,   *)
(* through every activation, relax, timer, event and destruction: "notify  *)
(* the PM core ... by decrementing the counter of wakeup events being       *)
(* processed" (wakeup_source_deactivate).                                   *)
InProgressExact == inpr = Cardinality(ActiveSet)

(* A task asleep in pm_get_wakeup_count() has something to wait for: the   *)
(* deactivation that brings the events in progress to zero wakes it, also  *)
(* when it falls between the task's check and its schedule().               *)
NoLostWakeup ==
  \A t \in Tasks : pc[t] = "schedule" /\ t \in waiting => inpr > 0

(* What an SRCU walk holds a pointer to is never freed under it, and a     *)
(* timer callback never runs on a freed source (wakeup_source_remove).      *)
Reach(t) == todo[t] \cup ({cur[t]} \ {None})

WalkersKeepSources ==
  /\ \A t \in Tasks :
       pc[t] = "walk" => \A s \in Reach(t) : phase[s] \notin {"free", "retired"}
  /\ \A s \in running : phase[s] \notin {"free", "retired"}

(* What dev->power.wakeup points to is a live source of that device, and no *)
(* attached source is left behind: of two concurrent                        *)
(* device_wakeup_enable() calls one undoes its registration.                *)
AttachedIsLive ==
  /\ \A d \in Devices : wakeup[d] # None =>
       phase[wakeup[d]] = "attached" /\ owner[wakeup[d]] = d
  /\ \A s \in Sources : phase[s] = "attached" =>
       owner[s] \in Devices /\ wakeup[owner[s]] = s

(* The system goes to sleep on an enabled check only if no source was      *)
(* activated since the power manager read the count it wrote back, as long *)
(* as fewer events than the 16-bit count can tell apart came in between     *)
(* (pm_save_wakeup_count, pm_wakeup_pending).                               *)
FallsAsleep == pc[Suspender] = "suspending" /\ pc'[Suspender] = "asleep"

NoEventMissed ==
  [][FallsAsleep /\ events_check_enabled /\ since < Modulus
       => since = 0 /\ ActiveSet = {}]_vars

(* Why WalkersKeepSources and AttachedIsLive hold: what an SRCU walk can   *)
(* still reach is on the list or waits for that very walk, and only a       *)
(* registered source has a timer pending.                                   *)
WalkInv ==
  /\ \A t \in Tasks, s \in Sources : pc[t] = "walk" /\ s \in Reach(t) =>
       s \in Listed \/ (phase[s] = "unlisted" /\ t \in grace[s])
  /\ \A t \in Tasks : pc[t] # "walk" => cur[t] = None

TimerInv == \A s \in Sources : src[s].pending \/ s \in running => s \in Registered

LifeInv == AttachedIsLive /\ WalkInv /\ TimerInv

(* Why InProgressExact, NoLostWakeup and NoEventMissed hold: a source is   *)
(* ahead of its relaxes by one exactly while it is active, a waiter past   *)
(* its check sees an event in progress, and the count has moved on from    *)
(* the one in use by the events that were activated since and are over.     *)
One(b) == IF b THEN 1 ELSE 0

Base == IF pc[Suspender] \in {"got", "save"} THEN count ELSE saved_count

Balanced(w) == w.active_count = w.relax_count + One(w.active)

GateHolds(comb, n, base) ==
  n < Modulus => comb.inpr <= n /\ comb.cnt = Wrap(base + (n - comb.inpr))

SourcesBalanced ==
  \A s \in Sources : Balanced(src[s]) /\ (phase[s] = "free" => ~src[s].active)

WaitersInv ==
  \A t \in waiting :
    /\ pc[t] \in {"check", "walk", "schedule"}
    /\ pc[t] # "check" => inpr > 0
    /\ pc[t] = "walk" => after[t] = "schedule"

GateInv ==
  /\ CountInUse => GateHolds(combined_event_count, since, Base)
  /\ pc[Suspender] = "save" => ~events_check_enabled

IInv ==
  /\ SourcesBalanced
  /\ inpr = Cardinality(ActiveSet)
  /\ WaitersInv
  /\ GateInv

(* If the events in progress stay at zero, no task stays in                *)
(* pm_get_wakeup_count().                                                   *)
BlockedReader(t) == pc[t] \in {"prepare", "check", "walk", "schedule", "read"}

ReadersReturn ==
  \A t \in Tasks : <>[](inpr = 0) => []<>~BlockedReader(t)
=============================================================================
