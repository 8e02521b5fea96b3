--------------------------- MODULE WakelockBlocker ---------------------------
(***************************************************************************)
(* drivers/base/power/wakeup.c with CONFIG_BOEFFLA_WL_BLOCKER: what the    *)
(* wakelock blocker does to the counts of a wakeup source and to the gate  *)
(* of a suspend.  A walk of the source list kills an active blocked source *)
(* without ws->lock, so it interleaves with whoever holds that lock.       *)
(*                                                                         *)
(* Grain: one access to a field of the source, or one atomic operation on  *)
(* the counter, is one step, with ws->lock held or not.  relax_count is    *)
(* kept in a register from its load to its lowering; a build that reads it *)
(* again sees the same unless two deactivations overlap.                    *)
(*                                                                         *)
(* Of WakeupEvents this leaves out the life of a source (all are           *)
(* registered here), the wait queue (a reader may look again at any time), *)
(* the abort counter (a suspend may be aborted at any poll) and the walk   *)
(* under rcu_read_lock(), which only reads.                                 *)
(***************************************************************************)
EXTENDS EventCounter, FiniteSets

CONSTANTS
  Sources,     (* registered wakeup sources                                *)
  Readers,     (* tasks that only read /sys/power/wakeup_count             *)
  Suspender,   (* the power manager                                        *)
  NoSource,
  CountSize    (* active_count and relax_count are unsigned long: 2^64     *)

Walkers == Readers \cup {Suspender}

(* Who executes wakeup_source_deactivate(): for each source the holder of   *)
(* its lock, and every task that walks the list.                             *)
Agents == Sources \cup Walkers

ASSUME BlockerAssumption ==
  /\ IsFiniteSet(Sources) /\ Cardinality(Sources) < Modulus
  /\ IsFiniteSet(Readers)
  /\ Sources \cap Walkers = {} /\ NoSource \notin Sources
  /\ CountSize \in Nat \ {0, 1}

VARIABLES
  active, active_count, relax_count,   (* of each source                   *)
  timed,                  (* sources with a timer_expires set              *)
  combined_event_count,
  events_check_enabled,
  saved_count,
  blocklist,              (* the sources named in list_wl_search           *)
  storing,                (* some build_search_string() is under way       *)
  code,                   (* the next access of each agent                 *)
  next,                   (* where its current function returns to         *)
  reg,                    (* relax_count as it loaded it                   *)
  cur,                    (* the source a walk is at, in check_for_block() *)
  at,                     (* where each task is, outside that function     *)
  todo,                   (* sources its walk has still to visit           *)
  count,                  (* the count the power manager read              *)
  registered, relaxed,    (* history: activations and deactivations        *)
                          (* counted since then, at most Modulus each, as  *)
                          (* long as that count or its check is in use     *)
  overlapped              (* history: sources of which two agents had      *)
                          (* relax_count raised at the same time           *)

fieldVars == <<active, active_count, relax_count, timed>>
checkVars == <<events_check_enabled, saved_count, count>>
counted   == <<combined_event_count, registered, relaxed>>
listVars  == <<blocklist, storing>>
agentVars == <<code, next, reg, cur>>
taskVars  == <<at, todo>>
wbvars == <<fieldVars, checkVars, counted, listVars, agentVars, taskVars, overlapped>>

-----------------------------------------------------------------------------
Deactivation == {"load", "store", "compare", "lower", "off", "clear", "account"}
Activation == {"event", "set", "count", "register"}
Code == {"idle", "search", "active?", "cancel", "arm", "expire"}
          \cup Deactivation \cup Activation
At == {"idle", "check", "walk", "read", "got", "save", "saved", "armed",
       "suspending", "abort", "asleep"}

Plus1(n) == IF n + 1 < CountSize THEN n + 1 ELSE 0

inprogress == combined_event_count.inpr

(* The power manager holds a count, or the check it armed is on.            *)
CountInUse == at[Suspender] \in {"got", "save"} \/ events_check_enabled

Of(a) == IF a \in Sources THEN a ELSE cur[a]

(* strstr() on a string that is being rewritten may find the name or not.   *)
Blocked(s) == IF storing THEN BOOLEAN ELSE {s \in blocklist}

CodeTo(a, to) == code' = [code EXCEPT ![a] = to] /\ UNCHANGED <<next, reg, cur>>

(* The end of wakeup_source_report_event() or wakeup_source_deactivate(),   *)
(* whose locals are dead.                                                    *)
Return(a) ==
  /\ code' = [code EXCEPT ![a] = next[a]]
  /\ next' = [next EXCEPT ![a] = "idle"]
  /\ reg' = [reg EXCEPT ![a] = 0]
  /\ cur' = IF a \in Walkers THEN [cur EXCEPT ![a] = NoSource] ELSE cur

-----------------------------------------------------------------------------
(* check_for_block(), and what depends on its answer.                       *)
elsewhere == UNCHANGED <<checkVars, listVars, taskVars>>

CheckForBlock(a) ==
  /\ code[a] = "search"
  /\ \E blocked \in Blocked(Of(a)) :
       \/ blocked /\ CodeTo(a, "active?")
       \/ ~blocked /\ a \in Sources /\ CodeTo(a, "event")
       \/ ~blocked /\ a \in Walkers /\ Return(a)
  /\ UNCHANGED <<fieldVars, counted, overlapped>> /\ elsewhere

(* Deactivate only if active: the kill in check_for_block(), __pm_relax().  *)
RelaxIfActive(a) ==
  /\ code[a] = "active?"
  /\ IF active[Of(a)] THEN CodeTo(a, "load") ELSE Return(a)
  /\ UNCHANGED <<fieldVars, counted, overlapped>> /\ elsewhere

-----------------------------------------------------------------------------
(* wakeup_source_activate(), reached by a holder of ws->lock only.          *)
ReportEvent(s) ==
  /\ code[s] = "event"
  /\ IF active[s] THEN Return(s) ELSE CodeTo(s, "set")
  /\ UNCHANGED <<fieldVars, counted, overlapped>> /\ elsewhere

SetActive(s) ==
  /\ code[s] = "set" /\ CodeTo(s, "count")
  /\ active' = [active EXCEPT ![s] = TRUE]
  /\ UNCHANGED <<active_count, relax_count, timed, counted, overlapped>> /\ elsewhere

CountActivation(s) ==
  /\ code[s] = "count" /\ CodeTo(s, "register")
  /\ active_count' = [active_count EXCEPT ![s] = Plus1(@)]
  /\ UNCHANGED <<active, relax_count, timed, counted, overlapped>> /\ elsewhere

More(n) == IF CountInUse /\ n < Modulus THEN n + 1 ELSE n

RegisterEvent(s) ==
  /\ code[s] = "register" /\ Return(s)
  /\ combined_event_count' = IncCounter(combined_event_count)
  /\ registered' = More(registered)
  /\ UNCHANGED <<relaxed, fieldVars, overlapped>> /\ elsewhere

-----------------------------------------------------------------------------
(* wakeup_source_deactivate(), with ws->lock held or from a walk.           *)
Raised(a) == code[a] \in {"store", "compare", "lower"}

RelaxLoad(a) ==
  /\ code[a] = "load" /\ code' = [code EXCEPT ![a] = "store"]
  /\ reg' = [reg EXCEPT ![a] = relax_count[Of(a)]]
  /\ overlapped' = IF \E b \in Agents \ {a} : Raised(b) /\ Of(b) = Of(a)
                     THEN overlapped \cup {Of(a)} ELSE overlapped
  /\ UNCHANGED <<next, cur, fieldVars, counted>> /\ elsewhere

RelaxStore(a) ==
  /\ code[a] = "store" /\ CodeTo(a, "compare")
  /\ relax_count' = [relax_count EXCEPT ![Of(a)] = Plus1(reg[a])]
  /\ UNCHANGED <<active, active_count, timed, counted, overlapped>> /\ elsewhere

(* Mutant: whoever is called deactivates.                                   *)
NoCompare(a) ==
  /\ code[a] = "compare" /\ CodeTo(a, "off")
  /\ UNCHANGED <<fieldVars, counted, overlapped>> /\ elsewhere

RelaxCompare(a) ==
  /\ code[a] = "compare"
  /\ CodeTo(a, IF Plus1(reg[a]) = active_count[Of(a)] THEN "off" ELSE "lower")
  /\ UNCHANGED <<fieldVars, counted, overlapped>> /\ elsewhere

RelaxLower(a) ==
  /\ code[a] = "lower" /\ Return(a)
  /\ relax_count' = [relax_count EXCEPT ![Of(a)] = reg[a]]
  /\ UNCHANGED <<active, active_count, timed, counted, overlapped>> /\ elsewhere

SetInactive(a) ==
  /\ code[a] = "off" /\ CodeTo(a, "clear")
  /\ active' = [active EXCEPT ![Of(a)] = FALSE]
  /\ UNCHANGED <<active_count, relax_count, timed, counted, overlapped>> /\ elsewhere

ClearTimer(a) ==
  /\ code[a] = "clear" /\ CodeTo(a, "account")
  /\ timed' = timed \ {Of(a)}
  /\ UNCHANGED <<active, active_count, relax_count, counted, overlapped>> /\ elsewhere

AccountEvent(a) ==
  /\ code[a] = "account" /\ Return(a)
  /\ combined_event_count' = AddMaxInProgress(combined_event_count)
  /\ relaxed' = More(relaxed)
  /\ UNCHANGED <<registered, fieldVars, overlapped>> /\ elsewhere

-----------------------------------------------------------------------------
(* Calls made with ws->lock held: what they execute first and what after.   *)
LockedCall(s, first, then) ==
  /\ code[s] = "idle"
  /\ code' = [code EXCEPT ![s] = first]
  /\ next' = [next EXCEPT ![s] = then]
  /\ UNCHANGED <<fieldVars, counted, reg, cur, overlapped>> /\ elsewhere

PmStayAwake(s) == LockedCall(s, "search", "cancel")

PmRelax(s) == LockedCall(s, "active?", "idle")

(* msec = 0 deactivates whatever came of the event.                         *)
PmWakeupWsEvent(s, nonzero) ==
  LockedCall(s, "search", IF nonzero THEN "arm" ELSE "load")

PmWakeupTimerFn(s) == s \in timed /\ LockedCall(s, "expire", "idle")

CancelTimer(s) ==
  /\ code[s] = "cancel" /\ Return(s)
  /\ timed' = timed \ {s}
  /\ UNCHANGED <<active, active_count, relax_count, counted, overlapped>> /\ elsewhere

ArmTimer(s) ==
  /\ code[s] = "arm" /\ Return(s)
  /\ timed' = timed \cup {s}
  /\ UNCHANGED <<active, active_count, relax_count, counted, overlapped>> /\ elsewhere

(* The timer may have been cancelled or moved on since it was dequeued.     *)
TimerTest(s) ==
  /\ code[s] = "expire"
  /\ \/ active[s] /\ s \in timed /\ CodeTo(s, "load")
     \/ Return(s)
  /\ UNCHANGED <<fieldVars, counted, overlapped>> /\ elsewhere

-----------------------------------------------------------------------------
(* The blocker's sysfs files.  Stores take no lock; several that overlap    *)
(* are one time of rewriting, and may leave a mix of their lists behind.     *)
BuildSearchString ==
  /\ ~storing /\ storing' = TRUE
  /\ UNCHANGED <<fieldVars, checkVars, counted, blocklist, agentVars, taskVars, overlapped>>

SearchStringBuilt(list) ==
  /\ storing /\ storing' = FALSE
  /\ blocklist' = list
  /\ UNCHANGED <<fieldVars, checkVars, counted, agentVars, taskVars, overlapped>>

-----------------------------------------------------------------------------
(* Tasks: pm_print_active_wakeup_sources() and its two callers.             *)
Goto(t, from, to) == at[t] = from /\ at' = [at EXCEPT ![t] = to]

taskOnly == UNCHANGED <<fieldVars, combined_event_count, listVars, agentVars, overlapped>>

since == <<registered, relaxed>>

StartWalk(t, from, walk) ==
  Goto(t, from, walk) /\ todo' = [todo EXCEPT ![t] = Sources]

WalkVisit(t, s) ==
  /\ at[t] \in {"walk", "abort"} /\ code[t] = "idle" /\ s \in todo[t]
  /\ todo' = [todo EXCEPT ![t] = @ \ {s}]
  /\ IF active[s]
     THEN code' = [code EXCEPT ![t] = "search"] /\ cur' = [cur EXCEPT ![t] = s]
     ELSE UNCHANGED <<code, cur>>
  /\ UNCHANGED <<fieldVars, checkVars, counted, listVars, next, reg, at, overlapped>>

WalkEnd(t) ==
  /\ code[t] = "idle" /\ todo[t] = {}
  /\ Goto(t, "walk", "check") \/ Goto(t, "abort", "idle")
  /\ UNCHANGED <<todo, checkVars, since>> /\ taskOnly

GetWakeupCount(t, block) ==
  /\ Goto(t, "idle", IF block THEN "check" ELSE "read")
  /\ UNCHANGED <<todo, checkVars, since>> /\ taskOnly

CheckInProgress(t, interrupted) ==
  /\ IF inprogress = 0 \/ interrupted
     THEN Goto(t, "check", "read") /\ UNCHANGED todo
     ELSE StartWalk(t, "check", "walk")
  /\ UNCHANGED <<checkVars, since>> /\ taskOnly

ReadCount(t) ==
  /\ IF inprogress = 0 /\ t = Suspender
     THEN /\ Goto(t, "read", "got")
          /\ count' = combined_event_count.cnt
          /\ registered' = 0 /\ relaxed' = 0
     ELSE Goto(t, "read", "idle") /\ UNCHANGED <<count, since>>
  /\ UNCHANGED <<todo, events_check_enabled, saved_count>> /\ taskOnly

-----------------------------------------------------------------------------
(* The power manager.                                                       *)
SaveDisable ==
  /\ Goto(Suspender, "got", "save")
  /\ events_check_enabled' = FALSE
  /\ UNCHANGED <<todo, saved_count, count, since>> /\ taskOnly

(* Mutant: only events in progress keep a count from being saved.           *)
SaveAnyway ==
  /\ Goto(Suspender, "save", "saved")
  /\ IF inprogress = 0
     THEN /\ saved_count' = combined_event_count.cnt /\ events_check_enabled' = TRUE
          /\ UNCHANGED since
     ELSE registered' = 0 /\ relaxed' = 0 /\ UNCHANGED <<saved_count, events_check_enabled>>
  /\ count' = 0
  /\ UNCHANGED todo /\ taskOnly

SaveCompare ==
  /\ Goto(Suspender, "save", "saved")
  /\ IF combined_event_count.cnt = count /\ inprogress = 0
     THEN /\ saved_count' = count /\ events_check_enabled' = TRUE
          /\ UNCHANGED since
     ELSE registered' = 0 /\ relaxed' = 0 /\ UNCHANGED <<saved_count, events_check_enabled>>
  /\ count' = 0
  /\ UNCHANGED todo /\ taskOnly

SaveReturn ==
  /\ Goto(Suspender, "saved", IF events_check_enabled THEN "armed" ELSE "idle")
  /\ UNCHANGED <<todo, checkVars, since>> /\ taskOnly

SuspendStart ==
  /\ Goto(Suspender, "armed", "suspending") \/ Goto(Suspender, "idle", "suspending")
  /\ UNCHANGED <<todo, checkVars, since>> /\ taskOnly

EventsMissed ==
  events_check_enabled
    /\ (combined_event_count.cnt # saved_count \/ inprogress > 0)

PmWakeupPending ==
  /\ IF EventsMissed
     THEN /\ StartWalk(Suspender, "suspending", "abort")
          /\ events_check_enabled' = FALSE
          /\ registered' = 0 /\ relaxed' = 0
     ELSE /\ \/ Goto(Suspender, "suspending", "idle")
             \/ Goto(Suspender, "suspending", "asleep")
          /\ UNCHANGED <<todo, events_check_enabled, since>>
  /\ UNCHANGED <<saved_count, count>> /\ taskOnly

Resume ==
  /\ Goto(Suspender, "asleep", "idle")
  /\ events_check_enabled' = FALSE
  /\ registered' = 0 /\ relaxed' = 0
  /\ UNCHANGED <<todo, saved_count, count>> /\ taskOnly

-----------------------------------------------------------------------------
BlockerInit ==
  /\ active = [s \in Sources |-> FALSE]
  /\ active_count = [s \in Sources |-> 0]
  /\ relax_count = [s \in Sources |-> 0]
  /\ timed = {}
  /\ combined_event_count = [cnt |-> 0, inpr |-> 0]
  /\ events_check_enabled = FALSE
  /\ saved_count = 0
  /\ blocklist = {}
  /\ storing = FALSE
  /\ code = [a \in Agents |-> "idle"]
  /\ next = [a \in Agents |-> "idle"]
  /\ reg = [a \in Agents |-> 0]
  /\ cur = [t \in Walkers |-> NoSource]
  /\ at = [t \in Walkers |-> "idle"]
  /\ todo = [t \in Walkers |-> {}]
  /\ count = 0
  /\ registered = 0
  /\ relaxed = 0
  /\ overlapped = {}

AgentStep(a) ==
  \/ CheckForBlock(a)
  \/ RelaxIfActive(a)
  \/ RelaxLoad(a)
  \/ RelaxStore(a)
  \/ RelaxCompare(a)
  \/ RelaxLower(a)
  \/ SetInactive(a)
  \/ ClearTimer(a)
  \/ AccountEvent(a)

LockedStep(s) ==
  \/ PmStayAwake(s)
  \/ PmRelax(s)
  \/ \E nonzero \in BOOLEAN : PmWakeupWsEvent(s, nonzero)
  \/ PmWakeupTimerFn(s)
  \/ ReportEvent(s)
  \/ SetActive(s)
  \/ CountActivation(s)
  \/ RegisterEvent(s)
  \/ CancelTimer(s)
  \/ ArmTimer(s)
  \/ TimerTest(s)

TaskStep(t) ==
  \/ \E s \in Sources : WalkVisit(t, s)
  \/ WalkEnd(t)
  \/ \E block \in BOOLEAN : GetWakeupCount(t, block)
  \/ \E interrupted \in BOOLEAN : CheckInProgress(t, interrupted)
  \/ ReadCount(t)

PowerStep ==
  \/ SaveDisable
  \/ SaveCompare
  \/ SaveReturn
  \/ SuspendStart
  \/ PmWakeupPending
  \/ Resume

BlockerNext ==
  \/ \E a \in Agents : AgentStep(a)
  \/ \E s \in Sources : LockedStep(s)
  \/ \E t \in Walkers : TaskStep(t)
  \/ PowerStep
  \/ BuildSearchString
  \/ \E list \in SUBSET Sources : SearchStringBuilt(list)

BlockerSpec == BlockerInit /\ [][BlockerNext]_wbvars

-----------------------------------------------------------------------------
ActiveSet == {s \in Sources : active[s]}

AtRest(s) == code[s] = "idle" /\ \A t \in Walkers : cur[t] # s

(* The low half of combined_event_count is the number of active sources    *)
(* whenever nobody is inside a source: "notify the PM core ... by          *)
(* decrementing the counter of wakeup events being processed"              *)
(* (wakeup_source_deactivate).                                              *)
InProgressExact ==
  (\A s \in Sources : AtRest(s)) => inprogress = Cardinality(ActiveSet)

(* A walk that kills a source without its lock, in the middle of a report, *)
(* a relax or a timer callback and on a search string that is being        *)
(* rewritten, does no harm to the counts, except where it and the owner    *)
(* have relax_count raised at the same time: a source of which that never  *)
(* happened has been activated once more than relaxed if it is active and  *)
(* as often if it is not, and if it happened to none the events in         *)
(* progress are the active sources (wakeup_source_deactivate).              *)
Even(s) ==
  active_count[s] = IF active[s] THEN Plus1(relax_count[s]) ELSE relax_count[s]

ExactUnlessOverlapped ==
  /\ \A s \in Sources \ overlapped : AtRest(s) => Even(s)
  /\ overlapped = {} => InProgressExact

(* Whatever the kills do to the counts, the system falls asleep on an      *)
(* enabled check only if no activation was counted since the power manager *)
(* read the count it wrote back, as long as fewer of them, and fewer       *)
(* deactivations, came in between than a half of the counter can tell      *)
(* apart (pm_save_wakeup_count, pm_wakeup_pending).                         *)
NoRegistrationMissed ==
  [][at[Suspender] = "suspending" /\ at'[Suspender] = "asleep"
       /\ events_check_enabled /\ registered < Modulus /\ relaxed < Modulus
     => registered = 0 /\ relaxed = 0]_wbvars
=============================================================================
