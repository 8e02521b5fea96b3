------------------------ MODULE WakeupEvents_proofs ------------------------
(***************************************************************************)
(* Theorems about WakeupEvents, for every number of sources, devices and   *)
(* readers and every width of the counter.                                  *)
(***************************************************************************)
EXTENDS WakeupEvents, FiniteSetTheorems, TLAPS

-----------------------------------------------------------------------------
(* What the steps under ws->lock work on.                                   *)
ViewType == [w: Source, comb: Counter, since: 0..Modulus, wake: BOOLEAN]

(* A carry or a borrow keeps both halves of the counter in range.           *)
LEMMA CounterClosed ==
  ASSUME NEW c \in Counter
  PROVE  IncCounter(c) \in Counter /\ AddMaxInProgress(c) \in Counter
BY ModulusAssumption DEF Counter, IncCounter, AddMaxInProgress, Wrap

(* What happens to the fields of a source.                                  *)
LEMMA SourceClosed ==
  ASSUME NEW w \in Source
  PROVE  /\ Activated(w) \in Source
         /\ TimerOff(w) \in Source
         /\ TimerOn(w) \in Source
         /\ Deactivated(w) \in Source
<1>0. w.active_count + 1 \in Nat /\ w.relax_count + 1 \in Nat
  BY DEF Source
<1>1. Activated(w) \in Source
  BY <1>0 DEF Source, Activated
<1>2. ASSUME NEW v \in Source PROVE TimerOff(v) \in Source
  BY DEF Source, Expiry, TimerOff
<1>3. TimerOn(w) \in Source
  BY DEF Source, Expiry, TimerOn
<1>4. Deactivated(w) \in Source
  <2>1. [w EXCEPT !.active = FALSE, !.relax_count = @ + 1] \in Source
    BY <1>0 DEF Source
  <2>2. QED BY <1>2, <2>1 DEF Deactivated
<1>5. QED BY <1>1, <1>2, <1>3, <1>4

(* Every operation done with ws->lock held keeps the view well typed.       *)
LEMMA ViewClosed ==
  ASSUME NEW k \in ViewType
  PROVE  /\ \A r \in BOOLEAN : Activate(k, r) \in ViewType
         /\ Account(k) \in ViewType
         /\ Deactivate(k) \in ViewType
         /\ PmRelax(k) \in ViewType
         /\ CancelTimer(k) \in ViewType
         /\ \A l \in BOOLEAN : ArmTimer(k, l) \in ViewType
<1> USE DEF ViewType
<1>0. k.w \in Source /\ k.comb \in Counter /\ k.since \in 0..Modulus
  OBVIOUS
<1>1. ASSUME NEW r \in BOOLEAN PROVE Activate(k, r) \in ViewType
  <2>1. (IF CountInUse /\ k.since < Modulus THEN k.since + 1 ELSE k.since) \in 0..Modulus
    BY <1>0, ModulusAssumption
  <2>2. Activated(k.w) \in Source /\ IncCounter(k.comb) \in Counter
    BY <1>0, CounterClosed, SourceClosed
  <2>3. QED BY <2>1, <2>2 DEF Activate
<1>2. ASSUME NEW j \in ViewType PROVE Account(j) \in ViewType
  BY CounterClosed DEF Account
<1>3. Deactivate(k) \in ViewType
  <2>1. [k EXCEPT !.w = Deactivated(@)] \in ViewType
    BY <1>0, SourceClosed
  <2>2. QED BY <1>2, <2>1 DEF Deactivate
<1>4. PmRelax(k) \in ViewType
  BY <1>3 DEF PmRelax
<1>5. CancelTimer(k) \in ViewType
  BY <1>0, SourceClosed DEF CancelTimer
<1>6. ASSUME NEW l \in BOOLEAN PROVE ArmTimer(k, l) \in ViewType
  BY <1>0, SourceClosed DEF ArmTimer
<1>7. QED BY <1>1, <1>2, <1>3, <1>4, <1>5, <1>6

LEMMA ReportClosed ==
  ASSUME NEW k \in ViewType, NEW r \in BOOLEAN
  PROVE  ReportEvent(k, r) \in ViewType
BY ViewClosed DEF ReportEvent

LEMMA ViewTyped ==
  ASSUME TypeOK, NEW s \in Sources
  PROVE  View(s) \in ViewType
BY ModulusAssumption DEF TypeOK, View, ViewType

LEMMA InitTyped == Init => TypeOK
<1> SUFFICES ASSUME Init PROVE TypeOK
  OBVIOUS
<1>1. NewSource \in Source
  BY DEF NewSource, Source, Expiry
<1>2. combined_event_count \in Counter /\ saved_count \in 0..Modulus-1
      /\ count \in 0..Modulus-1 /\ since \in 0..Modulus
  BY ModulusAssumption DEF Init, Counter
<1>3. pc \in [Tasks -> Pc]
  BY DEF Init, Pc
<1>4. QED BY <1>1, <1>2, <1>3 DEF Init, TypeOK, Phases

(* A step that publishes a well-typed view keeps the types it changes.      *)
LEMMA PublishTyped ==
  ASSUME TypeOK, NEW k \in ViewType, Publish(k)
  PROVE  /\ combined_event_count' \in Counter
         /\ since' \in 0..Modulus
         /\ waiting' \subseteq Tasks
BY DEF Publish, ViewType, TypeOK

LEMMA LockedTyped ==
  ASSUME TypeOK, NEW s \in Sources, NEW k \in ViewType, LockedUpdate(s, k)
  PROVE  src' \in [Sources -> Source]
BY DEF LockedUpdate, ViewType, TypeOK

LEMMA LifeTyped ==
  ASSUME TypeOK, NEW s \in Sources, LifeStep(s)
  PROVE  TypeOK'
<1> USE DEF TypeOK, lifeVars, gateVars, walkVars, taskVars
<1>1. ASSUME NEW d \in Devices \cup {None}, WakeupSourceRegister(s, d) PROVE TypeOK'
  BY <1>1 DEF WakeupSourceRegister, Phases, Source, NewSource, Expiry
<1>2. CASE DeviceWakeupAttach(s)
  BY <1>2 DEF DeviceWakeupAttach, Phases
<1>3. CASE UnregisterVirtual(s)
  BY <1>3 DEF UnregisterVirtual, Phases
<1>4. CASE RemoveFromList(s)
  BY <1>4 DEF RemoveFromList, Phases
<1>5. CASE RemoveFinish(s)
  BY <1>5 DEF RemoveFinish, Phases, Source
<1>6. CASE WakeupSourceDestroy(s)
  <2>1. PmRelax(View(s)) \in ViewType
    BY ViewTyped, ViewClosed
  <2>2. /\ combined_event_count' \in Counter
        /\ since' \in 0..Modulus
        /\ waiting' \subseteq Tasks
    BY <1>6, <2>1, PublishTyped DEF WakeupSourceDestroy
  <2>3. src' \in [Sources -> Source]
    BY <1>6 DEF WakeupSourceDestroy, NewSource, Source, Expiry
  <2>4. QED BY <1>6, <2>2, <2>3 DEF WakeupSourceDestroy, Phases
<1>7. QED BY <1>1, <1>2, <1>3, <1>4, <1>5, <1>6 DEF LifeStep

LEMMA EventTyped ==
  ASSUME TypeOK, NEW s \in Sources, EventStep(s)
  PROVE  TypeOK'
<1> DEFINE Rest == UNCHANGED <<lifeVars, grace, gateVars, pm_abort_suspend,
                               taskVars>>
<1>1. ASSUME NEW k \in ViewType, LockedUpdate(s, k), Rest,
             running' \subseteq Sources
      PROVE  TypeOK'
  <2>1. /\ combined_event_count' \in Counter
        /\ since' \in 0..Modulus
        /\ waiting' \subseteq Tasks
    BY <1>1, PublishTyped DEF LockedUpdate
  <2>2. src' \in [Sources -> Source]
    BY <1>1, LockedTyped
  <2>3. QED
    BY <1>1, <2>1, <2>2
    DEF TypeOK, lifeVars, gateVars, walkVars, taskVars
<1>2. View(s) \in ViewType
  BY ViewTyped
<1>3. CASE PmStayAwake(s)
  <2>1. CancelTimer(ReportEvent(View(s), s \in Registered)) \in ViewType
    <3>1. (s \in Registered) \in BOOLEAN
      OBVIOUS
    <3>2. ReportEvent(View(s), s \in Registered) \in ViewType
      BY <1>2, <3>1, ReportClosed
    <3>3. QED BY <3>2, ViewClosed
  <2>2. QED
    BY <1>1, <1>3, <2>1 DEF PmStayAwake, eventUnchanged, TypeOK
<1>4. CASE PmRelaxCall(s)
  BY <1>1, <1>2, <1>4, ViewClosed DEF PmRelaxCall, eventUnchanged, TypeOK
<1>5. ASSUME NEW nonzero \in BOOLEAN, PmWakeupWsEvent(s, nonzero)
      PROVE  TypeOK'
  <2>1. PICK later \in BOOLEAN :
          LockedUpdate(s, IF nonzero
                          THEN ArmTimer(ReportEvent(View(s), s \in Registered), later)
                          ELSE Deactivate(ReportEvent(View(s), s \in Registered)))
    BY <1>5 DEF PmWakeupWsEvent
  <2> DEFINE k == ReportEvent(View(s), s \in Registered)
  <2>2. k \in ViewType
    <3>1. (s \in Registered) \in BOOLEAN
      OBVIOUS
    <3>2. QED BY <1>2, <3>1, ReportClosed
  <2>3. ArmTimer(k, later) \in ViewType /\ Deactivate(k) \in ViewType
    BY <2>2, ViewClosed
  <2>4. (IF nonzero THEN ArmTimer(k, later) ELSE Deactivate(k)) \in ViewType
    BY <2>3
  <2>5. Rest /\ running' \subseteq Sources
    BY <1>5 DEF PmWakeupWsEvent, eventUnchanged, TypeOK
  <2>6. QED BY <1>1, <2>1, <2>4, <2>5
<1>6. CASE TimePasses(s)
  BY <1>6 DEF TimePasses, eventUnchanged, TypeOK, Source, Expiry,
              lifeVars, gateVars, walkVars, taskVars
<1>7. CASE TimerExpires(s)
  BY <1>7 DEF TimerExpires, TypeOK, Source, Expiry,
              lifeVars, gateVars, walkVars, taskVars
<1>8. CASE PmWakeupTimerFn(s)
  <2> DEFINE k == IF View(s).w.active /\ View(s).w.expires = "due"
                  THEN Deactivate(View(s)) ELSE View(s)
  <2>1. k \in ViewType
    BY <1>2, ViewClosed
  <2>2. LockedUpdate(s, k) /\ Rest /\ running' \subseteq Sources
    BY <1>8 DEF PmWakeupTimerFn, TypeOK
  <2>3. QED BY <1>1, <2>1, <2>2
<1>9. QED BY <1>3, <1>4, <1>5, <1>6, <1>7, <1>8 DEF EventStep

LEMMA WalkTyped ==
  ASSUME TypeOK, NEW t \in Tasks, WalkStep(t)
  PROVE  TypeOK'
<1> USE DEF TypeOK, taskUnchanged, lifeVars, gateVars, walkVars, taskVars, Goto
<1>1. ASSUME NEW s \in Sources, WalkVisit(t, s) PROVE TypeOK'
  BY <1>1 DEF WalkVisit, Pc
<1>2. CASE WalkEnd(t)
  BY <1>2 DEF WalkEnd, Listed, Pc
<1>3. ASSUME NEW s \in Sources, RcuWalkVisit(t, s) PROVE TypeOK'
  BY <1>3 DEF RcuWalkVisit
<1>4. CASE RcuWalkEnd(t)
  BY <1>4 DEF RcuWalkEnd, Pc
<1>5. QED
  BY <1>1, <1>2, <1>3, <1>4 DEF WalkStep

LEMMA CallTyped ==
  ASSUME TypeOK, NEW t \in Tasks,
         CountStep(t) \/ Signal(t) \/ \E block \in BOOLEAN : GetWakeupCount(t, block)
  PROVE  TypeOK'
<1> USE DEF TypeOK, taskUnchanged, lifeVars, gateVars, walkVars, taskVars,
            Goto, Pc
<1>1. CASE PrepareToWait(t)
  BY <1>1 DEF PrepareToWait
<1>2. CASE CheckInProgress(t)
  BY <1>2 DEF CheckInProgress, StartWalk, Listed
<1>3. CASE Schedule(t)
  BY <1>3 DEF Schedule
<1>4. CASE ReadCount(t)
  <2>1. cnt \in 0..Modulus-1 /\ 0 \in 0..Modulus
    BY ModulusAssumption DEF cnt, Counter
  <2>2. QED BY <1>4, <2>1 DEF ReadCount
<1>5. CASE Signal(t)
  BY <1>5 DEF Signal
<1>6. ASSUME NEW block \in BOOLEAN, GetWakeupCount(t, block) PROVE TypeOK'
  BY <1>6 DEF GetWakeupCount
<1>7. QED BY <1>1, <1>2, <1>3, <1>4, <1>5, <1>6 DEF CountStep

LEMMA SuspendTyped ==
  ASSUME TypeOK, SuspendStep
  PROVE  TypeOK'
<1> USE ModulusAssumption
    DEF TypeOK, taskUnchanged, lifeVars, gateVars, walkVars, taskVars,
        Goto, Pc
<1>0. Suspender \in Tasks
  BY DEF Tasks
<1>00. 0 \in 0..Modulus /\ 0 \in 0..Modulus-1 /\ FALSE \in BOOLEAN
  OBVIOUS
<1>1. CASE SaveDisable
  BY <1>0, <1>1 DEF SaveDisable
<1>2. CASE SaveCompare
  BY <1>0, <1>00, <1>2 DEF SaveCompare
<1>3. CASE SaveReturn
  BY <1>0, <1>3 DEF SaveReturn
<1>4. CASE SuspendStart
  BY <1>0, <1>4 DEF SuspendStart
<1>5. CASE PmWakeupPending
  <2>1. CASE EventsMissed
    <3>1. events_check_enabled' \in BOOLEAN /\ since' \in 0..Modulus
      BY <1>5, <1>00, <2>1 DEF PmWakeupPending
    <3>2. UNCHANGED <<phase, owner, src, wakeup, running, grace, combined_event_count, saved_count,
                      pm_abort_suspend, waiting, signalled, cur, count>>
      BY <1>5, <2>1 DEF PmWakeupPending, StartWalk
    <3>3. /\ pc[Suspender] = "suspending" /\ pc' = [pc EXCEPT ![Suspender] = "walk"]
          /\ todo' = [todo EXCEPT ![Suspender] = Listed]
          /\ after' = [after EXCEPT ![Suspender] = "rcuwalk"]
      BY <1>5, <2>1 DEF PmWakeupPending, StartWalk
    <3>4. QED BY <1>0, <3>1, <3>2, <3>3 DEF Listed
  <2>2. CASE ~EventsMissed
    BY <1>0, <1>5, <2>2 DEF PmWakeupPending
  <2>3. QED BY <2>1, <2>2
<1>6. CASE Resume
  BY <1>0, <1>00, <1>6 DEF Resume
<1>7. QED BY <1>1, <1>2, <1>3, <1>4, <1>5, <1>6 DEF SuspendStep

(* Every variable keeps its type through every step of the framework.       *)
THEOREM TypeCorrect == Spec => []TypeOK
<1>1. TypeOK /\ [Next]_vars => TypeOK'
  <2> SUFFICES ASSUME TypeOK, [Next]_vars PROVE TypeOK'
    OBVIOUS
  <2>1. ASSUME NEW s \in Sources, LifeStep(s) \/ EventStep(s) PROVE TypeOK'
    BY <2>1, LifeTyped, EventTyped
  <2>2. ASSUME NEW d \in Devices, DeviceWakeupDisable(d) PROVE TypeOK'
    BY <2>2 DEF DeviceWakeupDisable, TypeOK, Phases,
                lifeVars, gateVars, walkVars, taskVars
  <2>3. ASSUME NEW t \in Tasks, WalkStep(t) \/ CountStep(t) \/ Signal(t) PROVE TypeOK'
    BY <2>3, WalkTyped, CallTyped
  <2>4. ASSUME NEW t \in Tasks, NEW block \in BOOLEAN, GetWakeupCount(t, block)
        PROVE  TypeOK'
    BY <2>4, CallTyped
  <2>5. CASE PmSystemWakeup \/ PmSystemCancelWakeup
    BY <2>5 DEF PmSystemWakeup, PmSystemCancelWakeup, TypeOK,
                lifeVars, gateVars, walkVars, taskVars
  <2>6. CASE SuspendStep
    BY <2>6, SuspendTyped
  <2>7. CASE UNCHANGED vars
    BY <2>7 DEF TypeOK, vars, lifeVars, gateVars, walkVars, taskVars
  <2>8. QED
    BY <2>1, <2>2, <2>3, <2>4, <2>5, <2>6, <2>7 DEF Next
<1>2. QED BY <1>1, InitTyped, PTL DEF Spec

-----------------------------------------------------------------------------
(* The life of a source.                                                    *)
LEMMA InitLife == Init => LifeInv
BY DEF Init, LifeInv, AttachedIsLive, WalkInv, TimerInv, NewSource

(* No operation with ws->lock held arms the timer but ArmTimer.             *)
LEMMA PendingKept ==
  ASSUME NEW k \in ViewType
  PROVE  /\ \A r \in BOOLEAN : Activate(k, r).w.pending => k.w.pending
         /\ Deactivate(k).w.pending => k.w.pending
         /\ PmRelax(k).w.pending => k.w.pending
         /\ \A r \in BOOLEAN : ReportEvent(k, r).w.pending => k.w.pending
         /\ ~CancelTimer(k).w.pending
<1> USE DEF ViewType
<1>1. ASSUME NEW r \in BOOLEAN, Activate(k, r).w.pending PROVE k.w.pending
  BY <1>1 DEF Activate, Activated, Source
<1>2. ASSUME Deactivate(k).w.pending PROVE k.w.pending
  <2> SUFFICES ASSUME Deactivate(k) # k PROVE FALSE
    BY <1>2
  <2> DEFINE j == [k EXCEPT !.w = Deactivated(@)]
  <2>1. Deactivate(k) = Account(j)
    BY DEF Deactivate
  <2>2. Account(j).w = Deactivated(k.w)
    BY DEF Account
  <2>3. ~Deactivated(k.w).pending
    BY DEF Deactivated, TimerOff, Source
  <2>4. QED BY <1>2, <2>1, <2>2, <2>3
<1>3. PmRelax(k).w.pending => k.w.pending
  BY <1>2 DEF PmRelax
<1>4. ASSUME NEW r \in BOOLEAN, ReportEvent(k, r).w.pending
      PROVE  k.w.pending
  BY <1>1, <1>4 DEF ReportEvent
<1>5. ~CancelTimer(k).w.pending
  BY DEF CancelTimer, TimerOff, Source
<1>6. QED BY <1>1, <1>2, <1>3, <1>4, <1>5

LEMMA LifeStepKeepsLife ==
  ASSUME TypeOK, LifeInv, NEW s \in Sources, LifeStep(s)
  PROVE  LifeInv'
<1> USE DevicesAssumption, SourcesAssumption
    DEF TypeOK, LifeInv, Listed, Registered
<1>1. ASSUME NEW d \in Devices \cup {None}, WakeupSourceRegister(s, d) PROVE LifeInv'
  <2>1. AttachedIsLive'
    BY <1>1 DEF WakeupSourceRegister, AttachedIsLive
  <2>2. WalkInv'
    BY <1>1 DEF WakeupSourceRegister, WalkInv, Reach, taskVars, walkVars
  <2>3. TimerInv'
    BY <1>1 DEF WakeupSourceRegister, TimerInv
  <2>4. QED BY <2>1, <2>2, <2>3
<1>2. CASE DeviceWakeupAttach(s)
  <2>1. AttachedIsLive'
    BY <1>2 DEF DeviceWakeupAttach, AttachedIsLive
  <2>2. WalkInv'
    BY <1>2 DEF DeviceWakeupAttach, WalkInv, Reach, taskVars, walkVars
  <2>3. TimerInv'
    BY <1>2 DEF DeviceWakeupAttach, TimerInv
  <2>4. QED BY <2>1, <2>2, <2>3
<1>3. CASE UnregisterVirtual(s)
  <2>1. AttachedIsLive'
    BY <1>3 DEF UnregisterVirtual, AttachedIsLive
  <2>2. WalkInv'
    BY <1>3 DEF UnregisterVirtual, WalkInv, Reach, taskVars, walkVars
  <2>3. TimerInv'
    BY <1>3 DEF UnregisterVirtual, TimerInv
  <2>4. QED BY <2>1, <2>2, <2>3
<1>4. CASE RemoveFromList(s)
  <2>1. AttachedIsLive'
    BY <1>4 DEF RemoveFromList, AttachedIsLive
  <2>2. WalkInv'
    BY <1>4 DEF RemoveFromList, WalkInv, Reach, taskVars, walkVars
  <2>3. TimerInv'
    BY <1>4 DEF RemoveFromList, TimerInv
  <2>4. QED BY <2>1, <2>2, <2>3
<1>5. CASE RemoveFinish(s)
  <2>1. AttachedIsLive'
    BY <1>5 DEF RemoveFinish, AttachedIsLive
  <2>2. WalkInv'
    BY <1>5 DEF RemoveFinish, WalkInv, Reach, taskVars, walkVars
  <2>3. ASSUME NEW x \in Sources, src'[x].pending \/ x \in running'
        PROVE  phase'[x] \notin {"free", "retired"}
    <3>1. x # s
      BY <1>5, <2>3 DEF RemoveFinish, Source
    <3>2. QED BY <1>5, <2>3, <3>1 DEF RemoveFinish, TimerInv
  <2>4. QED BY <2>1, <2>2, <2>3 DEF TimerInv
<1>6. CASE WakeupSourceDestroy(s)
  <2>1. AttachedIsLive'
    BY <1>6 DEF WakeupSourceDestroy, AttachedIsLive
  <2>2. WalkInv'
    BY <1>6 DEF WakeupSourceDestroy, WalkInv, Reach, taskVars, walkVars
  <2>3. TimerInv'
    BY <1>6 DEF WakeupSourceDestroy, TimerInv, NewSource
  <2>4. QED BY <2>1, <2>2, <2>3
<1>7. QED BY <1>1, <1>2, <1>3, <1>4, <1>5, <1>6 DEF LifeStep

LEMMA ReachableRegistered ==
  ASSUME LifeInv, NEW s \in Sources, Reachable(s)
  PROVE  s \in Registered /\ phase[s] # "free"
BY DevicesAssumption, SourcesAssumption DEF LifeInv, AttachedIsLive, Reachable, Registered

LEMMA EventKeepsLife ==
  ASSUME TypeOK, LifeInv, NEW s \in Sources, EventStep(s)
  PROVE  LifeInv'
<1>1. UNCHANGED <<lifeVars, grace, pc, todo, cur>>
  BY DEF EventStep, PmStayAwake, PmRelaxCall, PmWakeupWsEvent, TimePasses, TimerExpires,
         PmWakeupTimerFn, eventUnchanged, taskVars, walkVars
<1>2. AttachedIsLive' /\ WalkInv'
  BY <1>1 DEF LifeInv, AttachedIsLive, WalkInv, Reach, Listed, lifeVars
<1>3. Registered' = Registered
  BY <1>1 DEF Registered, lifeVars
<1>4. ASSUME NEW k \in ViewType, LockedUpdate(s, k), k.w.pending => s \in Registered,
             running' \subseteq running
      PROVE  TimerInv'
  BY <1>3, <1>4 DEF TypeOK, LifeInv, TimerInv, LockedUpdate
<1>5. View(s) \in ViewType /\ (View(s).w.pending => s \in Registered)
  BY ViewTyped DEF LifeInv, TimerInv, View
<1>6. (s \in Registered) \in BOOLEAN
  OBVIOUS
<1>7. CASE PmStayAwake(s)
  <2>1. ReportEvent(View(s), s \in Registered) \in ViewType
    BY <1>5, <1>6, ReportClosed
  <2>2. QED
    BY <1>2, <1>4, <1>7, <2>1, PendingKept, ViewClosed
    DEF PmStayAwake, eventUnchanged, LifeInv
<1>8. CASE PmRelaxCall(s)
  BY <1>2, <1>4, <1>5, <1>8, PendingKept, ViewClosed DEF PmRelaxCall, eventUnchanged, LifeInv
<1>9. ASSUME NEW nonzero \in BOOLEAN, PmWakeupWsEvent(s, nonzero)
      PROVE  LifeInv'
  <2>1. PICK later \in BOOLEAN :
          LockedUpdate(s, IF nonzero
                          THEN ArmTimer(ReportEvent(View(s), s \in Registered), later)
                          ELSE Deactivate(ReportEvent(View(s), s \in Registered)))
    BY <1>9 DEF PmWakeupWsEvent
  <2> DEFINE k == ReportEvent(View(s), s \in Registered)
             j == IF nonzero THEN ArmTimer(k, later) ELSE Deactivate(k)
  <2>2. k \in ViewType
    BY <1>5, <1>6, ReportClosed
  <2>3. j \in ViewType
    BY <2>2, ViewClosed
  <2>4. s \in Registered
    BY <1>9, ReachableRegistered DEF PmWakeupWsEvent
  <2>5. running' \subseteq running
    BY <1>9 DEF PmWakeupWsEvent, eventUnchanged
  <2> HIDE DEF j
  <2>6. LockedUpdate(s, j)
    BY <2>1 DEF j
  <2>7. QED BY <1>2, <1>4, <2>3, <2>4, <2>5, <2>6 DEF LifeInv
<1>10. CASE TimePasses(s)
  <2>1. TimerInv'
    BY <1>3, <1>10 DEF TimePasses, eventUnchanged, TypeOK, LifeInv, TimerInv, Source
  <2>2. QED BY <1>2, <2>1 DEF LifeInv
<1>11. CASE TimerExpires(s)
  <2>1. TimerInv'
    BY <1>3, <1>11 DEF TimerExpires, TypeOK, LifeInv, TimerInv, Source
  <2>2. QED BY <1>2, <2>1 DEF LifeInv
<1>12. CASE PmWakeupTimerFn(s)
  <2> DEFINE k == IF View(s).w.active /\ View(s).w.expires = "due"
                  THEN Deactivate(View(s)) ELSE View(s)
  <2>1. k \in ViewType /\ (k.w.pending => s \in Registered)
    BY <1>5, ViewClosed, PendingKept
  <2>2. LockedUpdate(s, k) /\ running' \subseteq running
    BY <1>12 DEF PmWakeupTimerFn
  <2>3. QED BY <1>2, <1>4, <2>1, <2>2 DEF LifeInv
<1>13. QED BY <1>7, <1>8, <1>9, <1>10, <1>11, <1>12 DEF EventStep

LEMMA TaskKeepsLife ==
  ASSUME TypeOK, LifeInv, NEW t \in Tasks,
         \/ WalkStep(t) \/ CountStep(t) \/ Signal(t)
         \/ \E block \in BOOLEAN : GetWakeupCount(t, block)
  PROVE  LifeInv'
<1> USE DEF TypeOK, LifeInv, AttachedIsLive, WalkInv, Reach, TimerInv, Listed, Registered, Goto,
            taskUnchanged, lifeVars, gateVars, walkVars
<1>1. ASSUME NEW s \in Sources, WalkVisit(t, s) PROVE LifeInv'
  BY <1>1 DEF WalkVisit
<1>2. CASE WalkEnd(t)
  BY <1>2 DEF WalkEnd
<1>3. ASSUME NEW s \in Sources, RcuWalkVisit(t, s) PROVE LifeInv'
  BY <1>3 DEF RcuWalkVisit
<1>4. CASE RcuWalkEnd(t)
  BY <1>4 DEF RcuWalkEnd
<1>5. CASE PrepareToWait(t)
  BY <1>5 DEF PrepareToWait
<1>6. CASE CheckInProgress(t)
  BY <1>6 DEF CheckInProgress, StartWalk
<1>7. CASE Schedule(t)
  BY <1>7 DEF Schedule
<1>8. CASE ReadCount(t)
  BY <1>8 DEF ReadCount
<1>9. CASE Signal(t)
  BY <1>9 DEF Signal
<1>10. ASSUME NEW block \in BOOLEAN, GetWakeupCount(t, block) PROVE LifeInv'
  BY <1>10 DEF GetWakeupCount
<1>11. QED
  BY <1>1, <1>2, <1>3, <1>4, <1>5, <1>6, <1>7, <1>8,
     <1>9, <1>10 DEF WalkStep, CountStep

LEMMA SuspendKeepsLife ==
  ASSUME TypeOK, LifeInv, SuspendStep
  PROVE  LifeInv'
<1> USE DEF TypeOK, LifeInv, AttachedIsLive, WalkInv, Reach, TimerInv, Listed, Registered, Goto,
            taskUnchanged, lifeVars, gateVars, walkVars, Tasks
<1>1. CASE SaveDisable
  BY <1>1 DEF SaveDisable
<1>2. CASE SaveCompare
  BY <1>2 DEF SaveCompare
<1>3. CASE SaveReturn
  BY <1>3 DEF SaveReturn
<1>4. CASE SuspendStart
  BY <1>4 DEF SuspendStart
<1>5. CASE PmWakeupPending
  BY <1>5 DEF PmWakeupPending, StartWalk
<1>6. CASE Resume
  BY <1>6 DEF Resume
<1>7. QED BY <1>1, <1>2, <1>3, <1>4, <1>5, <1>6 DEF SuspendStep

(* Whatever the list walks, the timers, enable and disable of devices and  *)
(* the removal of sources do at the same time: LifeInv is inductive.        *)
THEOREM LifeInvariant == Spec => []LifeInv
<1>1. TypeOK /\ LifeInv /\ [Next]_vars => LifeInv'
  <2> SUFFICES ASSUME TypeOK, LifeInv, [Next]_vars PROVE LifeInv'
    OBVIOUS
  <2> USE DEF lifeVars, gateVars, walkVars, taskVars
  <2>1. ASSUME NEW s \in Sources, LifeStep(s) \/ EventStep(s) PROVE LifeInv'
    BY <2>1, LifeStepKeepsLife, EventKeepsLife
  <2>2. ASSUME NEW d \in Devices, DeviceWakeupDisable(d) PROVE LifeInv'
    BY <2>2, SourcesAssumption
    DEF DeviceWakeupDisable, TypeOK, LifeInv, AttachedIsLive, WalkInv, Reach, TimerInv,
        Listed, Registered
  <2>3. ASSUME NEW t \in Tasks, WalkStep(t) \/ CountStep(t) \/ Signal(t) PROVE LifeInv'
    BY <2>3, TaskKeepsLife
  <2>4. ASSUME NEW t \in Tasks, NEW block \in BOOLEAN, GetWakeupCount(t, block)
        PROVE  LifeInv'
    BY <2>4, TaskKeepsLife
  <2>5. CASE UNCHANGED vars \/ PmSystemWakeup \/ PmSystemCancelWakeup
    BY <2>5
    DEF vars, PmSystemWakeup, PmSystemCancelWakeup,
        LifeInv, AttachedIsLive, WalkInv, Reach, TimerInv, Listed, Registered
  <2>6. CASE SuspendStep
    BY <2>6, SuspendKeepsLife
  <2>7. QED BY <2>1, <2>2, <2>3, <2>4, <2>5, <2>6 DEF Next
<1>2. QED BY <1>1, InitLife, TypeCorrect, PTL DEF Spec

(* dev->power.wakeup always points to a live source of that device.         *)
THEOREM AttachedLive == Spec => []AttachedIsLive
BY LifeInvariant, PTL DEF LifeInv

(* No walk that holds wakeup_srcu and no timer callback is left with a     *)
(* source that is being freed.                                              *)
THEOREM WalkersSafe == Spec => []WalkersKeepSources
<1>1. TypeOK /\ LifeInv => WalkersKeepSources
  BY DEF TypeOK, LifeInv, WalkInv, TimerInv, WalkersKeepSources, Reach, Listed, Registered
<1>2. QED BY <1>1, TypeCorrect, LifeInvariant, PTL
-----------------------------------------------------------------------------
(***************************************************************************)
(* The suspend gate: the invariant behind InProgressExact, NoLostWakeup    *)
(* and NoEventMissed, for every width of the counter that can hold one     *)
(* event per source.                                                        *)
(***************************************************************************)
(* Counting active sources.                                                 *)
Others(s) == Cardinality(ActiveSet \ {s})

LEMMA SubsetCounted ==
  ASSUME NEW A \in SUBSET Sources, NEW s \in Sources
  PROVE  /\ IsFiniteSet(A)
         /\ Cardinality(A) \in Nat
         /\ Cardinality(A \ {s}) \in Nat
         /\ Cardinality(A \ {s}) + 1 < Modulus
         /\ Cardinality(A) = Cardinality(A \ {s}) + One(s \in A)
<1>1. IsFiniteSet(A) /\ IsFiniteSet(A \ {s})
  BY SourcesAssumption, FS_Subset
<1>2. Cardinality(A) \in Nat /\ Cardinality(A \ {s}) \in Nat /\ Cardinality(Sources) \in Nat
  BY <1>1, SourcesAssumption, FS_CardinalityType
<1>3. Cardinality(A) = Cardinality(A \ {s}) + One(s \in A)
  BY <1>1, <1>2, FS_RemoveElement DEF One
<1>4. Cardinality(A \ {s}) + 1 <= Cardinality(Sources)
  <2>1. Cardinality(A \ {s}) <= Cardinality(Sources \ {s})
    <3>1. IsFiniteSet(Sources \ {s}) /\ A \ {s} \in SUBSET (Sources \ {s})
      BY SourcesAssumption, FS_Subset
    <3>2. QED BY <3>1, FS_Subset
  <2>2. Cardinality(Sources \ {s}) = Cardinality(Sources) - 1
    BY SourcesAssumption, FS_RemoveElement
  <2>3. QED BY <1>2, <2>1, <2>2
<1>5. QED BY <1>1, <1>2, <1>3, <1>4, ModulusAssumption, WidthAssumption

LEMMA ActiveCounted ==
  ASSUME NEW s \in Sources
  PROVE  /\ Others(s) \in Nat
         /\ Others(s) + 1 < Modulus
         /\ Cardinality(ActiveSet) = Others(s) + One(src[s].active)
<1>1. ActiveSet \in SUBSET Sources /\ (s \in ActiveSet <=> src[s].active)
  BY DEF ActiveSet
<1>2. One(s \in ActiveSet) = One(src[s].active)
  BY <1>1 DEF One
<1>3. QED BY <1>1, <1>2, SubsetCounted DEF Others

(* One event more in the count, modulo its width.                           *)
LEMMA WrapStep ==
  ASSUME NEW b \in 0..Modulus-1, NEW x \in Nat, x + 1 < Modulus
  PROVE  Wrap(Wrap(b + x) + 1) = Wrap(b + (x + 1))
BY ModulusAssumption DEF Wrap

-----------------------------------------------------------------------------
(* The invariant, said of what a step holds in its hands: the source s as  *)
(* k.w, all the others as they are in the state.                            *)
KInv(k, s) ==
  /\ Balanced(k.w)
  /\ k.comb.inpr = Others(s) + One(k.w.active)
  /\ CountInUse => GateHolds(k.comb, k.since, Base)
  /\ k.comb.inpr = 0 => k.wake \/ inpr = 0

LEMMA BaseTyped ==
  ASSUME TypeOK
  PROVE  Base \in 0..Modulus-1
BY DEF TypeOK, Base

LEMMA ViewHolds ==
  ASSUME TypeOK, IInv, NEW s \in Sources
  PROVE  KInv(View(s), s)
<1> DEFINE k == View(s)
<1>1. /\ k.w = src[s] /\ k.comb = combined_event_count
      /\ k.since = since /\ k.wake = FALSE
  BY DEF View
<1>2. Balanced(k.w)
  BY <1>1 DEF IInv, SourcesBalanced
<1>3. k.comb.inpr = Others(s) + One(k.w.active)
  BY <1>1, ActiveCounted DEF IInv, inpr
<1>4. (CountInUse => GateHolds(k.comb, k.since, Base)) /\ (k.comb.inpr = 0 => inpr = 0)
  BY <1>1 DEF IInv, GateInv, inpr
<1>5. QED BY <1>2, <1>3, <1>4 DEF KInv

(* An activation of an inactive source is counted once.                     *)
LEMMA ActivateKeeps ==
  ASSUME TypeOK, NEW s \in Sources, NEW k \in ViewType, KInv(k, s),
         ~k.w.active, NEW r \in BOOLEAN
  PROVE  KInv(Activate(k, r), s)
<1> DEFINE j == Activate(k, r)
           n == IF CountInUse /\ k.since < Modulus THEN k.since + 1 ELSE k.since
<1> SUFFICES ASSUME r PROVE KInv(j, s)
  BY DEF Activate
<1>1. k.w \in Source /\ k.comb \in Counter /\ k.since \in 0..Modulus
  BY DEF ViewType
<1>2. k.w.active_count \in Nat /\ k.w.relax_count \in Nat
      /\ k.comb.inpr \in Nat /\ k.comb.cnt \in Nat
  BY <1>1, ModulusAssumption DEF Source, Counter
<1>3. k.comb.inpr = Others(s) /\ k.comb.inpr + 1 < Modulus
  BY <1>2, ActiveCounted DEF KInv, One
<1>4. j.w = Activated(k.w) /\ j.comb = IncCounter(k.comb) /\ j.since = n
  BY DEF Activate, ViewType
<1> HIDE DEF j
<1>5. j.comb.inpr = k.comb.inpr + 1 /\ j.comb.cnt = k.comb.cnt
  <2>1. k.comb.inpr # Modulus - 1
    BY <1>2, <1>3, ModulusAssumption
  <2>2. j.comb = [k.comb EXCEPT !.inpr = @ + 1]
    BY <1>4, <2>1 DEF IncCounter
  <2>3. QED BY <1>1, <2>2 DEF Counter
<1>6. /\ j.w.active
      /\ j.w.active_count = k.w.active_count + 1
      /\ j.w.relax_count = k.w.relax_count
  BY <1>1, <1>4 DEF Activated, Source
<1>7. Balanced(j.w)
  <2>1. k.w.active_count = k.w.relax_count + 0
    BY DEF KInv, Balanced, One
  <2>2. QED BY <1>2, <1>6, <2>1 DEF Balanced, One
<1>8. j.comb.inpr = Others(s) + One(j.w.active)
  BY <1>3, <1>5, <1>6 DEF One
<1>9. ASSUME CountInUse PROVE GateHolds(j.comb, j.since, Base)
  <2> SUFFICES ASSUME n < Modulus
               PROVE  j.comb.inpr <= n /\ j.comb.cnt = Wrap(Base + (n - j.comb.inpr))
    BY <1>4 DEF GateHolds
  <2>1. k.since < Modulus /\ n = k.since + 1
    BY <1>1, <1>9, ModulusAssumption
  <2> HIDE DEF n
  <2>2. k.comb.inpr <= k.since /\ k.comb.cnt = Wrap(Base + (k.since - k.comb.inpr))
    BY <1>9, <2>1 DEF KInv, GateHolds
  <2>3. n - j.comb.inpr = k.since - k.comb.inpr
    BY <1>1, <1>2, <1>5, <2>1, ModulusAssumption
  <2>4. QED BY <1>1, <1>2, <1>5, <2>1, <2>2, <2>3, ModulusAssumption
<1>10. j.comb.inpr # 0
  BY <1>2, <1>5
<1>11. QED BY <1>7, <1>8, <1>9, <1>10 DEF KInv

(* A deactivation moves one event from the ones in progress to the count,  *)
(* and is void if the source is not active.                                 *)
LEMMA DeactivateKeeps ==
  ASSUME TypeOK, NEW s \in Sources, NEW k \in ViewType, KInv(k, s)
  PROVE  KInv(Deactivate(k), s) /\ ~Deactivate(k).w.active
<1> DEFINE j == Deactivate(k)
<1>1. k.w \in Source /\ k.comb \in Counter /\ k.since \in 0..Modulus
  BY DEF ViewType
<1>2. k.w.active_count \in Nat /\ k.w.relax_count \in Nat /\ k.w.active \in BOOLEAN
      /\ k.comb.inpr \in Nat /\ k.comb.cnt \in Nat
  BY <1>1, ModulusAssumption DEF Source, Counter
<1>3. CASE ~k.w.active
  <2>1. k.w.relax_count + 1 # k.w.active_count
    BY <1>2, <1>3 DEF KInv, Balanced, One
  <2>2. QED BY <1>3, <2>1 DEF Deactivate
<1>4. CASE k.w.active
  <2>1. k.w.relax_count + 1 = k.w.active_count
    BY <1>2, <1>4 DEF KInv, Balanced, One
  <2> DEFINE i == [k EXCEPT !.w = Deactivated(@)]
  <2>2. i \in ViewType /\ i.w = Deactivated(k.w) /\ i.comb = k.comb /\ i.since = k.since
    BY <1>1, SourceClosed DEF ViewType
  <2>3. j = Account(i)
    BY <2>1 DEF Deactivate
  <2> HIDE DEF i
  <2>4. /\ j.w = Deactivated(k.w)
        /\ j.comb = AddMaxInProgress(k.comb)
        /\ j.since = k.since
        /\ j.wake = (AddMaxInProgress(k.comb).inpr = 0)
    BY <2>2, <2>3 DEF Account, ViewType
  <2>5. /\ ~j.w.active
        /\ j.w.active_count = k.w.active_count
        /\ j.w.relax_count = k.w.relax_count + 1
    BY <1>1, <2>4 DEF Deactivated, TimerOff, Source
  <2>6. k.comb.inpr = Others(s) + 1 /\ Others(s) \in Nat
    BY <1>4, ActiveCounted DEF KInv, One
  <2>7. j.comb.inpr = Others(s) /\ j.comb.cnt = Wrap(k.comb.cnt + 1)
    BY <1>2, <2>4, <2>6 DEF AddMaxInProgress
  <2>8. Balanced(j.w)
    BY <1>2, <2>1, <2>5 DEF Balanced, One
  <2>9. j.comb.inpr = Others(s) + One(j.w.active)
    BY <2>5, <2>6, <2>7 DEF One
  <2>10. ASSUME CountInUse, k.since < Modulus
         PROVE  j.comb.inpr <= k.since
                /\ j.comb.cnt = Wrap(Base + (k.since - j.comb.inpr))
    <3> DEFINE x == k.since - k.comb.inpr
    <3>1. k.comb.inpr <= k.since /\ k.comb.cnt = Wrap(Base + x)
      BY <2>10 DEF KInv, GateHolds
    <3>2. k.since \in Nat
      BY <1>1
    <3>3. x \in Nat /\ x + 1 = k.since - j.comb.inpr /\ x + 1 < Modulus
      BY <1>2, <2>6, <2>7, <2>10, <3>1, <3>2, ModulusAssumption
    <3>4. Wrap(Wrap(Base + x) + 1) = Wrap(Base + (x + 1))
      BY <3>3, BaseTyped, WrapStep
    <3>5. j.comb.inpr <= k.since
      BY <2>6, <2>7, <3>1, <3>2
    <3>6. QED BY <2>7, <3>1, <3>3, <3>4, <3>5
  <2>11. CountInUse => GateHolds(j.comb, j.since, Base)
    BY <2>4, <2>10 DEF GateHolds
  <2>12. j.comb.inpr = 0 => j.wake
    BY <2>4
  <2>13. QED BY <2>5, <2>8, <2>9, <2>11, <2>12 DEF KInv
<1>5. QED BY <1>2, <1>3, <1>4

LEMMA RelaxKeeps ==
  ASSUME TypeOK, NEW s \in Sources, NEW k \in ViewType, KInv(k, s)
  PROVE  KInv(PmRelax(k), s) /\ ~PmRelax(k).w.active
BY DeactivateKeeps DEF PmRelax

LEMMA ReportKeeps ==
  ASSUME TypeOK, NEW s \in Sources, NEW k \in ViewType, KInv(k, s), NEW r \in BOOLEAN
  PROVE  KInv(ReportEvent(k, r), s)
BY ActivateKeeps DEF ReportEvent

(* The timer plays no part in the counts.                                   *)
LEMMA TimersKeep ==
  ASSUME NEW s \in Sources, NEW k \in ViewType, KInv(k, s), NEW l \in BOOLEAN
  PROVE  KInv(CancelTimer(k), s) /\ KInv(ArmTimer(k, l), s)
<1> USE DEF ViewType
<1>1. ASSUME NEW w \in Source, NEW j \in ViewType, j = [k EXCEPT !.w = w],
             w.active = k.w.active, w.active_count = k.w.active_count,
             w.relax_count = k.w.relax_count
      PROVE  KInv(j, s)
  <2>1. j.w = w /\ j.comb = k.comb /\ j.since = k.since /\ j.wake = k.wake
    BY <1>1
  <2>2. Balanced(w)
    BY <1>1 DEF KInv, Balanced
  <2>3. QED BY <1>1, <2>1, <2>2 DEF KInv
<1>2. KInv(CancelTimer(k), s)
  <2>1. TimerOff(k.w) \in Source /\ CancelTimer(k) \in ViewType
    BY SourceClosed, ViewClosed
  <2>2. /\ TimerOff(k.w).active = k.w.active
        /\ TimerOff(k.w).active_count = k.w.active_count
        /\ TimerOff(k.w).relax_count = k.w.relax_count
    BY DEF TimerOff, Source
  <2>3. CancelTimer(k) = [k EXCEPT !.w = TimerOff(k.w)]
    BY DEF CancelTimer
  <2>4. QED BY <1>1, <2>1, <2>2, <2>3
<1>3. KInv(ArmTimer(k, l), s)
  <2>1. TimerOn(k.w) \in Source /\ ArmTimer(k, l) \in ViewType
    BY SourceClosed, ViewClosed
  <2>2. /\ TimerOn(k.w).active = k.w.active
        /\ TimerOn(k.w).active_count = k.w.active_count
        /\ TimerOn(k.w).relax_count = k.w.relax_count
    BY DEF TimerOn, Source
  <2>3. ArmTimer(k, l) = k \/ ArmTimer(k, l) = [k EXCEPT !.w = TimerOn(k.w)]
    BY DEF ArmTimer
  <2>4. QED BY <1>1, <2>1, <2>2, <2>3
<1>4. QED BY <1>2, <1>3

-----------------------------------------------------------------------------
(* From the view back to the state.                                         *)
gateUnchanged == UNCHANGED <<pc, todo, cur, after, count, signalled, gateVars>>

LEMMA WaitersAwake ==
  ASSUME IInv, NEW k, k.comb.inpr \in Nat, Publish(k), UNCHANGED <<pc, after>>,
         k.comb.inpr = 0 => k.wake \/ inpr = 0
  PROVE  WaitersInv'
BY DEF IInv, WaitersInv, Publish, inpr

LEMMA LockedKeeps ==
  ASSUME TypeOK, IInv, NEW s \in Sources, NEW k \in ViewType, KInv(k, s),
         LockedUpdate(s, k), gateUnchanged,
         phase'[s] = "free" => ~k.w.active,
         \A x \in Sources \ {s} : phase'[x] = "free" => phase[x] = "free"
  PROVE  IInv'
<1> USE DEF gateUnchanged, gateVars
<1>1. src' = [src EXCEPT ![s] = k.w] /\ src \in [Sources -> Source]
  BY DEF LockedUpdate, TypeOK
<1>2. SourcesBalanced'
  BY <1>1 DEF IInv, SourcesBalanced, KInv
<1>3. inpr' = Cardinality(ActiveSet')
  <2>1. /\ ActiveSet' \in SUBSET Sources
        /\ ActiveSet' \ {s} = ActiveSet \ {s}
        /\ s \in ActiveSet' <=> k.w.active
    BY <1>1 DEF ActiveSet
  <2>2. Cardinality(ActiveSet') = Cardinality(ActiveSet' \ {s}) + One(s \in ActiveSet')
    BY <2>1, SubsetCounted
  <2>3. One(s \in ActiveSet') = One(k.w.active)
    BY <2>1 DEF One
  <2>4. inpr' = k.comb.inpr
    BY DEF LockedUpdate, Publish, inpr
  <2>5. QED BY <2>1, <2>2, <2>3, <2>4 DEF KInv, Others
<1>4. WaitersInv'
  <2>1. k.comb.inpr \in Nat
    BY ModulusAssumption DEF ViewType, Counter
  <2>2. QED BY <2>1, WaitersAwake DEF LockedUpdate, KInv
<1>5. GateInv'
  BY DEF IInv, GateInv, KInv, LockedUpdate, Publish, CountInUse, Base
<1>6. QED BY <1>2, <1>3, <1>4, <1>5 DEF IInv

(* A step that touches neither the counts nor the gate.                     *)
LEMMA QuietKeeps ==
  ASSUME TypeOK, IInv, gateUnchanged, UNCHANGED <<combined_event_count, since, waiting>>,
         src' \in [Sources -> Source],
         \A s \in Sources :
           /\ src'[s].active = src[s].active
           /\ src'[s].active_count = src[s].active_count
           /\ src'[s].relax_count = src[s].relax_count
           /\ phase'[s] = "free" => phase[s] = "free" \/ ~src[s].active
  PROVE  IInv'
<1> USE DEF gateUnchanged, gateVars
<1>1. SourcesBalanced'
  BY DEF IInv, SourcesBalanced, Balanced
<1>2. ActiveSet' = ActiveSet /\ inpr' = inpr
  BY DEF ActiveSet, inpr
<1>3. WaitersInv'
  BY <1>2 DEF IInv, WaitersInv
<1>4. GateInv'
  BY DEF IInv, GateInv, CountInUse, Base
<1>5. QED BY <1>1, <1>2, <1>3, <1>4 DEF IInv

(* A source is born and dies inactive.                                      *)
LEMMA FreshKeeps ==
  ASSUME TypeOK, NEW s \in Sources, NEW k \in ViewType, KInv(k, s), ~k.w.active
  PROVE  LET j == [k EXCEPT !.w = NewSource]
         IN  j \in ViewType /\ KInv(j, s) /\ ~j.w.active
<1> DEFINE j == [k EXCEPT !.w = NewSource]
<1>1. NewSource \in Source
  BY DEF NewSource, Source, Expiry
<1>2. j \in ViewType /\ j.w = NewSource /\ j.comb = k.comb /\ j.since = k.since
      /\ j.wake = k.wake
  BY <1>1 DEF ViewType
<1> HIDE DEF j
<1>3. Balanced(NewSource) /\ ~NewSource.active
  BY DEF Balanced, NewSource, One
<1>4. One(j.w.active) = One(k.w.active)
  BY <1>2, <1>3 DEF One
<1>5. KInv(j, s)
  BY <1>2, <1>3, <1>4 DEF KInv
<1>6. QED BY <1>2, <1>3, <1>5 DEF j

LEMMA LifeKeepsGate ==
  ASSUME TypeOK, IInv, NEW s \in Sources, LifeStep(s)
  PROVE  IInv'
<1> USE DEF TypeOK, taskVars, walkVars, gateVars, gateUnchanged
<1>1. ASSUME NEW d \in Devices \cup {None}, WakeupSourceRegister(s, d) PROVE IInv'
  <2> DEFINE k == View(s)
             j == [k EXCEPT !.w = NewSource]
  <2>1. k \in ViewType /\ KInv(k, s) /\ ~k.w.active
    BY <1>1, ViewTyped, ViewHolds DEF WakeupSourceRegister, View, IInv, SourcesBalanced
  <2>2. j \in ViewType /\ KInv(j, s) /\ ~j.w.active
    BY <2>1, FreshKeeps
  <2>3. LockedUpdate(s, j)
    BY <1>1 DEF WakeupSourceRegister, LockedUpdate, Publish, View
  <2> HIDE DEF j
  <2>4. QED BY <1>1, <2>2, <2>3, LockedKeeps DEF WakeupSourceRegister
<1>2. CASE DeviceWakeupAttach(s)
  BY <1>2, QuietKeeps DEF DeviceWakeupAttach
<1>3. CASE UnregisterVirtual(s)
  BY <1>3, QuietKeeps DEF UnregisterVirtual
<1>4. CASE RemoveFromList(s)
  BY <1>4, QuietKeeps DEF RemoveFromList
<1>5. CASE RemoveFinish(s)
  <2>1. src' \in [Sources -> Source]
    BY <1>5 DEF RemoveFinish, Source
  <2>2. \A x \in Sources : /\ src'[x].active = src[x].active
                           /\ src'[x].active_count = src[x].active_count
                           /\ src'[x].relax_count = src[x].relax_count
    BY <1>5 DEF RemoveFinish, Source
  <2>3. QED BY <1>5, <2>1, <2>2, QuietKeeps DEF RemoveFinish
<1>6. CASE WakeupSourceDestroy(s)
  <2> DEFINE k == PmRelax(View(s))
             j == [k EXCEPT !.w = NewSource]
  <2>1. k \in ViewType /\ KInv(k, s) /\ ~k.w.active
    BY ViewTyped, ViewHolds, ViewClosed, RelaxKeeps
  <2>2. j \in ViewType /\ KInv(j, s) /\ ~j.w.active
    <3> HIDE DEF k
    <3>1. QED BY <2>1, FreshKeeps
  <2>3. LockedUpdate(s, j)
    <3>1. j.w = NewSource /\ j.comb = k.comb /\ j.since = k.since /\ j.wake = k.wake
      <4> HIDE DEF k
      <4>1. QED BY <2>1 DEF ViewType
    <3>2. Publish(k) /\ src' = [src EXCEPT ![s] = NewSource]
      BY <1>6 DEF WakeupSourceDestroy
    <3> HIDE DEF j, k
    <3>3. QED BY <3>1, <3>2 DEF LockedUpdate, Publish
  <2> HIDE DEF j
  <2>4. QED BY <1>6, <2>2, <2>3, LockedKeeps DEF WakeupSourceDestroy
<1>7. QED BY <1>1, <1>2, <1>3, <1>4, <1>5, <1>6 DEF LifeStep

LEMMA EventKeepsGate ==
  ASSUME TypeOK, LifeInv, IInv, NEW s \in Sources, EventStep(s)
  PROVE  IInv'
<1>1. ASSUME NEW k \in ViewType, KInv(k, s), LockedUpdate(s, k),
             phase[s] # "free", UNCHANGED <<lifeVars, taskVars, gateVars>>
      PROVE  IInv'
  BY <1>1, LockedKeeps DEF lifeVars, taskVars, walkVars, gateVars, gateUnchanged
<1>2. View(s) \in ViewType /\ KInv(View(s), s)
  BY ViewTyped, ViewHolds
<1>3. (s \in Registered) \in BOOLEAN
  OBVIOUS
<1> DEFINE rep == ReportEvent(View(s), s \in Registered)
<1>4. rep \in ViewType /\ KInv(rep, s)
  BY <1>2, <1>3, ReportClosed, ReportKeeps
<1> HIDE DEF rep
<1>5. CASE PmStayAwake(s)
  <2>1. phase[s] # "free"
    BY <1>5, ReachableRegistered DEF PmStayAwake
  <2>2. CancelTimer(rep) \in ViewType /\ KInv(CancelTimer(rep), s)
    BY <1>4, ViewClosed, TimersKeep
  <2>3. LockedUpdate(s, CancelTimer(rep))
    BY <1>5 DEF PmStayAwake, rep
  <2>4. QED BY <1>1, <1>5, <2>1, <2>2, <2>3 DEF PmStayAwake, eventUnchanged
<1>6. CASE PmRelaxCall(s)
  <2>1. phase[s] # "free"
    BY <1>6, ReachableRegistered DEF PmRelaxCall
  <2>2. PmRelax(View(s)) \in ViewType /\ KInv(PmRelax(View(s)), s)
    BY <1>2, ViewClosed, RelaxKeeps
  <2>3. QED BY <1>1, <1>6, <2>1, <2>2 DEF PmRelaxCall, eventUnchanged
<1>7. ASSUME NEW nonzero \in BOOLEAN, PmWakeupWsEvent(s, nonzero)
      PROVE  IInv'
  <2>1. phase[s] # "free"
    BY <1>7, ReachableRegistered DEF PmWakeupWsEvent
  <2>2. PICK later \in BOOLEAN :
          LockedUpdate(s, IF nonzero THEN ArmTimer(rep, later) ELSE Deactivate(rep))
    BY <1>7 DEF PmWakeupWsEvent, rep
  <2> DEFINE j == IF nonzero THEN ArmTimer(rep, later) ELSE Deactivate(rep)
  <2>3. j \in ViewType /\ KInv(j, s)
    BY <1>4, ViewClosed, TimersKeep, DeactivateKeeps
  <2>4. QED BY <1>1, <1>7, <2>1, <2>2, <2>3 DEF PmWakeupWsEvent, eventUnchanged
<1>8. ASSUME src' \in [Sources -> Source],
             \A x \in Sources : /\ src'[x].active = src[x].active
                                /\ src'[x].active_count = src[x].active_count
                                /\ src'[x].relax_count = src[x].relax_count,
             UNCHANGED <<lifeVars, taskVars, gateVars, combined_event_count, since, waiting>>
      PROVE  IInv'
  BY <1>8, QuietKeeps DEF lifeVars, taskVars, walkVars, gateVars, gateUnchanged
<1>9. CASE TimePasses(s)
  <2>1. "due" \in Expiry
    BY DEF Expiry
  <2>2. QED BY <1>8, <1>9, <2>1 DEF TimePasses, eventUnchanged, TypeOK, Source
<1>10. CASE TimerExpires(s)
  BY <1>8, <1>10 DEF TimerExpires, TypeOK, Source
<1>11. CASE PmWakeupTimerFn(s)
  <2>1. phase[s] # "free"
    BY <1>11 DEF PmWakeupTimerFn, LifeInv, TimerInv, Registered
  <2> DEFINE k == View(s)
             j == IF k.w.active /\ k.w.expires = "due" THEN Deactivate(k) ELSE k
  <2>2. j \in ViewType /\ KInv(j, s)
    BY <1>2, ViewClosed, DeactivateKeeps
  <2>3. LockedUpdate(s, j)
    BY <1>11 DEF PmWakeupTimerFn
  <2> HIDE DEF j
  <2>4. QED BY <1>1, <1>11, <2>1, <2>2, <2>3 DEF PmWakeupTimerFn
<1>12. QED BY <1>5, <1>6, <1>7, <1>9, <1>10, <1>11 DEF EventStep

-----------------------------------------------------------------------------
(* Tasks.  A step of a task outside the gate matters to the waiters only.   *)
LEMMA TaskKeepsGate ==
  ASSUME TypeOK, IInv, NEW t \in Tasks,
         \/ WalkStep(t) \/ CountStep(t) \/ Signal(t)
         \/ \E block \in BOOLEAN : GetWakeupCount(t, block)
  PROVE  IInv'
<1> USE DEF Goto, taskUnchanged, lifeVars, gateVars, walkVars
<1>1. ASSUME UNCHANGED <<src, phase, combined_event_count>>
      PROVE  SourcesBalanced' /\ inpr' = Cardinality(ActiveSet') /\ inpr' = inpr
  BY <1>1 DEF IInv, SourcesBalanced, inpr, ActiveSet
<1>2. ASSUME UNCHANGED <<gateVars, since, count, combined_event_count>>,
             \/ pc'[Suspender] = pc[Suspender]
             \/ pc[Suspender] \notin {"got", "save"} /\ pc'[Suspender] \notin {"got", "save"}
      PROVE  GateInv'
  BY <1>2 DEF IInv, GateInv, CountInUse, Base, GateHolds
<1>3. pc \in [Tasks -> Pc]
  BY DEF TypeOK
<1>4. ASSUME NEW s \in Sources, WalkVisit(t, s) PROVE IInv'
  <2>1. UNCHANGED pc
    BY <1>4 DEF WalkVisit
  <2>2. WaitersInv'
    BY <1>1, <1>4, <2>1 DEF WalkVisit, IInv, WaitersInv
  <2>3. QED BY <1>1, <1>2, <1>4, <2>1, <2>2 DEF WalkVisit, IInv
<1>5. CASE WalkEnd(t)
  <2>1. after[t] \in {"idle", "schedule", "rcuwalk"}
    BY DEF TypeOK
  <2>2. WaitersInv'
    BY <1>1, <1>3, <1>5, <2>1 DEF WalkEnd, IInv, WaitersInv, TypeOK
  <2>3. QED BY <1>1, <1>2, <1>3, <1>5, <2>1, <2>2 DEF WalkEnd, IInv
<1>6. ASSUME NEW s \in Sources, RcuWalkVisit(t, s) PROVE IInv'
  <2>1. WaitersInv'
    BY <1>1, <1>6 DEF RcuWalkVisit, IInv, WaitersInv
  <2>2. QED BY <1>1, <1>2, <1>6, <2>1 DEF RcuWalkVisit, IInv
<1>7. CASE RcuWalkEnd(t)
  <2>1. WaitersInv'
    BY <1>1, <1>3, <1>7 DEF RcuWalkEnd, IInv, WaitersInv
  <2>2. QED BY <1>1, <1>2, <1>3, <1>7, <2>1 DEF RcuWalkEnd, IInv
<1>8. CASE PrepareToWait(t)
  <2>1. WaitersInv'
    BY <1>1, <1>3, <1>8 DEF PrepareToWait, IInv, WaitersInv, TypeOK
  <2>2. QED BY <1>1, <1>2, <1>3, <1>8, <2>1 DEF PrepareToWait, IInv
<1>9. CASE CheckInProgress(t)
  <2>1. pc' = [pc EXCEPT ![t] = IF inpr = 0 \/ t \in signalled THEN "read" ELSE "walk"]
    BY <1>9 DEF CheckInProgress, StartWalk
  <2>2. WaitersInv'
    <3>1. CASE inpr = 0 \/ t \in signalled
      BY <1>1, <1>3, <1>9, <3>1 DEF CheckInProgress, IInv, WaitersInv, TypeOK
    <3>2. CASE ~(inpr = 0 \/ t \in signalled)
      <4>1. inpr > 0
        BY <3>2, ModulusAssumption DEF TypeOK, Counter, inpr
      <4>2. after' = [after EXCEPT ![t] = "schedule"] /\ waiting' = waiting
        BY <1>9, <3>2 DEF CheckInProgress, StartWalk
      <4>3. QED BY <1>1, <1>3, <1>9, <2>1, <3>2, <4>1, <4>2
                DEF CheckInProgress, IInv, WaitersInv, TypeOK
    <3>3. QED BY <3>1, <3>2
  <2>3. QED BY <1>1, <1>2, <1>3, <1>9, <2>1, <2>2 DEF CheckInProgress, IInv
<1>10. CASE Schedule(t)
  <2>1. WaitersInv'
    BY <1>1, <1>3, <1>10 DEF Schedule, IInv, WaitersInv
  <2>2. QED BY <1>1, <1>2, <1>3, <1>10, <2>1 DEF Schedule, IInv
<1>11. CASE ReadCount(t)
  <2>1. WaitersInv'
    BY <1>1, <1>3, <1>11 DEF ReadCount, IInv, WaitersInv, TypeOK
  <2>2. CASE inpr = 0 /\ t = Suspender
    <3>1. pc'[Suspender] = "got" /\ count' = cnt /\ since' = 0
          /\ combined_event_count' = combined_event_count
      BY <1>3, <1>11, <2>2 DEF ReadCount
    <3>2. GateHolds(combined_event_count, 0, cnt)
      BY <2>2, ModulusAssumption DEF GateHolds, Wrap, cnt, inpr, TypeOK, Counter
    <3>3. GateInv'
      BY <3>1, <3>2 DEF GateInv, Base
    <3>4. QED BY <1>1, <1>11, <2>1, <3>3 DEF ReadCount, IInv
  <2>3. CASE ~(inpr = 0 /\ t = Suspender)
    <3>1. /\ pc[t] = "read" /\ pc' = [pc EXCEPT ![t] = "idle"]
          /\ UNCHANGED <<gateVars, since, count, combined_event_count, src, phase>>
      BY <1>11, <2>3 DEF ReadCount
    <3>2. GateInv'
      BY <1>2, <1>3, <3>1
    <3>3. QED BY <1>1, <2>1, <3>1, <3>2 DEF IInv
  <2>4. QED BY <2>2, <2>3
<1>12. CASE Signal(t)
  <2>1. WaitersInv'
    BY <1>1, <1>12 DEF Signal, IInv, WaitersInv
  <2>2. QED BY <1>1, <1>2, <1>12, <2>1 DEF Signal, IInv
<1>13. ASSUME NEW block \in BOOLEAN, GetWakeupCount(t, block) PROVE IInv'
  <2>1. WaitersInv'
    BY <1>1, <1>3, <1>13 DEF GetWakeupCount, IInv, WaitersInv
  <2>2. QED BY <1>1, <1>2, <1>3, <1>13, <2>1 DEF GetWakeupCount, IInv
<1>14. QED
  BY <1>4, <1>5, <1>6, <1>7, <1>8, <1>9, <1>10, <1>11, <1>12, <1>13
  DEF WalkStep, CountStep

LEMMA SuspendKeepsGate ==
  ASSUME TypeOK, IInv, SuspendStep
  PROVE  IInv'
<1> USE DEF Goto, taskUnchanged, lifeVars, gateVars, walkVars, Tasks
<1>1. pc \in [Tasks -> Pc] /\ Suspender \in Tasks
  BY DEF TypeOK
<1>2. ASSUME UNCHANGED <<src, phase, combined_event_count>>
      PROVE  SourcesBalanced' /\ inpr' = Cardinality(ActiveSet') /\ inpr' = inpr
  BY <1>2 DEF IInv, SourcesBalanced, inpr, ActiveSet
<1>3. ASSUME NEW from \in Pc \ {"check", "walk", "schedule"}, NEW to \in Pc,
             Goto(Suspender, from, to), UNCHANGED <<waiting, combined_event_count>>,
             \A t \in Tasks \ {Suspender} : after'[t] = after[t]
      PROVE  WaitersInv'
  BY <1>1, <1>3 DEF IInv, WaitersInv, TypeOK, inpr
<1>4. CASE SaveDisable
  <2>1. WaitersInv'
    BY <1>3, <1>4 DEF SaveDisable, Pc
  <2>2. GateInv'
    BY <1>1, <1>4 DEF SaveDisable, IInv, GateInv, CountInUse, Base, GateHolds
  <2>3. QED BY <1>2, <1>4, <2>1, <2>2 DEF SaveDisable, IInv
<1>5. CASE SaveCompare
  <2>1. WaitersInv'
    BY <1>3, <1>5 DEF SaveCompare, Pc
  <2>2. GateInv'
    BY <1>1, <1>5 DEF SaveCompare, IInv, GateInv, CountInUse, Base, GateHolds
  <2>3. QED BY <1>2, <1>5, <2>1, <2>2 DEF SaveCompare, IInv
<1>6. CASE SaveReturn
  <2>1. WaitersInv'
    BY <1>3, <1>6 DEF SaveReturn, Pc
  <2>2. GateInv'
    BY <1>1, <1>6 DEF SaveReturn, IInv, GateInv, CountInUse, Base, GateHolds
  <2>3. QED BY <1>2, <1>6, <2>1, <2>2 DEF SaveReturn, IInv
<1>7. CASE SuspendStart
  <2>1. WaitersInv'
    BY <1>3, <1>7 DEF SuspendStart, Pc
  <2>2. GateInv'
    BY <1>1, <1>7 DEF SuspendStart, IInv, GateInv, CountInUse, Base, GateHolds
  <2>3. QED BY <1>2, <1>7, <2>1, <2>2 DEF SuspendStart, IInv
<1>8. CASE PmWakeupPending
  <2>1. PICK to \in {"walk", "idle", "asleep"} : Goto(Suspender, "suspending", to)
    BY <1>8 DEF PmWakeupPending, StartWalk
  <2>2. \A t \in Tasks \ {Suspender} : after'[t] = after[t]
    BY <1>8 DEF PmWakeupPending, StartWalk, TypeOK
  <2>3. UNCHANGED <<waiting, combined_event_count, src, phase, saved_count, count>>
    BY <1>8 DEF PmWakeupPending
  <2>4. WaitersInv'
    BY <1>3, <2>1, <2>2, <2>3 DEF Pc
  <2>5. events_check_enabled' => events_check_enabled /\ since' = since
    BY <1>8 DEF PmWakeupPending
  <2>6. GateInv'
    BY <1>1, <2>1, <2>3, <2>5 DEF IInv, GateInv, CountInUse, Base, GateHolds
  <2>7. QED BY <1>2, <2>3, <2>4, <2>6 DEF IInv
<1>9. CASE Resume
  <2>1. WaitersInv'
    BY <1>3, <1>9 DEF Resume, Pc
  <2>2. GateInv'
    BY <1>1, <1>9 DEF Resume, IInv, GateInv, CountInUse, Base, GateHolds
  <2>3. QED BY <1>2, <1>9, <2>1, <2>2 DEF Resume, IInv
<1>10. QED BY <1>4, <1>5, <1>6, <1>7, <1>8, <1>9 DEF SuspendStep

-----------------------------------------------------------------------------
LEMMA InitGate == Init => IInv
<1> SUFFICES ASSUME Init PROVE IInv
  OBVIOUS
<1>1. pc = [t \in Tasks |-> "idle"] /\ Suspender \in Tasks
  BY DEF Init, Tasks
<1>2. SourcesBalanced
  BY DEF Init, SourcesBalanced, Balanced, NewSource, One
<1>3. ActiveSet = {} /\ inpr = 0
  BY DEF Init, ActiveSet, NewSource, inpr
<1>4. QED
  BY <1>1, <1>2, <1>3, FS_EmptySet
  DEF Init, IInv, WaitersInv, GateInv, CountInUse

(* The counts, the waiters and the gate stay consistent whatever drivers,  *)
(* timers, walks, readers and the power manager do at the same time.        *)
THEOREM GateInvariant == Spec => []IInv
<1>1. TypeOK /\ LifeInv /\ IInv /\ [Next]_vars => IInv'
  <2> SUFFICES ASSUME TypeOK, LifeInv, IInv, [Next]_vars PROVE IInv'
    OBVIOUS
  <2>1. ASSUME NEW s \in Sources, LifeStep(s) \/ EventStep(s) PROVE IInv'
    BY <2>1, LifeKeepsGate, EventKeepsGate
  <2>2. ASSUME NEW t \in Tasks, WalkStep(t) \/ CountStep(t) \/ Signal(t) PROVE IInv'
    BY <2>2, TaskKeepsGate
  <2>3. ASSUME NEW t \in Tasks, NEW block \in BOOLEAN, GetWakeupCount(t, block)
        PROVE  IInv'
    BY <2>3, TaskKeepsGate
  <2>4. ASSUME NEW d \in Devices, DeviceWakeupDisable(d) PROVE IInv'
    BY <2>4, QuietKeeps
    DEF DeviceWakeupDisable, TypeOK, taskVars, walkVars, gateVars, gateUnchanged
  <2>5. CASE UNCHANGED vars \/ PmSystemWakeup \/ PmSystemCancelWakeup
    BY <2>5, QuietKeeps
    DEF vars, PmSystemWakeup, PmSystemCancelWakeup,
        lifeVars, taskVars, walkVars, gateVars, gateUnchanged, TypeOK
  <2>6. CASE SuspendStep
    BY <2>6, SuspendKeepsGate
  <2>7. QED BY <2>1, <2>2, <2>3, <2>4, <2>5, <2>6 DEF Next
<1>2. QED BY <1>1, InitGate, TypeCorrect, LifeInvariant, PTL DEF Spec

(* The low half of the counter is the number of active sources.             *)
THEOREM InProgressCounts == Spec => []InProgressExact
<1>1. IInv => InProgressExact
  BY DEF IInv, InProgressExact
<1>2. QED BY <1>1, GateInvariant, PTL

(* A task asleep on the wait queue always has an event to wait for.         *)
THEOREM WaitersWoken == Spec => []NoLostWakeup
<1>1. IInv => NoLostWakeup
  BY DEF IInv, WaitersInv, NoLostWakeup
<1>2. QED BY <1>1, GateInvariant, PTL

(* Only the last poll of pm_wakeup_pending() lets the system sleep.         *)
LEMMA AsleepByPoll ==
  ASSUME TypeOK, [Next]_vars, FallsAsleep
  PROVE  PmWakeupPending
<1> USE DEF FallsAsleep, Goto, lifeVars, gateVars, walkVars, taskVars, taskUnchanged,
            TypeOK, Tasks
<1>1. ASSUME NEW s \in Sources, LifeStep(s) PROVE FALSE
  BY <1>1 DEF LifeStep, WakeupSourceRegister, DeviceWakeupAttach, UnregisterVirtual,
              RemoveFromList, RemoveFinish, WakeupSourceDestroy
<1>2. ASSUME NEW s \in Sources, EventStep(s) PROVE FALSE
  BY <1>2 DEF EventStep, PmStayAwake, PmRelaxCall, PmWakeupWsEvent, TimePasses, TimerExpires,
              PmWakeupTimerFn, eventUnchanged
<1>3. ASSUME NEW t \in Tasks, WalkStep(t) PROVE FALSE
  BY <1>3 DEF WalkStep, WalkVisit, WalkEnd, RcuWalkVisit, RcuWalkEnd
<1>4. ASSUME NEW t \in Tasks, CountStep(t) \/ Signal(t) PROVE FALSE
  BY <1>4 DEF CountStep, PrepareToWait, CheckInProgress, StartWalk, Schedule, ReadCount, Signal
<1>5. ASSUME NEW t \in Tasks, NEW block \in BOOLEAN, GetWakeupCount(t, block) PROVE FALSE
  BY <1>5 DEF GetWakeupCount
<1>6. ASSUME NEW d \in Devices, DeviceWakeupDisable(d) PROVE FALSE
  BY <1>6 DEF DeviceWakeupDisable
<1>7. CASE UNCHANGED vars \/ PmSystemWakeup \/ PmSystemCancelWakeup
  BY <1>7 DEF vars, PmSystemWakeup, PmSystemCancelWakeup
<1>8. CASE SuspendStep
  BY <1>8 DEF SuspendStep, SaveDisable, SaveCompare, SaveReturn, SuspendStart, Resume
<1>9. QED BY <1>1, <1>2, <1>3, <1>4, <1>5, <1>6, <1>7, <1>8 DEF Next

(* No suspend goes through on a check that missed an event, unless as many *)
(* events came in between as the count has values.                          *)
THEOREM SuspendGateHolds == Spec => NoEventMissed
<1> DEFINE Held == FallsAsleep /\ events_check_enabled /\ since < Modulus
                     => since = 0 /\ ActiveSet = {}
<1>1. TypeOK /\ IInv /\ [Next]_vars => [Held]_vars
  <2> SUFFICES ASSUME TypeOK, IInv, [Next]_vars, FallsAsleep, events_check_enabled,
                      since < Modulus
               PROVE  since = 0 /\ ActiveSet = {}
    OBVIOUS
  <2>1. PmWakeupPending
    BY AsleepByPoll
  <2>2. cnt = saved_count /\ inpr = 0
    <3>1. ~EventsMissed
      BY <2>1 DEF PmWakeupPending, StartWalk, Goto, FallsAsleep, TypeOK, Tasks
    <3>2. inpr \in Nat
      BY ModulusAssumption DEF TypeOK, Counter, inpr
    <3>3. QED BY <3>1, <3>2 DEF EventsMissed
  <2>3. GateHolds(combined_event_count, since, saved_count)
    BY DEF IInv, GateInv, CountInUse, Base, FallsAsleep
  <2>4. saved_count = Wrap(saved_count + since)
    <3>1. since \in Nat /\ since - 0 = since
      BY ModulusAssumption DEF TypeOK
    <3>2. QED BY <2>2, <2>3, <3>1 DEF GateHolds, cnt, inpr
  <2>5. since = 0
    BY <2>4, ModulusAssumption DEF Wrap, TypeOK
  <2>6. ActiveSet = {}
    <3>1. Cardinality(ActiveSet) = 0 /\ ActiveSet \in SUBSET Sources
      BY <2>2 DEF IInv, ActiveSet
    <3>2. IsFiniteSet(ActiveSet)
      BY <3>1, SourcesAssumption, FS_Subset
    <3>3. QED BY <3>1, <3>2, FS_EmptySet
  <2>7. QED BY <2>5, <2>6
<1>2. QED BY <1>1, TypeCorrect, GateInvariant, PTL DEF Spec, NoEventMissed
=============================================================================
