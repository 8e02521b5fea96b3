------------------------ MODULE WakelockBlocker_proofs ------------------------
(***************************************************************************)
(* Proofs about WakelockBlocker for every finite set of sources and        *)
(* readers and every width of its counters: the gate of a suspend, and     *)
(* what a kill without the lock leaves alone.                               *)
(***************************************************************************)
EXTENDS WakelockBlocker, Integers, FiniteSetTheorems, TLAPS

-----------------------------------------------------------------------------
(* WakelockBlocker, the gate: how far the counter is from the count the     *)
(* power manager holds, or from the one it saved.                           *)
Held == at[Suspender] \in {"got", "save"}
Base == IF Held THEN count ELSE saved_count

Tracked ==
  CountInUse /\ registered < Modulus /\ relaxed < Modulus =>
    IF registered >= relaxed
      THEN /\ combined_event_count.inpr = registered - relaxed
           /\ combined_event_count.cnt = Wrap(Base + relaxed)
      ELSE /\ combined_event_count.inpr = (registered - relaxed) + Modulus
           /\ combined_event_count.cnt = Wrap((Base + relaxed) - 1)

GateInv ==
  /\ combined_event_count \in Counter
  /\ count \in 0..(Modulus - 1) /\ saved_count \in 0..(Modulus - 1)
  /\ registered \in 0..Modulus /\ relaxed \in 0..Modulus
  /\ events_check_enabled \in BOOLEAN
  /\ at \in [Walkers -> At]
  /\ at[Suspender] = "save" => ~events_check_enabled
  /\ Tracked

LEMMA CounterSteps ==
  ASSUME NEW c \in Counter
  PROVE  /\ IncCounter(c) \in Counter /\ AddMaxInProgress(c) \in Counter
         /\ IncCounter(c) = [cnt |-> IF c.inpr = Modulus - 1 THEN Wrap(c.cnt + 1) ELSE c.cnt,
                             inpr |-> IF c.inpr = Modulus - 1 THEN 0 ELSE c.inpr + 1]
         /\ AddMaxInProgress(c) = [cnt |-> IF c.inpr = 0 THEN c.cnt ELSE Wrap(c.cnt + 1),
                                   inpr |-> IF c.inpr = 0 THEN Modulus - 1 ELSE c.inpr - 1]
<1>1. /\ c.cnt \in 0..(Modulus - 1) /\ c.inpr \in 0..(Modulus - 1)
      /\ c = [cnt |-> c.cnt, inpr |-> c.inpr]
  BY DEF Counter
<1>2. Wrap(c.cnt + 1) \in 0..(Modulus - 1)
  BY <1>1, ModulusAssumption DEF Wrap
<1>3. IncCounter(c) = [cnt |-> IF c.inpr = Modulus - 1 THEN Wrap(c.cnt + 1) ELSE c.cnt,
                       inpr |-> IF c.inpr = Modulus - 1 THEN 0 ELSE c.inpr + 1]
  BY <1>1 DEF IncCounter
<1>4. AddMaxInProgress(c) = [cnt |-> IF c.inpr = 0 THEN c.cnt ELSE Wrap(c.cnt + 1),
                             inpr |-> IF c.inpr = 0 THEN Modulus - 1 ELSE c.inpr - 1]
  BY <1>1 DEF AddMaxInProgress
<1>5. IncCounter(c) \in Counter /\ AddMaxInProgress(c) \in Counter
  BY <1>1, <1>2, <1>3, <1>4, ModulusAssumption DEF Counter
<1>6. QED BY <1>3, <1>4, <1>5

LEMMA MoreFacts ==
  ASSUME NEW n \in 0..Modulus
  PROVE  More(n) \in 0..Modulus /\ (CountInUse /\ More(n) < Modulus => More(n) = n + 1)
BY ModulusAssumption DEF More

LEMMA GateStill ==
  ASSUME GateInv,
         UNCHANGED <<combined_event_count, count, saved_count, registered, relaxed,
                     events_check_enabled>>,
         at' \in [Walkers -> At], Held' <=> Held,
         at'[Suspender] = "save" => ~events_check_enabled
  PROVE  GateInv'
BY DEF GateInv, Tracked, CountInUse, Held, Base

LEMMA GateRegister ==
  ASSUME GateInv, combined_event_count' = IncCounter(combined_event_count),
         registered' = More(registered), UNCHANGED <<relaxed, checkVars, at>>
  PROVE  GateInv'
<1> USE DEF GateInv
<1> PICK c : c = combined_event_count
  OBVIOUS
<1>1. /\ c \in Counter /\ c.cnt \in 0..(Modulus - 1)
      /\ c.inpr \in 0..(Modulus - 1)
  BY DEF Counter
<1>2. UNCHANGED <<count, saved_count, events_check_enabled, at>>
  BY DEF checkVars
<1>3. registered' \in 0..Modulus
  BY MoreFacts
<1>4. Tracked'
  <2> SUFFICES ASSUME CountInUse', registered' < Modulus, relaxed < Modulus
               PROVE  IF registered' >= relaxed
                        THEN /\ combined_event_count'.inpr = registered' - relaxed
                             /\ combined_event_count'.cnt = Wrap(Base + relaxed)
                        ELSE /\ combined_event_count'.inpr = (registered' - relaxed) + Modulus
                             /\ combined_event_count'.cnt = Wrap((Base + relaxed) - 1)
    BY <1>2 DEF Tracked, Base, Held
  <2>1. CountInUse /\ registered' = registered + 1 /\ registered < Modulus
    <3>1. CountInUse
      BY <1>2 DEF CountInUse
    <3>2. QED BY <3>1, MoreFacts, ModulusAssumption
  <2>2. IF registered >= relaxed
          THEN c.inpr = registered - relaxed /\ c.cnt = Wrap(Base + relaxed)
          ELSE c.inpr = (registered - relaxed) + Modulus /\ c.cnt = Wrap((Base + relaxed) - 1)
    BY <2>1 DEF Tracked
  <2>3. /\ combined_event_count'.cnt = IF c.inpr = Modulus - 1 THEN Wrap(c.cnt + 1) ELSE c.cnt
        /\ combined_event_count'.inpr = IF c.inpr = Modulus - 1 THEN 0 ELSE c.inpr + 1
    <3>1. combined_event_count' = IncCounter(c)
      OBVIOUS
    <3>2. IncCounter(c) = [cnt |-> IF c.inpr = Modulus - 1 THEN Wrap(c.cnt + 1) ELSE c.cnt,
                   inpr |-> IF c.inpr = Modulus - 1 THEN 0 ELSE c.inpr + 1]
      BY <1>1, CounterSteps
    <3>3. QED BY <3>1, <3>2
  <2>4. Base \in 0..(Modulus - 1)
    BY DEF Base
  <2>5. CASE c.inpr = Modulus - 1
    <3>1. registered + 1 = relaxed
      BY <2>1, <2>2, <2>5, ModulusAssumption
    <3>2. Wrap(Wrap((Base + relaxed) - 1) + 1) = Wrap(Base + relaxed)
      BY <2>4, <3>1, ModulusAssumption DEF Wrap
    <3>3. QED BY <2>1, <2>2, <2>3, <2>5, <3>1, <3>2, ModulusAssumption
  <2>6. CASE c.inpr # Modulus - 1
    BY <2>1, <2>2, <2>3, <2>6, ModulusAssumption
  <2>7. QED BY <2>5, <2>6
<1>5. QED BY <1>1, <1>2, <1>3, <1>4, CounterSteps

LEMMA GateAccount ==
  ASSUME GateInv, combined_event_count' = AddMaxInProgress(combined_event_count),
         relaxed' = More(relaxed), UNCHANGED <<registered, checkVars, at>>
  PROVE  GateInv'
<1> USE DEF GateInv
<1> PICK c : c = combined_event_count
  OBVIOUS
<1>1. /\ c \in Counter /\ c.cnt \in 0..(Modulus - 1) /\ c.inpr \in 0..(Modulus - 1)
  BY DEF Counter
<1>2. UNCHANGED <<count, saved_count, events_check_enabled, at>>
  BY DEF checkVars
<1>3. relaxed' \in 0..Modulus
  BY MoreFacts
<1>4. Tracked'
  <2> SUFFICES ASSUME CountInUse', registered < Modulus, relaxed' < Modulus
               PROVE  IF registered >= relaxed'
                        THEN /\ combined_event_count'.inpr = registered - relaxed'
                             /\ combined_event_count'.cnt = Wrap(Base + relaxed')
                        ELSE /\ combined_event_count'.inpr = (registered - relaxed') + Modulus
                             /\ combined_event_count'.cnt = Wrap((Base + relaxed') - 1)
    BY <1>2 DEF Tracked, Base, Held
  <2>1. CountInUse /\ relaxed' = relaxed + 1 /\ relaxed < Modulus
    <3>1. CountInUse
      BY <1>2 DEF CountInUse
    <3>2. QED BY <3>1, MoreFacts, ModulusAssumption
  <2>2. IF registered >= relaxed
          THEN c.inpr = registered - relaxed /\ c.cnt = Wrap(Base + relaxed)
          ELSE c.inpr = (registered - relaxed) + Modulus /\ c.cnt = Wrap((Base + relaxed) - 1)
    BY <2>1 DEF Tracked
  <2>3. /\ combined_event_count'.cnt = IF c.inpr = 0 THEN c.cnt ELSE Wrap(c.cnt + 1)
        /\ combined_event_count'.inpr = IF c.inpr = 0 THEN Modulus - 1 ELSE c.inpr - 1
    <3>1. combined_event_count' = AddMaxInProgress(c)
      OBVIOUS
    <3>2. AddMaxInProgress(c) = [cnt |-> IF c.inpr = 0 THEN c.cnt ELSE Wrap(c.cnt + 1),
                   inpr |-> IF c.inpr = 0 THEN Modulus - 1 ELSE c.inpr - 1]
      BY <1>1, CounterSteps
    <3>3. QED BY <3>1, <3>2
  <2>4. Base \in 0..(Modulus - 1)
    BY DEF Base
  <2>5. CASE c.inpr = 0
    <3>1. registered = relaxed
      BY <2>1, <2>2, <2>5, ModulusAssumption
    <3>2. (Base + relaxed') - 1 = Base + relaxed
      BY <2>1, <2>4
    <3>3. QED BY <2>1, <2>2, <2>3, <2>5, <3>1, <3>2, ModulusAssumption
  <2>6. CASE c.inpr # 0 /\ registered >= relaxed
    <3>1. registered >= relaxed' /\ c.inpr - 1 = registered - relaxed'
      BY <1>1, <2>1, <2>2, <2>6
    <3>2. Wrap(Wrap(Base + relaxed) + 1) = Wrap(Base + relaxed')
      BY <2>1, <2>4, ModulusAssumption DEF Wrap
    <3>3. QED BY <2>2, <2>3, <2>6, <3>1, <3>2
  <2>7. CASE c.inpr # 0 /\ ~(registered >= relaxed)
    <3>1. ~(registered >= relaxed') /\ c.inpr - 1 = (registered - relaxed') + Modulus
      BY <1>1, <2>1, <2>2, <2>7, ModulusAssumption
    <3>2. Wrap(Wrap((Base + relaxed) - 1) + 1) = Wrap((Base + relaxed') - 1)
      <4>1. relaxed > 0
        BY <2>7
      <4>2. QED BY <2>1, <2>4, <4>1, ModulusAssumption DEF Wrap
    <3>3. QED BY <2>2, <2>3, <2>7, <3>1, <3>2
  <2>8. QED BY <2>5, <2>6, <2>7
<1>5. QED BY <1>1, <1>2, <1>3, <1>4, CounterSteps

LEMMA GateReadCount ==
  ASSUME GateInv, NEW t \in Walkers, ReadCount(t)
  PROVE  GateInv'
<1>1. /\ at' \in [Walkers -> At] /\ UNCHANGED <<events_check_enabled, saved_count>>
      /\ combined_event_count' = combined_event_count
  BY DEF ReadCount, Goto, At, GateInv, taskOnly
<1>2. CASE inprogress = 0 /\ t = Suspender
  <2>1. /\ at'[Suspender] = "got" /\ count' = combined_event_count.cnt
        /\ registered' = 0 /\ relaxed' = 0
    BY <1>2 DEF ReadCount, Goto, GateInv
  <2>2. count' \in 0..(Modulus - 1)
    BY <2>1 DEF GateInv, Counter
  <2>3. Held' /\ Base' = combined_event_count.cnt
    BY <2>1 DEF Held, Base
  <2>4. Wrap(Base' + 0) = combined_event_count.cnt
    BY <2>1, <2>2, <2>3, ModulusAssumption DEF Wrap
  <2>5. Tracked'
    BY <1>1, <1>2, <2>1, <2>3, <2>4 DEF Tracked, inprogress
  <2>6. QED BY <1>1, <2>1, <2>2, <2>5, ModulusAssumption DEF GateInv
<1>3. CASE ~(inprogress = 0 /\ t = Suspender)
  <2>1. /\ at[t] = "read" /\ at' = [at EXCEPT ![t] = "idle"]
        /\ UNCHANGED <<count, registered, relaxed>>
    BY <1>3 DEF ReadCount, Goto, since
  <2>2. (Held' <=> Held) /\ (at'[Suspender] = "save" => at[Suspender] = "save")
    BY <2>1 DEF Held, GateInv, Walkers
  <2>3. QED BY <1>1, <2>1, <2>2, GateStill DEF GateInv
<1>4. QED BY <1>2, <1>3

LEMMA GateSaves ==
  ASSUME GateInv, SaveDisable \/ SaveCompare
  PROVE  GateInv'
<1>1. Suspender \in Walkers
  BY DEF Walkers
<1>2. /\ at' \in [Walkers -> At] /\ combined_event_count' = combined_event_count
      /\ at[Suspender] \in {"got", "save"} /\ Held
  BY <1>1 DEF SaveDisable, SaveCompare, Goto, At, GateInv, taskOnly, Held
<1>3. CASE SaveDisable
  <2>1. /\ at'[Suspender] = "save" /\ events_check_enabled' = FALSE
        /\ UNCHANGED <<count, saved_count, registered, relaxed>>
    BY <1>1, <1>3 DEF SaveDisable, Goto, GateInv, since
  <2>2. Held' /\ CountInUse /\ Base' = Base
    BY <1>2, <2>1 DEF Held, CountInUse, Base
  <2>3. Tracked'
    BY <1>2, <2>1, <2>2 DEF Tracked, GateInv
  <2>4. QED BY <1>2, <2>1, <2>3 DEF GateInv
<1>4. CASE SaveCompare /\ combined_event_count.cnt = count /\ inprogress = 0
  <2>1. /\ at'[Suspender] = "saved" /\ events_check_enabled' = TRUE
        /\ saved_count' = count /\ count' = 0
        /\ UNCHANGED <<registered, relaxed>>
    BY <1>1, <1>4 DEF SaveCompare, Goto, GateInv, since
  <2>2. CountInUse /\ Base' = Base
    BY <1>2, <2>1 DEF Held, CountInUse, Base
  <2>3. Tracked'
    BY <1>2, <2>1, <2>2 DEF Tracked, GateInv
  <2>4. QED BY <1>2, <2>1, <2>3, ModulusAssumption DEF GateInv
<1>5. CASE SaveCompare /\ ~(combined_event_count.cnt = count /\ inprogress = 0)
  <2>1. /\ at[Suspender] = "save" /\ at'[Suspender] = "saved"
        /\ UNCHANGED <<saved_count, events_check_enabled>>
        /\ count' = 0 /\ registered' = 0 /\ relaxed' = 0
    BY <1>1, <1>5 DEF SaveCompare, Goto, GateInv
  <2>2. ~CountInUse'
    BY <2>1 DEF CountInUse, GateInv
  <2>3. QED BY <1>2, <2>1, <2>2, ModulusAssumption DEF GateInv, Tracked
<1>6. QED BY <1>3, <1>4, <1>5

LEMMA GateEnds ==
  ASSUME GateInv, Resume \/ (PmWakeupPending /\ EventsMissed)
  PROVE  GateInv'
<1>1. Suspender \in Walkers
  BY DEF Walkers
<1>2. /\ at' \in [Walkers -> At] /\ combined_event_count' = combined_event_count
      /\ at'[Suspender] \in {"idle", "abort"} /\ events_check_enabled' = FALSE
      /\ registered' = 0 /\ relaxed' = 0 /\ UNCHANGED <<saved_count, count>>
  BY <1>1 DEF Resume, PmWakeupPending, StartWalk, Goto, At, GateInv, taskOnly
<1>3. ~CountInUse'
  BY <1>2 DEF CountInUse
<1>4. Tracked'
  BY <1>3 DEF Tracked
<1>5. registered' \in 0..Modulus /\ relaxed' \in 0..Modulus
  BY <1>2, ModulusAssumption
<1>6. combined_event_count' \in Counter /\ count' \in 0..(Modulus - 1) /\ saved_count' \in 0..(Modulus - 1)
  BY <1>2 DEF GateInv
<1>7. events_check_enabled' \in BOOLEAN /\ (at'[Suspender] = "save" => ~events_check_enabled')
  BY <1>2
<1>8. QED BY <1>2, <1>4, <1>5, <1>6, <1>7 DEF GateInv

(* What every other step leaves alone.                                       *)
LEMMA GateOthers ==
  ASSUME GateInv,
         \/ \E t \in Walkers : \/ WalkEnd(t)
                               \/ \E block \in BOOLEAN : GetWakeupCount(t, block)
                               \/ \E interrupted \in BOOLEAN : CheckInProgress(t, interrupted)
         \/ SaveReturn
         \/ SuspendStart
         \/ PmWakeupPending /\ ~EventsMissed
  PROVE  GateInv'
<1>1. UNCHANGED <<combined_event_count, count, saved_count, registered, relaxed,
                  events_check_enabled>>
  BY DEF WalkEnd, GetWakeupCount, CheckInProgress, SaveReturn, SuspendStart,
         PmWakeupPending, checkVars, since, taskOnly
<1>2. PICK t \in Walkers, from \in At, to \in At :
        /\ at[t] = from /\ at' = [at EXCEPT ![t] = to]
        /\ from \notin {"got", "save"} /\ to \notin {"got", "save"}
  <2>1. Suspender \in Walkers
    BY DEF Walkers
  <2>2. ASSUME NEW t \in Walkers, WalkEnd(t)
        PROVE  \/ at[t] = "walk" /\ at' = [at EXCEPT ![t] = "check"]
               \/ at[t] = "abort" /\ at' = [at EXCEPT ![t] = "idle"]
    BY <2>2 DEF WalkEnd, Goto
  <2>3. ASSUME NEW t \in Walkers, \E block \in BOOLEAN : GetWakeupCount(t, block)
        PROVE  at[t] = "idle" /\ (\/ at' = [at EXCEPT ![t] = "check"]
                                  \/ at' = [at EXCEPT ![t] = "read"])
    BY <2>3 DEF GetWakeupCount, Goto
  <2>4. ASSUME NEW t \in Walkers, \E interrupted \in BOOLEAN : CheckInProgress(t, interrupted)
        PROVE  at[t] = "check" /\ (\/ at' = [at EXCEPT ![t] = "read"]
                                   \/ at' = [at EXCEPT ![t] = "walk"])
    BY <2>4 DEF CheckInProgress, Goto, StartWalk
  <2>5. ASSUME SaveReturn
        PROVE  at[Suspender] = "saved" /\ (\/ at' = [at EXCEPT ![Suspender] = "armed"]
                                           \/ at' = [at EXCEPT ![Suspender] = "idle"])
    BY <2>5 DEF SaveReturn, Goto
  <2>6. ASSUME SuspendStart
        PROVE  /\ at[Suspender] = "armed" \/ at[Suspender] = "idle"
               /\ at' = [at EXCEPT ![Suspender] = "suspending"]
    BY <2>6 DEF SuspendStart, Goto
  <2>7. ASSUME PmWakeupPending, ~EventsMissed
        PROVE  at[Suspender] = "suspending" /\ (\/ at' = [at EXCEPT ![Suspender] = "idle"]
                                                \/ at' = [at EXCEPT ![Suspender] = "asleep"])
    BY <2>7 DEF PmWakeupPending, Goto
  <2>8. QED BY <2>1, <2>2, <2>3, <2>4, <2>5, <2>6, <2>7 DEF At
<1>3. /\ at' \in [Walkers -> At] /\ (Held' <=> Held)
      /\ (at'[Suspender] = "save" => at[Suspender] = "save")
  BY <1>2 DEF GateInv, Held, Walkers
<1>4. QED BY <1>1, <1>3, GateStill DEF GateInv

LEMMA GateStep ==
  ASSUME GateInv, [BlockerNext]_wbvars
  PROVE  GateInv'
<1>1. ASSUME NEW a \in Agents, AgentStep(a)
      PROVE  GateInv'
  <2>1. UNCHANGED <<checkVars, at>>
    BY <1>1 DEF AgentStep, CheckForBlock, RelaxIfActive, RelaxLoad, RelaxStore, RelaxCompare,
                RelaxLower, SetInactive, ClearTimer, AccountEvent, elsewhere, taskVars
  <2>2. CASE AccountEvent(a)
    BY <2>1, <2>2, GateAccount DEF AccountEvent
  <2>3. CASE ~AccountEvent(a)
    <3>1. UNCHANGED counted
      BY <1>1, <2>3 DEF AgentStep, CheckForBlock, RelaxIfActive, RelaxLoad, RelaxStore,
                        RelaxCompare, RelaxLower, SetInactive, ClearTimer
    <3>2. QED BY <2>1, <3>1, GateStill DEF counted, checkVars, GateInv, Held
  <2>4. QED BY <2>2, <2>3
<1>2. ASSUME NEW s \in Sources, LockedStep(s)
      PROVE  GateInv'
  <2>1. UNCHANGED <<checkVars, at>>
    BY <1>2 DEF LockedStep, PmStayAwake, PmRelax, PmWakeupWsEvent, PmWakeupTimerFn, LockedCall,
                ReportEvent, SetActive, CountActivation, RegisterEvent, CancelTimer, ArmTimer,
                TimerTest, elsewhere, taskVars
  <2>2. CASE RegisterEvent(s)
    BY <2>1, <2>2, GateRegister DEF RegisterEvent
  <2>3. CASE ~RegisterEvent(s)
    <3>1. UNCHANGED counted
      BY <1>2, <2>3 DEF LockedStep, PmStayAwake, PmRelax, PmWakeupWsEvent, PmWakeupTimerFn,
                        LockedCall, ReportEvent, SetActive, CountActivation, CancelTimer,
                        ArmTimer, TimerTest
    <3>2. QED BY <2>1, <3>1, GateStill DEF counted, checkVars, GateInv, Held
  <2>4. QED BY <2>2, <2>3
<1>3. ASSUME NEW t \in Walkers, TaskStep(t)
      PROVE  GateInv'
  <2>1. CASE \E s \in Sources : WalkVisit(t, s)
    <3>1. UNCHANGED <<checkVars, counted, at>>
      BY <2>1 DEF WalkVisit
    <3>2. QED BY <3>1, GateStill DEF counted, checkVars, GateInv, Held
  <2>2. CASE ReadCount(t)
    BY <2>2, GateReadCount
  <2>3. CASE WalkEnd(t)
    BY <2>3, GateOthers
  <2>4. CASE \E block \in BOOLEAN : GetWakeupCount(t, block)
    BY <2>4, GateOthers
  <2>5. CASE \E interrupted \in BOOLEAN : CheckInProgress(t, interrupted)
    BY <2>5, GateOthers
  <2>6. QED BY <1>3, <2>1, <2>2, <2>3, <2>4, <2>5 DEF TaskStep
<1>4. ASSUME PowerStep
      PROVE  GateInv'
  BY <1>4, GateSaves, GateEnds, GateOthers DEF PowerStep
<1>5. ASSUME BuildSearchString \/ \E list \in SUBSET Sources : SearchStringBuilt(list)
      PROVE  GateInv'
  <2>1. UNCHANGED <<checkVars, counted, at>>
    BY <1>5 DEF BuildSearchString, SearchStringBuilt, taskVars
  <2>2. QED BY <2>1, GateStill DEF counted, checkVars, GateInv, Held
<1>6. ASSUME UNCHANGED wbvars
      PROVE  GateInv'
  <2>1. UNCHANGED <<checkVars, counted, at>>
    BY <1>6 DEF wbvars, taskVars
  <2>2. QED BY <2>1, GateStill DEF counted, checkVars, GateInv, Held
<1>7. QED BY <1>1, <1>2, <1>3, <1>4, <1>5, <1>6 DEF BlockerNext

LEMMA GateInit ==
  BlockerInit => GateInv
<1>1. SUFFICES ASSUME BlockerInit PROVE GateInv
  OBVIOUS
<1>2. Suspender \in Walkers /\ at[Suspender] = "idle" /\ at \in [Walkers -> At]
  BY <1>1 DEF BlockerInit, Walkers, At
<1>3. ~CountInUse
  BY <1>1, <1>2 DEF BlockerInit, CountInUse
<1>4. Tracked
  BY <1>3 DEF Tracked
<1>5. combined_event_count \in Counter
  BY <1>1, ModulusAssumption DEF BlockerInit, Counter
<1>6. /\ 0 \in 0..Modulus /\ 0 \in 0..(Modulus - 1)
      /\ count = 0 /\ saved_count = 0 /\ registered = 0 /\ relaxed = 0
      /\ events_check_enabled = FALSE
  BY <1>1, ModulusAssumption DEF BlockerInit
<1>7. QED BY <1>2, <1>4, <1>5, <1>6 DEF GateInv

(* A suspend that falls asleep has just been told that no event is missed.  *)
LEMMA AsleepByPending ==
  ASSUME GateInv, BlockerNext, at[Suspender] = "suspending", at'[Suspender] = "asleep"
  PROVE  PmWakeupPending /\ ~EventsMissed
<1>1. Suspender \in Walkers
  BY DEF Walkers
<1>2. ASSUME NEW a \in Agents, AgentStep(a)
      PROVE  FALSE
  <2>1. UNCHANGED at
    BY <1>2 DEF AgentStep, CheckForBlock, RelaxIfActive, RelaxLoad, RelaxStore, RelaxCompare,
                RelaxLower, SetInactive, ClearTimer, AccountEvent, elsewhere, taskVars
  <2>2. QED BY <2>1
<1>3. ASSUME NEW s \in Sources, LockedStep(s)
      PROVE  FALSE
  <2>1. UNCHANGED at
    BY <1>3 DEF LockedStep, PmStayAwake, PmRelax, PmWakeupWsEvent, PmWakeupTimerFn, LockedCall,
                ReportEvent, SetActive, CountActivation, RegisterEvent, CancelTimer, ArmTimer,
                TimerTest, elsewhere, taskVars
  <2>2. QED BY <2>1
<1>4. ASSUME NEW t \in Walkers, TaskStep(t)
      PROVE  FALSE
  BY <1>1, <1>4 DEF TaskStep, WalkVisit, WalkEnd, GetWakeupCount, CheckInProgress, StartWalk,
                    ReadCount, Goto, GateInv
<1>5. ~BuildSearchString /\ ~\E list \in SUBSET Sources : SearchStringBuilt(list)
  BY DEF BuildSearchString, SearchStringBuilt, taskVars
<1>6. ASSUME PowerStep
      PROVE  PmWakeupPending /\ ~EventsMissed
  BY <1>1, <1>6 DEF PowerStep, SaveDisable, SaveCompare, SaveReturn, SuspendStart,
                    PmWakeupPending, Resume, StartWalk, Goto, GateInv
<1>7. QED BY <1>2, <1>3, <1>4, <1>5, <1>6 DEF BlockerNext

(* The gate of a suspend holds on a kernel built with the wakelock blocker  *)
(* (pm_save_wakeup_count, pm_wakeup_pending): whatever the lockless kills do *)
(* to the counts of the sources, no step puts the system to sleep on an     *)
(* enabled check after activations or deactivations the check did not see,  *)
(* up to what a half of the counter can tell apart.                          *)
THEOREM GateHolds ==
  BlockerSpec => NoRegistrationMissed
<1> DEFINE Sleeps == at[Suspender] = "suspending" /\ at'[Suspender] = "asleep"
                       /\ events_check_enabled /\ registered < Modulus /\ relaxed < Modulus
<1>1. GateInv /\ [BlockerNext]_wbvars => [Sleeps => registered = 0 /\ relaxed = 0]_wbvars
  <2> SUFFICES ASSUME GateInv, BlockerNext, Sleeps
               PROVE  registered = 0 /\ relaxed = 0
    OBVIOUS
  <2>1. ~EventsMissed
    BY AsleepByPending
  <2>2. combined_event_count.cnt = saved_count /\ combined_event_count.inpr = 0
    BY <2>1 DEF EventsMissed, inprogress, GateInv, Counter
  <2>3. CountInUse /\ Base = saved_count
    BY DEF CountInUse, Base, Held
  <2>4. IF registered >= relaxed
          THEN 0 = registered - relaxed /\ saved_count = Wrap(saved_count + relaxed)
          ELSE 0 = (registered - relaxed) + Modulus
    BY <2>2, <2>3 DEF GateInv, Tracked
  <2>5. QED BY <2>4, ModulusAssumption DEF GateInv, Wrap
<1>2. QED BY <1>1, GateInit, GateStep, PTL DEF BlockerSpec, NoRegistrationMissed

-----------------------------------------------------------------------------
(* WakelockBlocker, the counts: as long as no two agents have relax_count   *)
(* of source s raised at the same time, there is a number T of completed    *)
(* deactivations of s on which all that is at s agrees.                      *)
Counts == 0..(CountSize - 1)
Raising == {"store", "compare", "lower"}
Special == Raising \cup {"set", "count", "off"}

AgentTypes ==
  /\ code \in [Agents -> Code]
  /\ next \in [Agents -> {"idle", "cancel", "arm", "load"}]
  /\ reg \in [Agents -> Counts]
  /\ cur \in [Walkers -> Sources \cup {NoSource}]
  /\ active \in [Sources -> BOOLEAN]
  /\ active_count \in [Sources -> Counts]
  /\ relax_count \in [Sources -> Counts]
  /\ \A t \in Walkers : /\ next[t] = "idle"
                        /\ code[t] \in {"idle", "search", "active?"} \cup Deactivation
                        /\ code[t] = "idle" <=> cur[t] = NoSource

PendingAt(s) == code[s] = "count" \/ \E a \in Agents : Of(a) = s /\ code[a] = "off"

AgreeOn(s, T) ==
  /\ \A a, b \in Agents :
       Of(a) = s /\ Of(b) = s /\ code[a] \in Raising /\ code[b] \in Raising => a = b
  /\ \A a, b \in Agents :
       Of(a) = s /\ Of(b) = s /\ code[a] = "off" /\ code[b] = "off" => a = b
  /\ \A a \in Agents : Of(a) = s /\ code[a] \in Raising => reg[a] = T
  /\ \A a \in Agents :
       Of(a) = s /\ code[a] \in {"compare", "lower"} => relax_count[s] = Plus1(T)
  /\ (\A a \in Agents : Of(a) = s => code[a] \notin {"compare", "lower"}) => relax_count[s] = T
  /\ active_count[s] = IF PendingAt(s) \/ ~active[s] THEN T ELSE Plus1(T)
  /\ PendingAt(s) => active[s]
  /\ code[s] = "set" => ~active[s]
  /\ code[s] = "count" => \A a \in Agents : Of(a) = s => code[a] # "off"

Agreed == \A s \in Sources \ overlapped : \E T \in Counts : AgreeOn(s, T)
EvenInv == AgentTypes /\ Agreed

LEMMA Plus1Facts ==
  ASSUME NEW n \in Counts
  PROVE  Plus1(n) \in Counts /\ Plus1(n) # n
BY BlockerAssumption DEF Counts, Plus1

LEMMA AgentFacts ==
  /\ Agents = Sources \cup Walkers /\ Sources \cap Walkers = {} /\ NoSource \notin Sources
  /\ \A s \in Sources : Of(s) = s
  /\ \A t \in Walkers : Of(t) = cur[t]
BY BlockerAssumption DEF Agents, Of

(* A step of agent a that neither is nor becomes special at s.              *)
LEMMA Elsewhere ==
  ASSUME NEW s \in Sources, NEW T \in Counts, AgreeOn(s, T), NEW a \in Agents,
         \A b \in Agents : b # a => code'[b] = code[b] /\ reg'[b] = reg[b] /\ Of(b)' = Of(b),
         relax_count'[s] = relax_count[s], active_count'[s] = active_count[s],
         active'[s] = active[s],
         Of(a) = s => code[a] \notin Special,
         Of(a)' = s => code'[a] \notin Special
  PROVE  AgreeOn(s, T)'
<1>1. \A b \in Agents : Of(b)' = s /\ code'[b] \in Special =>
        b # a /\ Of(b) = s /\ code[b] = code'[b] /\ reg[b] = reg'[b]
  OBVIOUS
<1>2. \A b \in Agents : Of(b) = s /\ code[b] \in Special =>
        b # a /\ Of(b)' = s /\ code[b] = code'[b]
  OBVIOUS
<1>3. s \in Agents /\ Of(s) = s /\ Of(s)' = s
  BY DEF Agents, Of
<1>4. /\ code'[s] = "set" => code[s] = "set"
      /\ code'[s] = "count" <=> code[s] = "count"
  BY <1>1, <1>2, <1>3 DEF Special
<1>5. PendingAt(s)' <=> PendingAt(s)
  BY <1>1, <1>2, <1>4 DEF PendingAt, Special
<1>6. /\ \A b, c \in Agents :
           Of(b)' = s /\ Of(c)' = s /\ code'[b] \in Raising /\ code'[c] \in Raising => b = c
      /\ \A b, c \in Agents :
           Of(b)' = s /\ Of(c)' = s /\ code'[b] = "off" /\ code'[c] = "off" => b = c
  BY <1>1 DEF AgreeOn, Special
<1>7. /\ \A b \in Agents : Of(b)' = s /\ code'[b] \in Raising => reg'[b] = T
      /\ \A b \in Agents :
           Of(b)' = s /\ code'[b] \in {"compare", "lower"} => relax_count'[s] = Plus1(T)
  BY <1>1 DEF AgreeOn, Special, Raising
<1>8. (\A b \in Agents : Of(b)' = s => code'[b] \notin {"compare", "lower"})
        => relax_count'[s] = T
  BY <1>2 DEF AgreeOn, Special, Raising
<1>9. code'[s] = "count" => \A b \in Agents : Of(b)' = s => code'[b] # "off"
  BY <1>1, <1>4 DEF AgreeOn, Special
<1>10. /\ active_count'[s] = IF PendingAt(s)' \/ ~active'[s] THEN T ELSE Plus1(T)
       /\ PendingAt(s)' => active'[s]
       /\ code'[s] = "set" => ~active'[s]
  BY <1>4, <1>5 DEF AgreeOn
<1>11. QED BY <1>6, <1>7, <1>8, <1>9, <1>10 DEF AgreeOn

(* The special steps.  Each keeps what every other agent holds and is at.   *)
LEMMA Alone ==
  ASSUME AgentTypes, NEW a \in Agents, NEW to \in Code, code' = [code EXCEPT ![a] = to],
         UNCHANGED cur
  PROVE  /\ code'[a] = to /\ \A b \in Agents : b # a => code'[b] = code[b]
         /\ \A b \in Agents : Of(b)' = Of(b)
BY DEF AgentTypes, Of

LEMMA LoadAgrees ==
  ASSUME AgentTypes, NEW a \in Agents, RelaxLoad(a),
         NEW s \in Sources, s \notin overlapped', NEW T \in Counts, AgreeOn(s, T), Of(a) = s
  PROVE  AgreeOn(s, T)'
<1>1. /\ code[a] = "load" /\ code' = [code EXCEPT ![a] = "store"]
      /\ reg' = [reg EXCEPT ![a] = relax_count[s]]
      /\ UNCHANGED <<cur, active, active_count, relax_count>>
  BY DEF RelaxLoad, fieldVars
<1>2. \A b \in Agents : b # a /\ Of(b) = s => code[b] \notin Raising
  BY DEF RelaxLoad, Raised, Raising
<1>3. /\ code'[a] = "store" /\ reg'[a] = relax_count[s]
      /\ \A b \in Agents : b # a => code'[b] = code[b] /\ reg'[b] = reg[b]
      /\ \A b \in Agents : Of(b)' = Of(b)
  BY <1>1, Alone DEF AgentTypes, Code, Deactivation
<1>4. relax_count[s] = T
  BY <1>1, <1>2 DEF AgreeOn, Raising
<1>5. code[s] \in {"set", "count"} => a # s
  BY <1>1
<1>6. Of(s) = s /\ s \in Agents
  BY DEF Of, Agents
<1>7. /\ code'[s] = "set" => code[s] = "set"
      /\ code'[s] = "count" <=> code[s] = "count"
      /\ \A b \in Agents : code'[b] = "off" <=> code[b] = "off"
  BY <1>1, <1>3, <1>6
<1>8. PendingAt(s)' <=> PendingAt(s)
  BY <1>3, <1>7 DEF PendingAt
<1>9. /\ \A b \in Agents : Of(b)' = s /\ code'[b] \in Raising => b = a /\ reg'[b] = T
      /\ \A b \in Agents : Of(b)' = s => code'[b] \notin {"compare", "lower"}
  BY <1>2, <1>3, <1>4 DEF Raising
<1>10. QED BY <1>1, <1>3, <1>4, <1>7, <1>8, <1>9 DEF AgreeOn

LEMMA StoreAgrees ==
  ASSUME AgentTypes, NEW a \in Agents, RelaxStore(a),
         NEW s \in Sources, NEW T \in Counts, AgreeOn(s, T), Of(a) = s
  PROVE  AgreeOn(s, T)'
<1>1. /\ code[a] = "store" /\ code' = [code EXCEPT ![a] = "compare"]
      /\ relax_count' = [relax_count EXCEPT ![s] = Plus1(reg[a])]
      /\ UNCHANGED <<cur, reg, active, active_count>>
  BY DEF RelaxStore, CodeTo
<1>2. reg[a] = T /\ relax_count'[s] = Plus1(T)
  BY <1>1 DEF AgreeOn, Raising, AgentTypes
<1>3. /\ code'[a] = "compare" /\ \A b \in Agents : b # a => code'[b] = code[b]
      /\ \A b \in Agents : Of(b)' = Of(b)
  BY <1>1, Alone DEF Code, Deactivation
<1>4. Of(s) = s /\ s \in Agents
  BY DEF Of, Agents
<1>5. /\ code'[s] = "set" => code[s] = "set"
      /\ code'[s] = "count" <=> code[s] = "count"
      /\ \A b \in Agents : code'[b] = "off" <=> code[b] = "off"
      /\ \A b \in Agents : code'[b] \in Raising <=> code[b] \in Raising
  BY <1>1, <1>3, <1>4 DEF Raising
<1>6. PendingAt(s)' <=> PendingAt(s)
  BY <1>3, <1>5 DEF PendingAt
<1>7. QED BY <1>1, <1>2, <1>3, <1>5, <1>6 DEF AgreeOn

LEMMA CompareAgrees ==
  ASSUME AgentTypes, NEW a \in Agents, RelaxCompare(a),
         NEW s \in Sources, NEW T \in Counts, AgreeOn(s, T), Of(a) = s
  PROVE  \E U \in Counts : AgreeOn(s, U)'
<1>1. /\ code[a] = "compare" /\ UNCHANGED <<cur, reg, relax_count, active, active_count>>
      /\ code' = [code EXCEPT ![a] = IF Plus1(reg[a]) = active_count[s] THEN "off" ELSE "lower"]
  BY DEF RelaxCompare, CodeTo, fieldVars
<1>2. /\ reg[a] = T /\ relax_count[s] = Plus1(T)
      /\ \A b \in Agents : b # a /\ Of(b) = s => code[b] \notin Raising
  BY <1>1 DEF AgreeOn, Raising
<1>3. Of(s) = s /\ s \in Agents
  BY DEF Of, Agents
<1>4. CASE Plus1(T) = active_count[s]
  <2>1. /\ code'[a] = "off" /\ \A b \in Agents : b # a => code'[b] = code[b]
        /\ \A b \in Agents : Of(b)' = Of(b)
    BY <1>1, <1>2, <1>4, Alone DEF Code, Deactivation
  <2>2. ~PendingAt(s) /\ active[s]
    BY <1>4, Plus1Facts DEF AgreeOn
  <2>3. \A b \in Agents : Of(b)' = s => code'[b] \notin Raising
    BY <1>2, <2>1 DEF Raising
  <2>4. \A b \in Agents : Of(b)' = s /\ code'[b] = "off" => b = a
    BY <2>1, <2>2 DEF PendingAt
  <2>5. PendingAt(s)' /\ code'[s] # "count" /\ code'[s] # "set"
    BY <1>3, <2>1, <2>2 DEF PendingAt, AgreeOn
  <2>6. AgreeOn(s, Plus1(T))'
    BY <1>1, <1>2, <1>4, <2>2, <2>3, <2>4, <2>5 DEF AgreeOn, Raising
  <2>7. QED BY <2>6, Plus1Facts
<1>5. CASE Plus1(T) # active_count[s]
  <2>1. /\ code'[a] = "lower" /\ \A b \in Agents : b # a => code'[b] = code[b]
        /\ \A b \in Agents : Of(b)' = Of(b)
    BY <1>1, <1>2, <1>5, Alone DEF Code, Deactivation
  <2>2. /\ code'[s] = "set" => code[s] = "set"
        /\ code'[s] = "count" <=> code[s] = "count"
        /\ \A b \in Agents : code'[b] = "off" <=> code[b] = "off"
        /\ \A b \in Agents : code'[b] \in Raising <=> code[b] \in Raising
    BY <1>1, <1>3, <2>1 DEF Raising
  <2>3. PendingAt(s)' <=> PendingAt(s)
    BY <2>1, <2>2 DEF PendingAt
  <2>4. AgreeOn(s, T)'
    BY <1>1, <1>2, <2>1, <2>2, <2>3 DEF AgreeOn
  <2>5. QED BY <2>4
<1>6. QED BY <1>4, <1>5

LEMMA LowerAgrees ==
  ASSUME AgentTypes, AgentTypes', NEW a \in Agents, RelaxLower(a),
         NEW s \in Sources, NEW T \in Counts, AgreeOn(s, T), Of(a) = s
  PROVE  AgreeOn(s, T)'
<1>1. /\ code[a] = "lower" /\ code' = [code EXCEPT ![a] = next[a]]
      /\ reg' = [reg EXCEPT ![a] = 0]
      /\ cur' = IF a \in Walkers THEN [cur EXCEPT ![a] = NoSource] ELSE cur
      /\ relax_count' = [relax_count EXCEPT ![s] = reg[a]]
      /\ UNCHANGED <<active, active_count>>
  BY DEF RelaxLower, Return
<1>2. /\ reg[a] = T /\ \A b \in Agents : b # a /\ Of(b) = s => code[b] \notin Raising
  BY <1>1 DEF AgreeOn, Raising
<1>3. relax_count'[s] = T
  BY <1>1, <1>2 DEF AgentTypes
<1>4. /\ code'[a] = next[a] /\ next[a] \notin Special
      /\ \A b \in Agents : b # a => code'[b] = code[b] /\ Of(b)' = Of(b)
  BY <1>1 DEF AgentTypes, Special, Raising, Of
<1>5. Of(s) = s /\ s \in Agents /\ Of(s)' = s
  BY DEF Of, Agents
<1>6. /\ code'[s] = "set" => code[s] = "set"
      /\ code'[s] = "count" <=> code[s] = "count"
      /\ \A b \in Agents : code'[b] = "off" <=> code[b] = "off"
      /\ \A b \in Agents : code'[b] = "off" => Of(b)' = Of(b)
  BY <1>1, <1>4, <1>5 DEF Special
<1>7. \A b \in Agents : Of(b)' = s => code'[b] \notin Raising
  BY <1>2, <1>4 DEF Special
<1>8. PendingAt(s)' <=> PendingAt(s)
  BY <1>6 DEF PendingAt
<1>9. QED BY <1>1, <1>3, <1>6, <1>7, <1>8 DEF AgreeOn, Raising

LEMMA OffAgrees ==
  ASSUME AgentTypes, NEW a \in Agents, SetInactive(a),
         NEW s \in Sources, NEW T \in Counts, AgreeOn(s, T), Of(a) = s
  PROVE  AgreeOn(s, T)'
<1>1. /\ code[a] = "off" /\ code' = [code EXCEPT ![a] = "clear"]
      /\ active' = [active EXCEPT ![s] = FALSE]
      /\ UNCHANGED <<cur, reg, relax_count, active_count>>
  BY DEF SetInactive, CodeTo
<1>2. /\ code'[a] = "clear" /\ \A b \in Agents : b # a => code'[b] = code[b]
      /\ \A b \in Agents : Of(b)' = Of(b)
  BY <1>1, Alone DEF Code, Deactivation
<1>3. PendingAt(s) /\ active_count[s] = T /\ ~active'[s]
  BY <1>1 DEF PendingAt, AgreeOn, AgentTypes
<1>4. Of(s) = s /\ s \in Agents
  BY DEF Of, Agents
<1>5. \A b \in Agents : Of(b) = s => code'[b] # "off"
  BY <1>1, <1>2 DEF AgreeOn
<1>6. code'[s] # "count"
  BY <1>1, <1>2, <1>4 DEF AgreeOn
<1>7. ~PendingAt(s)'
  BY <1>2, <1>5, <1>6 DEF PendingAt
<1>8. \A b \in Agents : code'[b] \in Raising => code[b] = code'[b]
  BY <1>2 DEF Raising
<1>9. \A b \in Agents : code[b] \in Raising => code[b] = code'[b]
  BY <1>1, <1>2 DEF Raising
<1>10. /\ \A b, c \in Agents :
           Of(b)' = s /\ Of(c)' = s /\ code'[b] \in Raising /\ code'[c] \in Raising => b = c
       /\ \A b \in Agents : Of(b)' = s /\ code'[b] \in Raising => reg'[b] = T
       /\ \A b \in Agents :
            Of(b)' = s /\ code'[b] \in {"compare", "lower"} => relax_count'[s] = Plus1(T)
       /\ (\A b \in Agents : Of(b)' = s => code'[b] \notin {"compare", "lower"})
            => relax_count'[s] = T
  BY <1>1, <1>2, <1>8, <1>9 DEF AgreeOn, Raising
<1>11. QED BY <1>1, <1>2, <1>3, <1>5, <1>6, <1>7, <1>10 DEF AgreeOn

(* The steps of an activation: agent s itself moves from one code to        *)
(* another, outside a deactivation.                                         *)
Moved(s, T, to) ==
  /\ code'[s] = to /\ \A b \in Agents : Of(b)' = Of(b)
  /\ \A b \in Agents : code'[b] = "off" <=> code[b] = "off"
  /\ \A b, c \in Agents :
       Of(b)' = s /\ Of(c)' = s /\ code'[b] \in Raising /\ code'[c] \in Raising => b = c
  /\ \A b, c \in Agents :
       Of(b)' = s /\ Of(c)' = s /\ code'[b] = "off" /\ code'[c] = "off" => b = c
  /\ \A b \in Agents : Of(b)' = s /\ code'[b] \in Raising => reg'[b] = T
  /\ \A b \in Agents :
       Of(b)' = s /\ code'[b] \in {"compare", "lower"} => relax_count'[s] = Plus1(T)
  /\ (\A b \in Agents : Of(b)' = s => code'[b] \notin {"compare", "lower"})
       => relax_count'[s] = T

LEMMA ActivationMoves ==
  ASSUME AgentTypes, NEW s \in Sources, NEW T \in Counts, AgreeOn(s, T),
         NEW to \in {"set", "count", "register"}, code' = [code EXCEPT ![s] = to],
         code[s] \in {"event", "set", "count"}, UNCHANGED <<cur, reg, relax_count>>
  PROVE  Moved(s, T, to)
<1>1. s \in Agents /\ to \in Code
  BY DEF Agents, Code, Activation
<1>2. /\ code'[s] = to /\ \A b \in Agents : b # s => code'[b] = code[b]
      /\ \A b \in Agents : Of(b)' = Of(b)
  BY <1>1, Alone
<1>3. \A b \in Agents : /\ code'[b] = "off" <=> code[b] = "off"
                        /\ code'[b] \in Raising <=> code[b] \in Raising
                        /\ code'[b] \in {"compare", "lower"} <=> code[b] \in {"compare", "lower"}
  BY <1>2 DEF Raising
<1>4. QED BY <1>2, <1>3 DEF AgreeOn, Moved

LEMMA ReportAgrees ==
  ASSUME AgentTypes, NEW s \in Sources, ReportEvent(s), ~active[s],
         NEW T \in Counts, AgreeOn(s, T)
  PROVE  AgreeOn(s, T)'
<1>1. /\ code[s] = "event" /\ code' = [code EXCEPT ![s] = "set"]
      /\ UNCHANGED <<cur, reg, relax_count, active, active_count>>
  BY DEF ReportEvent, CodeTo, fieldVars
<1>2. Moved(s, T, "set")
  BY <1>1, ActivationMoves
<1>3. code'[s] = "set" /\ (PendingAt(s)' <=> PendingAt(s))
  BY <1>1, <1>2 DEF PendingAt, Moved
<1>4. QED BY <1>1, <1>2, <1>3 DEF AgreeOn, Moved

LEMMA SetAgrees ==
  ASSUME AgentTypes, NEW s \in Sources, SetActive(s), NEW T \in Counts, AgreeOn(s, T)
  PROVE  AgreeOn(s, T)'
<1>1. /\ code[s] = "set" /\ code' = [code EXCEPT ![s] = "count"]
      /\ active' = [active EXCEPT ![s] = TRUE]
      /\ UNCHANGED <<cur, reg, relax_count, active_count>>
  BY DEF SetActive, CodeTo
<1>2. ~active[s] /\ ~PendingAt(s) /\ active'[s]
  BY <1>1 DEF AgreeOn, AgentTypes
<1>3. Moved(s, T, "count")
  BY <1>1, ActivationMoves
<1>4. code'[s] = "count" /\ PendingAt(s)'
  BY <1>3 DEF PendingAt, Moved
<1>5. \A b \in Agents : Of(b)' = s => code'[b] # "off"
  BY <1>2, <1>3 DEF PendingAt, Moved
<1>6. active_count'[s] = T
  BY <1>1, <1>2 DEF AgreeOn
<1>7. QED BY <1>2, <1>3, <1>4, <1>5, <1>6 DEF AgreeOn, Moved

LEMMA CountAgrees ==
  ASSUME AgentTypes, NEW s \in Sources, CountActivation(s), NEW T \in Counts, AgreeOn(s, T)
  PROVE  AgreeOn(s, T)'
<1>1. /\ code[s] = "count" /\ code' = [code EXCEPT ![s] = "register"]
      /\ active_count' = [active_count EXCEPT ![s] = Plus1(@)]
      /\ UNCHANGED <<cur, reg, relax_count, active>>
  BY DEF CountActivation, CodeTo
<1>2. PendingAt(s) /\ active[s] /\ active_count[s] = T
  BY <1>1 DEF AgreeOn, PendingAt
<1>3. active_count'[s] = Plus1(T)
  BY <1>1, <1>2 DEF AgentTypes
<1>4. Moved(s, T, "register")
  BY <1>1, ActivationMoves
<1>5. code'[s] = "register" /\ \A b \in Agents : Of(b)' = s => code'[b] # "off"
  BY <1>1, <1>4 DEF AgreeOn, Moved
<1>6. ~PendingAt(s)'
  BY <1>5 DEF PendingAt
<1>7. QED BY <1>1, <1>2, <1>3, <1>4, <1>5, <1>6 DEF AgreeOn, Moved

LEMMA TypesReturn ==
  ASSUME AgentTypes, NEW a \in Agents, Return(a)
  PROVE  /\ code' \in [Agents -> Code]
         /\ next' \in [Agents -> {"idle", "cancel", "arm", "load"}]
         /\ reg' \in [Agents -> Counts]
         /\ cur' \in [Walkers -> Sources \cup {NoSource}]
         /\ \A t \in Walkers :
              /\ next'[t] = "idle"
              /\ code'[t] \in {"idle", "search", "active?"} \cup Deactivation
              /\ code'[t] = "idle" <=> cur'[t] = NoSource
<1>1. /\ code' = [code EXCEPT ![a] = next[a]] /\ next' = [next EXCEPT ![a] = "idle"]
      /\ reg' = [reg EXCEPT ![a] = 0]
      /\ cur' = IF a \in Walkers THEN [cur EXCEPT ![a] = NoSource] ELSE cur
  BY DEF Return
<1>2. next[a] \in Code /\ 0 \in Counts
  BY BlockerAssumption DEF AgentTypes, Code, Deactivation, Counts
<1>3. /\ code' \in [Agents -> Code]
      /\ next' \in [Agents -> {"idle", "cancel", "arm", "load"}]
      /\ reg' \in [Agents -> Counts]
      /\ cur' \in [Walkers -> Sources \cup {NoSource}]
  BY <1>1, <1>2 DEF AgentTypes
<1>4. ASSUME NEW t \in Walkers
      PROVE  /\ next'[t] = "idle"
             /\ code'[t] \in {"idle", "search", "active?"} \cup Deactivation
             /\ code'[t] = "idle" <=> cur'[t] = NoSource
  <2>1. t \in Agents
    BY DEF Agents
  <2>2. CASE t = a
    BY <1>1, <2>1, <2>2 DEF AgentTypes
  <2>3. CASE t # a
    BY <1>1, <2>1, <2>3 DEF AgentTypes
  <2>4. QED BY <2>2, <2>3
<1>5. QED BY <1>3, <1>4

LEMMA TypesTo ==
  ASSUME AgentTypes, NEW a \in Agents, NEW to \in Code, code' = [code EXCEPT ![a] = to],
         a \in Walkers => /\ code[a] # "idle"
                          /\ to \in {"search", "active?"} \cup Deactivation,
         UNCHANGED cur
  PROVE  /\ code' \in [Agents -> Code]
         /\ \A t \in Walkers :
              /\ code'[t] \in {"idle", "search", "active?"} \cup Deactivation
              /\ code'[t] = "idle" <=> cur'[t] = NoSource
<1>1. code' \in [Agents -> Code]
  BY DEF AgentTypes
<1>2. ASSUME NEW t \in Walkers
      PROVE  /\ code'[t] \in {"idle", "search", "active?"} \cup Deactivation
             /\ code'[t] = "idle" <=> cur'[t] = NoSource
  <2>1. t \in Agents
    BY DEF Agents
  <2>2. CASE t = a
    BY <2>1, <2>2 DEF AgentTypes, Deactivation
  <2>3. CASE t # a
    BY <2>1, <2>3 DEF AgentTypes
  <2>4. QED BY <2>2, <2>3
<1>3. QED BY <1>1, <1>2

(* Where an agent in the middle of a deactivation is.                       *)
LEMMA InsideSource ==
  ASSUME AgentTypes, NEW a \in Agents, code[a] # "idle"
  PROVE  Of(a) \in Sources
BY DEF AgentTypes, Of, Agents

LEMMA AgentStepTypes ==
  ASSUME AgentTypes, NEW a \in Agents, AgentStep(a)
  PROVE  AgentTypes'
<1>1. \/ Return(a)
      \/ \E to \in {"event", "active?"} \cup Deactivation :
           /\ code' = [code EXCEPT ![a] = to] /\ UNCHANGED <<next, cur>>
           /\ a \in Walkers => to \in {"search", "active?"} \cup Deactivation
           /\ reg' = reg \/ reg' = [reg EXCEPT ![a] = relax_count[Of(a)]]
  <2>1. CASE CheckForBlock(a)
    <3>1. a \in Sources => a \notin Walkers
      BY BlockerAssumption
    <3>2. QED BY <2>1, <3>1 DEF CheckForBlock, CodeTo
  <2>2. CASE RelaxIfActive(a)
    BY <2>2 DEF RelaxIfActive, CodeTo, Deactivation
  <2>3. CASE RelaxLoad(a)
    BY <2>3 DEF RelaxLoad, Deactivation
  <2>4. CASE RelaxStore(a)
    BY <2>4 DEF RelaxStore, CodeTo, Deactivation
  <2>5. CASE RelaxCompare(a)
    BY <2>5 DEF RelaxCompare, CodeTo, Deactivation
  <2>6. CASE RelaxLower(a)
    BY <2>6 DEF RelaxLower
  <2>7. CASE SetInactive(a)
    BY <2>7 DEF SetInactive, CodeTo, Deactivation
  <2>8. CASE ClearTimer(a)
    BY <2>8 DEF ClearTimer, CodeTo, Deactivation
  <2>9. CASE AccountEvent(a)
    BY <2>9 DEF AccountEvent
  <2>10. QED BY <2>1, <2>2, <2>3, <2>4, <2>5, <2>6, <2>7, <2>8, <2>9 DEF AgentStep
<1>2. code[a] # "idle"
  BY DEF AgentStep, CheckForBlock, RelaxIfActive, RelaxLoad, RelaxStore, RelaxCompare,
         RelaxLower, SetInactive, ClearTimer, AccountEvent
<1>3. Of(a) \in Sources
  BY <1>2, InsideSource
<1>4. /\ active' \in [Sources -> BOOLEAN] /\ active_count' \in [Sources -> Counts]
      /\ relax_count' \in [Sources -> Counts]
  <2>1. CASE RelaxStore(a)
    BY <2>1, <1>3, Plus1Facts DEF RelaxStore, AgentTypes
  <2>2. CASE RelaxLower(a)
    BY <2>2, <1>3 DEF RelaxLower, AgentTypes
  <2>3. CASE SetInactive(a)
    BY <2>3, <1>3 DEF SetInactive, AgentTypes
  <2>4. CASE ~RelaxStore(a) /\ ~RelaxLower(a) /\ ~SetInactive(a)
    <3>1. UNCHANGED <<active, active_count, relax_count>>
      BY <2>4 DEF AgentStep, CheckForBlock, RelaxIfActive, RelaxLoad, RelaxCompare,
                  ClearTimer, AccountEvent, fieldVars
    <3>2. QED BY <3>1 DEF AgentTypes
  <2>5. QED BY <2>1, <2>2, <2>3, <2>4
<1>5. CASE Return(a)
  BY <1>4, <1>5, TypesReturn DEF AgentTypes
<1>6. ASSUME NEW to \in {"event", "active?"} \cup Deactivation,
             code' = [code EXCEPT ![a] = to], UNCHANGED <<next, cur>>,
             a \in Walkers => to \in {"search", "active?"} \cup Deactivation,
             reg' = reg \/ reg' = [reg EXCEPT ![a] = relax_count[Of(a)]]
      PROVE  AgentTypes'
  <2>1. to \in Code
    BY DEF Code, Activation
  <2>2. reg' \in [Agents -> Counts]
    BY <1>3, <1>6 DEF AgentTypes
  <2>3. /\ code' \in [Agents -> Code]
        /\ \A t \in Walkers :
             /\ code'[t] \in {"idle", "search", "active?"} \cup Deactivation
             /\ code'[t] = "idle" <=> cur'[t] = NoSource
    BY <1>2, <1>6, <2>1, TypesTo
  <2>4. /\ next' \in [Agents -> {"idle", "cancel", "arm", "load"}]
        /\ cur' \in [Walkers -> Sources \cup {NoSource}]
        /\ \A t \in Walkers : next'[t] = "idle"
    BY <1>6 DEF AgentTypes
  <2>5. QED BY <1>4, <2>2, <2>3, <2>4 DEF AgentTypes
<1>7. QED BY <1>1, <1>5, <1>6

LEMMA LockedStepTypes ==
  ASSUME AgentTypes, NEW s \in Sources, LockedStep(s)
  PROVE  AgentTypes'
<1>1. s \in Agents /\ s \notin Walkers
  BY BlockerAssumption DEF Agents
<1>2. \/ Return(s)
      \/ \E to \in Code, then \in {"idle", "cancel", "arm", "load"} :
           /\ code' = [code EXCEPT ![s] = to] /\ UNCHANGED <<reg, cur>>
           /\ next' = next \/ next' = [next EXCEPT ![s] = then]
  <2>1. CASE \/ PmStayAwake(s) \/ PmRelax(s) \/ PmWakeupTimerFn(s)
             \/ \E nonzero \in BOOLEAN : PmWakeupWsEvent(s, nonzero)
    BY <2>1 DEF PmStayAwake, PmRelax, PmWakeupTimerFn, PmWakeupWsEvent, LockedCall, Code
  <2>2. CASE ReportEvent(s) \/ SetActive(s) \/ CountActivation(s)
    BY <2>2 DEF ReportEvent, SetActive, CountActivation, CodeTo, Code, Activation
  <2>3. CASE RegisterEvent(s) \/ CancelTimer(s) \/ ArmTimer(s)
    BY <2>3 DEF RegisterEvent, CancelTimer, ArmTimer
  <2>4. CASE TimerTest(s)
    BY <2>4 DEF TimerTest, CodeTo, Code, Deactivation
  <2>5. QED BY <2>1, <2>2, <2>3, <2>4 DEF LockedStep
<1>3. /\ active' \in [Sources -> BOOLEAN] /\ active_count' \in [Sources -> Counts]
      /\ relax_count' \in [Sources -> Counts]
  <2>1. CASE SetActive(s)
    BY <2>1 DEF SetActive, AgentTypes
  <2>2. CASE CountActivation(s)
    BY <2>2, Plus1Facts DEF CountActivation, AgentTypes
  <2>3. CASE ~SetActive(s) /\ ~CountActivation(s)
    <3>1. UNCHANGED <<active, active_count, relax_count>>
      BY <2>3 DEF LockedStep, PmStayAwake, PmRelax, PmWakeupWsEvent, PmWakeupTimerFn,
                  LockedCall, ReportEvent, RegisterEvent, CancelTimer, ArmTimer, TimerTest,
                  fieldVars
    <3>2. QED BY <3>1 DEF AgentTypes
  <2>4. QED BY <2>1, <2>2, <2>3
<1>4. CASE Return(s)
  BY <1>1, <1>3, <1>4, TypesReturn DEF AgentTypes
<1>5. ASSUME NEW to \in Code, NEW then \in {"idle", "cancel", "arm", "load"},
             code' = [code EXCEPT ![s] = to], UNCHANGED <<reg, cur>>,
             next' = next \/ next' = [next EXCEPT ![s] = then]
      PROVE  AgentTypes'
  <2>1. /\ code' \in [Agents -> Code]
        /\ \A t \in Walkers :
             /\ code'[t] \in {"idle", "search", "active?"} \cup Deactivation
             /\ code'[t] = "idle" <=> cur'[t] = NoSource
    BY <1>1, <1>5, TypesTo
  <2>2. next' \in [Agents -> {"idle", "cancel", "arm", "load"}]
    BY <1>5 DEF AgentTypes
  <2>3. \A t \in Walkers : next'[t] = next[t]
    BY <1>1, <1>5 DEF AgentTypes, Agents
  <2>4. QED BY <1>3, <1>5, <2>1, <2>2, <2>3 DEF AgentTypes
<1>6. QED BY <1>2, <1>4, <1>5

LEMMA WalkVisitTypes ==
  ASSUME AgentTypes, NEW t \in Walkers, NEW s \in Sources, WalkVisit(t, s)
  PROVE  AgentTypes'
<1>1. t \in Agents /\ s # NoSource /\ "search" \in Code
  BY BlockerAssumption DEF Agents, Code
<1>2. UNCHANGED <<next, reg, active, active_count, relax_count>>
  BY DEF WalkVisit, fieldVars
<1>3. CASE active[s]
  <2>1. code' = [code EXCEPT ![t] = "search"] /\ cur' = [cur EXCEPT ![t] = s]
    BY <1>3 DEF WalkVisit
  <2>2. code' \in [Agents -> Code] /\ cur' \in [Walkers -> Sources \cup {NoSource}]
    BY <1>1, <2>1 DEF AgentTypes
  <2>3. ASSUME NEW u \in Walkers
        PROVE  /\ code'[u] \in {"idle", "search", "active?"} \cup Deactivation
               /\ code'[u] = "idle" <=> cur'[u] = NoSource
    BY <1>1, <2>1 DEF AgentTypes, Agents
  <2>4. QED BY <1>2, <2>2, <2>3 DEF AgentTypes
<1>4. CASE ~active[s]
  <2>1. UNCHANGED <<code, cur>>
    BY <1>4 DEF WalkVisit
  <2>2. QED BY <1>2, <2>1 DEF AgentTypes
<1>5. QED BY <1>3, <1>4

(* A step is taken by one agent.                                            *)
OnlyBy(a) == \A b \in Agents : b # a => code'[b] = code[b] /\ reg'[b] = reg[b] /\ Of(b)' = Of(b)

LEMMA StepOfOne ==
  ASSUME AgentTypes, NEW a \in Agents,
         \/ Return(a)
         \/ /\ \E to \in Code : code' = [code EXCEPT ![a] = to]
            /\ reg' = reg \/ reg' = [reg EXCEPT ![a] = relax_count[Of(a)]]
            /\ UNCHANGED cur
  PROVE  OnlyBy(a) /\ Of(a)' \in {Of(a), NoSource}
<1>1. CASE Return(a)
  <2>1. /\ code' = [code EXCEPT ![a] = next[a]] /\ reg' = [reg EXCEPT ![a] = 0]
        /\ cur' = IF a \in Walkers THEN [cur EXCEPT ![a] = NoSource] ELSE cur
    BY <1>1 DEF Return
  <2>2. QED BY <2>1 DEF OnlyBy, AgentTypes, Of, Agents
<1>2. CASE ~Return(a)
  <2>1. PICK to \in Code : code' = [code EXCEPT ![a] = to]
    BY <1>2
  <2>2. QED BY <1>2, <2>1 DEF OnlyBy, AgentTypes, Of
<1>3. QED BY <1>1, <1>2

LEMMA AgentStepAgrees ==
  ASSUME AgentTypes, AgentTypes', Agreed, NEW a \in Agents, AgentStep(a)
  PROVE  Agreed'
<1> SUFFICES ASSUME NEW s \in Sources \ overlapped'
             PROVE  \E U \in Counts : AgreeOn(s, U)'
  BY DEF Agreed
<1>1. s \notin overlapped
  BY DEF AgentStep, CheckForBlock, RelaxIfActive, RelaxLoad, RelaxStore, RelaxCompare,
         RelaxLower, SetInactive, ClearTimer, AccountEvent
<1>2. PICK T \in Counts : AgreeOn(s, T)
  BY <1>1 DEF Agreed
<1>3. OnlyBy(a) /\ Of(a)' \in {Of(a), NoSource}
  <2>1. \/ Return(a)
        \/ /\ \E to \in Code : code' = [code EXCEPT ![a] = to]
           /\ reg' = reg \/ reg' = [reg EXCEPT ![a] = relax_count[Of(a)]]
           /\ UNCHANGED cur
    BY DEF AgentStep, CheckForBlock, RelaxIfActive, RelaxLoad, RelaxStore, RelaxCompare,
           RelaxLower, SetInactive, ClearTimer, AccountEvent, CodeTo, Code, Deactivation,
           Activation
  <2>2. QED BY <2>1, StepOfOne
<1>4. CASE Of(a) # s
  <2>1. /\ relax_count'[s] = relax_count[s] /\ active_count'[s] = active_count[s]
        /\ active'[s] = active[s]
    BY <1>4 DEF AgentStep, CheckForBlock, RelaxIfActive, RelaxLoad, RelaxStore, RelaxCompare,
                RelaxLower, SetInactive, ClearTimer, AccountEvent, fieldVars, AgentTypes
  <2>2. Of(a)' # s
    BY <1>3, <1>4, BlockerAssumption
  <2>3. AgreeOn(s, T)'
    BY <1>2, <1>3, <1>4, <2>1, <2>2, Elsewhere DEF OnlyBy
  <2>4. QED BY <2>3
<1>5. CASE Of(a) = s
  <2>1. CASE RelaxLoad(a)
    BY <1>2, <1>5, <2>1, LoadAgrees
  <2>2. CASE RelaxStore(a)
    BY <1>2, <1>5, <2>2, StoreAgrees
  <2>3. CASE RelaxCompare(a)
    BY <1>2, <1>5, <2>3, CompareAgrees
  <2>4. CASE RelaxLower(a)
    BY <1>2, <1>5, <2>4, LowerAgrees
  <2>5. CASE SetInactive(a)
    BY <1>2, <1>5, <2>5, OffAgrees
  <2>6. CASE CheckForBlock(a) \/ RelaxIfActive(a) \/ ClearTimer(a) \/ AccountEvent(a)
    <3>1. UNCHANGED <<active, active_count, relax_count>>
      BY <2>6 DEF CheckForBlock, RelaxIfActive, ClearTimer, AccountEvent, fieldVars
    <3>2. code[a] \notin Special
      BY <2>6 DEF CheckForBlock, RelaxIfActive, ClearTimer, AccountEvent, Special, Raising
    <3>3. code'[a] \notin Special
      BY <2>6 DEF CheckForBlock, RelaxIfActive, ClearTimer, AccountEvent, CodeTo, Return,
                  Special, Raising, AgentTypes
    <3>4. AgreeOn(s, T)'
      BY <1>2, <1>3, <3>1, <3>2, <3>3, Elsewhere DEF OnlyBy
    <3>5. QED BY <3>4
  <2>7. QED BY <2>1, <2>2, <2>3, <2>4, <2>5, <2>6 DEF AgentStep
<1>6. QED BY <1>4, <1>5

LEMMA LockedStepAgrees ==
  ASSUME AgentTypes, Agreed, NEW a \in Sources, LockedStep(a)
  PROVE  Agreed'
<1> SUFFICES ASSUME NEW s \in Sources \ overlapped'
             PROVE  \E U \in Counts : AgreeOn(s, U)'
  BY DEF Agreed
<1>1. s \notin overlapped
  BY DEF LockedStep, PmStayAwake, PmRelax, PmWakeupWsEvent, PmWakeupTimerFn, LockedCall,
         ReportEvent, SetActive, CountActivation, RegisterEvent, CancelTimer, ArmTimer, TimerTest
<1>2. PICK T \in Counts : AgreeOn(s, T)
  BY <1>1 DEF Agreed
<1>3. a \in Agents /\ Of(a) = a /\ Of(a)' = a
  BY DEF Agents, Of
<1>4. OnlyBy(a)
  <2>1. \/ Return(a)
        \/ /\ \E to \in Code : code' = [code EXCEPT ![a] = to]
           /\ reg' = reg \/ reg' = [reg EXCEPT ![a] = relax_count[Of(a)]]
           /\ UNCHANGED cur
    BY DEF LockedStep, PmStayAwake, PmRelax, PmWakeupWsEvent, PmWakeupTimerFn, LockedCall,
           ReportEvent, SetActive, CountActivation, RegisterEvent, CancelTimer, ArmTimer,
           TimerTest, CodeTo, Code, Activation, Deactivation
  <2>2. QED BY <1>3, <2>1, StepOfOne
<1>5. CASE a # s
  <2>1. /\ relax_count'[s] = relax_count[s] /\ active_count'[s] = active_count[s]
        /\ active'[s] = active[s]
    BY <1>5 DEF LockedStep, PmStayAwake, PmRelax, PmWakeupWsEvent, PmWakeupTimerFn, LockedCall,
                ReportEvent, SetActive, CountActivation, RegisterEvent, CancelTimer, ArmTimer,
                TimerTest, fieldVars, AgentTypes
  <2>2. AgreeOn(s, T)'
    BY <1>2, <1>3, <1>4, <1>5, <2>1, Elsewhere DEF OnlyBy
  <2>3. QED BY <2>2
<1>6. CASE a = s
  <2>1. CASE SetActive(a)
    BY <1>2, <1>6, <2>1, SetAgrees
  <2>2. CASE CountActivation(a)
    BY <1>2, <1>6, <2>2, CountAgrees
  <2>3. CASE ReportEvent(a) /\ ~active[a]
    BY <1>2, <1>6, <2>3, ReportAgrees
  <2>4. CASE /\ ~SetActive(a) /\ ~CountActivation(a)
             /\ ~(ReportEvent(a) /\ ~active[a])
    <3>1. UNCHANGED <<active, active_count, relax_count>>
      BY <2>4 DEF LockedStep, PmStayAwake, PmRelax, PmWakeupWsEvent, PmWakeupTimerFn,
                  LockedCall, ReportEvent, RegisterEvent, CancelTimer, ArmTimer, TimerTest,
                  fieldVars
    <3>2. code[a] \notin Special
      BY <2>4 DEF LockedStep, PmStayAwake, PmRelax, PmWakeupWsEvent, PmWakeupTimerFn,
                  LockedCall, ReportEvent, RegisterEvent, CancelTimer, ArmTimer, TimerTest,
                  Special, Raising
    <3>3. code'[a] \notin Special
      BY <1>3, <2>4 DEF LockedStep, PmStayAwake, PmRelax, PmWakeupWsEvent, PmWakeupTimerFn,
                  LockedCall, ReportEvent, RegisterEvent, CancelTimer, ArmTimer, TimerTest,
                  CodeTo, Return, Special, Raising, AgentTypes
    <3>4. AgreeOn(s, T)'
      BY <1>2, <1>3, <1>4, <3>1, <3>2, <3>3, Elsewhere DEF OnlyBy
    <3>5. QED BY <3>4
  <2>5. QED BY <2>1, <2>2, <2>3, <2>4
<1>7. QED BY <1>5, <1>6

LEMMA WalkVisitAgrees ==
  ASSUME AgentTypes, Agreed, NEW t \in Walkers, NEW r \in Sources, WalkVisit(t, r)
  PROVE  Agreed'
<1> SUFFICES ASSUME NEW s \in Sources \ overlapped'
             PROVE  \E U \in Counts : AgreeOn(s, U)'
  BY DEF Agreed
<1>1. s \notin overlapped /\ t \in Agents /\ t \notin Sources
  BY BlockerAssumption DEF WalkVisit, Agents
<1>2. PICK T \in Counts : AgreeOn(s, T)
  BY <1>1 DEF Agreed
<1>3. /\ code[t] = "idle" /\ UNCHANGED <<reg, active, active_count, relax_count>>
      /\ \/ UNCHANGED <<code, cur>>
         \/ code' = [code EXCEPT ![t] = "search"] /\ cur' = [cur EXCEPT ![t] = r]
  BY DEF WalkVisit, fieldVars
<1>4. OnlyBy(t)
  BY <1>1, <1>3 DEF OnlyBy, AgentTypes, Of, Agents
<1>5. code[t] \notin Special /\ code'[t] \notin Special
  BY <1>1, <1>3 DEF Special, Raising, AgentTypes
<1>6. AgreeOn(s, T)'
  BY <1>1, <1>2, <1>3, <1>4, <1>5, Elsewhere DEF OnlyBy
<1>7. QED BY <1>6

LEMMA EvenStill ==
  ASSUME EvenInv, UNCHANGED <<fieldVars, agentVars, overlapped>>
  PROVE  EvenInv'
<1>1. UNCHANGED <<active, active_count, relax_count, code, next, reg, cur, overlapped>>
  BY DEF fieldVars, agentVars
<1>2. AgentTypes'
  BY <1>1 DEF EvenInv, AgentTypes
<1>3. ASSUME NEW s \in Sources, NEW T \in Counts, AgreeOn(s, T)
      PROVE  AgreeOn(s, T)'
  BY <1>1, <1>3 DEF AgreeOn, PendingAt, Of
<1>4. Agreed'
  BY <1>1, <1>3 DEF EvenInv, Agreed
<1>5. QED BY <1>2, <1>4 DEF EvenInv

LEMMA EvenStep ==
  ASSUME EvenInv, [BlockerNext]_wbvars
  PROVE  EvenInv'
<1>1. ASSUME NEW a \in Agents, AgentStep(a)
      PROVE  EvenInv'
  BY <1>1, AgentStepTypes, AgentStepAgrees DEF EvenInv
<1>2. ASSUME NEW s \in Sources, LockedStep(s)
      PROVE  EvenInv'
  BY <1>2, LockedStepTypes, LockedStepAgrees DEF EvenInv
<1>3. ASSUME NEW t \in Walkers, TaskStep(t)
      PROVE  EvenInv'
  <2>1. CASE \E s \in Sources : WalkVisit(t, s)
    BY <2>1, WalkVisitTypes, WalkVisitAgrees DEF EvenInv
  <2>2. CASE ~\E s \in Sources : WalkVisit(t, s)
    <3>1. UNCHANGED <<fieldVars, agentVars, overlapped>>
      BY <1>3, <2>2 DEF TaskStep, WalkEnd, GetWakeupCount, CheckInProgress, ReadCount, taskOnly
    <3>2. QED BY <3>1, EvenStill
  <2>3. QED BY <2>1, <2>2
<1>4. ASSUME PowerStep
      PROVE  EvenInv'
  <2>1. UNCHANGED <<fieldVars, agentVars, overlapped>>
    BY <1>4 DEF PowerStep, SaveDisable, SaveCompare, SaveReturn, SuspendStart, PmWakeupPending,
                Resume, taskOnly
  <2>2. QED BY <2>1, EvenStill
<1>5. ASSUME BuildSearchString \/ \E list \in SUBSET Sources : SearchStringBuilt(list)
      PROVE  EvenInv'
  <2>1. UNCHANGED <<fieldVars, agentVars, overlapped>>
    BY <1>5 DEF BuildSearchString, SearchStringBuilt
  <2>2. QED BY <2>1, EvenStill
<1>6. ASSUME UNCHANGED wbvars
      PROVE  EvenInv'
  BY <1>6, EvenStill DEF wbvars
<1>7. QED BY <1>1, <1>2, <1>3, <1>4, <1>5, <1>6 DEF BlockerNext

LEMMA EvenInit ==
  BlockerInit => EvenInv
<1>1. SUFFICES ASSUME BlockerInit PROVE EvenInv
  OBVIOUS
<1>2. 0 \in Counts
  BY BlockerAssumption DEF Counts
<1>3. AgentTypes
  <2>1. /\ code \in [Agents -> Code]
        /\ next \in [Agents -> {"idle", "cancel", "arm", "load"}]
        /\ reg \in [Agents -> Counts]
        /\ cur \in [Walkers -> Sources \cup {NoSource}]
    BY <1>1, <1>2 DEF BlockerInit, Code
  <2>2. /\ active \in [Sources -> BOOLEAN] /\ active_count \in [Sources -> Counts]
        /\ relax_count \in [Sources -> Counts]
    BY <1>1, <1>2 DEF BlockerInit
  <2>3. \A t \in Walkers : next[t] = "idle" /\ code[t] = "idle" /\ cur[t] = NoSource
    BY <1>1 DEF BlockerInit, Agents
  <2>4. QED BY <2>1, <2>2, <2>3 DEF AgentTypes
<1>4. ASSUME NEW s \in Sources
      PROVE  AgreeOn(s, 0)
  <2>1. \A a \in Agents : code[a] = "idle"
    BY <1>1 DEF BlockerInit
  <2>2. active[s] = FALSE /\ active_count[s] = 0 /\ relax_count[s] = 0
    BY <1>1 DEF BlockerInit
  <2>3. code[s] = "idle" /\ ~PendingAt(s)
    BY <2>1 DEF PendingAt, Agents
  <2>4. QED BY <2>1, <2>2, <2>3 DEF AgreeOn, Raising
<1>5. QED BY <1>2, <1>3, <1>4 DEF EvenInv, Agreed

(* Nobody at s has anything pending there.                                  *)
LEMMA NobodyAt ==
  ASSUME AgentTypes, NEW s \in Sources, AtRest(s)
  PROVE  \A a \in Agents : Of(a) = s => code[a] = "idle"
BY DEF AtRest, Of, Agents

LEMMA EvenAtRest ==
  ASSUME EvenInv, NEW s \in Sources \ overlapped, AtRest(s)
  PROVE  Even(s)
<1>1. PICK T \in Counts : AgreeOn(s, T)
  BY DEF EvenInv, Agreed
<1>2. \A a \in Agents : Of(a) = s => code[a] = "idle"
  BY NobodyAt DEF EvenInv
<1>3. relax_count[s] = T /\ ~PendingAt(s)
  BY <1>1, <1>2 DEF AgreeOn, PendingAt, AtRest
<1>4. QED BY <1>1, <1>3 DEF AgreeOn, Even

-----------------------------------------------------------------------------
(* WakelockBlocker, the events in progress: up to the wrap of the low half  *)
(* they are the active sources, less those that are active and not yet      *)
(* counted, plus those that are not active and still counted.               *)
Inside == {s \in Sources : code[s] \in {"count", "register"}}
Leaving == {a \in Agents : code[a] \in {"clear", "account"}}
Multiples == {q * Modulus : q \in Int}

Balance ==
  overlapped = {} =>
    \E K \in Multiples : combined_event_count.inpr + Cardinality(Inside)
                           = (Cardinality(ActiveSet) + Cardinality(Leaving)) + K

CountInv == EvenInv /\ combined_event_count \in Counter /\ Balance

LEMMA MultiplesFacts ==
  /\ Multiples \subseteq Int /\ 0 \in Multiples
  /\ \A K \in Multiples : K + Modulus \in Multiples /\ K - Modulus \in Multiples
  /\ \A K \in Multiples : K < Modulus /\ -Modulus < K => K = 0
<1>1. Modulus \in Nat /\ Modulus > 1
  BY ModulusAssumption
<1>2. Multiples \subseteq Int /\ 0 \in Multiples
  <2>1. 0 = 0 * Modulus /\ \A q \in Int : q * Modulus \in Int
    BY <1>1
  <2>2. QED BY <2>1 DEF Multiples
<1>3. ASSUME NEW K \in Multiples
      PROVE  /\ K + Modulus \in Multiples /\ K - Modulus \in Multiples
             /\ K < Modulus /\ -Modulus < K => K = 0
  <2>1. PICK q \in Int : K = q * Modulus
    BY DEF Multiples
  <2>2. K + Modulus = (q + 1) * Modulus /\ K - Modulus = (q - 1) * Modulus
    BY <1>1, <2>1
  <2>3. q + 1 \in Int /\ q - 1 \in Int
    OBVIOUS
  <2>4. K + Modulus \in Multiples /\ K - Modulus \in Multiples
    BY <2>2, <2>3 DEF Multiples
  <2>5. q >= 1 => K >= Modulus
    BY <1>1, <2>1
  <2>6. q <= -1 => K <= -Modulus
    BY <1>1, <2>1
  <2>7. q = 0 => K = 0
    BY <1>1, <2>1
  <2>8. K \in Int
    BY <1>2
  <2>9. QED BY <1>1, <2>4, <2>5, <2>6, <2>7, <2>8
<1>4. QED BY <1>2, <1>3

LEMMA AgentSets ==
  /\ IsFiniteSet(Sources) /\ IsFiniteSet(Agents)
  /\ IsFiniteSet(Inside) /\ IsFiniteSet(Leaving) /\ IsFiniteSet(ActiveSet)
  /\ Cardinality(Inside) \in Nat /\ Cardinality(Leaving) \in Nat
  /\ Cardinality(ActiveSet) \in Nat /\ Cardinality(ActiveSet) < Modulus
<1>1. IsFiniteSet(Sources) /\ IsFiniteSet(Readers) /\ Cardinality(Sources) < Modulus
  BY BlockerAssumption
<1>2. IsFiniteSet({Suspender})
  BY FS_Singleton
<1>3. IsFiniteSet(Walkers)
  BY <1>1, <1>2, FS_Union DEF Walkers
<1>4. IsFiniteSet(Agents)
  BY <1>1, <1>3, FS_Union DEF Agents
<1>5. Inside \subseteq Sources /\ Leaving \subseteq Agents /\ ActiveSet \subseteq Sources
  BY DEF Inside, Leaving, ActiveSet
<1>6. /\ IsFiniteSet(Inside) /\ IsFiniteSet(Leaving) /\ IsFiniteSet(ActiveSet)
      /\ Cardinality(ActiveSet) <= Cardinality(Sources)
  BY <1>1, <1>4, <1>5, FS_Subset
<1>7. /\ Cardinality(Inside) \in Nat /\ Cardinality(Leaving) \in Nat
      /\ Cardinality(ActiveSet) \in Nat /\ Cardinality(Sources) \in Nat
  BY <1>1, <1>6, FS_CardinalityType
<1>8. Cardinality(ActiveSet) < Modulus
  BY <1>1, <1>6, <1>7, ModulusAssumption
<1>9. QED BY <1>1, <1>4, <1>6, <1>7, <1>8

LEMMA PlusOne ==
  ASSUME NEW S, IsFiniteSet(S), NEW x, x \notin S
  PROVE  Cardinality(S \cup {x}) = Cardinality(S) + 1
BY FS_AddElement

LEMMA LessOne ==
  ASSUME NEW S, IsFiniteSet(S), NEW x, x \in S
  PROVE  Cardinality(S \ {x}) = Cardinality(S) - 1
BY FS_RemoveElement

(* What a step of agent a does to the two sets.                              *)
LEMMA SetsBy ==
  ASSUME NEW a \in Agents, OnlyBy(a)
  PROVE  /\ Inside' = IF a \in Sources /\ code'[a] \in {"count", "register"}
                        THEN Inside \cup {a} ELSE Inside \ {a}
         /\ Leaving' = IF code'[a] \in {"clear", "account"}
                         THEN Leaving \cup {a} ELSE Leaving \ {a}
<1>1. Sources \subseteq Agents
  BY DEF Agents
<1>2. Inside' = IF a \in Sources /\ code'[a] \in {"count", "register"}
                  THEN Inside \cup {a} ELSE Inside \ {a}
  BY <1>1 DEF Inside, OnlyBy
<1>3. Leaving' = IF code'[a] \in {"clear", "account"}
                   THEN Leaving \cup {a} ELSE Leaving \ {a}
  BY DEF Leaving, OnlyBy
<1>4. QED BY <1>2, <1>3

LEMMA BalanceStill ==
  ASSUME Balance, UNCHANGED combined_event_count, overlapped' = {} => overlapped = {},
         Inside' = Inside, Leaving' = Leaving, ActiveSet' = ActiveSet
  PROVE  Balance'
BY DEF Balance

LEMMA SetBalances ==
  ASSUME CountInv, NEW s \in Sources, SetActive(s)
  PROVE  Balance'
<1> SUFFICES ASSUME overlapped' = {}
             PROVE  Balance'
  BY DEF Balance
<1>1. /\ code[s] = "set" /\ code' = [code EXCEPT ![s] = "count"]
      /\ active' = [active EXCEPT ![s] = TRUE]
      /\ UNCHANGED <<reg, cur, overlapped, combined_event_count>>
  BY DEF SetActive, CodeTo, counted
<1>2. ~active[s]
  BY <1>1 DEF CountInv, EvenInv, Agreed, AgreeOn
<1>3. s \in Agents /\ code'[s] = "count" /\ OnlyBy(s)
  BY <1>1 DEF Agents, OnlyBy, Of, CountInv, EvenInv, AgentTypes
<1>4. Inside' = Inside \cup {s} /\ s \notin Inside
  BY <1>1, <1>3, SetsBy DEF Inside
<1>5. Leaving' = Leaving
  BY <1>1, <1>3, SetsBy DEF Leaving
<1>6. ActiveSet' = ActiveSet \cup {s} /\ s \notin ActiveSet
  BY <1>1, <1>2 DEF ActiveSet, CountInv, EvenInv, AgentTypes
<1>7. /\ Cardinality(Inside') = Cardinality(Inside) + 1
      /\ Cardinality(ActiveSet') = Cardinality(ActiveSet) + 1
  BY <1>4, <1>6, AgentSets, PlusOne
<1>8. PICK K \in Multiples : combined_event_count.inpr + Cardinality(Inside)
                               = (Cardinality(ActiveSet) + Cardinality(Leaving)) + K
  BY <1>1 DEF CountInv, Balance
<1>9. combined_event_count'.inpr + Cardinality(Inside')
        = (Cardinality(ActiveSet') + Cardinality(Leaving')) + K
  <2>1. combined_event_count.inpr \in Int /\ K \in Int
    BY MultiplesFacts DEF CountInv, Counter
  <2>2. QED BY <1>1, <1>5, <1>7, <1>8, <2>1, AgentSets
<1>10. QED BY <1>9 DEF Balance

LEMMA RegisterBalances ==
  ASSUME CountInv, NEW s \in Sources, RegisterEvent(s)
  PROVE  Balance'
<1> SUFFICES ASSUME overlapped' = {}
             PROVE  Balance'
  BY DEF Balance
<1>1. /\ code[s] = "register" /\ Return(s) /\ UNCHANGED <<active, overlapped>>
      /\ combined_event_count' = IncCounter(combined_event_count)
  BY DEF RegisterEvent, fieldVars
<1>2. s \in Agents /\ OnlyBy(s)
  BY <1>1, StepOfOne DEF Agents, CountInv, EvenInv
<1>3. code'[s] \in {"idle", "cancel", "arm", "load"}
  BY <1>1, <1>2 DEF Return, CountInv, EvenInv, AgentTypes
<1>4. Inside' = Inside \ {s} /\ s \in Inside
  BY <1>1, <1>2, <1>3, SetsBy DEF Inside
<1>5. Leaving' = Leaving /\ ActiveSet' = ActiveSet
  BY <1>1, <1>2, <1>3, SetsBy DEF Leaving, ActiveSet
<1>6. Cardinality(Inside') = Cardinality(Inside) - 1
  BY <1>4, AgentSets, LessOne
<1>7. PICK K \in Multiples : combined_event_count.inpr + Cardinality(Inside)
                               = (Cardinality(ActiveSet) + Cardinality(Leaving)) + K
  BY <1>1 DEF CountInv, Balance
<1>8. PICK c : c = combined_event_count
  OBVIOUS
<1>9. combined_event_count'.inpr = IF c.inpr = Modulus - 1 THEN 0 ELSE c.inpr + 1
  <2>1. c \in Counter
    BY <1>8 DEF CountInv
  <2>2. IncCounter(c) = [cnt |-> IF c.inpr = Modulus - 1 THEN Wrap(c.cnt + 1) ELSE c.cnt,
                         inpr |-> IF c.inpr = Modulus - 1 THEN 0 ELSE c.inpr + 1]
    BY <2>1, CounterSteps
  <2>3. QED BY <1>1, <1>8, <2>2
<1>10. \E L \in Multiples : combined_event_count'.inpr + Cardinality(Inside')
                              = (Cardinality(ActiveSet') + Cardinality(Leaving')) + L
  <2>1. c.inpr \in Int /\ K \in Int /\ Modulus \in Int
    BY <1>8, MultiplesFacts, ModulusAssumption DEF CountInv, Counter
  <2>2. CASE c.inpr = Modulus - 1
    <3>1. combined_event_count'.inpr + Cardinality(Inside')
            = (Cardinality(ActiveSet') + Cardinality(Leaving')) + (K - Modulus)
      BY <1>5, <1>6, <1>7, <1>8, <1>9, <2>1, <2>2, AgentSets
    <3>2. QED BY <3>1, MultiplesFacts
  <2>3. CASE c.inpr # Modulus - 1
    <3>1. combined_event_count'.inpr = c.inpr + 1
      BY <1>9, <2>3
    <3>2. combined_event_count'.inpr + Cardinality(Inside') = c.inpr + Cardinality(Inside)
      BY <1>6, <2>1, <3>1, AgentSets
    <3>3. QED BY <1>5, <1>7, <1>8, <3>2
  <2>4. QED BY <2>2, <2>3
<1>11. QED BY <1>10 DEF Balance

LEMMA OffBalances ==
  ASSUME CountInv, NEW a \in Agents, SetInactive(a)
  PROVE  Balance'
<1> SUFFICES ASSUME overlapped' = {}
             PROVE  Balance'
  BY DEF Balance
<1>1. /\ code[a] = "off" /\ code' = [code EXCEPT ![a] = "clear"]
      /\ active' = [active EXCEPT ![Of(a)] = FALSE]
      /\ UNCHANGED <<reg, cur, overlapped, combined_event_count>>
  BY DEF SetInactive, CodeTo, counted
<1>2. Of(a) \in Sources
  BY <1>1, InsideSource DEF CountInv, EvenInv
<1>3. active[Of(a)]
  <2>1. PICK T \in Counts : AgreeOn(Of(a), T)
    BY <1>1, <1>2 DEF CountInv, EvenInv, Agreed
  <2>2. PendingAt(Of(a))
    BY <1>1 DEF PendingAt
  <2>3. QED BY <2>1, <2>2 DEF AgreeOn
<1>4. code'[a] = "clear" /\ OnlyBy(a)
  BY <1>1 DEF OnlyBy, Of, CountInv, EvenInv, AgentTypes
<1>5. Leaving' = Leaving \cup {a} /\ a \notin Leaving
  BY <1>1, <1>4, SetsBy DEF Leaving
<1>6. Inside' = Inside
  BY <1>1, <1>4, SetsBy DEF Inside
<1>7. ActiveSet' = ActiveSet \ {Of(a)} /\ Of(a) \in ActiveSet
  BY <1>1, <1>2, <1>3 DEF ActiveSet, CountInv, EvenInv, AgentTypes
<1>8. /\ Cardinality(Leaving') = Cardinality(Leaving) + 1
      /\ Cardinality(ActiveSet') = Cardinality(ActiveSet) - 1
  BY <1>5, <1>7, AgentSets, PlusOne, LessOne
<1>9. PICK K \in Multiples : combined_event_count.inpr + Cardinality(Inside)
                               = (Cardinality(ActiveSet) + Cardinality(Leaving)) + K
  BY <1>1 DEF CountInv, Balance
<1>10. combined_event_count'.inpr + Cardinality(Inside')
         = (Cardinality(ActiveSet') + Cardinality(Leaving')) + K
  <2>1. combined_event_count.inpr \in Int /\ K \in Int
    BY MultiplesFacts DEF CountInv, Counter
  <2>2. QED BY <1>1, <1>6, <1>8, <1>9, <2>1, AgentSets
<1>11. QED BY <1>10 DEF Balance

LEMMA AccountBalances ==
  ASSUME CountInv, NEW a \in Agents, AccountEvent(a)
  PROVE  Balance'
<1> SUFFICES ASSUME overlapped' = {}
             PROVE  Balance'
  BY DEF Balance
<1>1. /\ code[a] = "account" /\ Return(a) /\ UNCHANGED <<active, overlapped>>
      /\ combined_event_count' = AddMaxInProgress(combined_event_count)
  BY DEF AccountEvent, fieldVars
<1>2. OnlyBy(a)
  BY <1>1, StepOfOne DEF CountInv, EvenInv
<1>3. code'[a] \in {"idle", "cancel", "arm", "load"}
  BY <1>1 DEF Return, CountInv, EvenInv, AgentTypes
<1>4. Leaving' = Leaving \ {a} /\ a \in Leaving
  BY <1>1, <1>2, <1>3, SetsBy DEF Leaving
<1>5. Inside' = Inside /\ ActiveSet' = ActiveSet
  BY <1>1, <1>2, <1>3, SetsBy DEF Inside, ActiveSet
<1>6. Cardinality(Leaving') = Cardinality(Leaving) - 1
  BY <1>4, AgentSets, LessOne
<1>7. PICK K \in Multiples : combined_event_count.inpr + Cardinality(Inside)
                               = (Cardinality(ActiveSet) + Cardinality(Leaving)) + K
  BY <1>1 DEF CountInv, Balance
<1>8. PICK c : c = combined_event_count
  OBVIOUS
<1>9. combined_event_count'.inpr = IF c.inpr = 0 THEN Modulus - 1 ELSE c.inpr - 1
  <2>1. c \in Counter
    BY <1>8 DEF CountInv
  <2>2. AddMaxInProgress(c) = [cnt |-> IF c.inpr = 0 THEN c.cnt ELSE Wrap(c.cnt + 1),
                               inpr |-> IF c.inpr = 0 THEN Modulus - 1 ELSE c.inpr - 1]
    BY <2>1, CounterSteps
  <2>3. QED BY <1>1, <1>8, <2>2
<1>10. \E L \in Multiples : combined_event_count'.inpr + Cardinality(Inside')
                              = (Cardinality(ActiveSet') + Cardinality(Leaving')) + L
  <2>1. c.inpr \in Int /\ K \in Int /\ Modulus \in Int
    BY <1>8, MultiplesFacts, ModulusAssumption DEF CountInv, Counter
  <2>2. CASE c.inpr = 0
    <3>1. combined_event_count'.inpr + Cardinality(Inside')
            = (Cardinality(ActiveSet') + Cardinality(Leaving')) + (K + Modulus)
      BY <1>5, <1>6, <1>7, <1>8, <1>9, <2>1, <2>2, AgentSets
    <3>2. QED BY <3>1, MultiplesFacts
  <2>3. CASE c.inpr # 0
    <3>1. combined_event_count'.inpr + Cardinality(Inside')
            = (Cardinality(ActiveSet') + Cardinality(Leaving')) + K
      BY <1>5, <1>6, <1>7, <1>8, <1>9, <2>1, <2>3, AgentSets
    <3>2. QED BY <3>1
  <2>4. QED BY <2>2, <2>3
<1>11. QED BY <1>10 DEF Balance

LEMMA AgentStepBalances ==
  ASSUME CountInv, NEW a \in Agents, AgentStep(a), ~SetInactive(a), ~AccountEvent(a)
  PROVE  Balance'
<1>1. UNCHANGED <<active, combined_event_count>> /\ (overlapped' = {} => overlapped = {})
  BY DEF AgentStep, CheckForBlock, RelaxIfActive, RelaxLoad, RelaxStore, RelaxCompare,
         RelaxLower, ClearTimer, fieldVars, counted
<1>2. OnlyBy(a)
  <2>1. \/ Return(a)
        \/ /\ \E to \in Code : code' = [code EXCEPT ![a] = to]
           /\ reg' = reg \/ reg' = [reg EXCEPT ![a] = relax_count[Of(a)]]
           /\ UNCHANGED cur
    BY DEF AgentStep, CheckForBlock, RelaxIfActive, RelaxLoad, RelaxStore, RelaxCompare,
           RelaxLower, ClearTimer, CodeTo, Code, Deactivation, Activation
  <2>2. QED BY <2>1, StepOfOne DEF CountInv, EvenInv
<1>3. /\ code[a] \notin {"count", "register"} /\ code'[a] \notin {"count", "register"}
      /\ code[a] \in {"clear", "account"} <=> code'[a] \in {"clear", "account"}
  BY DEF AgentStep, CheckForBlock, RelaxIfActive, RelaxLoad, RelaxStore, RelaxCompare,
         RelaxLower, ClearTimer, CodeTo, Return, CountInv, EvenInv, AgentTypes
<1>4. Inside' = Inside /\ Leaving' = Leaving
  BY <1>2, <1>3, SetsBy DEF Inside, Leaving
<1>5. ActiveSet' = ActiveSet
  BY <1>1 DEF ActiveSet
<1>6. QED BY <1>1, <1>4, <1>5, BalanceStill DEF CountInv

LEMMA LockedStepBalances ==
  ASSUME CountInv, NEW s \in Sources, LockedStep(s), ~SetActive(s), ~RegisterEvent(s)
  PROVE  Balance'
<1>1. UNCHANGED <<active, combined_event_count, overlapped>>
  BY DEF LockedStep, PmStayAwake, PmRelax, PmWakeupWsEvent, PmWakeupTimerFn, LockedCall,
         ReportEvent, CountActivation, CancelTimer, ArmTimer, TimerTest, fieldVars, counted
<1>2. s \in Agents /\ OnlyBy(s)
  <2>1. \/ Return(s)
        \/ /\ \E to \in Code : code' = [code EXCEPT ![s] = to]
           /\ reg' = reg \/ reg' = [reg EXCEPT ![s] = relax_count[Of(s)]]
           /\ UNCHANGED cur
    BY DEF LockedStep, PmStayAwake, PmRelax, PmWakeupWsEvent, PmWakeupTimerFn, LockedCall,
           ReportEvent, CountActivation, CancelTimer, ArmTimer, TimerTest, CodeTo, Code,
           Deactivation, Activation
  <2>2. QED BY <2>1, StepOfOne DEF CountInv, EvenInv, Agents
<1>3. /\ code[s] \in {"count", "register"} <=> code'[s] \in {"count", "register"}
      /\ code[s] \notin {"clear", "account"} /\ code'[s] \notin {"clear", "account"}
  BY <1>2 DEF LockedStep, PmStayAwake, PmRelax, PmWakeupWsEvent, PmWakeupTimerFn, LockedCall,
         ReportEvent, CountActivation, CancelTimer, ArmTimer, TimerTest, CodeTo, Return,
         CountInv, EvenInv, AgentTypes
<1>4. Inside' = Inside /\ Leaving' = Leaving
  BY <1>2, <1>3, SetsBy DEF Inside, Leaving
<1>5. ActiveSet' = ActiveSet
  BY <1>1 DEF ActiveSet
<1>6. QED BY <1>1, <1>4, <1>5, BalanceStill DEF CountInv

LEMMA WalkVisitBalances ==
  ASSUME CountInv, NEW t \in Walkers, NEW r \in Sources, WalkVisit(t, r)
  PROVE  Balance'
<1>1. /\ UNCHANGED <<active, combined_event_count, overlapped, reg>>
      /\ \/ UNCHANGED <<code, cur>>
         \/ code' = [code EXCEPT ![t] = "search"] /\ code[t] = "idle"
  BY DEF WalkVisit, fieldVars, counted
<1>2. t \in Agents /\ t \notin Sources
  BY BlockerAssumption DEF Agents
<1>3. Inside' = Inside /\ Leaving' = Leaving /\ ActiveSet' = ActiveSet
  BY <1>1, <1>2 DEF Inside, Leaving, ActiveSet, CountInv, EvenInv, AgentTypes, Agents
<1>4. QED BY <1>1, <1>3, BalanceStill DEF CountInv

LEMMA CountStill ==
  ASSUME CountInv, UNCHANGED <<fieldVars, agentVars, overlapped, combined_event_count>>
  PROVE  Balance'
<1>1. Inside' = Inside /\ Leaving' = Leaving /\ ActiveSet' = ActiveSet
  BY DEF Inside, Leaving, ActiveSet, fieldVars, agentVars
<1>2. QED BY <1>1, BalanceStill DEF CountInv

LEMMA CountStep ==
  ASSUME CountInv, GateInv', [BlockerNext]_wbvars
  PROVE  CountInv'
<1>1. EvenInv' /\ combined_event_count' \in Counter
  BY EvenStep DEF CountInv, GateInv
<1>2. ASSUME NEW a \in Agents, AgentStep(a)
      PROVE  Balance'
  BY <1>2, OffBalances, AccountBalances, AgentStepBalances
<1>3. ASSUME NEW s \in Sources, LockedStep(s)
      PROVE  Balance'
  BY <1>3, SetBalances, RegisterBalances, LockedStepBalances
<1>4. ASSUME NEW t \in Walkers, TaskStep(t)
      PROVE  Balance'
  <2>1. CASE \E s \in Sources : WalkVisit(t, s)
    BY <2>1, WalkVisitBalances
  <2>2. CASE ~\E s \in Sources : WalkVisit(t, s)
    <3>1. UNCHANGED <<fieldVars, agentVars, overlapped, combined_event_count>>
      BY <1>4, <2>2 DEF TaskStep, WalkEnd, GetWakeupCount, CheckInProgress, ReadCount, taskOnly
    <3>2. QED BY <3>1, CountStill
  <2>3. QED BY <2>1, <2>2
<1>5. ASSUME \/ PowerStep \/ BuildSearchString
             \/ \E list \in SUBSET Sources : SearchStringBuilt(list)
             \/ UNCHANGED wbvars
      PROVE  Balance'
  <2>1. UNCHANGED <<fieldVars, agentVars, overlapped, combined_event_count>>
    BY <1>5 DEF PowerStep, SaveDisable, SaveCompare, SaveReturn, SuspendStart, PmWakeupPending,
                Resume, taskOnly, BuildSearchString, SearchStringBuilt, counted, wbvars
  <2>2. QED BY <2>1, CountStill
<1>6. Balance'
  BY <1>2, <1>3, <1>4, <1>5 DEF BlockerNext
<1>7. QED BY <1>1, <1>6 DEF CountInv

LEMMA CountInit ==
  BlockerInit => CountInv
<1>1. SUFFICES ASSUME BlockerInit PROVE CountInv
  OBVIOUS
<1>2. Inside = {} /\ Leaving = {} /\ ActiveSet = {}
  BY <1>1 DEF BlockerInit, Inside, Leaving, ActiveSet, Agents
<1>3. Cardinality(Inside) = 0 /\ Cardinality(Leaving) = 0 /\ Cardinality(ActiveSet) = 0
  BY <1>2, FS_EmptySet
<1>4. combined_event_count.inpr + Cardinality(Inside)
        = (Cardinality(ActiveSet) + Cardinality(Leaving)) + 0
  BY <1>1, <1>3 DEF BlockerInit
<1>5. Balance
  BY <1>4, MultiplesFacts DEF Balance
<1>6. QED BY <1>1, <1>5, EvenInit, GateInit DEF CountInv, GateInv

(* Nobody inside any source: the low half is the number of active ones.     *)
LEMMA RestExact ==
  ASSUME CountInv, overlapped = {}
  PROVE  InProgressExact
<1> SUFFICES ASSUME \A s \in Sources : AtRest(s)
             PROVE  inprogress = Cardinality(ActiveSet)
  BY DEF InProgressExact
<1>1. \A a \in Agents : code[a] = "idle"
  BY DEF AtRest, CountInv, EvenInv, AgentTypes, Agents
<1>2. Inside = {} /\ Leaving = {}
  BY <1>1 DEF Inside, Leaving, Agents
<1>3. Cardinality(Inside) = 0 /\ Cardinality(Leaving) = 0
  BY <1>2, FS_EmptySet
<1>4. PICK K \in Multiples : combined_event_count.inpr + Cardinality(Inside)
                               = (Cardinality(ActiveSet) + Cardinality(Leaving)) + K
  BY DEF CountInv, Balance
<1>5. combined_event_count.inpr \in 0..(Modulus - 1)
  BY DEF CountInv, Counter
<1>6. combined_event_count.inpr = Cardinality(ActiveSet) + K /\ K \in Int
  BY <1>3, <1>4, <1>5, AgentSets, MultiplesFacts
<1>7. K < Modulus /\ -Modulus < K
  BY <1>5, <1>6, AgentSets, ModulusAssumption
<1>8. K = 0
  BY <1>7, MultiplesFacts
<1>9. QED BY <1>6, <1>8, AgentSets DEF inprogress

(* A kill without the lock does no harm unless it has relax_count raised    *)
(* together with the owner (wakeup_source_deactivate): for any number of    *)
(* sources and readers, the counts of a source of which that never happened *)
(* agree with its state at rest, and if it happened to none the events in   *)
(* progress are the active sources when nobody is inside one.                *)
THEOREM KillsHarmless ==
  BlockerSpec => []ExactUnlessOverlapped
<1>1. CountInv => ExactUnlessOverlapped
  BY EvenAtRest, RestExact DEF ExactUnlessOverlapped, CountInv
<1>2. QED BY <1>1, GateInit, GateStep, CountInit, CountStep, PTL DEF BlockerSpec
=============================================================================
