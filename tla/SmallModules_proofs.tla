------------------------- MODULE SmallModules_proofs -------------------------
(***************************************************************************)
(* Proofs about YieldPenalty, QosInherit, BootLog and FrameMonitor for any *)
(* threads and processes, any tables, rings and limits, buffers of any     *)
(* size and every bound on ids and messages.                                *)
(***************************************************************************)
EXTENDS YieldPenalty, QosInherit, BootLog, FrameMonitor, FiniteSetTheorems, SequenceTheorems,
        WellFoundedInduction, TLAPS

-----------------------------------------------------------------------------
(* YieldPenalty                                                             *)
YieldInv ==
  /\ pc \in [Tids -> {"user", "return", "exit", "gone"}]
  /\ OnlyAppsPenalized

LEMMA YieldNextInv == YieldInv /\ [YieldNext]_yvars => YieldInv'
<1> SUFFICES ASSUME YieldInv, [YieldNext]_yvars PROVE YieldInv'
  OBVIOUS
<1> USE DEF YieldInv, OnlyAppsPenalized
<1>1. ASSUME NEW t \in Tids, BeforeYield(t) PROVE YieldInv'
  BY <1>1 DEF BeforeYield, Penalized
<1>2. ASSUME NEW t \in Tids, DoSleep(t) PROVE YieldInv'
  BY <1>2 DEF DoSleep
<1>3. ASSUME NEW t \in Tids, Kill(t) PROVE YieldInv'
  BY <1>3 DEF Kill
<1>4. ASSUME NEW t \in Tids, NEW isApp \in BOOLEAN, Fork(t, isApp) PROVE YieldInv'
  BY <1>4 DEF Fork
<1>5. ASSUME UNCHANGED <<app, pc>> PROVE YieldInv'
  BY <1>5
<1>6. QED BY <1>1, <1>2, <1>3, <1>4, <1>5
         DEF YieldNext, yvars, TargetPidStore, TargetFpsStore, HeadroomStore, HookTo

(* Only a thread with the uid of an app is ever made to sleep for a yield,  *)
(* whoever gets the tid in target_pid later (sew_penalty_uid_allowed).      *)
THEOREM PenaltyForAppsOnly == YieldSpec => []OnlyAppsPenalized
<1>1. YieldInit => YieldInv
  BY DEF YieldInit, YieldInv, OnlyAppsPenalized
<1>2. YieldInv => OnlyAppsPenalized
  BY DEF YieldInv
<1>3. QED BY <1>1, <1>2, YieldNextInv, PTL DEF YieldSpec

-----------------------------------------------------------------------------
(* QosInherit: what a task will get back is what it asked for, or it has    *)
(* that already.                                                            *)
LoansInv ==
  \A t \in Waiters :
    t \notin overtaken \cup forgotten =>
      /\ \A i \in SlotsOf(t) : hints[i].prev = asked[t]
      /\ SlotsOf(t) = {} => uclamp_req[t] = asked[t]

QosInv == QosTypeOK /\ SlotsHeld /\ LoansInv

LEMMA UsedFinite == IsFiniteSet(Used)
<1>1. IsFiniteSet(HintSlots)
  BY HintAssumption, FS_Interval DEF HintSlots
<1>2. QED BY <1>1, FS_Subset DEF Used

LEMMA QosInitInv == QosInit => QosInv
<1> SUFFICES ASSUME QosInit PROVE QosInv
  OBVIOUS
<1> USE DEF QosInit
<1>1. QosTypeOK
  <2>1. NoHint \in [tid : Waiters \cup {NoTid}, prev : Utils]
    BY DEF NoHint, Utils
  <2>2. asked \in [Waiters -> Utils] /\ uclamp_req \in [Waiters -> Utils]
    BY HintAssumption
  <2>3. hints \in [HintSlots -> [tid : Waiters \cup {NoTid}, prev : Utils]]
    BY <2>1
  <2>4. /\ wait \in [Waiters -> {"out", "start", "waiting", "end"}]
        /\ overtaken \subseteq Waiters /\ forgotten \subseteq Waiters
        /\ hooks \in {"none", "half", "loaded", "half_off", "gone"}
    OBVIOUS
  <2>5. vip_tgid \in Nat /\ hint_min \in Hints /\ active_hints \in Int
    OBVIOUS
  <2>6. QED BY <2>2, <2>3, <2>4, <2>5 DEF QosTypeOK
<1>2. Used = {} /\ \A t \in Waiters : SlotsOf(t) = {}
  BY HintAssumption DEF Used, SlotsOf, NoHint
<1>3. SlotsHeld
  BY <1>2, FS_EmptySet DEF SlotsHeld
<1>4. LoansInv
  BY <1>2 DEF LoansInv
<1>5. QED BY <1>1, <1>3, <1>4 DEF QosInv

(* A step that changes neither the table nor a clamp                        *)
LEMMA TableStillInv ==
  ASSUME QosInv, QosTypeOK', UNCHANGED <<table, asked, overtaken>>,
         \A t \in Waiters : t \in forgotten => t \in forgotten',
         \A t \in Waiters : t \notin forgotten' /\ SlotsOf(t) # {}
                              => wait'[t] \in {"waiting", "end"}
  PROVE  QosInv'
<1>1. Used' = Used /\ \A t : SlotsOf(t)' = SlotsOf(t)
  BY DEF Used, SlotsOf, table
<1>2. SlotsHeld'
  <2>1. ASSUME NEW i \in Used'
        PROVE  wait'[hints'[i].tid] \in {"waiting", "end"} \/ hints'[i].tid \in forgotten'
    <3>1. hints'[i] = hints[i] /\ hints[i].tid \in Waiters /\ i \in SlotsOf(hints[i].tid)
      BY <1>1, <2>1 DEF table, QosInv, QosTypeOK, Used, SlotsOf
    <3>2. QED BY <3>1
  <2>2. QED BY <1>1, <2>1 DEF SlotsHeld, QosInv, table
<1>3. LoansInv'
  BY <1>1 DEF LoansInv, QosInv, table
<1>4. QED BY <1>2, <1>3 DEF QosInv

LEMMA WaitStartInv ==
  ASSUME QosInv, NEW t \in Waiters, WaitStart(t)
  PROVE  QosInv'
<1>1. QosTypeOK'
  BY DEF QosInv, QosTypeOK, WaitStart, WaitTo, tuning, table, past
<1>2. SlotsOf(t) # {} => t \in forgotten
  BY HintAssumption DEF QosInv, SlotsHeld, QosTypeOK, SlotsOf, Used, WaitStart, WaitTo
<1>3. \A u \in Waiters : u \notin forgotten /\ SlotsOf(u) # {} => wait[u] \in {"waiting", "end"}
  BY HintAssumption DEF QosInv, SlotsHeld, SlotsOf, Used
<1>4. wait[t] = "out" /\ UNCHANGED <<table, past>> /\ \A u \in Waiters : u # t => wait'[u] = wait[u]
  BY DEF WaitStart, WaitTo, QosInv, QosTypeOK
<1>5. \A u \in Waiters : u \notin forgotten' /\ SlotsOf(u) # {} => wait'[u] \in {"waiting", "end"}
  BY <1>2, <1>3, <1>4 DEF past
<1>6. QED BY <1>1, <1>4, <1>5, TableStillInv DEF past

(* The count is not 0 as long as a slot is taken.                           *)
LEMMA WaitEndInv ==
  ASSUME QosInv, NEW t \in Waiters, WaitEnd(t)
  PROVE  QosInv'
<1>1. QosTypeOK'
  BY DEF QosInv, QosTypeOK, WaitEnd, WaitTo, tuning, table
<1>2. ~Ends(t) => Used = {}
  <2>1. Cardinality(Used) \in Nat /\ (Cardinality(Used) = 0 => Used = {})
    BY UsedFinite, FS_CardinalityType, FS_EmptySet
  <2>2. active_hints \in Int /\ active_hints >= Cardinality(Used)
    BY DEF QosInv, QosTypeOK, SlotsHeld
  <2>3. QED BY <2>1, <2>2 DEF Ends
<1>3. \A u \in Waiters : u \notin forgotten /\ SlotsOf(u) # {} => wait[u] \in {"waiting", "end"}
  BY HintAssumption DEF QosInv, SlotsHeld, SlotsOf, Used
<1>4. ASSUME t \notin forgotten', SlotsOf(t) # {} PROVE wait'[t] = "end"
  <2>1. EndHooked /\ Used # {}
    BY <1>4, HintAssumption DEF WaitEnd, SlotsOf, Used
  <2>2. Ends(t) = TRUE /\ EndHooked = TRUE
    BY <1>2, <2>1 DEF Ends, EndHooked
  <2>3. wait' = [wait EXCEPT ![t] = "end"]
    BY <2>2 DEF WaitEnd, WaitTo
  <2>4. QED BY <2>3 DEF QosInv, QosTypeOK
<1>5. /\ UNCHANGED <<table, asked, overtaken>>
      /\ \A u \in Waiters : u # t => wait'[u] = wait[u]
      /\ \A u \in Waiters : u \in forgotten => u \in forgotten'
  BY DEF WaitEnd, WaitTo, QosInv, QosTypeOK
<1>6. \A u \in Waiters : u \notin forgotten' /\ SlotsOf(u) # {} => wait'[u] \in {"waiting", "end"}
  BY <1>3, <1>4, <1>5
<1>7. QED BY <1>1, <1>5, <1>6, TableStillInv

LEMMA TakeHintInv ==
  ASSUME QosInv, NEW t \in Waiters, TakeHint(t)
  PROVE  QosInv'
<1>1. QosTypeOK /\ SlotsHeld /\ LoansInv /\ t # NoTid
  BY HintAssumption DEF QosInv
<1>2. wait[t] = "start" /\ wait' = [wait EXCEPT ![t] = "waiting"] /\ UNCHANGED <<tuning, hooks, past>>
  BY DEF TakeHint, WaitTo
<1>3. SlotsOf(t) # {} => t \in forgotten
  BY <1>1, <1>2 DEF SlotsHeld, SlotsOf, Used
<1>4. CASE Candidates(t) = {}
  <2>1. UNCHANGED table
    BY <1>4 DEF TakeHint
  <2>2. QosTypeOK'
    BY <1>1, <1>2, <2>1 DEF QosTypeOK, tuning, table, past
  <2>3. \A u \in Waiters : u \notin forgotten /\ SlotsOf(u) # {} => wait[u] \in {"waiting", "end"}
    BY HintAssumption, <1>1 DEF SlotsHeld, SlotsOf, Used
  <2>4. QED BY <1>1, <1>2, <1>3, <2>1, <2>2, <2>3, TableStillInv DEF past, QosTypeOK
<1>5. CASE Candidates(t) # {}
  <2> DEFINE new == [tid |-> t, prev |-> uclamp_req[t]]
  <2>1. PICK i \in Candidates(t) : hints' = [hints EXCEPT ![i] = new]
    BY <1>5 DEF TakeHint
  <2>2. active_hints' = active_hints + 1 /\ uclamp_req' = [uclamp_req EXCEPT ![t] = hint_min]
    BY <1>5 DEF TakeHint
  <2>3. i \in HintSlots /\ hints[i].tid \in {t, NoTid} /\ (SlotsOf(t) # {} => hints[i].tid = t)
    BY DEF Candidates, SlotsOf
  <2>4. new \in [tid : Waiters \cup {NoTid}, prev : Utils] /\ new.tid = t
        /\ new.prev = uclamp_req[t]
    BY <1>1 DEF QosTypeOK
  <2> HIDE DEF new
  <2>5. QosTypeOK'
    BY <1>1, <1>2, <2>1, <2>2, <2>3, <2>4, HintAssumption DEF QosTypeOK, tuning, past
  <2>6. Used' = Used \cup {i}
    BY <1>1, <2>1, <2>3, <2>4 DEF QosTypeOK, Used
  <2>7. SlotsOf(t)' = {i}
    <3>1. \A j \in SlotsOf(t) : j = i
      BY <1>1, <2>3 DEF SlotsHeld, SlotsOf, Used
    <3>2. QED BY <1>1, <2>1, <2>3, <2>4, <3>1 DEF QosTypeOK, SlotsOf
  <2>8. \A u \in Waiters : u # t => SlotsOf(u)' = SlotsOf(u)
    BY <1>1, <2>1, <2>3, <2>4, HintAssumption DEF QosTypeOK, SlotsOf
  <2>9. \A j \in HintSlots : j # i => hints'[j] = hints[j]
    BY <1>1, <2>1 DEF QosTypeOK
  <2>10. hints'[i] = new
    BY <1>1, <2>1, <2>3 DEF QosTypeOK
  <2>11. SlotsHeld'
    <3>1. \A j, k \in Used' : hints'[j].tid = hints'[k].tid => j = k
      <4>1. \A j \in Used' : hints'[j].tid = t => j = i
        BY <2>7 DEF SlotsOf, Used
      <4>2. QED BY <1>1, <2>4, <2>6, <2>9, <2>10, <4>1 DEF SlotsHeld, Used
    <3>2. \A j \in Used' : wait'[hints'[j].tid] \in {"waiting", "end"} \/ hints'[j].tid \in forgotten'
      <4>1. wait' \in [Waiters -> {"out", "start", "waiting", "end"}] /\ wait'[t] = "waiting"
        BY <1>1, <1>2 DEF QosTypeOK
      <4>2. QED BY <1>1, <1>2, <2>4, <2>6, <2>9, <2>10, <4>1
                DEF SlotsHeld, Used, past, QosTypeOK
    <3>3. active_hints' >= Cardinality(Used')
      <4>1. Cardinality(Used \cup {i}) <= Cardinality(Used) + 1 /\ Cardinality(Used) \in Nat
            /\ Cardinality(Used \cup {i}) \in Nat
        <5>1. /\ IsFiniteSet(Used \cup {i})
              /\ Cardinality(Used \cup {i}) =
                   IF i \in Used THEN Cardinality(Used) ELSE Cardinality(Used) + 1
          BY UsedFinite, FS_AddElement
        <5>2. Cardinality(Used) \in Nat
          BY UsedFinite, FS_CardinalityType
        <5>3. QED BY <5>1, <5>2
      <4>2. QED BY <1>1, <2>2, <2>6, <4>1 DEF SlotsHeld, QosTypeOK
    <3>4. QED BY <3>1, <3>2, <3>3 DEF SlotsHeld
  <2>12. LoansInv'
    <3> SUFFICES ASSUME NEW u \in Waiters, u \notin overtaken \cup forgotten
                 PROVE  /\ \A j \in SlotsOf(u)' : hints'[j].prev = asked[u]
                        /\ SlotsOf(u)' = {} => uclamp_req'[u] = asked[u]
      BY <1>2 DEF LoansInv, past
    <3>1. CASE u = t
      <4>1. uclamp_req[t] = asked[t]
        BY <1>1, <1>3, <3>1 DEF LoansInv
      <4>2. QED BY <2>4, <2>7, <2>10, <3>1, <4>1
    <3>2. CASE u # t
      <4>1. \A j \in SlotsOf(u) : j # i
        BY <1>1, <2>3, <3>2, HintAssumption DEF SlotsOf
      <4>2. uclamp_req'[u] = uclamp_req[u]
        BY <1>1, <2>2, <3>2 DEF QosTypeOK
      <4>3. QED BY <1>1, <2>8, <2>9, <3>2, <4>1, <4>2 DEF LoansInv, SlotsOf
    <3>3. QED BY <3>1, <3>2
  <2>13. QED BY <2>5, <2>11, <2>12 DEF QosInv
<1>6. QED BY <1>4, <1>5

LEMMA ReturnHintInv ==
  ASSUME QosInv, NEW t \in Waiters, ReturnHint(t)
  PROVE  QosInv'
<1>1. QosTypeOK /\ SlotsHeld /\ LoansInv /\ t # NoTid
  BY HintAssumption DEF QosInv
<1>2. wait[t] = "end" /\ wait' = [wait EXCEPT ![t] = "out"] /\ UNCHANGED <<tuning, hooks, past>>
  BY DEF ReturnHint, WaitTo
<1>3. CASE SlotsOf(t) = {}
  <2>1. UNCHANGED table
    BY <1>3 DEF ReturnHint
  <2>2. QosTypeOK'
    BY <1>1, <1>2, <2>1 DEF QosTypeOK, tuning, table, past
  <2>3. \A u \in Waiters : u \notin forgotten /\ SlotsOf(u) # {} => wait[u] \in {"waiting", "end"}
    BY HintAssumption, <1>1 DEF SlotsHeld, SlotsOf, Used
  <2>4. QED BY <1>1, <1>2, <1>3, <2>1, <2>2, <2>3, TableStillInv DEF past, QosTypeOK
<1>4. CASE SlotsOf(t) # {}
  <2>1. PICK i \in SlotsOf(t) : /\ hints' = [hints EXCEPT ![i].tid = NoTid]
                                /\ uclamp_req' = [uclamp_req EXCEPT ![t] = hints[i].prev]
    BY <1>4 DEF ReturnHint
  <2>2. active_hints' = active_hints - 1
    BY <1>4 DEF ReturnHint
  <2>3. i \in HintSlots /\ hints[i].tid = t /\ i \in Used /\ hints[i].prev \in Utils
    BY <1>1 DEF SlotsOf, Used, QosTypeOK
  <2>4. hints'[i].tid = NoTid /\ \A j \in HintSlots : j # i => hints'[j] = hints[j]
    BY <1>1, <2>1, <2>3 DEF QosTypeOK
  <2>5. QosTypeOK'
    BY <1>1, <1>2, <2>1, <2>2, <2>3 DEF QosTypeOK, tuning, past
  <2>6. Used' = Used \ {i}
    BY <2>3, <2>4 DEF Used
  <2>7. \A j \in SlotsOf(t) : j = i
    BY <1>1, <2>3 DEF SlotsHeld, SlotsOf, Used
  <2>8. SlotsOf(t)' = {}
    BY <1>1, <2>4, <2>7 DEF SlotsOf
  <2>9. \A u \in Waiters : u # t => SlotsOf(u)' = SlotsOf(u)
    BY <2>3, <2>4, HintAssumption DEF SlotsOf
  <2>10. SlotsHeld'
    <3>1. \A j \in Used' : j \in Used /\ hints'[j] = hints[j] /\ hints[j].tid # t
      BY <2>4, <2>6, <2>7 DEF Used, SlotsOf
    <3>2. \A j \in Used' : wait'[hints'[j].tid] = wait[hints[j].tid]
      BY <1>1, <1>2, <3>1 DEF QosTypeOK
    <3>3. active_hints' >= Cardinality(Used')
      <4>1. Cardinality(Used \ {i}) = Cardinality(Used) - 1 /\ Cardinality(Used) \in Nat
        BY <2>3, UsedFinite, FS_RemoveElement, FS_CardinalityType
      <4>2. QED BY <1>1, <2>2, <2>6, <4>1 DEF SlotsHeld, QosTypeOK
    <3>4. QED BY <1>1, <1>2, <3>1, <3>2, <3>3 DEF SlotsHeld, past
  <2>11. LoansInv'
    <3> SUFFICES ASSUME NEW u \in Waiters, u \notin overtaken \cup forgotten
                 PROVE  /\ \A j \in SlotsOf(u)' : hints'[j].prev = asked[u]
                        /\ SlotsOf(u)' = {} => uclamp_req'[u] = asked[u]
      BY <1>2 DEF LoansInv, past
    <3>1. CASE u = t
      <4>1. hints[i].prev = asked[t]
        BY <1>1, <3>1 DEF LoansInv
      <4>2. uclamp_req'[t] = hints[i].prev
        BY <1>1, <2>1 DEF QosTypeOK
      <4>3. QED BY <2>8, <3>1, <4>1, <4>2
    <3>2. CASE u # t
      <4>1. \A j \in SlotsOf(u) : j \in HintSlots /\ hints'[j] = hints[j]
        BY <2>3, <2>4, <3>2 DEF SlotsOf
      <4>2. uclamp_req'[u] = uclamp_req[u]
        BY <1>1, <2>1, <3>2 DEF QosTypeOK
      <4>3. QED BY <1>1, <2>9, <3>2, <4>1, <4>2 DEF LoansInv
    <3>3. QED BY <3>1, <3>2
  <2>12. QED BY <2>5, <2>10, <2>11 DEF QosInv
<1>5. QED BY <1>3, <1>4

LEMMA SetAttrInv ==
  ASSUME QosInv, NEW t \in Waiters, NEW clamp \in Clamps, SetAttr(t, clamp)
  PROVE  QosInv'
<1>1. QosTypeOK /\ SlotsHeld /\ LoansInv
  BY DEF QosInv
<1>2. QosTypeOK'
  BY <1>1, HintAssumption DEF QosTypeOK, SetAttr, tuning, waiting
<1>3. Used' = Used /\ \A u : SlotsOf(u)' = SlotsOf(u)
  BY DEF Used, SlotsOf, SetAttr
<1>4. SlotsHeld'
  <2>1. \A i \in Used : hints[i].tid \in forgotten => hints[i].tid \in forgotten'
    BY DEF SetAttr, Used, SlotsOf
  <2>2. QED BY <1>1, <1>3, <2>1 DEF SlotsHeld, SetAttr, waiting
<1>5. LoansInv'
  <2> SUFFICES ASSUME NEW u \in Waiters, u \notin overtaken' \cup forgotten'
               PROVE  /\ \A i \in SlotsOf(u) : hints[i].prev = asked'[u]
                      /\ SlotsOf(u) = {} => uclamp_req'[u] = asked'[u]
    BY <1>3 DEF LoansInv, SetAttr
  <2>1. CASE u = t
    BY <1>1, <2>1 DEF SetAttr, QosTypeOK
  <2>2. CASE u # t
    BY <1>1, <2>2 DEF SetAttr, QosTypeOK, LoansInv
  <2>3. QED BY <2>1, <2>2
<1>6. QED BY <1>2, <1>4, <1>5 DEF QosInv

LEMMA QosNextInv == QosInv /\ [QosNext]_qvars => QosInv'
<1> SUFFICES ASSUME QosInv, [QosNext]_qvars PROVE QosInv'
  OBVIOUS
<1>1. ASSUME QosTypeOK', UNCHANGED <<table, wait, past>> PROVE QosInv'
  <2>1. \A u \in Waiters : u \notin forgotten /\ SlotsOf(u) # {} => wait[u] \in {"waiting", "end"}
    BY HintAssumption DEF QosInv, SlotsHeld, SlotsOf, Used
  <2>2. QED BY <1>1, <2>1, TableStillInv DEF past
<1>2. CASE UNCHANGED qvars
  BY <1>1, <1>2 DEF qvars, QosInv, QosTypeOK, tuning, table, waiting, past
<1>3. ASSUME NEW tgid \in Tgids, SetVip(tgid) PROVE QosInv'
  BY <1>1, <1>3, HintAssumption DEF SetVip, QosInv, QosTypeOK, table, waiting, past
<1>4. ASSUME NEW clamp \in Hints, SetHint(clamp) PROVE QosInv'
  BY <1>1, <1>4 DEF SetHint, QosInv, QosTypeOK, table, waiting, past
<1>5. ASSUME NEW from, NEW to \in {"half", "gone", "loaded", "half_off"}, HooksTo(from, to)
      PROVE  QosInv'
  BY <1>1, <1>5 DEF HooksTo, QosInv, QosTypeOK, tuning, table, past
<1>6. ASSUME NEW t \in Waiters, WaitStart(t) PROVE QosInv'
  BY <1>6, WaitStartInv
<1>7. ASSUME NEW t \in Waiters, TakeHint(t) PROVE QosInv'
  BY <1>7, TakeHintInv
<1>8. ASSUME NEW t \in Waiters, WaitEnd(t) PROVE QosInv'
  BY <1>8, WaitEndInv
<1>9. ASSUME NEW t \in Waiters, ReturnHint(t) PROVE QosInv'
  BY <1>9, ReturnHintInv
<1>10. ASSUME NEW t \in Waiters, NEW clamp \in Clamps, SetAttr(t, clamp) PROVE QosInv'
  BY <1>10, SetAttrInv
<1>11. QED BY <1>2, <1>3, <1>4, <1>5, <1>6, <1>7, <1>8, <1>9, <1>10 DEF QosNext

(* A slot of the table belongs to one task, whose wait is not over unless   *)
(* the module forgot it, and active_hints never hides a taken slot from a   *)
(* wait that ends (sew_qi_wait_end).                                        *)
THEOREM SlotsStayHeld == QosSpec => []SlotsHeld
<1>1. QosInv => SlotsHeld
  BY DEF QosInv
<1>2. QED BY <1>1, QosInitInv, QosNextInv, PTL DEF QosSpec

(* A clamp that was lent for a wait is given back with the end of the wait, *)
(* for every size of the table and whatever is written to the proc files    *)
(* meanwhile (sew_qi_wait_start, sew_qi_wait_end).                          *)
THEOREM LoansReturned == QosSpec => []HintsReturned
<1>1. QosInv => HintsReturned
  <2> SUFFICES ASSUME QosInv, NEW t \in Waiters, t \notin overtaken \cup forgotten,
                      uclamp_req[t] # asked[t]
               PROVE  wait[t] \in {"waiting", "end"} /\ SlotsOf(t) # {}
    BY DEF HintsReturned
  <2>1. SlotsOf(t) # {}
    BY DEF QosInv, LoansInv
  <2>2. QED BY <2>1, HintAssumption DEF QosInv, SlotsHeld, SlotsOf, Used
<1>2. QED BY <1>1, QosInitInv, QosNextInv, PTL DEF QosSpec

-----------------------------------------------------------------------------
(* BootLog: the entries below log_count are in their places.                *)
LogInv ==
  /\ log_count \in 0..LogSize
  /\ bootprof \in [0..(BUF_COUNT - 1) -> Buffers \cup {NULL}]
  /\ \A k \in 0..(log_count - 1) :
       bootprof[Buf(k)] # NULL /\ bootprof[Buf(k)][Pos(k)] # NULL

LEMMA Place ==
  ASSUME NEW k \in Nat
  PROVE  /\ Buf(k) \in Nat /\ Pos(k) \in 0..(LOGS_PER_BUF - 1)
         /\ k = LOGS_PER_BUF * Buf(k) + Pos(k)
BY LogAssumption DEF Buf, Pos

LEMMA Monotone ==
  ASSUME NEW L \in Nat, NEW a \in Nat, NEW b \in Nat, a < b
  PROVE  L * a + L <= L * b
<1>1. b - (a + 1) \in Nat
  OBVIOUS
<1>2. L * (b - (a + 1)) \in Nat
  BY <1>1
<1>3. L * b = L * (a + 1) + L * (b - (a + 1))
  BY <1>1
<1>4. QED BY <1>2, <1>3

(* Of two entries the earlier is in an earlier buffer, or in the same one   *)
(* and before the other.                                                    *)
LEMMA Places ==
  ASSUME NEW k \in Nat, NEW n \in Nat, k < n, n < LogSize
  PROVE  /\ Buf(n) \in 0..(BUF_COUNT - 1) /\ Buf(k) \in 0..(BUF_COUNT - 1)
         /\ Buf(k) < Buf(n) \/ (Buf(k) = Buf(n) /\ Pos(k) < Pos(n))
<1> DEFINE L == LOGS_PER_BUF
<1>1. L \in Nat /\ L > 0 /\ BUF_COUNT \in Nat
  BY LogAssumption
<1>2. /\ Buf(k) \in Nat /\ Pos(k) \in 0..(L - 1) /\ k = L * Buf(k) + Pos(k)
      /\ Buf(n) \in Nat /\ Pos(n) \in 0..(L - 1) /\ n = L * Buf(n) + Pos(n)
  BY Place
<1>3. /\ Pos(k) \in Nat /\ Pos(n) \in Nat /\ Pos(k) < L /\ Pos(n) < L
      /\ L * Buf(k) \in Nat /\ L * Buf(n) \in Nat
  BY <1>1, <1>2
<1>4. ~(Buf(n) < Buf(k))
  <2>1. Buf(n) < Buf(k) => L * Buf(n) + L <= L * Buf(k)
    BY <1>1, <1>2, Monotone
  <2>2. QED BY <1>1, <1>2, <1>3, <2>1
<1>5. Buf(k) = Buf(n) => Pos(k) < Pos(n)
  BY <1>2, <1>3
<1>6. Buf(n) < BUF_COUNT
  <2>1. BUF_COUNT < Buf(n) => L * BUF_COUNT + L <= L * Buf(n)
    BY <1>1, <1>2, Monotone
  <2>2. LogSize = L * BUF_COUNT /\ L * BUF_COUNT \in Nat
    BY <1>1 DEF LogSize
  <2>3. n < L * BUF_COUNT
    BY <2>2
  <2>4. BUF_COUNT # Buf(n)
    BY <1>2, <1>3, <2>2, <2>3
  <2>5. ~(BUF_COUNT < Buf(n))
    BY <1>1, <1>2, <1>3, <2>1, <2>2, <2>3
  <2>6. QED BY <1>1, <1>2, <2>4, <2>5
<1>7. /\ Buf(n) \in 0..(BUF_COUNT - 1) /\ Buf(k) <= Buf(n)
      /\ Buf(k) \in 0..(BUF_COUNT - 1)
  BY <1>1, <1>2, <1>4, <1>6
<1>8. QED BY <1>2, <1>5, <1>7

(* bootprof_log_boot() touches no entry but the next, and counts that only  *)
(* when it is there.                                                        *)
LEMMA LogBootInv ==
  ASSUME LogInv, NEW a \in Actors, NEW mem \in BOOLEAN, NEW text \in BOOLEAN,
         LogBoot(a, mem, text)
  PROVE  LogInv'
<1> DEFINE n == log_count
           b == Grown(mem)
<1>1. n \in Nat /\ LOGS_PER_BUF \in Nat \ {0} /\ BUF_COUNT \in Nat \ {0}
  BY LogAssumption DEF LogInv, LogSize
<1>2. CASE UNCHANGED <<log_count, bootprof>>
  BY <1>1, <1>2 DEF LogInv
<1>3. CASE enabled /\ n < LogSize
  <2>1. Buf(n) \in 0..(BUF_COUNT - 1) /\ Pos(n) \in 0..(LOGS_PER_BUF - 1)
    <3>1. CASE n = 0
      <4>1. Buf(0) \in Nat /\ Pos(0) \in 0..(LOGS_PER_BUF - 1) /\ 0 = LOGS_PER_BUF * Buf(0) + Pos(0)
        BY Place
      <4>2. Buf(0) = 0
        BY <1>1 DEF Buf
      <4>3. QED BY <1>1, <3>1, <4>1, <4>2
    <3>2. CASE n # 0
      BY <1>1, <1>3, <3>2, Place, Places
    <3>3. QED BY <3>1, <3>2
  <2>2. Empty \in Buffers
    BY DEF Empty, Buffers
  <2>3. b \in [0..(BUF_COUNT - 1) -> Buffers \cup {NULL}]
    BY <2>1, <2>2 DEF Grown, LogInv
  <2>4. ASSUME NEW k \in 0..(n - 1)
        PROVE  /\ Buf(k) \in 0..(BUF_COUNT - 1) /\ b[Buf(k)] = bootprof[Buf(k)]
               /\ Buf(k) = Buf(n) => Pos(k) # Pos(n)
    <3>1. k \in Nat /\ k < n /\ n < LogSize
      BY <1>1, <1>3
    <3>2. /\ Buf(k) \in 0..(BUF_COUNT - 1)
          /\ Buf(k) < Buf(n) \/ (Buf(k) = Buf(n) /\ Pos(k) < Pos(n))
      BY <1>1, <3>1, Places
    <3>3. Pos(k) \in Nat /\ Buf(k) \in Nat /\ Buf(n) \in Nat /\ Pos(n) \in Nat
      BY <1>1, <3>1, Place
    <3>4. FirstOfBuffer => Buf(k) # Buf(n)
      BY <3>2, <3>3 DEF FirstOfBuffer
    <3>5. QED BY <2>1, <3>2, <3>3, <3>4 DEF Grown, LogInv
  <2> HIDE DEF b
  <2>5. CASE bootprof' = b /\ log_count' = n
    BY <1>1, <2>3, <2>4, <2>5 DEF LogInv
  <2>6. CASE /\ b[Buf(n)] # NULL
             /\ bootprof' = [b EXCEPT ![Buf(n)][Pos(n)] = a] /\ log_count' = n + 1
    <3>1. b[Buf(n)] \in Buffers
      BY <2>1, <2>3, <2>6
    <3>2. /\ bootprof' = [b EXCEPT ![Buf(n)] = [b[Buf(n)] EXCEPT ![Pos(n)] = a]]
          /\ [b[Buf(n)] EXCEPT ![Pos(n)] = a] \in Buffers
      BY <2>1, <2>6, <3>1 DEF Buffers, Actors
    <3>3. bootprof' \in [0..(BUF_COUNT - 1) -> Buffers \cup {NULL}]
      BY <2>1, <2>3, <3>2
    <3>4. bootprof'[Buf(n)] # NULL /\ bootprof'[Buf(n)][Pos(n)] = a
      BY <2>1, <2>3, <3>1, <3>2, LogAssumption DEF Buffers
    <3>5. ASSUME NEW k \in 0..(n - 1)
          PROVE  /\ bootprof[Buf(k)] # NULL /\ bootprof'[Buf(k)] # NULL
                 /\ bootprof'[Buf(k)][Pos(k)] = bootprof[Buf(k)][Pos(k)]
                 /\ bootprof[Buf(k)][Pos(k)] # NULL
      <4>1. bootprof[Buf(k)] # NULL /\ bootprof[Buf(k)][Pos(k)] # NULL
        BY DEF LogInv
      <4>2. CASE Buf(k) = Buf(n)
        <5>1. Pos(k) \in 0..(LOGS_PER_BUF - 1) /\ Pos(k) # Pos(n)
          BY <1>1, <2>4, <4>2, Place
        <5>2. bootprof'[Buf(n)][Pos(k)] = b[Buf(n)][Pos(k)]
          BY <2>1, <2>3, <3>1, <3>2, <5>1 DEF Buffers
        <5>3. QED BY <2>4, <3>4, <4>1, <4>2, <5>2
      <4>3. CASE Buf(k) # Buf(n)
        BY <2>1, <2>3, <2>4, <3>2, <4>1, <4>3
      <4>4. QED BY <4>2, <4>3
    <3>6. a # NULL
      BY LogAssumption DEF Actors
    <3>7. \A k \in 0..(n + 1 - 1) : k \in 0..(n - 1) \/ k = n
      BY <1>1
    <3>8. n + 1 \in 0..LogSize
      BY <1>1, <1>3 DEF LogSize
    <3>9. QED BY <2>6, <3>3, <3>4, <3>5, <3>6, <3>7, <3>8 DEF LogInv
  <2>7. QED BY <1>2, <1>3, <2>5, <2>6 DEF LogBoot, LogFailed, b, logvars
<1>4. QED BY <1>1, <1>2, <1>3 DEF LogBoot, logvars, LogInv, LogSize

LEMMA BootNextInv == LogInv /\ [BootNext]_bvars => LogInv'
<1> SUFFICES ASSUME LogInv, [BootNext]_bvars PROVE LogInv'
  OBVIOUS
<1>1. CASE UNCHANGED <<log_count, bootprof>>
  BY <1>1 DEF LogInv
<1>2. ASSUME NEW t \in Callers, NEW mem \in BOOLEAN, NEW text \in BOOLEAN,
             LogInitcall(t, mem, text)
      PROVE  LogInv'
  BY <1>2, LogBootInv DEF LogInitcall, Actors
<1>3. ASSUME NEW w \in Writers, NEW mem \in BOOLEAN, NEW text \in BOOLEAN,
             WriteLog(w, mem, text)
      PROVE  LogInv'
  BY <1>3, LogBootInv DEF WriteLog, Actors
<1>4. QED BY <1>1, <1>2, <1>3
         DEF BootNext, bvars, logvars, InitcallBegins, StartCb, InitcallEnds, FinishCb, Register,
             NotFound, UnloadProbes, UnloadList, FirstSwitchOn, SwitchOn, SwitchOff,
             TestBootFinish, SetBootFinish, Unregister, EmptyList

LEMMA BootInitInv == BootInit => LogInv
<1> SUFFICES ASSUME BootInit PROVE LogInv
  OBVIOUS
<1>1. LogSize \in Nat
  BY LogAssumption DEF LogSize
<1>2. Empty \in Buffers
  BY DEF Empty, Buffers
<1>3. QED BY <1>1, <1>2 DEF BootInit, LogInv

(* What mt_bootprof_show() follows without a lock for the entries below     *)
(* log_count is there, whichever allocation of bootprof_log_boot() failed.  *)
THEOREM LogIsComplete == BootSpec => []LogComplete
<1>1. LogInv => LogComplete
  <2> SUFFICES ASSUME LogInv PROVE LogComplete
    OBVIOUS
  <2>1. LogSize \in Nat
    BY LogAssumption DEF LogSize
  <2>2. QED BY <2>1 DEF LogInv, LogComplete
<1>2. QED BY <1>1, BootInitInv, BootNextInv, PTL DEF BootSpec

-----------------------------------------------------------------------------
(* BootLog: the list of initcalls under way.                                *)
LEMMA LeastOfNaturals ==
  ASSUME NEW T \in SUBSET Nat, T # {}
  PROVE  \E x \in T : \A y \in T : x <= y
<1> DEFINE R == {w \in Nat \X Nat : w[1] < w[2]}
<1>1. IsWellFoundedOn(R, Nat)
  BY NatLessThanWellFounded DEF OpToRel
<1>2. PICK x \in T : \A y \in T : <<y, x>> \notin R
  BY <1>1, WFMin
<1>3. ASSUME NEW y \in T PROVE x <= y
  <2>1. <<y, x>> \in Nat \X Nat /\ <<y, x>>[1] = y /\ <<y, x>>[2] = x
    OBVIOUS
  <2>2. ~(y < x)
    BY <1>2, <2>1
  <2>3. QED BY <2>2
<1>4. QED BY <1>3

(* What is true of 0 and of the successor of each is true of all.           *)
LEMMA Successors ==
  ASSUME NEW N \in Nat, NEW S, 0 \in S, \A i \in 0..(N - 1) : i \in S => i + 1 \in S
  PROVE  \A i \in 0..N : i \in S
<1> SUFFICES ASSUME NEW k \in 0..N, k \notin S PROVE FALSE
  OBVIOUS
<1> DEFINE T == {i \in 0..N : i \notin S}
<1>1. T \in SUBSET Nat /\ T # {}
  OBVIOUS
<1>2. PICK x \in T : \A y \in T : x <= y
  BY <1>1, LeastOfNaturals
<1>3. x # 0 /\ x \in 0..N /\ x \notin S
  OBVIOUS
<1>4. x - 1 \in 0..(N - 1) /\ x - 1 \in 0..N /\ ~(x <= x - 1) /\ x - 1 + 1 = x
  BY <1>3
<1>5. x - 1 \in S
  BY <1>2, <1>4
<1>6. QED BY <1>3, <1>4, <1>5

Entries == [task : Callers, call : Nat]

(* What a walk over the first n entries of s keeps that are not of t        *)
Walk(m, n, s, t) ==
  m = [k \in 0..n |-> IF k = 0 THEN <<>>
                      ELSE IF s[k].task = t THEN m[k - 1] ELSE Append(m[k - 1], s[k])]

LEMMA WalkExists ==
  ASSUME NEW s, NEW t, NEW N \in Nat
  PROVE  \E m : Walk(m, N, s, t)
<1> DEFINE S == {n \in Nat : \E m : Walk(m, n, s, t)}
<1>1. 0 \in S
  <2> DEFINE m == [k \in 0..0 |-> <<>>]
  <2>1. m = [k \in 0..0 |-> IF k = 0 THEN <<>>
                            ELSE IF s[k].task = t THEN m[k - 1] ELSE Append(m[k - 1], s[k])]
    OBVIOUS
  <2>2. Walk(m, 0, s, t)
    BY <2>1 DEF Walk
  <2> HIDE DEF m
  <2>3. QED BY <2>2
<1>2. ASSUME NEW n \in 0..(N - 1), n \in S PROVE n + 1 \in S
  <2>1. PICK m : Walk(m, n, s, t)
    BY <1>2
  <2> PICK x : x = IF s[n + 1].task = t THEN m[n] ELSE Append(m[n], s[n + 1])
    OBVIOUS
  <2> PICK p : p = [k \in 0..(n + 1) |-> IF k <= n THEN m[k] ELSE x]
    OBVIOUS
  <2>2. (\A k \in 0..n : p[k] = m[k]) /\ p[n + 1] = x /\ DOMAIN p = 0..(n + 1)
    OBVIOUS
  <2>3. ASSUME NEW k \in 0..(n + 1)
        PROVE  p[k] = IF k = 0 THEN <<>>
                      ELSE IF s[k].task = t THEN p[k - 1] ELSE Append(p[k - 1], s[k])
    <3>1. CASE k <= n
      <4>1. k \in 0..n /\ (k # 0 => k - 1 \in 0..n)
        BY <3>1
      <4>2. m[k] = IF k = 0 THEN <<>>
                   ELSE IF s[k].task = t THEN m[k - 1] ELSE Append(m[k - 1], s[k])
        BY <2>1, <4>1 DEF Walk
      <4>3. p[k] = m[k] /\ (k # 0 => p[k - 1] = m[k - 1])
        BY <2>2, <4>1
      <4>4. QED BY <4>2, <4>3
    <3>2. CASE ~(k <= n)
      <4>1. k = n + 1 /\ k # 0 /\ k - 1 = n /\ n \in 0..n
        BY <3>2
      <4>2. p[n] = m[n]
        BY <2>2, <4>1
      <4>3. QED BY <2>2, <4>1, <4>2
    <3>3. QED BY <3>1, <3>2
  <2>4. Walk(p, n + 1, s, t)
    <3> DEFINE g == [k \in 0..(n + 1) |->
                       IF k = 0 THEN <<>>
                       ELSE IF s[k].task = t THEN p[k - 1] ELSE Append(p[k - 1], s[k])]
    <3>1. \A k \in 0..(n + 1) : p[k] = g[k]
      BY <2>3
    <3>2. DOMAIN g = 0..(n + 1)
      OBVIOUS
    <3>3. p = g
      BY <2>2, <3>1, <3>2
    <3>4. QED BY <3>3 DEF Walk
  <2>5. n + 1 \in Nat
    OBVIOUS
  <2>6. QED BY <2>4, <2>5
<1> HIDE DEF S
<1>3. N \in S
  <2>1. \A i \in 0..N : i \in S
    BY <1>1, <1>2, Successors
  <2>2. QED BY <2>1
<1>4. QED BY <1>3 DEF S

OneEach(s) == \A i, j \in 1..Len(s) : s[i].task = s[j].task => i = j

(* d has of s what is not of t.                                             *)
Without(d, n, s, t) ==
  /\ d \in Seq(Entries) /\ OneEach(d)
  /\ \A i \in 1..Len(d) : d[i].task # t /\ \E j \in 1..n : d[i] = s[j]

LEMMA ListFacts ==
  ASSUME NEW s \in Seq(Entries)
  PROVE  /\ Len(s) \in Nat /\ DOMAIN s = 1..Len(s)
         /\ \A i \in 1..Len(s) : s[i] \in Entries /\ s[i].task \in Callers /\ s[i].call \in Nat
<1>1. Len(s) \in Nat /\ DOMAIN s = 1..Len(s) /\ \A i \in 1..Len(s) : s[i] \in Entries
  BY LenProperties, ElementOfSeq
<1>2. QED BY <1>1 DEF Entries

LEMMA ListAppended ==
  ASSUME NEW s \in Seq(Entries), NEW e \in Entries
  PROVE  /\ Append(s, e) \in Seq(Entries) /\ Len(Append(s, e)) = Len(s) + 1
         /\ \A i \in 1..Len(s) : Append(s, e)[i] = s[i]
         /\ Append(s, e)[Len(s) + 1] = e
BY AppendProperties

LEMMA OneMore ==
  ASSUME NEW s \in Seq(Entries), NEW e \in Entries, OneEach(s),
         \A i \in 1..Len(s) : s[i].task # e.task
  PROVE  OneEach(Append(s, e))
<1> PICK a : a = Append(s, e)
  OBVIOUS
<1>1. /\ Len(a) = Len(s) + 1 /\ Len(s) \in Nat /\ a[Len(s) + 1] = e
      /\ \A i \in 1..Len(s) : a[i] = s[i]
  BY ListAppended, ListFacts
<1>2. ASSUME NEW i \in 1..Len(a), NEW j \in 1..Len(a), a[i].task = a[j].task PROVE i = j
  <2>1. \A k \in 1..Len(a) : k \in 1..Len(s) \/ k = Len(s) + 1
    BY <1>1
  <2>2. QED BY <1>1, <1>2, <2>1 DEF OneEach
<1>3. QED BY <1>2 DEF OneEach

LEMMA DuplicatesGone ==
  ASSUME NEW t \in Callers, initcall_list \in Seq(Entries), OneEach(initcall_list)
  PROVE  Without(DuplicatesOut(t), Len(initcall_list), initcall_list, t)
<1> PICK s : s = initcall_list
  OBVIOUS
<1> PICK N : N = Len(s)
  OBVIOUS
<1>1. /\ s \in Seq(Entries) /\ OneEach(s) /\ N \in Nat
      /\ \A i \in 1..N : s[i] \in Entries /\ s[i].task \in Callers
  BY ListFacts
<1>2. PICK m : Walk(m, N, s, t) /\ DuplicatesOut(t) = m[N]
  <2> DEFINE m == CHOOSE m : Walk(m, N, s, t)
  <2>1. Walk(m, N, s, t)
    BY <1>1, WalkExists
  <2>2. DuplicatesOut(t) = m[N]
    BY DEF DuplicatesOut, Walk
  <2> HIDE DEF m
  <2>3. QED BY <2>1, <2>2
<1>3. \A k \in 0..N : m[k] = IF k = 0 THEN <<>>
                             ELSE IF s[k].task = t THEN m[k - 1] ELSE Append(m[k - 1], s[k])
  BY <1>2 DEF Walk
<1> DEFINE S == {n \in 0..N : Without(m[n], n, s, t)}
<1>4. 0 \in S
  <2>1. m[0] = <<>> /\ 0 \in 0..N
    BY <1>1, <1>3
  <2>2. <<>> \in Seq(Entries) /\ Len(<<>>) = 0
    OBVIOUS
  <2>3. Without(<<>>, 0, s, t)
    BY <2>2 DEF Without, OneEach
  <2>4. QED BY <2>1, <2>3
<1>5. ASSUME NEW n \in 0..(N - 1), n \in S PROVE n + 1 \in S
  <2>1. n + 1 \in 0..N /\ n + 1 \in 1..N /\ n + 1 # 0 /\ n + 1 - 1 = n /\ n \in Nat
    BY <1>1
  <2>2. Without(m[n], n, s, t)
    BY <1>5
  <2>3. m[n + 1] = IF s[n + 1].task = t THEN m[n] ELSE Append(m[n], s[n + 1])
    BY <1>3, <2>1
  <2> PICK d : d = m[n]
    OBVIOUS
  <2> PICK e : e = s[n + 1]
    OBVIOUS
  <2>4. d \in Seq(Entries) /\ Len(d) \in Nat /\ OneEach(d) /\ e \in Entries
    BY <1>1, <2>1, <2>2, ListFacts DEF Without
  <2>5. CASE e.task = t
    <3>1. \A j \in 1..n : j \in 1..(n + 1)
      BY <2>1
    <3>2. Without(d, n + 1, s, t)
      BY <2>2, <2>4, <3>1 DEF Without
    <3>3. QED BY <2>1, <2>3, <2>5, <3>2
  <2>6. CASE e.task # t
    <3>1. \A i \in 1..Len(d) : d[i].task # e.task
      <4>1. SUFFICES ASSUME NEW i \in 1..Len(d), d[i].task = e.task PROVE FALSE
        OBVIOUS
      <4>2. PICK j \in 1..n : d[i] = s[j]
        BY <2>2 DEF Without
      <4>3. j \in 1..N /\ j # n + 1 /\ s[j].task = s[n + 1].task
        BY <1>1, <2>1, <4>1, <4>2
      <4>4. QED BY <1>1, <2>1, <4>3 DEF OneEach
    <3> PICK a : a = Append(d, e)
      OBVIOUS
    <3>2. OneEach(a)
      BY <2>4, <3>1, OneMore
    <3>3. /\ a \in Seq(Entries) /\ Len(a) = Len(d) + 1
          /\ \A i \in 1..Len(d) : a[i] = d[i]
          /\ a[Len(d) + 1] = e
      BY <2>4, ListAppended
    <3>4. ASSUME NEW i \in 1..Len(a) PROVE a[i].task # t /\ \E j \in 1..(n + 1) : a[i] = s[j]
      <4>1. CASE i \in 1..Len(d)
        <5>1. d[i].task # t /\ \E j \in 1..n : d[i] = s[j]
          BY <2>2, <4>1 DEF Without
        <5>2. PICK j \in 1..n : d[i] = s[j]
          BY <5>1
        <5>3. j \in 1..(n + 1)
          BY <2>1
        <5>4. QED BY <3>3, <4>1, <5>1, <5>2, <5>3
      <4>2. CASE i = Len(d) + 1
        <5>1. a[i] = s[n + 1] /\ n + 1 \in 1..(n + 1)
          BY <2>1, <3>3, <4>2
        <5>2. QED BY <2>6, <5>1
      <4>3. i \in 1..Len(d) \/ i = Len(d) + 1
        BY <2>4, <3>3
      <4>4. QED BY <4>1, <4>2, <4>3
    <3>5. Without(a, n + 1, s, t)
      BY <3>2, <3>3, <3>4 DEF Without
    <3>6. QED BY <2>1, <2>3, <2>6, <3>5
  <2>7. QED BY <2>5, <2>6
<1> HIDE DEF S
<1>6. N \in S
  <2>1. \A n \in 0..N : n \in S
    BY <1>1, <1>4, <1>5, Successors
  <2>2. QED BY <1>1, <2>1
<1>7. QED BY <1>2, <1>6 DEF S

LEMMA TakenOut ==
  ASSUME NEW s \in Seq(Entries), OneEach(s), NEW k \in 1..Len(s)
  PROVE  Without(RemoveAt(s, k), Len(s), s, s[k].task)
<1> PICK N : N = Len(s)
  OBVIOUS
<1> DEFINE a == SubSeq(s, 1, k - 1)
           b == SubSeq(s, k + 1, N)
           r == RemoveAt(s, k)
<1>1. N \in Nat /\ k \in Nat /\ k >= 1 /\ k <= N /\ \A i \in 1..N : s[i] \in Entries
  BY ListFacts
<1>2. a \in Seq(Entries) /\ Len(a) = k - 1 /\ \A i \in 1..(k - 1) : a[i] = s[i]
  <2>1. \A i \in 1..(k - 1) : s[i] \in Entries
    BY <1>1
  <2>2. /\ a \in Seq(Entries) /\ Len(a) = (IF 1 <= k - 1 THEN k - 1 - 1 + 1 ELSE 0)
        /\ \A i \in 1..(k - 1 - 1 + 1) : a[i] = s[1 + i - 1]
    BY <1>1, <2>1, SubSeqProperties
  <2>3. QED BY <1>1, <2>2
<1>3. b \in Seq(Entries) /\ Len(b) = N - k /\ \A i \in 1..(N - k) : b[i] = s[k + i]
  <2>1. \A i \in (k + 1)..N : s[i] \in Entries
    BY <1>1
  <2>2. /\ b \in Seq(Entries) /\ Len(b) = (IF k + 1 <= N THEN N - (k + 1) + 1 ELSE 0)
        /\ \A i \in 1..(N - (k + 1) + 1) : b[i] = s[(k + 1) + i - 1]
    BY <1>1, <2>1, SubSeqProperties
  <2>3. QED BY <1>1, <2>2
<1>4. r = a \o b
  BY DEF RemoveAt
<1> HIDE DEF a, b, r
<1>5. /\ r \in Seq(Entries) /\ Len(r) = Len(a) + Len(b)
      /\ \A i \in 1..(Len(a) + Len(b)) : r[i] = IF i <= Len(a) THEN a[i] ELSE b[i - Len(a)]
  BY <1>2, <1>3, <1>4, ConcatProperties
<1>6. Len(r) = N - 1
  BY <1>1, <1>2, <1>3, <1>5
<1>7. ASSUME NEW i \in 1..Len(r), i < k PROVE r[i] = s[i]
  <2>1. i \in 1..(k - 1) /\ i \in 1..(Len(a) + Len(b)) /\ i <= Len(a)
    BY <1>1, <1>2, <1>5, <1>6, <1>7
  <2>2. QED BY <2>1, <1>2, <1>5
<1>8. ASSUME NEW i \in 1..Len(r), ~(i < k) PROVE r[i] = s[i + 1]
  <2>1. i \in 1..(Len(a) + Len(b)) /\ ~(i <= Len(a)) /\ i - Len(a) = i + 1 - k
    BY <1>1, <1>2, <1>5, <1>8
  <2>2. i + 1 - k \in 1..(N - k) /\ k + (i + 1 - k) = i + 1
    BY <1>1, <1>6, <1>8
  <2>3. r[i] = b[i + 1 - k]
    BY <2>1, <1>5
  <2>4. b[i + 1 - k] = s[k + (i + 1 - k)]
    BY <2>2, <1>3
  <2>5. QED BY <2>2, <2>3, <2>4
<1> DEFINE At(i) == IF i < k THEN i ELSE i + 1
<1>9. \A i \in 1..Len(r) : At(i) \in 1..N /\ At(i) # k /\ r[i] = s[At(i)]
  BY <1>1, <1>6, <1>7, <1>8
<1>10. \A i, j \in 1..Len(r) : At(i) = At(j) => i = j
  BY <1>1, <1>6
<1> HIDE DEF At
<1>11. OneEach(r)
  BY <1>9, <1>10 DEF OneEach
<1>12. \A i \in 1..Len(r) : r[i].task # s[k].task /\ \E j \in 1..N : r[i] = s[j]
  BY <1>1, <1>9 DEF OneEach
<1>13. QED BY <1>5, <1>11, <1>12 DEF Without, r

BootSteps == {"out", "starting", "in", "finishing", "logging", "off", "finish",
              "initcall_start", "initcall_finish", "empty"}

(* An entry of a task whose initcalls had their callbacks is that of the    *)
(* one the task is in.                                                      *)
Current(e) ==
  e.task \in missed \/ (step[e.task] \in {"in", "finishing"} /\ e.call = call[e.task])

ListInv ==
  /\ initcall_list \in Seq(Entries) /\ OneEach(initcall_list)
  /\ step \in [Actors -> BootSteps] /\ call \in [Callers -> Nat]
  /\ \A i \in 1..Len(initcall_list) : Current(initcall_list[i])

LEMMA FirstEntry ==
  ASSUME NEW t \in Callers, initcall_list \in Seq(Entries), OneEach(initcall_list)
  PROVE  Without(EntryTaken(t), Len(initcall_list), initcall_list, t)
<1> PICK s : s = initcall_list
  OBVIOUS
<1>1. s \in Seq(Entries) /\ OneEach(s) /\ Len(s) \in Nat /\ DOMAIN s = 1..Len(s)
  BY ListFacts
<1>2. EntriesOf(t) = {i \in 1..Len(s) : s[i].task = t}
  BY <1>1 DEF EntriesOf
<1>3. CASE EntriesOf(t) = {}
  <2>1. Without(s, Len(s), s, t)
    BY <1>1, <1>2, <1>3 DEF Without
  <2>2. QED BY <1>3, <2>1 DEF EntryTaken
<1>4. CASE EntriesOf(t) # {}
  <2>1. EntriesOf(t) \in SUBSET Nat
    BY <1>1, <1>2
  <2>2. \E i \in EntriesOf(t) : \A j \in EntriesOf(t) : i <= j
    BY <1>4, <2>1, LeastOfNaturals
  <2>3. PICK k : k = CHOOSE i \in EntriesOf(t) : \A j \in EntriesOf(t) : i <= j
    OBVIOUS
  <2>4. k \in EntriesOf(t)
    BY <2>2, <2>3
  <2>5. k \in 1..Len(s) /\ s[k].task = t
    BY <1>2, <2>4
  <2>6. Without(RemoveAt(s, k), Len(s), s, t)
    BY <1>1, <2>5, TakenOut
  <2>7. EntryTaken(t) = RemoveAt(s, k)
    BY <1>4, <2>3 DEF EntryTaken
  <2>8. QED BY <2>6, <2>7
<1>5. QED BY <1>3, <1>4

(* A step of a that leaves the entries, steps and calls of others alone     *)
LEMMA ListKept ==
  ASSUME ListInv, NEW a \in Actors,
         initcall_list' \in Seq(Entries), OneEach(initcall_list'),
         step' \in [Actors -> BootSteps], call' \in [Callers -> Nat],
         \A c \in Callers : c # a => /\ step'[c] = step[c] /\ call'[c] = call[c]
                                     /\ c \in missed => c \in missed',
         \A i \in 1..Len(initcall_list') :
           IF initcall_list'[i].task = a
             THEN \/ a \in missed'
                  \/ step'[a] \in {"in", "finishing"} /\ initcall_list'[i].call = call'[a]
             ELSE \E j \in 1..Len(initcall_list) : initcall_list'[i] = initcall_list[j]
  PROVE  ListInv'
<1> PICK s : s = initcall_list'
  OBVIOUS
<1>1. ASSUME NEW i \in 1..Len(s)
      PROVE  \/ s[i].task \in missed'
             \/ step'[s[i].task] \in {"in", "finishing"} /\ s[i].call = call'[s[i].task]
  <2>1. s[i].task \in Callers
    BY ListFacts
  <2>2. CASE s[i].task = a
    BY <2>2
  <2>3. CASE s[i].task # a
    <3>1. PICK j \in 1..Len(initcall_list) : s[i] = initcall_list[j]
      BY <2>3
    <3>2. Current(s[i])
      BY <3>1 DEF ListInv
    <3>3. QED BY <2>1, <2>3, <3>2 DEF Current
  <2>4. QED BY <2>2, <2>3
<1>2. QED BY <1>1 DEF ListInv, Current, OneEach

LEMMA InitcallBeginsList ==
  ASSUME ListInv, NEW t \in Callers, InitcallBegins(t)
  PROVE  ListInv'
<1>1. /\ step[t] = "out" /\ step' \in [Actors -> BootSteps] /\ call' \in [Callers -> Nat]
      /\ \A c \in Callers : c # t => step'[c] = step[c] /\ call'[c] = call[c]
      /\ UNCHANGED <<initcall_list, missed>>
  BY DEF ListInv, InitcallBegins, StepTo, BootSteps, Actors, listvars
<1>2. \A i \in 1..Len(initcall_list) : initcall_list[i].task = t => t \in missed
  BY <1>1 DEF ListInv, Current
<1>3. QED BY <1>1, <1>2, ListKept DEF ListInv, Actors

LEMMA StartCbList ==
  ASSUME ListInv, NEW t \in Callers, NEW mem \in BOOLEAN, StartCb(t, mem)
  PROVE  ListInv'
<1>1. /\ step[t] = "starting" /\ step' \in [Actors -> BootSteps] /\ step'[t] = "in"
      /\ call' = call /\ call \in [Callers -> Nat]
      /\ \A c \in Callers : c # t => step'[c] = step[c]
  BY DEF ListInv, StartCb, StepTo, BootSteps, Actors
<1>2. CASE ~mem
  <2>1. UNCHANGED <<initcall_list, missed>>
    BY <1>2 DEF StartCb, listvars
  <2>2. \A i \in 1..Len(initcall_list) : initcall_list[i].task = t => t \in missed
    BY <1>1 DEF ListInv, Current
  <2>3. QED BY <1>1, <2>1, <2>2, ListKept DEF ListInv, Actors
<1>3. CASE mem
  <2> PICK d : d = DuplicatesOut(t)
    OBVIOUS
  <2> PICK e : e = Started(t)
    OBVIOUS
  <2>1. Without(d, Len(initcall_list), initcall_list, t)
    BY DuplicatesGone DEF ListInv
  <2>2. d \in Seq(Entries) /\ OneEach(d) /\ \A i \in 1..Len(d) : d[i].task # t
    BY <2>1 DEF Without
  <2>3. e \in Entries /\ e.task = t /\ e.call = call[t]
    BY DEF ListInv, Started, Entries
  <2>4. initcall_list' = Append(d, e) /\ missed' = missed \ {t}
    BY <1>3 DEF StartCb
  <2>5. /\ initcall_list' \in Seq(Entries) /\ Len(initcall_list') = Len(d) + 1
        /\ \A i \in 1..Len(d) : initcall_list'[i] = d[i]
        /\ initcall_list'[Len(d) + 1] = e
    BY <2>2, <2>3, <2>4, ListAppended
  <2>6. OneEach(initcall_list')
    BY <2>2, <2>3, <2>4, OneMore
  <2>7. ASSUME NEW i \in 1..Len(initcall_list')
        PROVE  IF initcall_list'[i].task = t
                 THEN \/ t \in missed'
                      \/ step'[t] \in {"in", "finishing"} /\ initcall_list'[i].call = call'[t]
                 ELSE \E j \in 1..Len(initcall_list) : initcall_list'[i] = initcall_list[j]
    <3>1. CASE i \in 1..Len(d)
      <4>1. d[i].task # t /\ \E j \in 1..Len(initcall_list) : d[i] = initcall_list[j]
        BY <2>1, <3>1 DEF Without
      <4>2. QED BY <2>5, <3>1, <4>1
    <3>2. CASE i = Len(d) + 1
      <4>1. initcall_list'[i] = e
        BY <2>5, <3>2
      <4>2. initcall_list'[i].task = t /\ initcall_list'[i].call = call'[t]
        BY <1>1, <2>3, <4>1
      <4>3. QED BY <1>1, <4>2
    <3>3. i \in 1..Len(d) \/ i = Len(d) + 1
      BY <2>2, <2>5, ListFacts
    <3>4. QED BY <3>1, <3>2, <3>3
  <2>8. \A c \in Callers : c # t => (c \in missed => c \in missed')
    BY <2>4
  <2>9. t \in Actors /\ call' \in [Callers -> Nat]
    BY <1>1 DEF Actors
  <2>10. \A c \in Callers : c # t => step'[c] = step[c] /\ call'[c] = call[c]
    BY <1>1
  <2>11. QED BY <1>1, <2>5, <2>6, <2>7, <2>8, <2>9, <2>10, ListKept
<1>4. QED BY <1>2, <1>3

LEMMA InitcallEndsList ==
  ASSUME ListInv, NEW t \in Callers, InitcallEnds(t)
  PROVE  ListInv'
<1>1. /\ step[t] = "in" /\ step' \in [Actors -> BootSteps]
      /\ step'[t] = IF "initcall_finish" \in probes THEN "finishing" ELSE "out"
      /\ missed' = IF "initcall_finish" \in probes THEN missed ELSE missed \cup {t}
      /\ call' = call /\ initcall_list' = initcall_list
      /\ \A c \in Callers : c # t => step'[c] = step[c]
  BY DEF ListInv, InitcallEnds, StepTo, BootSteps, Actors
<1>2. \A i \in 1..Len(initcall_list) : initcall_list[i].task = t =>
        \/ t \in missed'
        \/ step'[t] \in {"in", "finishing"} /\ initcall_list[i].call = call[t]
  BY <1>1 DEF ListInv, Current
<1>3. \A c \in Callers : c \in missed => c \in missed'
  BY <1>1
<1>4. QED BY <1>1, <1>2, <1>3, ListKept DEF ListInv, Actors

LEMMA FinishCbList ==
  ASSUME ListInv, NEW t \in Callers, NEW slow \in BOOLEAN, FinishCb(t, slow)
  PROVE  ListInv'
<1>1. /\ step' \in [Actors -> BootSteps] /\ call' = call /\ missed' = missed
      /\ \A c \in Callers : c # t => step'[c] = step[c]
      /\ initcall_list' = EntryTaken(t)
  BY DEF ListInv, FinishCb, StepTo, BootSteps, Actors
<1>2. Without(initcall_list', Len(initcall_list), initcall_list, t)
  BY <1>1, FirstEntry DEF ListInv
<1>3. QED BY <1>1, <1>2, ListKept DEF ListInv, Actors, Without

(* A step of a task whose entries are those of missed initcalls             *)
LEMMA OthersList ==
  ASSUME ListInv, NEW a \in Actors, NEW from \in BootSteps, NEW to \in BootSteps,
         a \in Callers => from \notin {"in", "finishing"}, StepTo(a, from, to),
         UNCHANGED <<initcall_list, missed, call>>
  PROVE  ListInv'
<1>1. /\ step[a] = from /\ step' \in [Actors -> BootSteps]
      /\ \A c \in Callers : c # a => step'[c] = step[c]
  BY DEF ListInv, StepTo, Actors
<1>2. \A i \in 1..Len(initcall_list) : initcall_list[i].task = a => a \in missed
  <2>1. \A i \in 1..Len(initcall_list) : initcall_list[i].task \in Callers
    BY ListFacts DEF ListInv
  <2>2. QED BY <1>1, <2>1 DEF ListInv, Current
<1>3. QED BY <1>1, <1>2, ListKept DEF ListInv

LEMMA EmptyListList ==
  ASSUME ListInv, NEW w \in Writers, EmptyList(w)
  PROVE  ListInv'
<1>1. initcall_list' = <<>> /\ step' \in [Actors -> BootSteps] /\ call' = call
  BY DEF ListInv, EmptyList, StepTo, BootSteps, Actors
<1>2. <<>> \in Seq(Entries) /\ Len(<<>>) = 0
  OBVIOUS
<1>3. QED BY <1>1, <1>2 DEF ListInv, OneEach

LEMMA UnloadListList ==
  ASSUME ListInv, UnloadList
  PROVE  ListInv'
<1>1. initcall_list' = <<>> /\ step' = step /\ call' = call
  BY DEF UnloadList
<1>2. <<>> \in Seq(Entries) /\ Len(<<>>) = 0
  OBVIOUS
<1>3. QED BY <1>1, <1>2 DEF ListInv, OneEach

LEMMA ListStill ==
  ASSUME ListInv, UNCHANGED <<initcall_list, missed, call, step>>
  PROVE  ListInv'
BY DEF ListInv, Current, OneEach

LEMMA BootNextList == ListInv /\ [BootNext]_bvars => ListInv'
<1> SUFFICES ASSUME ListInv, [BootNext]_bvars PROVE ListInv'
  OBVIOUS
<1>1. CASE UNCHANGED bvars
  BY <1>1, ListStill DEF bvars, listvars
<1>2. CASE \E t \in Callers : InitcallBegins(t)
  BY <1>2, InitcallBeginsList
<1>3. CASE \E t \in Callers, mem \in BOOLEAN : StartCb(t, mem)
  BY <1>3, StartCbList
<1>4. CASE \E t \in Callers : InitcallEnds(t)
  BY <1>4, InitcallEndsList
<1>5. CASE \E t \in Callers, slow \in BOOLEAN : FinishCb(t, slow)
  BY <1>5, FinishCbList
<1>6. CASE \E t \in Callers, mem, text \in BOOLEAN : LogInitcall(t, mem, text)
  <2>1. PICK t \in Callers, mem \in BOOLEAN, text \in BOOLEAN : LogInitcall(t, mem, text)
    BY <1>6
  <2>2. StepTo(t, "logging", "out") /\ UNCHANGED <<initcall_list, missed, call>>
    BY <2>1 DEF LogInitcall, listvars
  <2>3. QED BY <2>2, OthersList DEF Actors, BootSteps
<1>7. CASE \/ Register("initcall_start", "initcall_finish")
           \/ Register("initcall_finish", "on")
           \/ NotFound("initcall_start") \/ NotFound("initcall_finish")
           \/ UnloadProbes \/ FirstSwitchOn
           \/ \E w \in Writers, mem, text \in BOOLEAN : WriteLog(w, mem, text)
           \/ \E w \in Writers : SwitchOn(w)
  BY <1>7, ListStill
     DEF Register, NotFound, UnloadProbes, FirstSwitchOn, WriteLog, SwitchOn, listvars
<1>8. ASSUME NEW w \in Writers, SwitchOff(w) \/ TestBootFinish(w) \/ SetBootFinish(w)
                                \/ Unregister(w, "initcall_start", "initcall_finish")
                                \/ Unregister(w, "initcall_finish", "empty")
      PROVE  ListInv'
  <2>1. UNCHANGED <<initcall_list, missed, call>>
    BY <1>8 DEF SwitchOff, TestBootFinish, SetBootFinish, Unregister, listvars
  <2>2. \E from, to \in BootSteps : StepTo(w, from, to)
    BY <1>8 DEF SwitchOff, TestBootFinish, SetBootFinish, Unregister, BootSteps
  <2>3. w \notin Callers
    BY LogAssumption
  <2>4. QED BY <2>1, <2>2, <2>3, OthersList DEF Actors
<1>9. CASE \E w \in Writers : EmptyList(w)
  BY <1>9, EmptyListList
<1>10. QED BY <1>1, <1>2, <1>3, <1>4, <1>5, <1>6, <1>7, <1>8, <1>9, UnloadListList DEF BootNext

LEMMA BootInitList == BootInit => ListInv
<1> SUFFICES ASSUME BootInit PROVE ListInv
  OBVIOUS
<1>1. <<>> \in Seq(Entries) /\ Len(<<>>) = 0
  OBVIOUS
<1>2. QED BY <1>1 DEF BootInit, ListInv, OneEach, BootSteps

(* However the callbacks of an initcall race with tp_deinit(), what         *)
(* tp_initcall_finish_cb() finds of a task is the start of the initcall it  *)
(* ends: there is one entry of a task at most, and when no finish was       *)
(* missed it is of the initcall the task is in.                             *)
THEOREM StartsAreOwn == BootSpec => []StartsMatch
<1>1. ListInv => StartsMatch
  <2> SUFFICES ASSUME ListInv, NEW t \in Callers
               PROVE  /\ \A i, j \in EntriesOf(t) : i = j
                      /\ t \notin missed =>
                           \A i \in EntriesOf(t) :
                             /\ step[t] \in {"in", "finishing"}
                             /\ initcall_list[i].call = call[t]
    BY DEF StartsMatch
  <2>1. DOMAIN initcall_list = 1..Len(initcall_list)
    BY ListFacts DEF ListInv
  <2>2. \A i \in EntriesOf(t) : i \in 1..Len(initcall_list) /\ initcall_list[i].task = t
    BY <2>1 DEF EntriesOf
  <2>3. \A i, j \in EntriesOf(t) : i = j
    BY <2>2 DEF ListInv, OneEach
  <2>4. QED BY <2>2, <2>3 DEF ListInv, Current
<1>2. QED BY <1>1, BootInitList, BootNextList, PTL DEF BootSpec

-----------------------------------------------------------------------------
(* FrameMonitor                                                             *)
HasStatus(r) == "jank_happend" \in DOMAIN r

IsList(s) == s \in Seq(ToSet(s)) /\ \A r \in ToSet(s) : HasStatus(r)

(* What is inductive: the records are records, and one of them holds       *)
(* frame_jank up while it is set.                                          *)
JankInv == IsList(buffer_record_list) /\ frame_jank \in BOOLEAN /\ JankShown

(* Replacing one record keeps the others, and the list a list.             *)
LEMMA Replaced ==
  ASSUME NEW s, IsList(s), NEW i \in DOMAIN s, NEW e, HasStatus(e)
  PROVE  /\ IsList(ReplaceAt(s, i, e))
         /\ DOMAIN ReplaceAt(s, i, e) = DOMAIN s
         /\ ReplaceAt(s, i, e)[i] = e
         /\ \A j \in DOMAIN s : j # i => ReplaceAt(s, i, e)[j] = s[j]
<1> DEFINE t == ReplaceAt(s, i, e)
<1>1. /\ s \in [1..Len(s) -> ToSet(s)] /\ Len(s) \in Nat
      /\ DOMAIN s = 1..Len(s)
  BY DEF IsList
<1>2. t = [s EXCEPT ![i] = e]
  BY DEF ReplaceAt
<1>3. DOMAIN t = DOMAIN s /\ t[i] = e /\ \A j \in DOMAIN s : j # i => t[j] = s[j]
  BY <1>1, <1>2
<1>4. t \in [1..Len(s) -> ToSet(t)]
  BY <1>1, <1>2 DEF ToSet
<1>5. t \in Seq(ToSet(t))
  BY <1>1, <1>4
<1>6. \A r \in ToSet(t) : HasStatus(r)
  BY <1>3 DEF IsList, ToSet
<1>7. QED BY <1>3, <1>5, <1>6 DEF IsList

LEMMA Appended ==
  ASSUME NEW s, IsList(s), NEW e, HasStatus(e)
  PROVE  IsList(Append(s, e)) /\ ToSet(s) \subseteq ToSet(Append(s, e))
<1> DEFINE t == Append(s, e)
<1>1. s \in Seq(ToSet(s) \cup {e}) /\ Len(s) \in Nat /\ DOMAIN s = 1..Len(s)
  BY DEF IsList
<1>2. /\ t \in Seq(ToSet(s) \cup {e}) /\ Len(t) = Len(s) + 1
      /\ t[Len(s) + 1] = e /\ \A j \in 1..Len(s) : t[j] = s[j]
  BY <1>1
<1> HIDE DEF t
<1>3. t \in [1..Len(t) -> ToSet(s) \cup {e}] /\ DOMAIN t = 1..Len(t) /\ Len(t) \in Nat
  BY <1>2
<1>4. t \in Seq(ToSet(t))
  <2>1. t \in [1..Len(t) -> ToSet(t)]
    BY <1>3 DEF ToSet
  <2>2. QED BY <1>3, <2>1
<1>5. \A r \in ToSet(t) : HasStatus(r)
  BY <1>1, <1>2, <1>3 DEF IsList, ToSet
<1>6. ToSet(s) \subseteq ToSet(t)
  BY <1>1, <1>2, <1>3 DEF ToSet
<1>7. QED BY <1>4, <1>5, <1>6 DEF IsList, t

(* A record that is stored and refreshed accounts for frame_jank.          *)
LEMMA StoreInv ==
  ASSUME JankInv, NEW i \in DOMAIN buffer_record_list, NEW r, HasStatus(r), Store(i, r)
  PROVE  JankInv'
<1>1. /\ IsList(buffer_record_list)' /\ i \in DOMAIN buffer_record_list'
      /\ buffer_record_list'[i] = r
  BY Replaced DEF JankInv, Store
<1>2. r \in ToSet(buffer_record_list')
  BY <1>1 DEF ToSet
<1>3. frame_jank' \in RefreshFrameLoad(r.jank_happend, buffer_record_list')
  BY DEF Store
<1>4. frame_jank' \in BOOLEAN
  BY <1>3 DEF RefreshFrameLoad
<1>5. JankShown'
  <2>1. CASE r.jank_happend
    BY <1>2, <2>1 DEF JankShown
  <2>2. CASE ~r.jank_happend
    BY <1>3, <2>2 DEF JankShown, RefreshFrameLoad
  <2>3. QED BY <2>1, <2>2
<1>6. QED BY <1>1, <1>4, <1>5 DEF JankInv

(* A record that takes another's place without changing the status.        *)
LEMMA SameStatus ==
  ASSUME JankInv, NEW i \in DOMAIN buffer_record_list, NEW r, HasStatus(r),
         r.jank_happend = Record(i).jank_happend,
         buffer_record_list' = ReplaceAt(buffer_record_list, i, r),
         UNCHANGED frame_jank
  PROVE  JankInv'
<1>1. /\ IsList(buffer_record_list)'
      /\ DOMAIN buffer_record_list' = DOMAIN buffer_record_list
      /\ \A j \in DOMAIN buffer_record_list :
           buffer_record_list'[j].jank_happend = Record(j).jank_happend
  BY Replaced DEF JankInv, Record
<1>2. JankShown'
  BY <1>1 DEF JankInv, JankShown, ToSet, Record
<1>3. QED BY <1>1, <1>2 DEF JankInv

(* The operators on a record leave it one, and a skip its status.          *)
LEMMA Shapes ==
  ASSUME NEW r, HasStatus(r), NEW x, NEW y, NEW b
  PROVE  /\ HasStatus([r EXCEPT !.render_thread = x])
         /\ [r EXCEPT !.render_thread = x].jank_happend = r.jank_happend
         /\ HasStatus(UpdateVsync(r, x, b))
         /\ HasStatus(Repeated(r, b)) /\ HasStatus(Counted(r, b))
         /\ HasStatus(Skipped(r, x)) /\ Skipped(r, x).jank_happend = r.jank_happend
         /\ HasStatus(InitBuffer(r, x, y))
         /\ HasStatus([r EXCEPT !.jank_happend = b])
<1>1. HasStatus(UpdateVsync(r, x, b))
  BY DEF HasStatus, UpdateVsync, Advanced
<1>2. HasStatus(Repeated(r, b))
  BY DEF HasStatus, Repeated, EndsStreak
<1>3. HasStatus(Counted(r, b))
  BY DEF HasStatus, Counted, Scored, EndsStreak
<1>4. HasStatus(Skipped(r, x)) /\ Skipped(r, x).jank_happend = r.jank_happend
  BY DEF HasStatus, Skipped
<1>5. HasStatus(InitBuffer(r, x, y))
  BY DEF HasStatus, InitBuffer
<1>6. /\ HasStatus([r EXCEPT !.render_thread = x])
      /\ [r EXCEPT !.render_thread = x].jank_happend = r.jank_happend
      /\ HasStatus([r EXCEPT !.jank_happend = b])
  BY DEF HasStatus
<1>7. QED BY <1>1, <1>2, <1>3, <1>4, <1>5, <1>6

LEMMA RecycleInv ==
  ASSUME JankInv, NEW i \in DOMAIN buffer_record_list, NEW m, Recycle(i, m)
  PROVE  JankInv'
<1> DEFINE list == buffer_record_list
           calm == ReplaceAt(list, i, [Record(i) EXCEPT !.jank_happend = FALSE])
           new == InitBuffer(Record(i), m.pid, m.id)
<1>1. HasStatus(Record(i)) /\ IsList(list)
  BY DEF JankInv, IsList, ToSet, Record
<1>2. HasStatus([Record(i) EXCEPT !.jank_happend = FALSE]) /\ HasStatus(new)
  BY <1>1, Shapes
<1>3. /\ IsList(calm) /\ DOMAIN calm = DOMAIN list
      /\ calm[i] = [Record(i) EXCEPT !.jank_happend = FALSE]
      /\ \A j \in DOMAIN list : j # i => calm[j] = list[j]
  <2> DEFINE e == [Record(i) EXCEPT !.jank_happend = FALSE]
  <2> HIDE DEF e
  <2>1. HasStatus(e)
    BY <1>2 DEF e
  <2>2. /\ IsList(ReplaceAt(list, i, e)) /\ DOMAIN ReplaceAt(list, i, e) = DOMAIN list
        /\ ReplaceAt(list, i, e)[i] = e
        /\ \A j \in DOMAIN list : j # i => ReplaceAt(list, i, e)[j] = list[j]
    BY <1>1, <2>1, Replaced
  <2>3. QED BY <2>2 DEF e
<1>4. /\ list' = ReplaceAt(calm, i, new)
      /\ frame_jank' \in IF Record(i).jank_happend THEN RefreshFrameLoad(FALSE, calm)
                                                   ELSE {frame_jank}
  BY DEF Recycle
<1> HIDE DEF calm, new
<1>5. /\ IsList(list') /\ DOMAIN list' = DOMAIN list
      /\ \A j \in DOMAIN list : j # i => list'[j] = list[j]
  BY <1>2, <1>3, <1>4, Replaced
<1>6. frame_jank' \in BOOLEAN
  BY <1>4 DEF JankInv, RefreshFrameLoad
<1>7. JankShown'
  <2> SUFFICES ASSUME frame_jank' PROVE \E j \in DOMAIN list : j # i /\ list[j].jank_happend
    BY <1>5 DEF JankShown, ToSet
  <2>1. CASE Record(i).jank_happend
    <3>1. PICK j \in DOMAIN calm : calm[j].jank_happend
      BY <1>4, <2>1 DEF RefreshFrameLoad, ToSet
    <3>2. ~calm[i].jank_happend
      BY <1>1, <1>3 DEF HasStatus
    <3>3. QED BY <1>3, <3>1, <3>2
  <2>2. CASE ~Record(i).jank_happend
    BY <1>4, <2>2 DEF JankInv, JankShown, ToSet, Record
  <2>3. QED BY <2>1, <2>2
<1>8. QED BY <1>5, <1>6, <1>7 DEF JankInv

LEMMA NextJankInv == JankInv /\ [Next]_vars => JankInv'
<1> SUFFICES ASSUME JankInv, [Next]_vars PROVE JankInv'
  OBVIOUS
<1>1. ASSUME UNCHANGED <<buffer_record_list, frame_jank>> PROVE JankInv'
  BY <1>1 DEF JankInv, JankShown
<1>2. \A i \in DOMAIN buffer_record_list : HasStatus(Record(i)) /\ HasStatus(Buffer(i))
  BY Shapes DEF JankInv, IsList, ToSet, Record, Buffer
<1>3. ASSUME NEW p \in Pids, BufferVsync(p) PROVE JankInv'
  BY <1>1, <1>3 DEF BufferVsync
<1>4. ASSUME NEW t \in Threads, NEW p \in Pids, BufferQueue(t, p) PROVE JankInv'
  BY <1>1, <1>4 DEF BufferQueue
<1>5. ASSUME NEW t \in Threads, ThreadExits(t) PROVE JankInv'
  BY <1>1, <1>5 DEF ThreadExits
<1>6. CASE VsyncKnown
  <2>1. PICK i \in RecordsOf(Head(queue).pid), late \in BOOLEAN :
          Store(i, UpdateVsync(Record(i), Head(queue).id, late))
    BY <1>6 DEF VsyncKnown
  <2>2. i \in DOMAIN buffer_record_list
    BY DEF RecordsOf, First
  <2>3. HasStatus(UpdateVsync(Record(i), Head(queue).id, late))
    BY <1>2, <2>2, Shapes
  <2>4. QED BY <2>1, <2>2, <2>3, StoreInv
<1>7. CASE VsyncOfGone
  BY <1>1, <1>7 DEF VsyncOfGone, Drop
<1>8. CASE VsyncRecycles
  BY <1>8, RecycleInv DEF VsyncRecycles
<1>9. CASE VsyncAdds
  <2>1. CASE UNCHANGED buffer_record_list
    BY <1>1, <1>9, <2>1 DEF VsyncAdds
  <2>2. CASE buffer_record_list' =
               Append(buffer_record_list,
                      InitBuffer(Zeroed, Head(queue).pid, Head(queue).id))
    <3>1. HasStatus(Zeroed)
      BY DEF HasStatus, Zeroed
    <3>2. HasStatus(InitBuffer(Zeroed, Head(queue).pid, Head(queue).id))
      BY <3>1, Shapes
    <3>3. IsList(buffer_record_list') /\ ToSet(buffer_record_list) \subseteq ToSet(buffer_record_list')
      BY <2>2, <3>2, Appended DEF JankInv
    <3>4. QED BY <1>9, <3>3 DEF VsyncAdds, JankInv, JankShown
  <2>3. QED BY <1>9, <2>1, <2>2 DEF VsyncAdds
<1>10. CASE QueueDropped
  BY <1>1, <1>10 DEF QueueDropped, Drop
<1>11. ASSUME NEW i \in DOMAIN buffer_record_list, QueueRepeated(i) PROVE JankInv'
  <2>1. PICK slow \in BOOLEAN : Store(i, Repeated(Buffer(i), slow))
    BY <1>11 DEF QueueRepeated
  <2>2. HasStatus(Repeated(Buffer(i), slow))
    BY <1>2, Shapes
  <2>3. QED BY <2>1, <2>2, StoreInv
<1>12. ASSUME NEW i \in DOMAIN buffer_record_list, QueueUnknown(i) PROVE JankInv'
  <2> DEFINE s == Skipped(Buffer(i), Head(queue).id)
  <2>1. HasStatus(s) /\ s.jank_happend = Buffer(i).jank_happend
    BY <1>2, Shapes
  <2>2. Buffer(i).jank_happend = Record(i).jank_happend
    BY <1>2, Shapes DEF Buffer
  <2>3. buffer_record_list' = ReplaceAt(buffer_record_list, i, s) /\ UNCHANGED frame_jank
    BY <1>12 DEF QueueUnknown
  <2> HIDE DEF s
  <2>4. QED BY <2>1, <2>2, <2>3, SameStatus
<1>13. ASSUME NEW i \in DOMAIN buffer_record_list, QueueCounted(i) PROVE JankInv'
  <2> DEFINE s == Skipped(Buffer(i), Head(queue).id)
  <2>1. PICK slow \in BOOLEAN : Store(i, Counted(s, slow))
    BY <1>13 DEF QueueCounted
  <2>2. HasStatus(Counted(s, slow))
    BY <1>2, Shapes
  <2>3. QED BY <2>1, <2>2, StoreInv
<1>14. CASE UNCHANGED vars
  BY <1>1, <1>14 DEF vars
<1>15. QED
  BY <1>3, <1>4, <1>5, <1>6, <1>7, <1>8, <1>9, <1>10, <1>11, <1>12, <1>13, <1>14 DEF Next

(* frame_jank is shown only while some record has a jank that has not      *)
(* ended, whatever the processes send, in whatever order, and however      *)
(* records change hands.  (refresh_frame_load() in every caller)           *)
THEOREM JankIsShown == Spec => []JankShown
<1>1. Init => JankInv
  <2> SUFFICES ASSUME Init PROVE JankInv
    OBVIOUS
  <2>1. buffer_record_list = <<>> /\ frame_jank = FALSE
    BY DEF Init
  <2>2. IsList(<<>>)
    BY DEF IsList, ToSet
  <2>3. QED BY <2>1, <2>2 DEF JankInv, JankShown
<1>2. JankInv => JankShown
  BY DEF JankInv
<1>3. QED BY <1>1, <1>2, NextJankInv, PTL DEF Spec

-----------------------------------------------------------------------------
(* The ring: indices that are less than its size apart have places of      *)
(* their own.                                                               *)
LEMMA Divided ==
  ASSUME NEW N \in Nat, N > 0, NEW x \in Nat
  PROVE  /\ x = N * (x \div N) + (x % N)
         /\ x % N \in 0..(N - 1) /\ x \div N \in Nat
BY SMTT(30)

LEMMA AtLeastOnce ==
  ASSUME NEW N \in Nat, N > 0, NEW d \in Int, d >= 1
  PROVE  N * d >= N
BY SMTT(30)

LEMMA SlotTyped ==
  ASSUME NEW k \in Nat
  PROVE  Slot(k) \in 0..(RecordSize - 1)
BY RingAssumption, Divided DEF Slot

LEMMA SlotsApart ==
  ASSUME NEW k \in Nat, NEW l \in Nat, k < l, l - k < RecordSize
  PROVE  Slot(k) # Slot(l)
<1> DEFINE N == RecordSize
           a == l \div N
           b == k \div N
<1>1. N \in Nat /\ N > 0
  BY RingAssumption
<1>2. l = N * a + Slot(l) /\ a \in Nat /\ Slot(l) \in Nat
  BY <1>1, Divided DEF Slot
<1>3. k = N * b + Slot(k) /\ b \in Nat /\ Slot(k) \in Nat
  BY <1>1, Divided DEF Slot
<1> HIDE DEF N, a, b
<1>4. ASSUME Slot(k) = Slot(l) PROVE FALSE
  <2>1. N * a \in Int /\ N * b \in Int /\ N * (a - b) = N * a - N * b /\ N * (b - a) = N * b - N * a
    BY <1>1, <1>2, <1>3, SMTT(30)
  <2>2. N * a - N * b = l - k
    BY <1>2, <1>3, <1>4, <2>1
  <2>3. ~(a - b >= 1)
    <3>1. ASSUME a - b >= 1 PROVE N * (a - b) >= N
      <4>1. a - b \in Int
        BY <1>2, <1>3
      <4>2. QED BY <1>1, <3>1, <4>1, AtLeastOnce
    <3>2. QED BY <1>1, <2>1, <2>2, <3>1 DEF N
  <2>4. ~(b - a >= 1)
    <3>1. ASSUME b - a >= 1 PROVE N * (b - a) >= N
      <4>1. b - a \in Int
        BY <1>2, <1>3
      <4>2. QED BY <1>1, <3>1, <4>1, AtLeastOnce
    <3>2. QED BY <1>1, <2>1, <2>2, <3>1 DEF N
  <2>5. a = b
    BY <1>2, <1>3, <2>3, <2>4
  <2>6. QED BY <2>1, <2>2, <2>5
<1>5. QED BY <1>4

LEMMA FirstSlots == Slot(0) = 0 /\ Slot(1) = 1
BY RingAssumption, SMTT(30) DEF Slot

LEMMA LeastIndex ==
  ASSUME NEW T \in SUBSET Nat, T # {}
  PROVE  \E x \in T : \A y \in T : x <= y
<1> DEFINE R == {w \in Nat \X Nat : w[1] < w[2]}
<1>1. IsWellFoundedOn(R, Nat)
  BY NatLessThanWellFounded DEF OpToRel
<1>2. PICK x \in T : \A y \in T : <<y, x>> \notin R
  BY <1>1, WFMin
<1>3. ASSUME NEW y \in T PROVE x <= y
  <2>1. <<y, x>> \in Nat \X Nat /\ <<y, x>>[1] = y /\ <<y, x>>[2] = x
    OBVIOUS
  <2>2. ~(y < x)
    BY <1>2, <2>1
  <2>3. QED BY <2>2
<1>4. QED BY <1>3

-----------------------------------------------------------------------------
(* A record whose outstanding frames are newer than what was left behind   *)
(* and end with the newest.                                                *)
Fields == {"pid", "render_thread", "vsync_count", "vsync", "jank_happend", "frame_count",
           "continus_nice", "continus_jank"}

Whole(r) ==
  /\ Fields \subseteq DOMAIN r
  /\ r.pid \in Pids /\ r.vsync_count \in Nat \ {0} /\ r.frame_count \in Nat
  /\ r.vsync \in [0..(RecordSize - 1) -> Entry]

IdAt(r, k) == r.vsync[Slot(k)].id

Fresh(r, newest, left) ==
  /\ Whole(r)
  /\ r.frame_count <= r.vsync_count /\ Gap(r) <= ResetGap
  /\ \A k \in Outstanding(r) : left < IdAt(r, k)
  /\ \A k, l \in Outstanding(r) : k < l => IdAt(r, k) < IdAt(r, l)
  /\ IdAt(r, r.vsync_count - 1) = newest

LEMMA IdTyped ==
  ASSUME NEW r, Whole(r), NEW k \in Nat
  PROVE  IdAt(r, k) \in Nat /\ r.vsync[Slot(k)] \in Entry
BY SlotTyped DEF Whole, IdAt, Entry

(* What a vsync announces is newer than all of it.                          *)
LEMMA NewestIsLast ==
  ASSUME NEW r, NEW n, NEW p, Fresh(r, n, p), NEW k \in Outstanding(r)
  PROVE  k \in Nat /\ IdAt(r, k) <= n /\ n \in Nat /\ p < n
<1>1. /\ r.vsync_count \in Nat \ {0} /\ r.frame_count \in Nat /\ Whole(r)
      /\ IdAt(r, r.vsync_count - 1) = n
  BY DEF Fresh, Whole
<1>2. k \in Nat /\ r.vsync_count - 1 \in Outstanding(r) /\ k <= r.vsync_count - 1
      /\ r.vsync_count - 1 \in Nat
  BY <1>1 DEF Outstanding
<1>3. IdAt(r, k) \in Nat /\ n \in Nat
  BY <1>1, <1>2, IdTyped
<1>4. CASE k = r.vsync_count - 1
  BY <1>1, <1>2, <1>3, <1>4 DEF Fresh
<1>5. CASE k # r.vsync_count - 1
  <2>1. IdAt(r, k) < IdAt(r, r.vsync_count - 1)
    BY <1>1, <1>2, <1>5 DEF Fresh
  <2>2. p < IdAt(r, r.vsync_count - 1)
    BY <1>2 DEF Fresh
  <2>3. QED BY <1>1, <1>2, <1>3, <2>1, <2>2
<1>6. QED BY <1>4, <1>5

(* Room for one more: the frame counted from then on is at the last index.  *)
LEMMA AdvancedFacts ==
  ASSUME NEW r, NEW n, NEW p, Fresh(r, n, p)
  PROVE  LET a == Advanced(r)
         IN  /\ Whole(a) /\ a.pid = r.pid /\ a.vsync_count > 1
             /\ a.frame_count < a.vsync_count /\ Gap(a) <= ResetGap
             /\ \A k \in a.frame_count..(a.vsync_count - 2) : p < IdAt(a, k) /\ IdAt(a, k) <= n
             /\ \A k, l \in a.frame_count..(a.vsync_count - 2) : k < l => IdAt(a, k) < IdAt(a, l)
<1> DEFINE a == Advanced(r)
<1>1. /\ Whole(r) /\ r.vsync_count \in Nat \ {0} /\ r.frame_count \in Nat
      /\ r.vsync \in [0..(RecordSize - 1) -> Entry] /\ Fields \subseteq DOMAIN r
      /\ r.frame_count <= r.vsync_count /\ Gap(r) <= ResetGap
      /\ RecordSize \in Nat /\ ResetGap \in Nat /\ ResetGap >= 2 /\ RecordSize >= 2
  BY RingAssumption DEF Fresh, Whole
<1>2. CASE GapReached(r)
  <2>1. /\ a.vsync = [r.vsync EXCEPT ![0] = r.vsync[Slot(r.vsync_count - 1)]]
        /\ a.vsync_count = 2 /\ a.frame_count = 0 /\ a.pid = r.pid /\ Fields \subseteq DOMAIN a
    BY <1>1, <1>2 DEF Advanced, Fields
  <2>2. r.vsync_count - 1 \in Outstanding(r) /\ r.vsync_count - 1 \in Nat
    BY <1>1, <1>2 DEF GapReached, Gap, Outstanding
  <2>3. r.vsync[Slot(r.vsync_count - 1)] \in Entry /\ IdAt(r, r.vsync_count - 1) = n
    BY <1>1, <2>2, IdTyped DEF Fresh
  <2>4. Whole(a)
    BY <1>1, <2>1, <2>3 DEF Whole
  <2>5. IdAt(a, 0) = n /\ p < n /\ n \in Nat
    <3>1. a.vsync[0] = r.vsync[Slot(r.vsync_count - 1)]
      BY <1>1, <2>1
    <3>2. QED BY <2>2, <2>3, <3>1, FirstSlots, NewestIsLast DEF IdAt
  <2>6. \A k \in a.frame_count..(a.vsync_count - 2) : k = 0
    BY <2>1
  <2>7. Gap(a) = 2
    BY <2>1 DEF Gap
  <2> HIDE DEF a
  <2>8. QED BY <1>1, <2>1, <2>4, <2>5, <2>6, <2>7 DEF a
<1>3. CASE ~GapReached(r)
  <2>1. /\ a.vsync = r.vsync /\ a.vsync_count = r.vsync_count + 1
        /\ a.frame_count = r.frame_count /\ a.pid = r.pid /\ Fields \subseteq DOMAIN a
    BY <1>1, <1>3 DEF Advanced, Fields
  <2>2. Whole(a)
    BY <1>1, <2>1 DEF Whole
  <2>3. Gap(a) <= ResetGap
    BY <1>1, <1>3, <2>1 DEF GapReached, Gap
  <2>4. /\ a.frame_count..(a.vsync_count - 2) = Outstanding(r)
        /\ \A k : IdAt(a, k) = IdAt(r, k)
    BY <1>1, <2>1 DEF Outstanding, IdAt
  <2> HIDE DEF a
  <2>5. \A k \in Outstanding(r) : p < IdAt(a, k) /\ IdAt(a, k) <= n
    BY <2>4, NewestIsLast DEF Fresh
  <2>6. \A k, l \in Outstanding(r) : k < l => IdAt(a, k) < IdAt(a, l)
    BY <2>4 DEF Fresh
  <2>7. QED BY <1>1, <2>1, <2>2, <2>3, <2>4, <2>5, <2>6 DEF a
<1>4. QED BY <1>2, <1>3

(* update_vsync() with a frame that is newer.                               *)
LEMMA VsyncKeepsFresh ==
  ASSUME NEW r, NEW n \in Nat, NEW p \in Nat, Fresh(r, n, p), p <= n,
         NEW id \in Nat, n < id, NEW late \in BOOLEAN
  PROVE  Fresh(UpdateVsync(r, id, late), id, p) /\ UpdateVsync(r, id, late).pid = r.pid
<1> DEFINE a == Advanced(r)
           u == UpdateVsync(r, id, late)
           m == a.vsync_count - 1
<1>1. /\ Whole(a) /\ a.pid = r.pid /\ a.vsync_count > 1
      /\ a.frame_count < a.vsync_count /\ Gap(a) <= ResetGap
      /\ \A k \in a.frame_count..(m - 1) : p < IdAt(a, k) /\ IdAt(a, k) <= n
      /\ \A k, l \in a.frame_count..(m - 1) : k < l => IdAt(a, k) < IdAt(a, l)
  <2>1. a.vsync_count \in Nat
    BY AdvancedFacts DEF Whole
  <2>2. a.vsync_count - 2 = m - 1
    BY <2>1
  <2>3. QED BY <2>2, AdvancedFacts
<1>2. PICK e \in Entry : e.id = id /\ u = [a EXCEPT !.vsync[Slot(m)] = e,
                                                   !.jank_happend = u.jank_happend]
  <2> DEFINE d == late /\ a.frame_count # a.vsync_count - 1
  <2>1. [id |-> id, delay |-> d] \in Entry
    BY DEF Entry
  <2>2. u = [a EXCEPT !.vsync[Slot(m)] = [id |-> id, delay |-> d],
                      !.jank_happend = r.jank_happend \/ d]
    BY DEF UpdateVsync
  <2>3. u.jank_happend = (r.jank_happend \/ d)
    BY <1>1, <2>2 DEF Whole, Fields
  <2> HIDE DEF d, u, a, m
  <2>4. QED BY <2>1, <2>2, <2>3
<1>3. /\ a.vsync_count \in Nat /\ a.frame_count \in Nat /\ m \in Nat /\ Fields \subseteq DOMAIN a
      /\ a.vsync \in [0..(RecordSize - 1) -> Entry] /\ a.pid \in Pids
      /\ a.vsync_count # 0 /\ a.frame_count <= m
  BY <1>1 DEF Whole
<1> HIDE DEF a, u
<1>4. /\ u.vsync_count = a.vsync_count /\ u.frame_count = a.frame_count /\ u.pid = a.pid
      /\ u.vsync = [a.vsync EXCEPT ![Slot(m)] = e] /\ Fields \subseteq DOMAIN u
  BY <1>2, <1>3 DEF Fields
<1> HIDE DEF m
<1>5. Slot(m) \in 0..(RecordSize - 1)
  BY <1>3, SlotTyped
<1>6. Whole(u)
  BY <1>3, <1>4, <1>5 DEF Whole
<1>7. IdAt(u, m) = id
  BY <1>2, <1>3, <1>4, <1>5 DEF IdAt
<1>8. ASSUME NEW k \in a.frame_count..(m - 1) PROVE IdAt(u, k) = IdAt(a, k) /\ k \in Nat
  <2>1. k \in Nat /\ k < m /\ m - k < RecordSize
    BY <1>1, <1>3, <1>8, RingAssumption DEF Gap, m
  <2>2. Slot(k) # Slot(m) /\ Slot(k) \in 0..(RecordSize - 1)
    BY <1>3, <2>1, SlotsApart, SlotTyped
  <2>3. QED BY <1>3, <1>4, <1>5, <2>1, <2>2 DEF IdAt
<1>9. \A k \in Outstanding(u) : k = m \/ k \in a.frame_count..(m - 1)
  BY <1>3, <1>4 DEF Outstanding, m
<1>10. \A k \in a.frame_count..(m - 1) : IdAt(u, k) \in Nat
  BY <1>6, <1>8, IdTyped
<1>11. \A k \in Outstanding(u) : p < IdAt(u, k)
  BY <1>1, <1>7, <1>8, <1>9
<1>12. ASSUME NEW k \in Outstanding(u), NEW l \in Outstanding(u), k < l
       PROVE  IdAt(u, k) < IdAt(u, l)
  <2>1. k \in a.frame_count..(m - 1)
    BY <1>3, <1>4, <1>9, <1>12 DEF Outstanding, m
  <2>2. CASE l = m
    BY <1>1, <1>7, <1>8, <1>10, <2>1, <2>2
  <2>3. CASE l \in a.frame_count..(m - 1)
    BY <1>1, <1>8, <1>12, <2>1, <2>3
  <2>4. QED BY <1>9, <2>2, <2>3
<1>13. u.vsync_count - 1 = m /\ Gap(u) = Gap(a)
  BY <1>4 DEF Gap, m
<1>14. QED BY <1>1, <1>3, <1>4, <1>6, <1>7, <1>11, <1>12, <1>13 DEF Fresh, u

(* update_buffer(): the frames skipped are outstanding ones.                *)
LEMMA SkipsFacts ==
  ASSUME NEW r, NEW n, NEW p, Fresh(r, n, p), NEW id
  PROVE  Gap(r) \in Nat /\ Skips(r, id) \in 0..Gap(r)
<1>1. r.vsync_count \in Nat /\ r.frame_count \in Nat /\ r.frame_count <= r.vsync_count
  BY DEF Fresh, Whole
<1> DEFINE found == {k \in Outstanding(r) : r.vsync[Slot(k)].id = id}
<1>2. CASE found = {}
  BY <1>1, <1>2 DEF Skips, Gap
<1>3. CASE found # {}
  <2>1. found \in SUBSET Nat /\ \A k \in found : k - r.frame_count \in 0..Gap(r)
    BY <1>1 DEF Outstanding, Gap
  <2>2. Skips(r, id) = Min(found) - r.frame_count
    BY <1>3 DEF Skips
  <2> HIDE DEF found
  <2>3. Min(found) \in found
    BY <1>3, <2>1, LeastIndex DEF Min
  <2>4. Gap(r) \in Nat
    BY <1>1 DEF Gap
  <2>5. Min(found) - r.frame_count \in 0..Gap(r)
    BY <2>1, <2>3
  <2>6. QED BY <2>2, <2>4, <2>5
<1>4. QED BY <1>2, <1>3

SameRing(q, r) ==
  /\ Fields \subseteq DOMAIN q
  /\ q.pid = r.pid /\ q.vsync_count = r.vsync_count /\ q.vsync = r.vsync

LEMMA SameFrames ==
  ASSUME NEW r, NEW n, NEW p, Fresh(r, n, p), NEW q, SameRing(q, r), q.frame_count = r.frame_count
  PROVE  Fresh(q, n, p)
BY DEF Fresh, Whole, SameRing, Gap, Outstanding, IdAt

(* The frame left behind is the last of those not outstanding any more.     *)
LEMMA FramesLeft ==
  ASSUME NEW r, NEW n, NEW p \in Nat, Fresh(r, n, p), NEW q, SameRing(q, r),
         q.frame_count \in (r.frame_count + 1)..r.vsync_count
  PROVE  /\ Fresh(q, n, IdAt(q, q.frame_count - 1))
         /\ IdAt(q, q.frame_count - 1) \in Nat /\ IdAt(q, q.frame_count - 1) <= n
<1> DEFINE f == q.frame_count
<1>1. /\ r.vsync_count \in Nat /\ r.frame_count \in Nat /\ f \in Nat /\ f - 1 \in Outstanding(r)
      /\ f <= r.vsync_count /\ f - 1 \in Nat /\ f - 1 >= r.frame_count
  BY DEF Fresh, Whole, Outstanding
<1>2. Whole(q) /\ Gap(q) <= ResetGap /\ f <= q.vsync_count
  BY <1>1, RingAssumption DEF Fresh, Whole, SameRing, Gap
<1>3. \A k : IdAt(q, k) = IdAt(r, k)
  BY DEF SameRing, IdAt
<1>4. IdAt(q, f - 1) \in Nat /\ IdAt(q, f - 1) <= n
  BY <1>1, <1>2, <1>3, IdTyped, NewestIsLast
<1>5. \A k \in Outstanding(q) : k \in Outstanding(r) /\ f - 1 < k
  BY <1>1 DEF Outstanding, SameRing
<1>6. \A k \in Outstanding(q) : IdAt(q, f - 1) < IdAt(q, k)
  BY <1>1, <1>3, <1>5 DEF Fresh
<1>7. \A k, l \in Outstanding(q) : k < l => IdAt(q, k) < IdAt(q, l)
  BY <1>3, <1>5 DEF Fresh
<1>8. IdAt(q, q.vsync_count - 1) = n
  BY <1>3 DEF Fresh, SameRing
<1>9. QED BY <1>2, <1>4, <1>6, <1>7, <1>8 DEF Fresh

LEMMA Rings ==
  ASSUME NEW r, Whole(r), NEW t, NEW id, NEW slow
  PROVE  /\ SameRing([r EXCEPT !.render_thread = t], r)
         /\ [r EXCEPT !.render_thread = t].frame_count = r.frame_count
         /\ SameRing(Repeated(r, slow), r) /\ Repeated(r, slow).frame_count = r.frame_count
         /\ SameRing(Skipped(r, id), r)
         /\ Skipped(r, id).frame_count = r.frame_count + Skips(r, id)
         /\ SameRing(Counted(r, slow), r) /\ Counted(r, slow).frame_count = r.frame_count + 1
<1> USE DEF Whole, Fields, SameRing
<1>1. /\ SameRing([r EXCEPT !.render_thread = t], r)
      /\ [r EXCEPT !.render_thread = t].frame_count = r.frame_count
  OBVIOUS
<1>2. SameRing(Repeated(r, slow), r) /\ Repeated(r, slow).frame_count = r.frame_count
  BY DEF Repeated, EndsStreak
<1>3. /\ SameRing(Skipped(r, id), r)
      /\ Skipped(r, id).frame_count = r.frame_count + Skips(r, id)
  <2> DEFINE x == Skips(r, id)
  <2>1. PICK g, h : Skipped(r, id) = [r EXCEPT !.frame_count = @ + x, !.continus_nice = g,
                                               !.continus_jank = h]
    BY DEF Skipped
  <2> HIDE DEF x
  <2>2. QED BY <2>1 DEF x
<1>4. SameRing(Counted(r, slow), r) /\ Counted(r, slow).frame_count = r.frame_count + 1
  BY DEF Counted, Scored, EndsStreak
<1>5. QED BY <1>1, <1>2, <1>3, <1>4

(* A record that begins with one frame.                                     *)
LEMMA BeginsFresh ==
  ASSUME NEW r, Whole(r) \/ r = Zeroed, NEW pid \in Pids, NEW id \in Nat, NEW p \in Nat, p < id
  PROVE  Fresh(InitBuffer(r, pid, id), id, p) /\ InitBuffer(r, pid, id).pid = pid
<1> DEFINE b == InitBuffer(r, pid, id)
           e == [id |-> id, delay |-> FALSE]
<1>1. Fields \subseteq DOMAIN r /\ r.vsync \in [0..(RecordSize - 1) -> Entry]
  <2>1. CASE Whole(r)
    BY <2>1 DEF Whole
  <2>2. CASE r = Zeroed
    <3>1. [id |-> 0, delay |-> FALSE] \in Entry
      BY DEF Entry
    <3>2. r.vsync = [i \in 0..(RecordSize - 1) |-> [id |-> 0, delay |-> FALSE]]
      BY <2>2 DEF Zeroed
    <3>3. Fields \subseteq DOMAIN r
      BY <2>2 DEF Zeroed, Fields
    <3>4. QED BY <3>1, <3>2, <3>3
  <2>3. QED BY <2>1, <2>2
<1>2. /\ Fields \subseteq DOMAIN b /\ b.pid = pid /\ b.vsync_count = 1 /\ b.frame_count = 0
      /\ b.vsync = [r.vsync EXCEPT ![0] = e]
  BY <1>1 DEF InitBuffer, Fields
<1>3. e \in Entry /\ e.id = id
  BY DEF Entry
<1> HIDE DEF b, e
<1>4. 0 \in 0..(RecordSize - 1)
  BY RingAssumption
<1>5. Whole(b) /\ b.vsync[0] = e
  <2>1. b.vsync \in [0..(RecordSize - 1) -> Entry] /\ b.vsync[0] = e
    BY <1>1, <1>2, <1>3, <1>4
  <2>2. b.vsync_count \in Nat \ {0} /\ b.frame_count \in Nat
    BY <1>2
  <2>3. QED BY <1>2, <2>1, <2>2 DEF Whole
<1>6. IdAt(b, 0) = id /\ Outstanding(b) = {0} /\ Gap(b) = 1
  BY <1>2, <1>3, <1>5, FirstSlots DEF IdAt, Outstanding, Gap
<1>7. QED BY <1>2, <1>5, <1>6, RingAssumption DEF Fresh, b

-----------------------------------------------------------------------------
(* What the worker has and what is still on its way to it.                  *)
Histories ==
  /\ sent \in [Pids -> Nat] /\ seen \in [Pids -> Nat] /\ passed \in [Pids -> Nat]
  /\ \A p \in Pids : passed[p] <= seen[p] /\ seen[p] <= sent[p]

IsVsync(i) == queue[i].type = "vsync"

Coming ==
  /\ queue \in Seq(Messages)
  /\ \A i \in 1..Len(queue) : IsVsync(i) =>
       seen[queue[i].pid] < queue[i].id /\ queue[i].id <= sent[queue[i].pid]
  /\ \A i, j \in 1..Len(queue) :
       i < j /\ IsVsync(i) /\ IsVsync(j) /\ queue[i].pid = queue[j].pid
         => queue[i].id < queue[j].id

Records ==
  /\ IsList(buffer_record_list)
  /\ \A i \in DOMAIN buffer_record_list :
       Fresh(Record(i), seen[Record(i).pid], passed[Record(i).pid])
  /\ \A i, j \in DOMAIN buffer_record_list : Record(i).pid = Record(j).pid => i = j

FrameInv == Histories /\ Coming /\ Records

(* A message is queued behind the others.                                   *)
LEMMA MessageQueued ==
  ASSUME FrameInv, NEW m \in Messages, queue' = Append(queue, m), UNCHANGED <<seen, passed>>,
         sent' \in [Pids -> Nat], \A p \in Pids : sent[p] <= sent'[p],
         m.type = "vsync" => sent[m.pid] < m.id /\ m.id <= sent'[m.pid]
  PROVE  Coming' /\ Histories'
<1> USE DEF FrameInv
<1>1. /\ queue \in Seq(Messages) /\ Len(queue) \in Nat /\ queue' \in Seq(Messages)
      /\ Len(queue') = Len(queue) + 1 /\ queue'[Len(queue) + 1] = m
      /\ \A i \in 1..Len(queue) : queue'[i] = queue[i] /\ queue[i] \in Messages
  BY DEF Coming
<1>2. Histories'
  BY DEF Histories
<1>3. \A x \in Messages : x.pid \in Pids /\ x.id \in Nat
  BY DEF Messages
<1>4. \A i \in 1..Len(queue') : i = Len(queue) + 1 \/ i \in 1..Len(queue)
  BY <1>1
<1>5. \A p \in Pids : /\ seen[p] \in Nat /\ sent[p] \in Nat /\ sent'[p] \in Nat
                      /\ seen[p] <= sent[p] /\ sent[p] <= sent'[p]
  BY DEF Histories
<1>6. ASSUME NEW i \in 1..Len(queue'), queue'[i].type = "vsync"
      PROVE  seen[queue'[i].pid] < queue'[i].id /\ queue'[i].id <= sent'[queue'[i].pid]
  <2>1. CASE i = Len(queue) + 1
    BY <1>1, <1>3, <1>5, <1>6, <2>1
  <2>2. CASE i \in 1..Len(queue)
    <3>1. seen[queue[i].pid] < queue[i].id /\ queue[i].id <= sent[queue[i].pid]
      BY <1>1, <1>6, <2>2 DEF Coming, IsVsync
    <3>2. QED BY <1>1, <1>3, <1>5, <2>2, <3>1
  <2>3. QED BY <1>4, <2>1, <2>2
<1>7. ASSUME NEW i \in 1..Len(queue'), NEW j \in 1..Len(queue'), i < j,
             queue'[i].type = "vsync", queue'[j].type = "vsync", queue'[i].pid = queue'[j].pid
      PROVE  queue'[i].id < queue'[j].id
  <2>1. i \in 1..Len(queue)
    BY <1>1, <1>7
  <2>2. CASE j \in 1..Len(queue)
    BY <1>1, <1>7, <2>1, <2>2 DEF Coming, IsVsync
  <2>3. CASE j = Len(queue) + 1
    <3>1. queue[i].id <= sent[queue[i].pid] /\ queue'[i] = queue[i] /\ queue'[j] = m
      BY <1>1, <1>7, <2>1, <2>3 DEF Coming, IsVsync
    <3>2. QED BY <1>1, <1>3, <1>5, <1>7, <2>1, <3>1
  <2>4. QED BY <1>4, <2>2, <2>3
<1>8. Coming'
  BY <1>1, <1>6, <1>7 DEF Coming, IsVsync
<1>9. QED BY <1>2, <1>8

(* The head is taken, and what it announced is seen or not.                 *)
LEMMA HeadTaken ==
  ASSUME FrameInv, queue # <<>>, queue' = Tail(queue), sent' = sent,
         passed' \in [Pids -> Nat], \A p \in Pids : passed'[p] <= seen[p],
         \/ seen' = seen
         \/ /\ Head(queue).type = "vsync"
            /\ seen' = [seen EXCEPT ![Head(queue).pid] = Head(queue).id]
  PROVE  Coming' /\ Histories'
<1> USE DEF FrameInv
<1>1. /\ queue \in Seq(Messages) /\ Len(queue) \in Nat /\ Len(queue) >= 1
      /\ queue' \in Seq(Messages) /\ Len(queue') = Len(queue) - 1
      /\ \A i \in 1..Len(queue') : queue'[i] = queue[i + 1] /\ i + 1 \in 1..Len(queue)
      /\ Head(queue) = queue[1] /\ \A i \in 1..Len(queue) : queue[i] \in Messages
  BY DEF Coming
<1>2. \A x \in Messages : x.pid \in Pids /\ x.id \in Nat
  BY DEF Messages
<1>3. /\ queue[1].type = "vsync"
           => seen[queue[1].pid] < queue[1].id /\ queue[1].id <= sent[queue[1].pid]
      /\ queue[1] \in Messages
  BY <1>1 DEF Coming, IsVsync
<1>4. seen' \in [Pids -> Nat] /\ \A p \in Pids : seen[p] <= seen'[p] /\ seen'[p] <= sent[p]
  <2>1. /\ seen \in [Pids -> Nat] /\ sent \in [Pids -> Nat]
        /\ \A p \in Pids : seen[p] <= sent[p]
    BY DEF Histories
  <2>2. CASE seen' = seen
    BY <2>1, <2>2
  <2>3. CASE seen' # seen
    <3>1. PICK pid \in Pids, id \in Nat : /\ seen' = [seen EXCEPT ![pid] = id]
                                        /\ seen[pid] < id /\ id <= sent[pid]
      BY <1>1, <1>2, <1>3, <2>3
    <3>2. QED BY <2>1, <3>1
  <2>4. QED BY <2>2, <2>3
<1>5. Histories'
  BY <1>4 DEF Histories
<1>6. ASSUME NEW i \in 1..Len(queue'), queue'[i].type = "vsync"
      PROVE  seen'[queue'[i].pid] < queue'[i].id /\ queue'[i].id <= sent[queue'[i].pid]
  <2>1. /\ queue'[i] = queue[i + 1] /\ i + 1 \in 1..Len(queue) /\ 1 < i + 1 /\ 1 \in 1..Len(queue)
        /\ queue[i + 1] \in Messages
    BY <1>1
  <2>2. seen[queue[i + 1].pid] < queue[i + 1].id /\ queue[i + 1].id <= sent[queue[i + 1].pid]
    BY <1>6, <2>1 DEF Coming, IsVsync
  <2>3. queue[1].type = "vsync" /\ queue[1].pid = queue[i + 1].pid => queue[1].id < queue[i + 1].id
    BY <1>6, <2>1 DEF Coming, IsVsync
  <2>4. QED BY <1>1, <1>2, <2>1, <2>2, <2>3 DEF Histories
<1>7. ASSUME NEW i \in 1..Len(queue'), NEW j \in 1..Len(queue'), i < j,
             queue'[i].type = "vsync", queue'[j].type = "vsync", queue'[i].pid = queue'[j].pid
      PROVE  queue'[i].id < queue'[j].id
  <2>1. /\ queue'[i] = queue[i + 1] /\ i + 1 \in 1..Len(queue) /\ i + 1 < j + 1
        /\ queue'[j] = queue[j + 1] /\ j + 1 \in 1..Len(queue)
    BY <1>1, <1>7
  <2>2. QED BY <1>7, <2>1 DEF Coming, IsVsync
<1>8. Coming'
  BY <1>1, <1>6, <1>7 DEF Coming, IsVsync
<1>9. QED BY <1>5, <1>8

(* A record is put in a place, a further one, or the only one, of its pid.  *)
LEMMA RecordPut ==
  ASSUME FrameInv, NEW i \in DOMAIN buffer_record_list, NEW e, NEW p \in Pids, e.pid = p,
         IsList(buffer_record_list'), DOMAIN buffer_record_list' = DOMAIN buffer_record_list,
         buffer_record_list'[i] = e,
         \A j \in DOMAIN buffer_record_list : j # i =>
           buffer_record_list'[j] = buffer_record_list[j] /\ Record(j).pid # p,
         Fresh(e, seen'[p], passed'[p]),
         \A q \in Pids : q # p => seen'[q] = seen[q] /\ passed'[q] = passed[q]
  PROVE  Records'
<1> USE DEF FrameInv
<1>1. \A j \in DOMAIN buffer_record_list :
        Record(j).pid \in Pids /\ Fresh(Record(j), seen[Record(j).pid], passed[Record(j).pid])
  BY DEF Records, Fresh, Whole
<1>2. ASSUME NEW j \in DOMAIN buffer_record_list'
      PROVE  Fresh(Record(j)', seen'[Record(j)'.pid], passed'[Record(j)'.pid])
  <2>1. CASE j = i
    BY <2>1 DEF Record
  <2>2. CASE j # i
    <3>1. Record(j)' = Record(j) /\ Record(j).pid # p /\ Record(j).pid \in Pids
      BY <1>1, <2>2 DEF Record
    <3>2. QED BY <1>1, <3>1
  <2>3. QED BY <2>1, <2>2
<1>3. \A j, k \in DOMAIN buffer_record_list' : Record(j)'.pid = Record(k)'.pid => j = k
  BY DEF Records, Record
<1>4. QED BY <1>2, <1>3 DEF Records

LEMMA RecordAdded ==
  ASSUME FrameInv, NEW e, NEW p \in Pids, e.pid = p, HasStatus(e),
         buffer_record_list' = Append(buffer_record_list, e),
         \A j \in DOMAIN buffer_record_list : Record(j).pid # p,
         Fresh(e, seen'[p], passed'[p]),
         \A q \in Pids : q # p => seen'[q] = seen[q] /\ passed'[q] = passed[q]
  PROVE  Records'
<1> USE DEF FrameInv
<1>0. PICK n : n = Len(buffer_record_list)
  OBVIOUS
<1>1. /\ IsList(buffer_record_list) /\ n \in Nat /\ DOMAIN buffer_record_list = 1..n
      /\ DOMAIN buffer_record_list' = 1..(n + 1) /\ buffer_record_list'[n + 1] = e
      /\ \A j \in 1..n : buffer_record_list'[j] = buffer_record_list[j]
  BY <1>0 DEF Records, IsList
<1>2. IsList(buffer_record_list')
  BY <1>1, Appended
<1>3. \A j \in 1..n :
        Record(j).pid \in Pids /\ Fresh(Record(j), seen[Record(j).pid], passed[Record(j).pid])
  BY <1>1 DEF Records, Fresh, Whole
<1>4. ASSUME NEW j \in 1..(n + 1)
      PROVE  Fresh(Record(j)', seen'[Record(j)'.pid], passed'[Record(j)'.pid])
  <2>1. CASE j = n + 1
    BY <1>1, <2>1 DEF Record
  <2>2. CASE j \in 1..n
    <3>1. Record(j)' = Record(j) /\ Record(j).pid # p /\ Record(j).pid \in Pids
      BY <1>1, <1>3, <2>2 DEF Record
    <3>2. QED BY <1>3, <2>2, <3>1
  <2>3. QED BY <1>1, <2>1, <2>2
<1>5. ASSUME NEW j \in 1..(n + 1), NEW k \in 1..(n + 1), Record(j)'.pid = Record(k)'.pid PROVE j = k
  <2>1. \A l \in 1..n : Record(l)' = Record(l) /\ Record(l).pid # p
    BY <1>1 DEF Record
  <2>2. Record(n + 1)' = e /\ \A l \in 1..(n + 1) : l = n + 1 \/ l \in 1..n
    BY <1>1 DEF Record
  <2>3. QED BY <1>1, <1>5, <2>1, <2>2 DEF Records
<1>6. QED BY <1>1, <1>2, <1>4, <1>5 DEF Records

(* Whose record there is none, none is found.                               *)
LEMMA NoneFound ==
  ASSUME FrameInv, NEW pid, RecordsOf(pid) = {}
  PROVE  \A j \in DOMAIN buffer_record_list : Record(j).pid # pid
<1> DEFINE T == {j \in DOMAIN buffer_record_list : Record(j).pid = pid}
<1>1. T \in SUBSET Nat
  BY DEF FrameInv, Records, IsList
<1>2. First(T) = {}
  BY DEF RecordsOf
<1> HIDE DEF T
<1>3. T = {}
  <2> SUFFICES ASSUME T # {} PROVE FALSE
    OBVIOUS
  <2>1. PICK x \in T : \A y \in T : x <= y
    BY <1>1, LeastIndex
  <2>2. QED BY <1>2, <2>1 DEF First
<1>4. QED BY <1>3 DEF T

(* The message at the head is a proper one, and announces something new.    *)
LEMMA HeadFacts ==
  ASSUME FrameInv, queue # <<>>
  PROVE  /\ Head(queue) \in Messages /\ Head(queue).pid \in Pids /\ Head(queue).id \in Nat
         /\ Head(queue).type = "vsync" => seen[Head(queue).pid] < Head(queue).id
<1>1. /\ queue \in Seq(Messages) /\ 1 \in 1..Len(queue) /\ Head(queue) = queue[1]
      /\ queue[1] \in Messages
  BY DEF FrameInv, Coming
<1>2. queue[1].pid \in Pids /\ queue[1].id \in Nat
  BY <1>1 DEF Messages
<1>3. queue[1].type = "vsync" => seen[queue[1].pid] < queue[1].id
  BY <1>1 DEF FrameInv, Coming, IsVsync
<1>4. QED BY <1>1, <1>2, <1>3

LEMMA RecordFacts ==
  ASSUME FrameInv, NEW i \in DOMAIN buffer_record_list
  PROVE  /\ Fresh(Record(i), seen[Record(i).pid], passed[Record(i).pid])
         /\ Whole(Record(i)) /\ Record(i).pid \in Pids
         /\ seen[Record(i).pid] \in Nat /\ passed[Record(i).pid] \in Nat
         /\ passed[Record(i).pid] <= seen[Record(i).pid]
         /\ \A j \in DOMAIN buffer_record_list : j # i => Record(j).pid # Record(i).pid
<1>1. Fresh(Record(i), seen[Record(i).pid], passed[Record(i).pid])
  BY DEF FrameInv, Records
<1>2. Whole(Record(i)) /\ Record(i).pid \in Pids
  BY <1>1 DEF Fresh, Whole
<1>3. \A j \in DOMAIN buffer_record_list : j # i => Record(j).pid # Record(i).pid
  BY DEF FrameInv, Records
<1>4. /\ seen[Record(i).pid] \in Nat /\ passed[Record(i).pid] \in Nat
      /\ passed[Record(i).pid] <= seen[Record(i).pid]
  BY <1>2 DEF FrameInv, Histories
<1>5. QED BY <1>1, <1>2, <1>3, <1>4

(* A record that replaces another of its process.                           *)
LEMMA RecordReplaced ==
  ASSUME FrameInv, NEW i \in DOMAIN buffer_record_list, NEW e, e.pid = Record(i).pid,
         buffer_record_list' = ReplaceAt(buffer_record_list, i, e),
         Fresh(e, seen'[Record(i).pid], passed'[Record(i).pid]),
         \A q \in Pids : q # Record(i).pid => seen'[q] = seen[q] /\ passed'[q] = passed[q]
  PROVE  Records'
<1>1. HasStatus(e)
  BY DEF Fresh, Whole, Fields, HasStatus
<1>2. IsList(buffer_record_list)
  BY DEF FrameInv, Records
<1>3. /\ IsList(buffer_record_list') /\ DOMAIN buffer_record_list' = DOMAIN buffer_record_list
      /\ buffer_record_list'[i] = e
      /\ \A j \in DOMAIN buffer_record_list : j # i => buffer_record_list'[j] = buffer_record_list[j]
  BY <1>1, <1>2, Replaced
<1>4. /\ Record(i).pid \in Pids
      /\ \A j \in DOMAIN buffer_record_list : j # i => Record(j).pid # Record(i).pid
  BY RecordFacts
<1>5. QED BY <1>3, <1>4, RecordPut

LEMMA KnownKeepsFrames == FrameInv /\ VsyncKnown => FrameInv'
<1> SUFFICES ASSUME FrameInv, VsyncKnown PROVE FrameInv'
  OBVIOUS
<1>1. /\ queue # <<>> /\ Head(queue).type = "vsync" /\ queue' = Tail(queue) /\ sent' = sent
      /\ seen' = [seen EXCEPT ![Head(queue).pid] = Head(queue).id] /\ passed' = passed
  BY DEF VsyncKnown, Dequeue, See
<1>2. PICK i \in RecordsOf(Head(queue).pid), late \in BOOLEAN :
        Store(i, UpdateVsync(Record(i), Head(queue).id, late))
  BY DEF VsyncKnown
<1>3. i \in DOMAIN buffer_record_list /\ Record(i).pid = Head(queue).pid
  BY DEF RecordsOf, First
<1>4. Coming' /\ Histories'
  BY <1>1, HeadTaken DEF FrameInv, Histories
<1>5. /\ Head(queue).pid \in Pids /\ Head(queue).id \in Nat
      /\ seen[Head(queue).pid] < Head(queue).id
  BY <1>1, HeadFacts
<1> DEFINE e == UpdateVsync(Record(i), Head(queue).id, late)
<1>6. Fresh(e, Head(queue).id, passed[Record(i).pid]) /\ e.pid = Record(i).pid
  BY <1>3, <1>5, RecordFacts, VsyncKeepsFresh
<1>7. buffer_record_list' = ReplaceAt(buffer_record_list, i, e)
  BY <1>2 DEF Store
<1> HIDE DEF e
<1>8. /\ seen'[Record(i).pid] = Head(queue).id
      /\ \A q \in Pids : q # Record(i).pid => seen'[q] = seen[q]
  BY <1>1, <1>3, <1>5 DEF FrameInv, Histories
<1>9. Records'
  BY <1>1, <1>3, <1>6, <1>7, <1>8, RecordReplaced
<1>10. QED BY <1>4, <1>9 DEF FrameInv

LEMMA RecycleKeepsFrames == FrameInv /\ VsyncRecycles => FrameInv'
<1> SUFFICES ASSUME FrameInv, VsyncRecycles PROVE FrameInv'
  OBVIOUS
<1>1. /\ queue # <<>> /\ Head(queue).type = "vsync" /\ queue' = Tail(queue) /\ sent' = sent
      /\ seen' = [seen EXCEPT ![Head(queue).pid] = Head(queue).id] /\ passed' = passed
      /\ RecordsOf(Head(queue).pid) = {}
  BY DEF VsyncRecycles, Dequeue, See
<1>2. PICK i \in DOMAIN buffer_record_list : Recycle(i, Head(queue))
  BY DEF VsyncRecycles
<1>3. Coming' /\ Histories'
  BY <1>1, HeadTaken DEF FrameInv, Histories
<1>4. /\ Head(queue).pid \in Pids /\ Head(queue).id \in Nat
      /\ seen[Head(queue).pid] < Head(queue).id
  BY <1>1, HeadFacts
<1> DEFINE c == [Record(i) EXCEPT !.jank_happend = FALSE]
           e == InitBuffer(Record(i), Head(queue).pid, Head(queue).id)
           calm == ReplaceAt(buffer_record_list, i, c)
<1>5. /\ seen'[Head(queue).pid] = Head(queue).id
      /\ passed[Head(queue).pid] \in Nat /\ passed[Head(queue).pid] < Head(queue).id
      /\ \A q \in Pids : q # Head(queue).pid => seen'[q] = seen[q]
  BY <1>1, <1>4 DEF FrameInv, Histories
<1>6. Fresh(e, Head(queue).id, passed[Head(queue).pid]) /\ e.pid = Head(queue).pid
  BY <1>4, <1>5, RecordFacts, BeginsFresh
<1>7. HasStatus(c) /\ HasStatus(e)
  BY <1>6, RecordFacts DEF Fresh, Whole, Fields, HasStatus
<1>8. IsList(buffer_record_list)
  BY DEF FrameInv, Records
<1>9. buffer_record_list' = ReplaceAt(calm, i, e)
  BY <1>2 DEF Recycle
<1> HIDE DEF c, e
<1>10. /\ IsList(calm) /\ DOMAIN calm = DOMAIN buffer_record_list
       /\ \A j \in DOMAIN buffer_record_list : j # i => calm[j] = buffer_record_list[j]
  BY <1>7, <1>8, Replaced
<1> HIDE DEF calm
<1>11. /\ IsList(buffer_record_list') /\ DOMAIN buffer_record_list' = DOMAIN buffer_record_list
       /\ buffer_record_list'[i] = e
       /\ \A j \in DOMAIN buffer_record_list : j # i => buffer_record_list'[j] = buffer_record_list[j]
  BY <1>7, <1>9, <1>10, Replaced
<1>12. \A j \in DOMAIN buffer_record_list : Record(j).pid # Head(queue).pid
  BY <1>1, NoneFound
<1>13. Records'
  BY <1>1, <1>4, <1>5, <1>6, <1>11, <1>12, RecordPut
<1>14. QED BY <1>3, <1>13 DEF FrameInv

LEMMA AddKeepsFrames == FrameInv /\ VsyncAdds => FrameInv'
<1> SUFFICES ASSUME FrameInv, VsyncAdds PROVE FrameInv'
  OBVIOUS
<1>1. /\ queue # <<>> /\ Head(queue).type = "vsync" /\ queue' = Tail(queue) /\ sent' = sent
      /\ RecordsOf(Head(queue).pid) = {} /\ passed' = passed
  BY DEF VsyncAdds, Dequeue, See
<1>2. CASE UNCHANGED <<buffer_record_list, seen, passed>>
  <2>1. Coming' /\ Histories'
    BY <1>1, <1>2, HeadTaken DEF FrameInv, Histories
  <2>2. QED BY <1>2, <2>1 DEF FrameInv, Records, Record
<1>3. CASE /\ buffer_record_list' =
                Append(buffer_record_list, InitBuffer(Zeroed, Head(queue).pid, Head(queue).id))
           /\ See(Head(queue))
  <2>1. seen' = [seen EXCEPT ![Head(queue).pid] = Head(queue).id]
    BY <1>3 DEF See
  <2>2. Coming' /\ Histories'
    BY <1>1, <2>1, HeadTaken DEF FrameInv, Histories
  <2>3. /\ Head(queue).pid \in Pids /\ Head(queue).id \in Nat
        /\ seen[Head(queue).pid] < Head(queue).id
    BY <1>1, HeadFacts
  <2> DEFINE e == InitBuffer(Zeroed, Head(queue).pid, Head(queue).id)
  <2>4. /\ seen'[Head(queue).pid] = Head(queue).id
        /\ passed[Head(queue).pid] \in Nat /\ passed[Head(queue).pid] < Head(queue).id
        /\ \A q \in Pids : q # Head(queue).pid => seen'[q] = seen[q]
    BY <2>1, <2>3 DEF FrameInv, Histories
  <2>5. Fresh(e, Head(queue).id, passed[Head(queue).pid]) /\ e.pid = Head(queue).pid
    BY <2>3, <2>4, BeginsFresh
  <2>6. HasStatus(e)
    BY <2>5 DEF Fresh, Whole, Fields, HasStatus
  <2>7. \A j \in DOMAIN buffer_record_list : Record(j).pid # Head(queue).pid
    BY <1>1, NoneFound
  <2>8. buffer_record_list' = Append(buffer_record_list, e)
    BY <1>3
  <2> HIDE DEF e
  <2>9. Records'
    BY <1>1, <2>3, <2>4, <2>5, <2>6, <2>7, <2>8, RecordAdded
  <2>10. QED BY <2>2, <2>9 DEF FrameInv
<1>4. QED BY <1>2, <1>3 DEF VsyncAdds

(* What every way through update_buffer() has in common.                    *)
LEMMA BufferFacts ==
  ASSUME FrameInv, NEW i \in DOMAIN buffer_record_list, UpdateBuffer(i)
  PROVE  /\ queue # <<>> /\ queue' = Tail(queue) /\ sent' = sent /\ seen' = seen
         /\ Fresh(Buffer(i), seen[Record(i).pid], passed[Record(i).pid])
         /\ Whole(Buffer(i)) /\ Buffer(i).pid = Record(i).pid
<1>1. queue # <<>> /\ queue' = Tail(queue) /\ sent' = sent /\ seen' = seen
  BY DEF UpdateBuffer, Dequeue
<1>2. /\ SameRing(Buffer(i), Record(i)) /\ Buffer(i).frame_count = Record(i).frame_count
      /\ Fresh(Record(i), seen[Record(i).pid], passed[Record(i).pid])
  BY RecordFacts, Rings DEF Buffer
<1>3. Fresh(Buffer(i), seen[Record(i).pid], passed[Record(i).pid])
  BY <1>2, SameFrames
<1>4. QED BY <1>1, <1>2, <1>3 DEF Fresh, SameRing

(* A record that has left nothing behind by a buffer.                       *)
LEMMA BufferStays ==
  ASSUME FrameInv, NEW i \in DOMAIN buffer_record_list, UpdateBuffer(i), passed' = passed, NEW e,
         SameRing(e, Buffer(i)), e.frame_count = Buffer(i).frame_count,
         buffer_record_list' = ReplaceAt(buffer_record_list, i, e)
  PROVE  FrameInv'
<1>1. Fresh(e, seen[Record(i).pid], passed[Record(i).pid]) /\ e.pid = Record(i).pid
  BY BufferFacts, SameFrames DEF SameRing
<1>2. Coming' /\ Histories'
  BY BufferFacts, HeadTaken DEF FrameInv, Histories
<1>3. Records'
  BY <1>1, BufferFacts, RecordReplaced
<1>4. QED BY <1>2, <1>3 DEF FrameInv

(* One that has.                                                            *)
LEMMA BufferLeaves ==
  ASSUME FrameInv, NEW i \in DOMAIN buffer_record_list, UpdateBuffer(i), NEW e, Leave(e),
         SameRing(e, Buffer(i)),
         e.frame_count \in (Buffer(i).frame_count + 1)..Buffer(i).vsync_count,
         buffer_record_list' = ReplaceAt(buffer_record_list, i, e)
  PROVE  FrameInv'
<1> DEFINE pid == Record(i).pid
           id == IdAt(e, e.frame_count - 1)
<1>1. pid \in Pids /\ passed[pid] \in Nat /\ e.pid = pid
  BY RecordFacts, BufferFacts DEF SameRing
<1>2. Fresh(e, seen[pid], id) /\ id \in Nat /\ id <= seen[pid]
  BY <1>1, BufferFacts, FramesLeft
<1>3. passed' = [passed EXCEPT ![pid] = id]
  BY <1>1 DEF Leave, IdAt
<1>4. passed \in [Pids -> Nat] /\ \A q \in Pids : passed[q] <= seen[q]
  BY DEF FrameInv, Histories
<1> HIDE DEF id, pid
<1>5. /\ passed' \in [Pids -> Nat] /\ \A q \in Pids : passed'[q] <= seen[q]
      /\ passed'[pid] = id /\ \A q \in Pids : q # pid => passed'[q] = passed[q]
  BY <1>1, <1>2, <1>3, <1>4
<1>6. Coming' /\ Histories'
  BY <1>5, BufferFacts, HeadTaken
<1>7. Records'
  BY <1>1, <1>2, <1>5, BufferFacts, RecordReplaced DEF pid
<1>8. QED BY <1>6, <1>7 DEF FrameInv

LEMMA RepeatKeepsFrames ==
  ASSUME FrameInv, NEW i \in DOMAIN buffer_record_list, QueueRepeated(i)
  PROVE  FrameInv'
<1>1. UpdateBuffer(i) /\ passed' = passed
  BY DEF QueueRepeated
<1>2. PICK slow \in BOOLEAN :
        buffer_record_list' = ReplaceAt(buffer_record_list, i, Repeated(Buffer(i), slow))
  BY DEF QueueRepeated, Store
<1>3. /\ SameRing(Repeated(Buffer(i), slow), Buffer(i))
      /\ Repeated(Buffer(i), slow).frame_count = Buffer(i).frame_count
  BY <1>1, BufferFacts, Rings
<1>4. QED BY <1>1, <1>2, <1>3, BufferStays

LEMMA UnknownKeepsFrames ==
  ASSUME FrameInv, NEW i \in DOMAIN buffer_record_list, QueueUnknown(i)
  PROVE  FrameInv'
<1> DEFINE b == Buffer(i)
           s == Skipped(b, Head(queue).id)
<1>1. /\ UpdateBuffer(i) /\ Gap(s) = 0
      /\ buffer_record_list' = ReplaceAt(buffer_record_list, i, s)
      /\ IF Gap(b) > 0 THEN Leave(s) ELSE UNCHANGED passed
  BY DEF QueueUnknown
<1>2. Fresh(b, seen[Record(i).pid], passed[Record(i).pid]) /\ Whole(b)
  BY <1>1, BufferFacts
<1>3. SameRing(s, b) /\ s.frame_count = b.frame_count + Skips(b, Head(queue).id)
  BY <1>2, Rings
<1>4. Gap(b) \in Nat /\ Skips(b, Head(queue).id) \in 0..Gap(b)
  BY <1>2, SkipsFacts
<1>5. b.vsync_count \in Nat /\ b.frame_count \in Nat /\ s.vsync_count = b.vsync_count
  BY <1>2, <1>3 DEF Whole, SameRing
<1> HIDE DEF s, b
<1>6. s.frame_count = b.vsync_count
  BY <1>1, <1>3, <1>4, <1>5 DEF Gap
<1>7. CASE Gap(b) > 0
  <2>1. s.frame_count \in (b.frame_count + 1)..b.vsync_count
    BY <1>5, <1>6, <1>7 DEF Gap
  <2>2. QED BY <1>1, <1>3, <1>7, <2>1, BufferLeaves DEF b
<1>8. CASE ~(Gap(b) > 0)
  <2>1. s.frame_count = b.frame_count
    BY <1>3, <1>4, <1>5, <1>8
  <2>2. QED BY <1>1, <1>3, <1>8, <2>1, BufferStays DEF b
<1>9. QED BY <1>7, <1>8

LEMMA CountedKeepsFrames ==
  ASSUME FrameInv, NEW i \in DOMAIN buffer_record_list, QueueCounted(i)
  PROVE  FrameInv'
<1> DEFINE b == Buffer(i)
           s == Skipped(b, Head(queue).id)
<1>1. PICK slow \in BOOLEAN :
        /\ buffer_record_list' = ReplaceAt(buffer_record_list, i, Counted(s, slow))
        /\ Leave(Counted(s, slow))
  BY DEF QueueCounted, Store
<1>2. UpdateBuffer(i) /\ Gap(s) > 0
  BY DEF QueueCounted
<1>3. Fresh(b, seen[Record(i).pid], passed[Record(i).pid]) /\ Whole(b)
  BY <1>2, BufferFacts
<1>4. SameRing(s, b) /\ s.frame_count = b.frame_count + Skips(b, Head(queue).id)
  BY <1>3, Rings
<1>5. Gap(b) \in Nat /\ Skips(b, Head(queue).id) \in 0..Gap(b)
  BY <1>3, SkipsFacts
<1>6. b.vsync_count \in Nat /\ b.frame_count \in Nat /\ s.vsync_count = b.vsync_count
  BY <1>3, <1>4 DEF Whole, SameRing
<1> DEFINE c == Counted(s, slow)
<1> HIDE DEF s, b
<1>7. Whole(s) /\ s.frame_count \in Nat
  <2>1. s.frame_count \in Nat
    BY <1>4, <1>5, <1>6
  <2>2. QED BY <1>3, <1>4, <2>1 DEF Whole, SameRing
<1>8. SameRing(c, s) /\ c.frame_count = s.frame_count + 1
  BY <1>7, Rings
<1> HIDE DEF c
<1>9. SameRing(c, b)
  BY <1>4, <1>8 DEF SameRing
<1>10. c.frame_count \in (b.frame_count + 1)..b.vsync_count
  BY <1>2, <1>4, <1>5, <1>6, <1>7, <1>8 DEF Gap
<1>11. QED BY <1>1, <1>2, <1>9, <1>10, BufferLeaves DEF b, c

LEMMA StepKeepsFrames == FrameInv /\ [Next]_vars => FrameInv'
<1> SUFFICES ASSUME FrameInv, [Next]_vars PROVE FrameInv'
  OBVIOUS
<1>1. ASSUME UNCHANGED <<buffer_record_list, seen, passed>>, Coming', Histories' PROVE FrameInv'
  BY <1>1 DEF FrameInv, Records, Record
<1>2. ASSUME NEW p \in Pids, BufferVsync(p) PROVE FrameInv'
  <2>1. /\ sent' = [sent EXCEPT ![p] = @ + 1] /\ UNCHANGED <<buffer_record_list, seen, passed>>
        /\ sent \in [Pids -> Nat] /\ p \in Threads
    BY <1>2 DEF BufferVsync, FrameInv, Histories, Threads
  <2>2. sent' \in [Pids -> Nat] /\ sent'[p] = sent[p] + 1 /\ \A q \in Pids : sent[q] <= sent'[q]
    BY <2>1
  <2>3. CASE queue' = queue
    <3>1. Histories'
      BY <2>1, <2>2 DEF FrameInv, Histories
    <3>2. \A i \in 1..Len(queue) : queue[i].pid \in Pids /\ queue[i].id \in Nat
      <4>1. \A i \in 1..Len(queue) : queue[i] \in Messages
        BY DEF FrameInv, Coming
      <4>2. \A x \in Messages : x.pid \in Pids /\ x.id \in Nat
        BY DEF Messages
      <4>3. QED BY <4>1, <4>2
    <3>3. Coming'
      <4>1. \A i \in 1..Len(queue) : IsVsync(i)' = IsVsync(i)
        BY <2>3 DEF IsVsync
      <4>2. queue' \in Seq(Messages)
        BY <2>3 DEF FrameInv, Coming
      <4>3. ASSUME NEW i \in 1..Len(queue'), IsVsync(i)'
            PROVE  seen'[queue'[i].pid] < queue'[i].id /\ queue'[i].id <= sent'[queue'[i].pid]
        <5>1. i \in 1..Len(queue) /\ IsVsync(i)
          BY <2>3, <4>1, <4>3
        <5>2. seen[queue[i].pid] < queue[i].id /\ queue[i].id <= sent[queue[i].pid]
          BY <5>1 DEF FrameInv, Coming
        <5>3. PICK q \in Pids, n \in Nat : q = queue[i].pid /\ n = queue[i].id
          BY <5>1, <3>2
        <5>4. seen[q] < n /\ n <= sent[q] /\ sent[q] \in Nat
          BY <5>2, <5>3, <2>1
        <5>5. n <= sent'[q] /\ seen'[q] < n
          BY <5>4, <2>1, <2>2
        <5>6. QED BY <5>5, <5>3, <2>3
      <4>4. ASSUME NEW i \in 1..Len(queue'), NEW j \in 1..Len(queue'),
                   i < j, IsVsync(i)', IsVsync(j)', queue'[i].pid = queue'[j].pid
            PROVE  queue'[i].id < queue'[j].id
        <5>1. i \in 1..Len(queue) /\ j \in 1..Len(queue) /\ IsVsync(i) /\ IsVsync(j)
              /\ queue[i].pid = queue[j].pid
          BY <2>3, <4>1, <4>4
        <5>2. queue[i].id < queue[j].id
          BY <5>1, <4>4 DEF FrameInv, Coming
        <5>3. QED BY <5>2, <2>3
      <4>5. QED BY <4>2, <4>3, <4>4 DEF Coming
    <3>4. QED BY <1>1, <2>1, <3>1, <3>3
  <2>4. CASE queue' # queue
    <3> DEFINE m == Message("vsync", p, p, sent[p] + 1)
    <3>1. queue' = Append(queue, m)
      BY <1>2, <2>4 DEF BufferVsync, NotifyBufferWork
    <3>2. m \in Messages /\ m.pid = p /\ m.id = sent[p] + 1
      BY <2>1 DEF Message, Messages
    <3> HIDE DEF m
    <3>3. Coming' /\ Histories'
      BY <2>1, <2>2, <3>1, <3>2, MessageQueued
    <3>4. QED BY <1>1, <2>1, <3>3
  <2>5. QED BY <2>3, <2>4
<1>3. ASSUME NEW t \in Threads, NEW p \in Pids, BufferQueue(t, p) PROVE FrameInv'
  <2>1. PICK id \in 1..sent[p] : queue' = Append(queue, Message("queue", t, p, id))
    BY <1>3 DEF BufferQueue, NotifyBufferWork
  <2>2. UNCHANGED <<buffer_record_list, seen, passed, sent>>
    BY <1>3 DEF BufferQueue
  <2>3. sent \in [Pids -> Nat] /\ \A q \in Pids : sent[q] <= sent[q]
    BY DEF FrameInv, Histories
  <2>4. Message("queue", t, p, id) \in Messages /\ Message("queue", t, p, id).type # "vsync"
    BY <2>3 DEF Message, Messages
  <2>5. Coming' /\ Histories'
    BY <2>1, <2>2, <2>3, <2>4, MessageQueued
  <2>6. QED BY <1>1, <2>2, <2>5
<1>4. ASSUME UNCHANGED <<buffer_record_list, seen, passed, sent, queue>> PROVE FrameInv'
  BY <1>4 DEF FrameInv, Records, Record, Coming, Histories, IsVsync
<1>5. ASSUME NEW t \in Threads, ThreadExits(t) PROVE FrameInv'
  BY <1>4, <1>5 DEF ThreadExits
<1>6. ASSUME queue # <<>>, queue' = Tail(queue), sent' = sent, Drop PROVE FrameInv'
  <2>1. Coming' /\ Histories'
    BY <1>6, HeadTaken DEF Drop, FrameInv, Histories
  <2>2. QED BY <1>1, <1>6, <2>1 DEF Drop
<1>7. CASE VsyncKnown
  BY <1>7, KnownKeepsFrames
<1>8. CASE VsyncOfGone
  BY <1>6, <1>8 DEF VsyncOfGone, Dequeue
<1>9. CASE VsyncRecycles
  BY <1>9, RecycleKeepsFrames
<1>10. CASE VsyncAdds
  BY <1>10, AddKeepsFrames
<1>11. CASE QueueDropped
  BY <1>6, <1>11 DEF QueueDropped, Dequeue
<1>12. ASSUME NEW i \in DOMAIN buffer_record_list, QueueRepeated(i) PROVE FrameInv'
  BY <1>12, RepeatKeepsFrames
<1>13. ASSUME NEW i \in DOMAIN buffer_record_list, QueueUnknown(i) PROVE FrameInv'
  BY <1>13, UnknownKeepsFrames
<1>14. ASSUME NEW i \in DOMAIN buffer_record_list, QueueCounted(i) PROVE FrameInv'
  BY <1>14, CountedKeepsFrames
<1>15. CASE UNCHANGED vars
  BY <1>4, <1>15 DEF vars
<1>16. QED
  BY <1>2, <1>3, <1>5, <1>7, <1>8, <1>9, <1>10, <1>11, <1>12, <1>13, <1>14, <1>15 DEF Next

(* The ids under way to the worker are newer than those it has seen and in *)
(* order, a process has one record, and the outstanding frames of each are *)
(* in the order of their ids, few enough for the ring, and the newest last. *)
(* (the id that notify_buffer_work() sends, get_record_entry(),            *)
(* count_frame_load())                                                     *)
THEOREM FrameInvariant == Spec => []FrameInv
<1>1. Init => FrameInv
  <2> SUFFICES ASSUME Init PROVE FrameInv
    OBVIOUS
  <2>1. queue = <<>> /\ buffer_record_list = <<>>
    BY DEF Init
  <2>2. IsList(<<>>)
    BY DEF IsList, ToSet
  <2>3. Records
    BY <2>1, <2>2 DEF Records
  <2>4. Coming
    BY <2>1 DEF Coming
  <2>5. Histories
    BY DEF Init, Histories
  <2>6. QED BY <2>3, <2>4, <2>5 DEF FrameInv
<1>2. QED BY <1>1, StepKeepsFrames, PTL DEF Spec

(* No outstanding frame is overwritten, counted twice or out of order,     *)
(* whatever the ring's size, and whatever messages are lost and records    *)
(* reset or recycled.                                                      *)
THEOREM FramesStayFresh == Spec => []OutstandingFresh
<1>1. FrameInv => OutstandingFresh
  <2> SUFFICES ASSUME FrameInv, NEW i \in DOMAIN buffer_record_list
               PROVE  LET r == Record(i)  Id(k) == r.vsync[Slot(k)].id
                      IN /\ 0 <= Gap(r) /\ Gap(r) <= RecordSize
                         /\ \A k \in Outstanding(r) : passed[r.pid] < Id(k)
                         /\ \A k \in Outstanding(r), l \in Outstanding(r) : k < l => Id(k) < Id(l)
                         /\ Id(r.vsync_count - 1) = seen[r.pid]
    BY DEF OutstandingFresh
  <2>1. Fresh(Record(i), seen[Record(i).pid], passed[Record(i).pid])
    BY RecordFacts
  <2>2. 0 <= Gap(Record(i)) /\ Gap(Record(i)) <= RecordSize
    BY <2>1, RingAssumption DEF Fresh, Whole, Gap
  <2>3. QED BY <2>1, <2>2 DEF Fresh, IdAt
<1>2. QED BY <1>1, FrameInvariant, PTL
=============================================================================
