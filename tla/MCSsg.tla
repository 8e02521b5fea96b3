-------------------------------- MODULE MCSsg --------------------------------
(***************************************************************************)
(* The lists of the scheduler and its tag limits share no state: the       *)
(* initial state chooses one of them, whose actions are then taken while   *)
(* the other stays as it is.                                               *)
(***************************************************************************)
EXTENDS MCSsgSched, SsgTags
CONSTANTS t1, t2
OneTgid == [t \in Tasks |-> 1]
OpsOf == [t \in Tasks |-> IF t = t1 THEN {"async_write"} ELSE {"async_write", "flush"}]
GroupSymmetry == Permutations(Groups)

VARIABLE half

Lists == half = "lists" /\ UNCHANGED <<tvars, half>>
Limits == half = "limits" /\ UNCHANGED <<vars, half>>

(* Of the half that is not chosen one initial state is enough.              *)
SsgInit ==
  /\ half \in {"lists", "limits"}
  /\ Init /\ TagsInit
  /\ half = "lists" => /\ rq_info = NoGroup
                       /\ depth = CHOOSE d \in Depths : TRUE
                       /\ \E g \in Groups : group = [t \in Tasks |-> g]

SsgNext ==
  \/ Lists /\ \E b \in Bios : Alloc(b)
  \/ Lists /\ \E b \in Bios : InsertMerge(b)
  \/ Lists /\ \E b \in Bios : InsertSort(b)
  \/ Lists /\ \E b \in Bios : InsertHead(b)
  \/ Lists /\ \E b \in Bios : FinishRequest(b)
  \/ Lists /\ \E b, r \in Bios : BioBackMerge(b, r)
  \/ Lists /\ \E b, r \in Bios : BioFrontMerge(b, r)
  \/ Lists /\ DispatchRequest
  \/ Lists /\ Tick
  \/ Limits /\ \E t \in Tasks : \E op \in Ops[t] : StartUnlimited(t, op)
  \/ Limits /\ \E t \in Tasks : \E op \in Ops[t] : LimitBlkcg(t, op)
  \/ Limits /\ \E t \in Tasks : LimitAsync(t)
  \/ Limits /\ \E t \in Tasks : LimitTgroup(t)
  \/ Limits /\ \E t \in Tasks, i \in Tags : GetTag(t, i)
  \/ Limits /\ \E t \in Tasks : PrepareRequest(t)
  \/ Limits /\ \E i \in Tags : UncountRequest(i)
  \/ Limits /\ \E t \in Movers, g \in Groups : Migrate(t, g)
  \/ Limits /\ \E g \in Groups : PdInit(g)
  \/ Limits /\ \E g \in Groups : PdOffline(g)
  \/ Limits /\ \E g \in Groups, ratio \in Ratios : SetMaxAvailableRatio(g, ratio)
  \/ Limits /\ \E d \in Depths : \E info \in Infos(d) : DepthUpdated(d, info)
  \/ Limits /\ \E info \in Infos(depth) : SwitchElevator(info)

SsgSpec == SsgInit /\ [][SsgNext]_<<vars, tvars, half>>
=============================================================================
