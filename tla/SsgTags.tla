------------------------------- MODULE SsgTags -------------------------------
(***************************************************************************)
(* block/ssg-iosched.c and ssg-cgroup.c: how many tags of the scheduler a  *)
(* cgroup and asynchronous writes may have, and what is counted for it.    *)
(*                                                                         *)
(* Grain: nothing here takes a lock.  A task that allocates a request looks*)
(* at the three counts one after the other, then takes a tag, then counts  *)
(* the request; a completion, which runs in any context, undoes the count  *)
(* before the tag is free.  There is one hardware queue.                   *)
(***************************************************************************)
EXTENDS Integers, FiniteSets

CONSTANTS
  Tasks,      (* those that submit bios                                    *)
  Tgid,       (* of each, its thread group                                 *)
  Groups,     (* cgroups                                                   *)
  NoGroup,
  Ops,        (* the kinds of requests each makes                          *)
  Depths,     (* values of nr_requests                                     *)
  Ratios,     (* values written to ssg.max_available_ratio                 *)
  Movers,     (* bound: the tasks that are moved from cgroup to cgroup     *)
  WordBits,   (* bits in a word of the bitmap of tags                      *)
  congestion_threshold, max_tgroup_io_ratio, max_async_write_ratio,
  MAX_ASYNC_WRITE_RQS

OpKinds == {"read", "async_write", "passthrough", "flush"}

(* q->rq_info: of each tag whose request it is and for whom it is counted   *)
InfoArrays(d) == [0..(d - 1) -> [tgid : Nat, blkg : Groups \cup {NoGroup}]]

ASSUME TagAssumption ==
  /\ IsFiniteSet(Tasks) /\ Movers \subseteq Tasks /\ NoGroup \notin Groups
  /\ \A d \in Depths : NoGroup \notin InfoArrays(d)
  /\ Tgid \in [Tasks -> Nat \ {0}]
  /\ Ops \in [Tasks -> SUBSET OpKinds]
  /\ Depths \subseteq Nat \ {0} /\ Depths # {}
  /\ Ratios \subseteq 0..100
  /\ WordBits \in Nat \ {0}
  /\ congestion_threshold \in 0..100 /\ max_tgroup_io_ratio \in 0..100
  /\ max_async_write_ratio \in 0..100 /\ MAX_ASYNC_WRITE_RQS \in Nat

VARIABLES
  depth,          (* q->nr_requests                                        *)
  group,          (* the cgroup each task is in                            *)
  max_available_ratio,   (* of each cgroup                                 *)
  blkg,           (* of each cgroup its ssg_blkg for the queue             *)
  counts,         (* allocated_rqs, async_write_rqs                        *)
  rq_info,        (* of each tag the ssg_request_info, or NoGroup for no array*)
  alloc,          (* how far a task is in allocating a request             *)
  rq              (* the request of each tag                               *)

tvars == <<depth, group, max_available_ratio, blkg, counts, rq_info, alloc, rq>>

Tags == 0..(depth - 1)
Unset == [tgid |-> 0, blkg |-> NoGroup]
Unused == [phase |-> "free", op |-> "flush", blkg |-> NoGroup, within |-> FALSE]
Idle == [pc |-> "idle", op |-> "flush", shallow |-> 0, within |-> NoGroup, tag |-> 0]

(* History: `within', with a task, the cgroup whose present limit the look  *)
(* found room under, if any; with a request, whether that was the one it    *)
(* was counted for, `blkg'.                                                 *)

-----------------------------------------------------------------------------
Least(a, b) == IF a < b THEN a ELSE b
AtLeast1(n) == IF n < 1 THEN 1 ELSE n
MinNotZero(a, b) == IF a = 0 THEN b ELSE IF b = 0 THEN a ELSE Least(a, b)

MapNr(d) == (d + WordBits - 1) \div WordBits

(* ssg_set_shallow_depth(), from the depth                                  *)
CongestionRqs == (depth * congestion_threshold) \div 100
MaxAsyncWriteRqs == Least((depth * max_async_write_ratio) \div 100, MAX_ASYNC_WRITE_RQS)
AsyncWriteShallow == AtLeast1(MaxAsyncWriteRqs \div MapNr(depth))
MaxTgroupRqs == (depth * max_tgroup_io_ratio) \div 100
TgroupShallow == AtLeast1(MaxTgroupRqs \div MapNr(depth))

(* ssg_blkcg_set_shallow_depth()                                            *)
WithLimits(b, d, ratio) ==
  [b EXCEPT !.max = (d * ratio) \div 100,
            !.shallow = AtLeast1(((d * ratio) \div 100) \div MapNr(d))]

NoBlkg == [live |-> FALSE, current |-> 0, max |-> 0, shallow |-> 0]
NewBlkg(d, ratio) == WithLimits([NoBlkg EXCEPT !.live = TRUE], d, ratio)

(* Mutant: the limit itself is let through.                                 *)
PastLimit(current, max) == current > max

AtLimit(current, max) == current >= max

(* blkg_lookup() of the cgroup a task is in                                 *)
Lookup(t) == IF blkg[group[t]].live THEN group[t] ELSE NoGroup

AsyncWrite(op) == op = "async_write"

Infos(d) == {[i \in 0..(d - 1) |-> Unset], NoGroup}

(* ssg_rq_info() finds an entry                                             *)
HasInfo == rq_info # NoGroup

Inc(b, g) == IF g = NoGroup THEN b ELSE [b EXCEPT ![g].current = @ + 1]
Dec(b, g) == IF g = NoGroup THEN b ELSE [b EXCEPT ![g].current = @ - 1]

(* sbitmap_get_shallow(): the tags a restricted allocation may take.        *)
Takes(i, shallow) == shallow = 0 \/ i % WordBits < shallow

-----------------------------------------------------------------------------
AllocTo(t, from, to) == alloc[t].pc = from /\ alloc' = [alloc EXCEPT ![t] = to]

(* ssg_limit_depth() is not called for flushes and passthrough requests.    *)
StartUnlimited(t, op) ==
  /\ op \in {"flush", "passthrough"}
  /\ AllocTo(t, "idle", [Idle EXCEPT !.pc = "get", !.op = op])
  /\ UNCHANGED <<depth, group, max_available_ratio, blkg, counts, rq_info, rq>>

(* ssg_limit_depth(), ssg_blkcg_shallow_depth()                             *)
LimitBlkcg(t, op) ==
  LET g == Lookup(t)
      full == g # NoGroup /\ AtLimit(blkg[g].current, blkg[g].max)
  IN /\ op \in {"read", "async_write"}
     /\ AllocTo(t, "idle", [Idle EXCEPT !.pc = "async", !.op = op,
             !.shallow = IF full THEN blkg[g].shallow ELSE 0,
             !.within = IF full THEN NoGroup ELSE g])
     /\ UNCHANGED <<depth, group, max_available_ratio, blkg, counts, rq_info, rq>>

(* ssg_async_write_shallow_depth()                                          *)
LimitAsync(t) ==
  LET full == AsyncWrite(alloc[t].op) /\ AtLimit(counts.async_write_rqs, MaxAsyncWriteRqs)
  IN /\ AllocTo(t, "async", [alloc[t] EXCEPT !.pc = "tgroup",
             !.shallow = MinNotZero(@, IF full THEN AsyncWriteShallow ELSE 0)])
     /\ UNCHANGED <<depth, group, max_available_ratio, blkg, counts, rq_info, rq>>

TgroupRqs(t) == Cardinality({i \in Tags : rq_info[i].tgid = Tgid[t]})

(* ssg_limit_depth() for a queue that is congested, and                     *)
(* ssg_tgroup_shallow_depth()                                               *)
LimitTgroup(t) ==
  LET full == /\ counts.allocated_rqs > CongestionRqs
              /\ HasInfo /\ TgroupRqs(t) >= MaxTgroupRqs
  IN /\ AllocTo(t, "tgroup", [alloc[t] EXCEPT !.pc = "get",
             !.shallow = MinNotZero(@, IF full THEN TgroupShallow ELSE 0)])
     /\ UNCHANGED <<depth, group, max_available_ratio, blkg, counts, rq_info, rq>>

(* blk_mq_get_tag(), which waits until there is one                         *)
GetTag(t, i) ==
  /\ rq[i].phase = "free" /\ Takes(i, alloc[t].shallow)
  /\ AllocTo(t, "get", [alloc[t] EXCEPT !.pc = "prepare", !.tag = i, !.shallow = 0])
  /\ rq' = [rq EXCEPT ![i] = [Unused EXCEPT !.phase = "taken", !.op = alloc[t].op]]
  /\ UNCHANGED <<depth, group, max_available_ratio, blkg, counts, rq_info>>

(* ssg_prepare_request(); a flush does without.                             *)
PrepareRequest(t) ==
  LET i == alloc[t].tag
      g == IF HasInfo THEN Lookup(t) ELSE NoGroup
      elv == alloc[t].op # "flush"
  IN /\ AllocTo(t, "prepare", Idle)
     /\ rq' = [rq EXCEPT ![i] = [@ EXCEPT !.phase = "inflight",
                 !.blkg = IF elv THEN g ELSE NoGroup,
                 !.within = elv /\ g # NoGroup /\ alloc[t].within = g]]
     /\ IF elv
          THEN /\ counts' = [allocated_rqs |-> counts.allocated_rqs + 1,
                          async_write_rqs |-> counts.async_write_rqs
                             + (IF AsyncWrite(alloc[t].op) THEN 1 ELSE 0)]
               /\ rq_info' = IF HasInfo
                    THEN [rq_info EXCEPT ![i] = [tgid |-> Tgid[t], blkg |-> g]]
                    ELSE NoGroup
               /\ blkg' = Inc(blkg, g)
          ELSE UNCHANGED <<counts, rq_info, blkg>>
     /\ UNCHANGED <<depth, group, max_available_ratio>>

(* Mutant: a request is taken off the count of the cgroup its task is in by *)
(* then.                                                                    *)
CountedNow(i) ==
  IF HasInfo /\ rq_info[i].tgid # 0
    THEN Lookup(CHOOSE t \in Tasks : Tgid[t] = rq_info[i].tgid) ELSE NoGroup

(* The ssg_blkg that was found for the request when it was prepared         *)
CountedFor(i) == IF HasInfo THEN rq_info[i].blkg ELSE NoGroup

(* ssg_finish_request(), for a flush nothing, there is no RQF_ELVPRIV; then *)
(* blk_mq_put_tag().                                                        *)
UncountRequest(i) ==
  LET elv == rq[i].op # "flush"
  IN /\ rq[i].phase = "inflight"
     /\ rq' = [rq EXCEPT ![i] = Unused]
     /\ IF elv
          THEN /\ counts' = [allocated_rqs |-> counts.allocated_rqs - 1,
                          async_write_rqs |-> counts.async_write_rqs
                             - (IF AsyncWrite(rq[i].op) THEN 1 ELSE 0)]
               /\ rq_info' = IF HasInfo THEN [rq_info EXCEPT ![i] = Unset] ELSE NoGroup
               /\ blkg' = Dec(blkg, CountedFor(i))
          ELSE UNCHANGED <<counts, rq_info, blkg>>
     /\ UNCHANGED <<depth, group, max_available_ratio, alloc>>

-----------------------------------------------------------------------------
Removed(g) == ~blkg[g].live /\ blkg[g] # NoBlkg

(* The cgroups: a task moves between any two steps of an allocation or with *)
(* requests in flight; a cgroup gets its ssg_blkg (ssg_blkcg_pd_init) with  *)
(* its first bio, and loses it once when it is removed.                     *)
Migrate(t, g) ==
  /\ ~Removed(g)
  /\ group' = [group EXCEPT ![t] = g]
  /\ UNCHANGED <<depth, max_available_ratio, blkg, counts, rq_info, alloc, rq>>

PdInit(g) ==
  /\ blkg[g] = NoBlkg
  /\ blkg' = [blkg EXCEPT ![g] = NewBlkg(depth, max_available_ratio[g])]
  /\ UNCHANGED <<depth, group, max_available_ratio, counts, rq_info, alloc, rq>>

PdOffline(g) ==
  /\ blkg[g].live /\ \A t \in Tasks : group[t] # g
  /\ blkg' = [blkg EXCEPT ![g].live = FALSE]
  /\ UNCHANGED <<depth, group, max_available_ratio, counts, rq_info, alloc, rq>>

SetMaxAvailableRatio(g, ratio) ==
  /\ ~Removed(g)
  /\ max_available_ratio' = [max_available_ratio EXCEPT ![g] = ratio]
  /\ blkg' = [blkg EXCEPT ![g] = IF @.live THEN WithLimits(@, depth, ratio) ELSE @]
  /\ alloc' = [t \in Tasks |-> [alloc[t] EXCEPT !.within = IF @ = g THEN NoGroup ELSE @]]
  /\ rq' = [i \in Tags |-> [rq[i] EXCEPT !.within = @ /\ rq[i].blkg # g]]
  /\ UNCHANGED <<depth, group, counts, rq_info>>

(* The block layer freezes the queue: no request, and none being made.      *)
Frozen == /\ \A t \in Tasks : alloc[t].pc = "idle"
          /\ \A i \in Tags : rq[i].phase = "free"

Resized(d, info) ==
  /\ depth' = d
  /\ rq_info' = info
  /\ rq' = [i \in 0..(d - 1) |-> Unused]

(* ssg_depth_updated(), ssg_blkcg_depth_updated(); kmalloc() may fail.      *)
DepthUpdated(d, info) ==
  /\ Frozen
  /\ Resized(d, info)
  /\ blkg' = [g \in Groups |->
                IF blkg[g].live
                  THEN WithLimits([blkg[g] EXCEPT !.current = 0], d, max_available_ratio[g])
                  ELSE blkg[g]]
  /\ UNCHANGED <<group, max_available_ratio, counts, alloc>>

(* ssg_exit_queue() and, when the scheduler is chosen again,                *)
(* ssg_init_queue(): blkcg_activate_policy() calls pd_init for every        *)
(* cgroup that has a blkg.                                                  *)
SwitchElevator(info) ==
  /\ Frozen
  /\ Resized(depth, info)
  /\ counts' = [allocated_rqs |-> 0, async_write_rqs |-> 0]
  /\ blkg' = [g \in Groups |->
                IF blkg[g].live THEN NewBlkg(depth, max_available_ratio[g]) ELSE blkg[g]]
  /\ UNCHANGED <<depth, group, max_available_ratio, alloc>>

TagsInit ==
  /\ depth \in Depths
  /\ group \in [Tasks -> Groups]
  /\ max_available_ratio = [g \in Groups |-> 25]
  /\ blkg = [g \in Groups |-> NoBlkg]
  /\ counts = [allocated_rqs |-> 0, async_write_rqs |-> 0]
  /\ rq_info \in Infos(depth)
  /\ alloc = [t \in Tasks |-> Idle]
  /\ rq = [i \in Tags |-> Unused]

TagsNext ==
  \/ \E t \in Tasks : \E op \in Ops[t] : StartUnlimited(t, op)
  \/ \E t \in Tasks : \E op \in Ops[t] : LimitBlkcg(t, op)
  \/ \E t \in Tasks : LimitAsync(t)
  \/ \E t \in Tasks : LimitTgroup(t)
  \/ \E t \in Tasks, i \in Tags : GetTag(t, i)
  \/ \E t \in Tasks : PrepareRequest(t)
  \/ \E i \in Tags : UncountRequest(i)
  \/ \E t \in Movers, g \in Groups : Migrate(t, g)
  \/ \E g \in Groups : PdInit(g)
  \/ \E g \in Groups : PdOffline(g)
  \/ \E g \in Groups, ratio \in Ratios : SetMaxAvailableRatio(g, ratio)
  \/ \E d \in Depths : \E info \in Infos(d) : DepthUpdated(d, info)
  \/ \E info \in Infos(depth) : SwitchElevator(info)

TagsSpec == TagsInit /\ [][TagsNext]_tvars

-----------------------------------------------------------------------------
Requests == [phase : {"free", "taken", "inflight"}, op : OpKinds,
             blkg : Groups \cup {NoGroup}, within : BOOLEAN]
Allocs == [pc : {"idle", "async", "tgroup", "get", "prepare"},
           op : OpKinds, shallow : Nat,
           within : Groups \cup {NoGroup}, tag : Nat]

(* Types: the fields of the queue, of the cgroups and of the requests.      *)
TagsTypeOK ==
  /\ depth \in Depths
  /\ group \in [Tasks -> Groups]
  /\ max_available_ratio \in [Groups -> 0..100]
  /\ blkg \in [Groups -> [live : BOOLEAN, current : Int, max : Nat, shallow : Nat]]
  /\ counts \in [allocated_rqs : Int, async_write_rqs : Int]
  /\ rq_info = NoGroup \/ rq_info \in InfoArrays(depth)
  /\ alloc \in [Tasks -> Allocs]
  /\ rq \in [Tags -> Requests]

InFlight == {i \in Tags : rq[i].phase = "inflight" /\ rq[i].op # "flush"}
AsyncInFlight == {i \in InFlight : AsyncWrite(rq[i].op)}
CountedIn(g) == {i \in InFlight : rq[i].blkg = g}

(* What is counted is what is in flight: for the queue, for asynchronous    *)
(* writes and for every cgroup, also when tasks change their cgroup between *)
(* prepare and finish, the ratio or the depth changes, or the cgroup gets   *)
(* its ssg_blkg with requests in flight.  So no limit is left shut for good *)
(* (ssg_prepare_request, ssg_finish_request, ssg_blkcg_depth_updated).      *)
CountsExact ==
  /\ counts.allocated_rqs = Cardinality(InFlight)
  /\ counts.async_write_rqs = Cardinality(AsyncInFlight)
  /\ \A g \in Groups : blkg[g].current = Cardinality(CountedIn(g))

AdmittedIn(g) == {i \in CountedIn(g) : rq[i].within}

(* The limit is looked at without a lock, and what the look found is used   *)
(* after a wait for a tag: of the requests counted for a cgroup those that  *)
(* were free to take any tag may be more than its limit, but by less than   *)
(* the number of tasks, and none if it is 0 (ssg_blkcg_shallow_depth).      *)
LimitHolds ==
  \A g \in Groups :
    AdmittedIn(g) # {} =>
      /\ blkg[g].max > 0
      /\ Cardinality(AdmittedIn(g)) < blkg[g].max + Cardinality(Tasks)
=============================================================================
