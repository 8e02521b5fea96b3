------------------------------ MODULE SsgSched ------------------------------
(***************************************************************************)
(* block/ssg-iosched.c: the lists of the scheduler and its dispatch.       *)
(*                                                                         *)
(* Grain: every hook holds ssg->lock from its first look at the lists to   *)
(* its last change of them, with the zone lock inside, so a hook is one    *)
(* step; of a list of requests to insert, one request is.  A completion    *)
(* takes the zone lock only; one that falls between the two looks of a     *)
(* dispatch for a write is taken to fall before or after both.             *)
(*                                                                         *)
(* A request is named after the bio it was allocated for; the bios merged  *)
(* into it have it as their carrier.  A bio is one sector long.            *)
(***************************************************************************)
EXTENDS Integers, SequencesExt, FiniteSetsExt

CONSTANTS
  Bios, None,
  Dir,          (* rq_data_dir() of each, "read" or "write"                *)
  Pos,          (* its sector                                              *)
  Zone,         (* of a write its sequential zone, or None                 *)
  Passthrough,  (* those that are not for the lists                        *)
  fifo_expire,  (* of each direction, in ticks                             *)
  max_write_starvation

Data == {"read", "write"}

ASSUME BioAssumption ==
  /\ Dir \in [Bios -> Data] /\ Pos \in [Bios -> Nat]
  /\ None \notin Bios /\ Passthrough \subseteq Bios
ASSUME ZoneAssumption ==
  \A b \in Bios : Zone[b] # None => Dir[b] = "write" /\ b \notin Passthrough
ASSUME LimitAssumption ==
  fifo_expire \in [Data -> Nat] /\ max_write_starvation \in Nat

VARIABLES
  ssg,       (* of each direction sort_list, fifo_list and next_rq; with a *)
             (* request on fifo_list, what is left of its time             *)
  starved_writes,
  dispatch,
  phase,     (* where a request is                                         *)
  carrier,   (* the request a bio is in                                    *)
  seq_zones_wlock,   (* the locked zones                                   *)
  zone_locked,       (* the requests marked RQF_ZONE_WRITE_LOCKED          *)
  passed     (* history: reads taken from the lists since there is a write *)
             (* that could have been, or since the last one was            *)

lists == <<ssg, starved_writes, dispatch, passed>>
zones == <<seq_zones_wlock, zone_locked>>
vars == <<lists, zones, phase, carrier>>

Phases == {"free", "new", "sorted", "dispatch", "issued"}

-----------------------------------------------------------------------------
Carried(r) == {b \in Bios : carrier[b] = r}

First(r) == Min({Pos[b] : b \in Carried(r)})
End(r) == Max({Pos[b] : b \in Carried(r)}) + 1

OnFifo(d) == {ssg[d].fifo_list[i].rq : i \in 1..Len(ssg[d].fifo_list)}

(* ssg_latter_request(), elv_rb_former_request(): the neighbours in a list  *)
(* without repetitions.                                                     *)
Latter(s, r) ==
  LET after == {i \in 2..Len(s) : s[i - 1] = r}
  IN IF after = {} THEN None ELSE s[Min(after)]

Former(s, r) ==
  LET before == {i \in 1..(Len(s) - 1) : s[i + 1] = r}
  IN IF before = {} THEN None ELSE s[Min(before)]

(* elv_rb_add(): behind those that start at the same sector.                *)
AddRb(s, r, first) == InsertAt(s, 1 + Cardinality({q \in Range(s) : First(q) <= first}), r)

WithoutRq(f, r) == RemoveFirstMatch(f, LAMBDA e : e.rq = r)

(* Mutant: the pointer to the next is left alone.                           *)
RemoveKeepsNext(q, r) ==
  [q EXCEPT !.sort_list = RemoveFirst(@, r), !.fifo_list = WithoutRq(@, r)]

(* ssg_remove_request() on the queue of one direction.                      *)
RemoveRequest(q, r) ==
  [sort_list |-> RemoveFirst(q.sort_list, r),
   fifo_list |-> WithoutRq(q.fifo_list, r),
   next_rq   |-> IF q.next_rq = r THEN Latter(q.sort_list, r) ELSE q.next_rq]

Left(q, r) == q.fifo_list[SelectInSeq(q.fifo_list, LAMBDA e : e.rq = r)].left

(* time_before(next->fifo_time, req->fifo_time); of two that have expired   *)
(* the model has forgotten which was first.                                 *)
Earlier(q, next, req, tie) ==
  \/ Left(q, next) < Left(q, req)
  \/ Left(q, next) = 0 /\ Left(q, req) = 0 /\ tie

(* Mutant: the request gets the earlier time and keeps its place.           *)
MergedInPlace(q, req, next, tie) ==
  RemoveRequest(IF Earlier(q, next, req, tie)
                THEN [q EXCEPT !.fifo_list = [i \in 1..Len(@) |->
                        IF @[i].rq = req THEN [@[i] EXCEPT !.left = Left(q, next)] ELSE @[i]]]
                ELSE q, next)

(* ssg_merged_requests() of two that are on the lists: req takes the place *)
(* and the time of next if that is the earlier.                             *)
MergedRequests(q, req, next, tie) ==
  RemoveRequest(IF Earlier(q, next, req, tie)
                THEN [q EXCEPT !.fifo_list = [i \in 1..Len(WithoutRq(@, req)) |->
                        IF WithoutRq(@, req)[i].rq = next
                        THEN [WithoutRq(@, req)[i] EXCEPT !.rq = req]
                        ELSE WithoutRq(@, req)[i]]]
                ELSE q, next)

-----------------------------------------------------------------------------
(* The zone lock.                                                           *)
NeedsZone(r) == Zone[r] # None

CanDispatch(r) == ~NeedsZone(r) \/ Zone[r] \notin seq_zones_wlock

ZoneWriteLock(r) ==
  IF NeedsZone(r) THEN /\ seq_zones_wlock' = seq_zones_wlock \cup {Zone[r]}
                       /\ zone_locked' = zone_locked \cup {r}
  ELSE UNCHANGED zones

ZoneWriteUnlock(r) ==
  IF r \in zone_locked THEN /\ seq_zones_wlock' = seq_zones_wlock \ {Zone[r]}
                            /\ zone_locked' = zone_locked \ {r}
  ELSE UNCHANGED zones

-----------------------------------------------------------------------------
(* A bio that is not merged gets a request.                                 *)
Alloc(b) ==
  /\ carrier[b] = None
  /\ carrier' = [carrier EXCEPT ![b] = b]
  /\ phase' = [phase EXCEPT ![b] = "new"]
  /\ UNCHANGED <<lists, zones>>

Mergeable(r, b) == Dir[r] = Dir[b] /\ Zone[r] = Zone[b] /\ b \notin Passthrough

(* Mutant: what they carried is freed with them.                            *)
AbsorbNothing(r, S) ==
  /\ carrier' = [c \in Bios |-> IF carrier[c] \in S THEN None ELSE carrier[c]]
  /\ phase' = [q \in Bios |-> IF q \in S THEN "free" ELSE phase[q]]

(* The requests of S are absorbed by r and freed.                           *)
Absorb(r, S) ==
  /\ carrier' = [c \in Bios |-> IF carrier[c] \in S THEN r ELSE carrier[c]]
  /\ phase' = [q \in Bios |-> IF q \in S THEN "free" ELSE phase[q]]

(* ssg_bio_merge(): behind r, which may then reach the next in the order;   *)
(* the block layer may refuse either.                                       *)
BioBackMerge(b, r) ==
  LET d == Dir[b]
      n == Latter(ssg[d].sort_list, r)
  IN /\ carrier[b] = None
     /\ phase[r] = "sorted" /\ Mergeable(r, b) /\ End(r) = Pos[b]
     /\ \/ /\ carrier' = [carrier EXCEPT ![b] = r]
           /\ UNCHANGED <<ssg, phase>>
        \/ /\ n # None /\ Mergeable(r, n) /\ First(n) = Pos[b] + 1
           /\ carrier' = [c \in Bios |-> IF carrier[c] = n \/ c = b THEN r ELSE carrier[c]]
           /\ phase' = [phase EXCEPT ![n] = "free"]
           /\ \E tie \in BOOLEAN :
                ssg' = [ssg EXCEPT ![d] = MergedRequests(@, r, n, tie)]
     /\ UNCHANGED <<starved_writes, dispatch, passed, zones>>

(* ssg_request_merge() and ssg_request_merged(): in front of r, which is    *)
(* sorted again, or goes to the one before it.                              *)
RequestMerged(s, r, first) == AddRb(RemoveFirst(s, r), r, first)

BioFrontMerge(b, r) ==
  LET d == Dir[b]
      f == Former(ssg[d].sort_list, r)
  IN /\ carrier[b] = None
     /\ phase[r] = "sorted" /\ Mergeable(r, b) /\ First(r) = Pos[b] + 1
     /\ \/ /\ carrier' = [carrier EXCEPT ![b] = r]
           /\ ssg' = [ssg EXCEPT ![d].sort_list = RequestMerged(@, r, Pos[b])]
           /\ UNCHANGED phase
        \/ /\ f # None /\ Mergeable(r, f) /\ End(f) = Pos[b]
           /\ carrier' = [c \in Bios |-> IF carrier[c] = r \/ c = b THEN f ELSE carrier[c]]
           /\ phase' = [phase EXCEPT ![r] = "free"]
           /\ \E tie \in BOOLEAN :
                ssg' = [ssg EXCEPT ![d] = MergedRequests(@, f, r, tie)]
     /\ UNCHANGED <<starved_writes, dispatch, passed, zones>>

-----------------------------------------------------------------------------
(* ssg_insert_request() of a request that is merged: it goes behind the     *)
(* first of chain, that one behind the second, and so on.                   *)
Chains(d, r) ==
  {c \in UNION {[1..n -> Range(ssg[d].sort_list)] : n \in 1..Len(ssg[d].sort_list)} :
     /\ End(c[1]) = First(r)
     /\ \A i \in 1..Len(c) : Mergeable(c[i], r)
     /\ \A i \in 2..Len(c) : End(c[i]) = First(c[i - 1])}

MergedChain(q, c, tie) ==
  LET merged[i \in 1..Len(c)] ==
        IF i = 1 THEN q ELSE MergedRequests(merged[i - 1], c[i], c[i - 1], tie)
  IN merged[Len(c)]

InsertMerge(r) ==
  /\ phase[r] = "new" /\ r \notin Passthrough
  /\ \E c \in Chains(Dir[r], r), tie \in BOOLEAN :
       /\ Absorb(Last(c), {r} \cup Range(Front(c)))
       /\ ssg' = [ssg EXCEPT ![Dir[r]] = MergedChain(@, c, tie)]
  /\ UNCHANGED <<starved_writes, dispatch, passed, zones>>

InsertSort(r) ==
  LET d == Dir[r]
  IN /\ phase[r] = "new"
     /\ IF r \in Passthrough
        THEN /\ dispatch' = Append(dispatch, r)
             /\ phase' = [phase EXCEPT ![r] = "dispatch"]
             /\ UNCHANGED ssg
        ELSE /\ ssg' = [ssg EXCEPT
                  ![d].sort_list = AddRb(@, r, First(r)),
                  ![d].fifo_list = Append(@, [rq |-> r, left |-> fifo_expire[d]])]
             /\ phase' = [phase EXCEPT ![r] = "sorted"]
             /\ UNCHANGED dispatch
     /\ UNCHANGED <<starved_writes, passed, zones, carrier>>

(* ssg_insert_request() at the head, of what the driver could not take: it  *)
(* is no longer mergeable, and gives its zone back.                         *)
InsertHead(r) ==
  /\ phase[r] = "issued"
  /\ ZoneWriteUnlock(r)
  /\ dispatch' = <<r>> \o dispatch
  /\ phase' = [phase EXCEPT ![r] = "dispatch"]
  /\ UNCHANGED <<ssg, starved_writes, passed, carrier>>

-----------------------------------------------------------------------------
(* ssg_fifo_request(), ssg_next_request(): of the writes the first that may *)
(* be dispatched.                                                           *)
FirstOf(s) ==
  LET i == SelectInSeq(s, CanDispatch) IN IF i = 0 THEN None ELSE s[i]

FifoRequest(d) == FirstOf([i \in 1..Len(ssg[d].fifo_list) |-> ssg[d].fifo_list[i].rq])

(* Mutant: the next in the order, whatever its zone.                        *)
NextUnlocked(d) == ssg[d].next_rq

NextRequest(d) ==
  LET s == ssg[d].sort_list
  IN IF ssg[d].next_rq = None THEN None
     ELSE FirstOf(SubSeq(s, SelectInSeq(s, LAMBDA r : r = ssg[d].next_rq), Len(s)))

(* Mutant: time does not matter.                                            *)
NeverExpired(d) == FALSE

(* ssg_check_fifo()                                                         *)
HeadExpired(d) == Head(ssg[d].fifo_list).left = 0

Selected(d) ==
  IF HeadExpired(d) \/ NextRequest(d) = None THEN FifoRequest(d) ELSE NextRequest(d)

(* ssg_move_request()                                                       *)
MoveRequest(d, r) ==
  ssg' = [e \in Data |->
    IF e = d THEN [RemoveRequest(ssg[d], r) EXCEPT !.next_rq = Latter(ssg[d].sort_list, r)]
    ELSE [ssg[e] EXCEPT !.next_rq = None]]

Take(d) ==
  \/ Selected(d) = None /\ UNCHANGED <<ssg, phase, zones>>
  \/ \E r \in Bios :
       /\ r = Selected(d)
       /\ MoveRequest(d, r)
       /\ ZoneWriteLock(r)
       /\ phase' = [phase EXCEPT ![r] = "issued"]

DispatchHead ==
  /\ dispatch # <<>>
  /\ dispatch' = Tail(dispatch)
  /\ phase' = [phase EXCEPT ![Head(dispatch)] = "issued"]
  /\ ZoneWriteLock(Head(dispatch))
  /\ UNCHANGED <<ssg, starved_writes, passed, carrier>>

Reads == ssg["read"].fifo_list # <<>>
Writes == ssg["write"].fifo_list # <<>>

WriteReady == FifoRequest("write") # None

(* Mutant: off by one.                                                      *)
StarvedLate == starved_writes > max_write_starvation

Starved == starved_writes >= max_write_starvation

(* For the history: some write could be dispatched now.                     *)
WriteWaits ==
  \E r \in Bios : phase[r] = "sorted" /\ Dir[r] = "write" /\ CanDispatch(r)

DispatchRead ==
  /\ dispatch = <<>>
  /\ Reads /\ ~(WriteReady /\ Starved)
  /\ starved_writes' = IF WriteReady THEN starved_writes + 1 ELSE starved_writes
  /\ passed' = IF WriteWaits THEN passed + 1 ELSE 0
  /\ Take("read")
  /\ UNCHANGED <<dispatch, carrier>>

DispatchWrite ==
  /\ dispatch = <<>>
  /\ IF Reads THEN WriteReady /\ Starved ELSE Writes
  /\ starved_writes' = 0 /\ passed' = 0
  /\ Take("write")
  /\ UNCHANGED <<dispatch, carrier>>

DispatchRequest == DispatchHead \/ DispatchRead \/ DispatchWrite

(* ssg_finish_request() at a completion.                                    *)
FinishRequest(r) ==
  /\ phase[r] = "issued"
  /\ ZoneWriteUnlock(r)
  /\ carrier' = [b \in Bios |-> IF carrier[b] = r THEN None ELSE carrier[b]]
  /\ phase' = [phase EXCEPT ![r] = "free"]
  /\ UNCHANGED lists

(* jiffies                                                                  *)
Waits == \E d \in Data : \E i \in 1..Len(ssg[d].fifo_list) : ssg[d].fifo_list[i].left > 0

Aged(e) == [e EXCEPT !.left = IF @ = 0 THEN 0 ELSE @ - 1]

Tick ==
  /\ Waits
  /\ ssg' = [d \in Data |->
       [ssg[d] EXCEPT !.fifo_list = [i \in 1..Len(@) |-> Aged(@[i])]]]
  /\ UNCHANGED <<starved_writes, dispatch, passed, zones, phase, carrier>>

-----------------------------------------------------------------------------
Init ==
  /\ ssg = [d \in Data |-> [sort_list |-> <<>>, fifo_list |-> <<>>, next_rq |-> None]]
  /\ starved_writes = 0 /\ passed = 0
  /\ dispatch = <<>>
  /\ phase = [r \in Bios |-> "free"]
  /\ carrier = [b \in Bios |-> None]
  /\ seq_zones_wlock = {} /\ zone_locked = {}

Next ==
  \/ \E b \in Bios : Alloc(b) \/ InsertMerge(b) \/ InsertSort(b)
                     \/ InsertHead(b) \/ FinishRequest(b)
  \/ \E b, r \in Bios : BioBackMerge(b, r) \/ BioFrontMerge(b, r)
  \/ DispatchRequest
  \/ Tick

Spec == Init /\ [][Next]_vars

(* A queue with work is run, the device answers, time passes.               *)
FairSpec ==
  /\ Spec
  /\ WF_vars(DispatchRequest) /\ WF_vars(Tick)
  /\ \A r \in Bios : WF_vars(FinishRequest(r))

-----------------------------------------------------------------------------
TypeOK ==
  /\ \A d \in Data : /\ ssg[d].sort_list \in Seq(Bios)
                     /\ ssg[d].fifo_list \in Seq([rq : Bios, left : 0..fifo_expire[d]])
                     /\ ssg[d].next_rq \in Bios \cup {None}
  /\ starved_writes \in 0..max_write_starvation /\ passed \in Nat
  /\ dispatch \in Seq(Bios)
  /\ phase \in [Bios -> Phases]
  /\ carrier \in [Bios -> Bios \cup {None}]
  /\ zone_locked \subseteq Bios /\ seq_zones_wlock \subseteq {Zone[b] : b \in zone_locked}

(* "requests are present on both sort_list and fifo_list", each once, of   *)
(* its direction and in the order of its sectors, and a next_rq is one of   *)
(* them: no merge, reposition or dispatch leaves a pointer to a request     *)
(* that is gone.                                                            *)
ListsAgree ==
  /\ \A d \in Data :
       LET s == ssg[d].sort_list
           here == {r \in Bios : phase[r] = "sorted" /\ Dir[r] = d}
       IN /\ Range(s) = here /\ OnFifo(d) = here
          /\ Len(s) = Cardinality(here) /\ Len(ssg[d].fifo_list) = Len(s)
          /\ \A i \in 2..Len(s) : First(s[i - 1]) <= First(s[i])
          /\ ssg[d].next_rq \in here \cup {None}
  /\ IsInjective(dispatch) /\ Range(dispatch) = {r \in Bios : phase[r] = "dispatch"}

(* Requests expire in the order of their list, so that the dispatch may     *)
(* look at the first only; merges keep that.                                *)
FifoInOrder ==
  \A d \in Data : \A i \in 2..Len(ssg[d].fifo_list) :
    ssg[d].fifo_list[i - 1].left <= ssg[d].fifo_list[i].left

(* A sequential zone has one write under way: a dispatch never locks a zone *)
(* that is locked, also for a write that comes back and that meets no test  *)
(* of its zone.                                                             *)
ZonesExclusive ==
  /\ \A r \in zone_locked : phase[r] = "issued"
  /\ \A q, r \in Bios :
       phase[q] = "issued" /\ phase[r] = "issued" /\ NeedsZone(q) /\ Zone[q] = Zone[r]
         => q = r
  /\ \A r \in Bios : phase[r] = "issued" /\ NeedsZone(r) =>
       r \in zone_locked /\ Zone[r] \in seq_zones_wlock

(* "max times reads can starve a write": no more reads than that go first  *)
(* while a write could.                                                     *)
WritesNotStarved == passed <= max_write_starvation

(* What is submitted is issued in contiguous pieces, nothing twice and      *)
(* nothing lost.                                                            *)
Queue == INSTANCE IoQueue WITH
  Ios      <- Bios,
  Dirs     <- Dir,
  Sectors  <- Pos,
  waiting  <- {b \in Bios : carrier[b] # None /\ phase[carrier[b]] # "issued"},
  inflight <- {Carried(r) : r \in {q \in Bios : phase[q] = "issued"}}

ImplementsIoQueue == Queue!QSpec

(* A request on the lists is dispatched, or merged into another, unless    *)
(* requests keep coming that go before all others.                          *)
Served ==
  <>[](dispatch = <<>>) =>
    \A r \in Bios : (phase[r] = "sorted") ~> (phase[r] # "sorted")
=============================================================================
