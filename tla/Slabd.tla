------------------------------- MODULE Slabd --------------------------------
(***************************************************************************)
(* mm/slabd.c: the android_vh_shrink_slab_bypass hook, its throttle, the   *)
(* ring of pending requests and the worker that drains it.                 *)
(*                                                                         *)
(* Grain: a step is one access to shared state, or what runs under         *)
(* kshrink_slabd_lock.  The hook's callers are tasks in direct reclaim.    *)
(* Counters for /proc/kshrink_slabd and the CPU affinity are left out.     *)
(***************************************************************************)
EXTENDS Naturals, Sequences, FiniteSets

CONSTANTS
  Callers,     (* tasks that run the hook                                  *)
  Memcgs,      (* memory cgroups other than the root                       *)
  Root,        (* root_mem_cgroup                                          *)
  Targets,     (* what reclaim may pass: these, or None for NULL           *)
  None,        (* no memcg, no request                                     *)
  Ring,        (* KSHRINK_SLABD_RING                                       *)
  Width,       (* values of head and tail: 2^32 in the code                *)
  Windows,     (* throttle windows user space may set, in jiffies          *)
  Priorities,  (* scan priorities callers pass                             *)
  DefPriority, (* DEF_PRIORITY                                             *)
  ULong,       (* values of an unsigned long                               *)
  MaxJiffies   (* bound: jiffies                                           *)

ASSUME RingAssumption ==
  /\ Ring \in Nat \ {0}
  /\ Width \in Nat
  /\ \E laps \in 2..Width : Width = Ring * laps
ASSUME NameAssumption ==
  /\ IsFiniteSet(Callers) /\ None \notin Callers
  /\ IsFiniteSet(Memcgs) /\ Root \notin Memcgs /\ None \notin Memcgs \cup {Root}
  /\ Targets \subseteq Memcgs \cup {Root, None}
  /\ None \notin [memcg: Targets, pinned: BOOLEAN]
ASSUME NumberAssumption ==
  /\ Windows \subseteq Nat /\ Priorities \subseteq Nat
  /\ DefPriority \in Nat /\ ULong \in Nat /\ MaxJiffies \in Nat
  /\ MaxJiffies < ULong

VARIABLES
  init_pc,       (* kshrink_slabd_init()                                   *)
  task,          (* kshrink_slabd_task is a task queue requests go to      *)
  enabled,       (* kshrink_slabd_enabled                                  *)
  should_stop,   (* kthread_should_stop()                                  *)
  jiffies,
  prev_jiffies,  (* kshrink_slabd_prev_jiffies                             *)
  ring, head, tail,
  wpc,           (* where the worker is                                    *)
  waiter,        (* the worker is on kshrink_slabd_wait, not yet woken     *)
  request,       (* the worker's copy of the slot it took                  *)
  online,        (* memcgs whose css is online                             *)
  refs,          (* css reference counts; the online css holds one         *)
  pc,            (* where each caller is in the hook                       *)
  arg,           (* the memcg and the priority a caller was called with    *)
  curr, prev     (* a caller's copies of jiffies and prev_jiffies          *)

initVars   == <<init_pc, task, enabled, should_stop>>
ringVars   == <<ring, head, tail>>
workerVars == <<wpc, waiter, request>>
memcgVars  == <<online, refs>>
callerVars == <<pc, arg, curr, prev>>
vars == <<initVars, jiffies, prev_jiffies, ringVars, workerVars, memcgVars,
          callerVars>>

(* gfp_mask and nid are handed on untouched and left out.                   *)
Request == [memcg: Targets, priority: Nat, pinned: BOOLEAN]
NoRequest == [memcg |-> None, priority |-> 0, pinned |-> FALSE]

InitPc   == {"spawn", "register", "seed", "enable", "done", "stop", "join", "failed"}
BusyPc   == {"shrink", "put"}
WorkerPc == BusyPc \cup {"unborn", "loop", "prepare", "check", "asleep",
                         "drain", "exited"}
CallerPc == {"idle", "prev", "claim", "queue", "wake", "return"}

Freed(m) == m \in Memcgs \ online /\ refs[m] = 0

-----------------------------------------------------------------------------
(* The ring.  head and tail run freely and wrap as unsigned ints do.        *)

(* Mutant: the counter outgrows its width.                                  *)
AdvanceUncut(n) == n + 1

Advance(n) == IF n + 1 = Width THEN 0 ELSE n + 1

Occupancy == IF tail >= head THEN tail - head ELSE tail + Width - head

Slot(n) == n % Ring

RingNonempty == head # tail

(* Mutant: room for one more than there are slots.                          *)
HasRoomOffByOne == Occupancy <= Ring

HasRoom == Occupancy < Ring

-----------------------------------------------------------------------------
(* kshrink_slabd_init(): spawn the worker, register the hook, seed the     *)
(* throttle, enable; stop the worker when the hook cannot be registered.   *)
InitUnchanged == UNCHANGED <<ringVars, request, memcgVars, callerVars>>

(* jiffies moves on by itself; only its reads show how far it has come.     *)
Now == jiffies' \in jiffies..MaxJiffies

InitSpawn ==
  /\ init_pc = "spawn"
  /\ \/ init_pc' = "register" /\ task' = TRUE /\ wpc' = "loop"
     \/ init_pc' = "failed" /\ UNCHANGED <<task, wpc>>
  /\ UNCHANGED <<enabled, should_stop, jiffies, prev_jiffies, waiter>>
  /\ InitUnchanged

InitRegister ==
  /\ init_pc = "register"
  /\ init_pc' \in {"seed", "stop"}
  /\ UNCHANGED <<task, enabled, should_stop, jiffies, prev_jiffies, wpc, waiter>>
  /\ InitUnchanged

InitSeed ==
  /\ init_pc = "seed"
  /\ init_pc' = "enable"
  /\ Now /\ prev_jiffies' = jiffies'
  /\ UNCHANGED <<task, enabled, should_stop, wpc, waiter>>
  /\ InitUnchanged

InitEnable ==
  /\ init_pc = "enable"
  /\ init_pc' = "done"
  /\ enabled' = TRUE
  /\ UNCHANGED <<task, should_stop, jiffies, prev_jiffies, wpc, waiter>>
  /\ InitUnchanged

(* Mutant: the flag is set and the sleeping worker is left asleep.          *)
InitStopNoWake ==
  /\ init_pc = "stop"
  /\ init_pc' = "join"
  /\ should_stop' = TRUE
  /\ UNCHANGED <<task, enabled, jiffies, prev_jiffies, wpc, waiter>>
  /\ InitUnchanged

(* kthread_stop() sets the flag, wakes the worker and waits for its exit.   *)
InitStop ==
  /\ init_pc = "stop"
  /\ init_pc' = "join"
  /\ should_stop' = TRUE
  /\ waiter' = FALSE
  /\ UNCHANGED <<task, enabled, jiffies, prev_jiffies, wpc>>
  /\ InitUnchanged

InitJoin ==
  /\ init_pc = "join" /\ wpc = "exited"
  /\ init_pc' = "failed"
  /\ task' = FALSE
  /\ UNCHANGED <<enabled, should_stop, jiffies, prev_jiffies, wpc, waiter>>
  /\ InitUnchanged

InitStep ==
  InitSpawn \/ InitRegister \/ InitSeed \/ InitEnable \/ InitStop \/ InitJoin

-----------------------------------------------------------------------------
(* The hook.                                                                *)
Kinds == {"vip", "foreground", "kswapd", "worker", "background"}

(* Who is bypassed or left to shrink at once, and who meets the throttle.   *)
Gate(kind) ==
  IF kind \in {"vip", "foreground"} THEN "bypass"
  ELSE IF ~enabled \/ kind \in {"worker", "kswapd"} THEN "sync"
  ELSE "throttle"

HookUnchanged == UNCHANGED <<initVars, ring, head, wpc, request, online>>

Goto(c, from, to) == pc[c] = from /\ pc' = [pc EXCEPT ![c] = to]

(* Past the gate jiffies is read before prev_jiffies.  Reclaim holds a     *)
(* reference to the memcg it shrinks, online or not.                        *)
ShrinkSlab(c, kind, m, p) ==
  /\ Gate(kind) = "throttle"
  /\ ~Freed(m)
  /\ Goto(c, "idle", "prev")
  /\ arg' = [arg EXCEPT ![c] = [memcg |-> m, priority |-> p]]
  /\ refs' = IF m \in Memcgs THEN [refs EXCEPT ![m] = @ + 1] ELSE refs
  /\ Now /\ curr' = [curr EXCEPT ![c] = jiffies']
  /\ UNCHANGED <<prev_jiffies, tail, waiter, prev>>
  /\ HookUnchanged

(* curr - prev in unsigned longs.                                           *)
Elapsed(now, then) == IF now >= then THEN now - then ELSE now + ULong - then

ReadPrev(c, window) ==
  /\ Goto(c, "prev", IF Elapsed(curr[c], prev_jiffies) < window
                     THEN "return" ELSE "claim")
  /\ prev' = [prev EXCEPT ![c] = prev_jiffies]
  /\ UNCHANGED <<jiffies, prev_jiffies, tail, waiter, refs, arg, curr>>
  /\ HookUnchanged

(* cmpxchg(): only the caller whose prev is still current goes on.          *)
Claim(c) ==
  /\ IF prev_jiffies = prev[c]
     THEN Goto(c, "claim", "queue") /\ prev_jiffies' = curr[c]
     ELSE Goto(c, "claim", "return") /\ UNCHANGED prev_jiffies
  /\ UNCHANGED <<jiffies, tail, waiter, refs, arg, curr, prev>>
  /\ HookUnchanged

(* css_tryget_online() for a memcg that is neither NULL nor the root.       *)
MayQueue(m) == m \in Memcgs => m \in online

(* Mutant: the memcg is queued without a reference.                         *)
PinNothing(m) == refs

Pin(m) == IF m \in Memcgs THEN [refs EXCEPT ![m] = @ + 1] ELSE refs

QueueRequest(c) ==
  LET m == arg[c].memcg
      r == [memcg |-> m, priority |-> arg[c].priority, pinned |-> m \in Memcgs]
  IN /\ IF task /\ HasRoom /\ MayQueue(m)
        THEN /\ Goto(c, "queue", "wake")
             /\ ring' = [ring EXCEPT ![Slot(tail)] = r]
             /\ tail' = Advance(tail)
             /\ refs' = Pin(m)
        ELSE Goto(c, "queue", "return") /\ UNCHANGED <<ring, tail, refs>>
     /\ UNCHANGED <<initVars, jiffies, prev_jiffies, head, workerVars, online,
                    arg, curr, prev>>

WakeWorker(c) ==
  /\ Goto(c, "wake", "return")
  /\ waiter' = FALSE
  /\ UNCHANGED <<jiffies, prev_jiffies, tail, refs, arg, curr, prev>>
  /\ HookUnchanged

(* Reclaim drops its reference and moves on to the next memcg.              *)
HookReturn(c) ==
  /\ Goto(c, "return", "idle")
  /\ arg' = [arg EXCEPT ![c] = [memcg |-> None, priority |-> 0]]
  /\ refs' = IF arg[c].memcg \in Memcgs
             THEN [refs EXCEPT ![arg[c].memcg] = @ - 1] ELSE refs
  /\ curr' = [curr EXCEPT ![c] = 0]
  /\ prev' = [prev EXCEPT ![c] = 0]
  /\ UNCHANGED <<jiffies, prev_jiffies, tail, waiter>>
  /\ HookUnchanged

CallerStep(c) ==
  \/ \E window \in Windows : ReadPrev(c, window)
  \/ Claim(c)
  \/ QueueRequest(c)
  \/ WakeWorker(c)
  \/ HookReturn(c)

-----------------------------------------------------------------------------
(* The worker: wait_event_freezable(), then one slot after the other.       *)
WorkerGoto(from, to) == wpc = from /\ wpc' = to

WorkerUnchanged ==
  UNCHANGED <<initVars, jiffies, prev_jiffies, ring, tail, online, callerVars>>

WorkerLoop ==
  /\ WorkerGoto("loop", IF should_stop THEN "exited"
                        ELSE IF RingNonempty THEN "drain" ELSE "prepare")
  /\ UNCHANGED <<head, waiter, request, refs>> /\ WorkerUnchanged

(* Mutant: asleep without a second look at the condition.                   *)
PrepareAndSleep ==
  /\ WorkerGoto("prepare", "asleep")
  /\ waiter' = TRUE
  /\ UNCHANGED <<head, request, refs>> /\ WorkerUnchanged

WorkerPrepare ==
  /\ WorkerGoto("prepare", "check")
  /\ waiter' = TRUE
  /\ UNCHANGED <<head, request, refs>> /\ WorkerUnchanged

WorkerCheck ==
  /\ IF should_stop \/ RingNonempty
     THEN /\ WorkerGoto("check", IF should_stop THEN "exited" ELSE "drain")
          /\ waiter' = FALSE
     ELSE WorkerGoto("check", "asleep") /\ UNCHANGED waiter
  /\ UNCHANGED <<head, request, refs>> /\ WorkerUnchanged

WorkerWakes ==
  /\ ~waiter
  /\ WorkerGoto("asleep", "prepare")
  /\ UNCHANGED <<head, waiter, request, refs>> /\ WorkerUnchanged

WorkerDrained ==
  /\ ~RingNonempty
  /\ WorkerGoto("drain", "loop")
  /\ UNCHANGED <<head, waiter, request, refs>> /\ WorkerUnchanged

WorkerTake ==
  /\ RingNonempty
  /\ WorkerGoto("drain", "shrink")
  /\ request' = ring[Slot(head)]
  /\ head' = Advance(head)
  /\ UNCHANGED <<waiter, refs>> /\ WorkerUnchanged

(* kshrink_slabd_tune_priority(): "low" is a CPU whose policy has at least *)
(* four P-states and runs at or below its mid-point.                        *)
TunePriority(p, low) ==
  IF p = 0 \/ p > DefPriority \/ ~low THEN p
  ELSE IF p - 1 >= DefPriority \div 2 THEN p - 1 ELSE DefPriority \div 2

(* shrink_slab() with the tuned request; the hook it meets lets it pass.    *)
WorkerShrink(low) ==
  /\ Gate("worker") # "throttle"
  /\ WorkerGoto("shrink", "put")
  /\ request' = [request EXCEPT !.priority = TunePriority(@, low)]
  /\ UNCHANGED <<head, waiter, refs>> /\ WorkerUnchanged

(* Mutant: the reference is leaked, as it was in the original module.       *)
PutLeak ==
  /\ WorkerGoto("put", "drain")
  /\ request' = NoRequest
  /\ UNCHANGED <<head, waiter, refs>> /\ WorkerUnchanged

WorkerPut ==
  /\ WorkerGoto("put", "drain")
  /\ refs' = IF request.pinned THEN [refs EXCEPT ![request.memcg] = @ - 1] ELSE refs
  /\ request' = NoRequest
  /\ UNCHANGED <<head, waiter>> /\ WorkerUnchanged

WorkerStep ==
  \/ WorkerLoop
  \/ WorkerPrepare
  \/ WorkerCheck
  \/ WorkerWakes
  \/ WorkerDrained
  \/ WorkerTake
  \/ \E low \in BOOLEAN : WorkerShrink(low)
  \/ WorkerPut

-----------------------------------------------------------------------------
(* The rest of the kernel.                                                  *)
(* css_killed(): css_tryget_online() fails from now on.                     *)
MemcgOffline(m) ==
  /\ m \in online
  /\ online' = online \ {m}
  /\ refs' = [refs EXCEPT ![m] = @ - 1]
  /\ UNCHANGED <<initVars, jiffies, prev_jiffies, ringVars, workerVars, callerVars>>

Init ==
  /\ init_pc = "spawn"
  /\ task = FALSE
  /\ enabled = FALSE
  /\ should_stop = FALSE
  /\ jiffies = 0
  /\ prev_jiffies = 0
  /\ ring = [i \in 0..Ring-1 |-> NoRequest]
  /\ head = 0
  /\ tail = 0
  /\ wpc = "unborn"
  /\ waiter = FALSE
  /\ request = NoRequest
  /\ online = Memcgs
  /\ refs = [m \in Memcgs |-> 1]
  /\ pc = [c \in Callers |-> "idle"]
  /\ arg = [c \in Callers |-> [memcg |-> None, priority |-> 0]]
  /\ curr = [c \in Callers |-> 0]
  /\ prev = [c \in Callers |-> 0]

Next ==
  \/ InitStep
  \/ \E c \in Callers, kind \in Kinds, m \in Targets, p \in Priorities :
       ShrinkSlab(c, kind, m, p)
  \/ \E c \in Callers : CallerStep(c)
  \/ WorkerStep
  \/ \E m \in Memcgs : MemcgOffline(m)

Spec == Init /\ [][Next]_vars

(* Tasks that can run do run: the worker, the boot, a caller in the hook.   *)
FairSpec ==
  /\ Spec
  /\ WF_vars(InitStep)
  /\ WF_vars(WorkerStep)
  /\ \A c \in Callers : WF_vars(CallerStep(c))

-----------------------------------------------------------------------------
TypeOK ==
  /\ init_pc \in InitPc
  /\ task \in BOOLEAN /\ enabled \in BOOLEAN /\ should_stop \in BOOLEAN
  /\ jiffies \in Nat /\ prev_jiffies \in Nat
  /\ ring \in [0..Ring-1 -> Request \cup {NoRequest}]
  /\ head \in 0..Width-1 /\ tail \in 0..Width-1
  /\ wpc \in WorkerPc
  /\ waiter \in BOOLEAN
  /\ request \in Request \cup {NoRequest}
  /\ online \subseteq Memcgs
  /\ refs \in [Memcgs -> Nat]
  /\ pc \in [Callers -> CallerPc]
  /\ \A c \in Callers : pc[c] # "idle" => arg[c].memcg \in Targets
  /\ arg \in [Callers -> [memcg: Targets \cup {None}, priority: Nat]]
  /\ curr \in [Callers -> Nat] /\ prev \in [Callers -> Nat]

(* The ring as a queue, oldest request first.                               *)
Pending == [i \in 1..Occupancy |-> ring[Slot(head + i - 1)]]

Busy == wpc \in BusyPc

(* The ring is the queue of ReclaimQueue and the worker serves it: no      *)
(* accepted request is lost, served twice or overtaken, also when head and *)
(* tail wrap, and all are served in the end.  Tuning is not seen by it.    *)
Plain(r) == [memcg |-> r.memcg, pinned |-> r.pinned]

Queue == INSTANCE ReclaimQueue WITH
  Requests <- [memcg: Targets, pinned: BOOLEAN],
  Capacity <- Ring,
  Nothing  <- None,
  queue    <- [i \in 1..Occupancy |-> Plain(Pending[i])],
  serving  <- IF Busy THEN Plain(request) ELSE None

ImplementsQueue == Queue!QSpec

(* A memcg whose slab is to be shrunk later is still there then: "non-root *)
(* memcgs are pinned ... across the queue and released after the worker    *)
(* consumes them".                                                          *)
MemcgsKept ==
  /\ \A i \in 1..Occupancy : ~Freed(Pending[i].memcg)
  /\ Busy => ~Freed(request.memcg)

(* A worker asleep over a nonempty ring is about to be woken               *)
(* (kshrink_slabd_queue wakes after the unlock).                            *)
NoLostWake ==
  wpc = "asleep" /\ waiter /\ RingNonempty => \E c \in Callers : pc[c] = "wake"

(* What holds a reference to a memcg: its online css, the callers that     *)
(* reclaim from it, its requests in the ring and in the worker's hands.    *)
One(b) == IF b THEN 1 ELSE 0

Held(m) == Cardinality({c \in Callers : arg[c].memcg = m})

Occupied == {Slot(head + i - 1) : i \in 1..Occupancy}

QueuedFor(m) == Cardinality({i \in Occupied : ring[i].memcg = m})

PinsExact ==
  \A m \in Memcgs :
    refs[m] = One(m \in online) + Held(m) + QueuedFor(m) + One(request.memcg = m)

(* Why they hold: what is occupied is a request, pinned if its memcg can   *)
(* go away, and the worker holds one exactly while it is busy with it.     *)
Fit(r) == r \in Request /\ r.pinned = (r.memcg \in Memcgs)

RingInv ==
  /\ Occupancy <= Ring
  /\ \A i \in Occupied : Fit(ring[i])
  /\ IF Busy THEN Fit(request) ELSE request = NoRequest
  /\ \A c \in Callers : pc[c] = "idle" => arg[c].memcg = None
  /\ init_pc = "spawn" => wpc = "unborn"

IInv == TypeOK /\ RingInv /\ PinsExact

(* The offload never keeps an offline memcg for good: "the original leaked *)
(* this reference".                                                         *)
PinsReleased == \A m \in Memcgs : (m \notin online) ~> (refs[m] = Held(m))

(* kshrink_slabd_init() returns, also when the hook cannot be registered   *)
(* and it has to wait for the worker to exit.                               *)
InitReturns == <>(init_pc \in {"done", "failed"})

(* "With cmpxchg only the CPU that wins the window defers work": accepted  *)
(* passes are at least a throttle window apart.                             *)
ClaimsSpaced ==
  [][\A c \in Callers, w \in Windows :
       Claim(c) /\ pc'[c] = "queue" => curr[c] >= prev_jiffies + w]_vars
=============================================================================
