------------------------------ MODULE Lruvecd -------------------------------
(***************************************************************************)
(* mm/kshrink_lruvecd.c: pages whose rmap lock was contended during reclaim*)
(* are taken off the reclaimer's list and given to a worker.               *)
(*                                                                         *)
(* Grain: a step is one critical section of l_inactive_lock, one update of *)
(* NR_ISOLATED, or a walk step over one page.  The page_ext flags of an    *)
(* isolated page are touched only by the task that isolated it, so what the *)
(* hooks do to one page is one step.  Counters that are only printed and   *)
(* the CPU affinity are left out, NR_ISOLATED_ANON and _FILE are one.      *)
(***************************************************************************)
EXTENDS Naturals, FiniteSets

CONSTANTS
  Pages,       (* pages, compound or not                                   *)
  NrPages,     (* base pages in a set of them: sums of thp_nr_pages()      *)
  Reclaimers,  (* tasks in direct reclaim, and kswapd                      *)
  High         (* SHRINK_LRUVECD_HIGH                                      *)

ASSUME PageAssumption ==
  /\ IsFiniteSet(Pages)
  /\ NrPages \in [SUBSET Pages -> Nat]
  /\ NrPages[{}] = 0
  /\ \A p \in Pages : NrPages[{p}] > 0
  /\ \A S, T \in SUBSET Pages :
       S \cap T = {} => NrPages[S \cup T] = NrPages[S] + NrPages[T]
ASSUME HighAssumption == High \in Nat

VARIABLES
  init_pc,      (* kshrink_lruvecd_init()                                  *)
  setup,        (* async_shrink_lruvec_setup                               *)
  should_stop,  (* kthread_should_stop()                                   *)
  lru, free,    (* pages on an LRU list, pages in the allocator            *)
  skip, delay,  (* pages with KSHRINK_SKIP_TRYLOCK, KSHRINK_TRYLOCK_DELAY  *)
  pc,           (* where each reclaimer is                                 *)
  account,      (* it reclaims for shrink_inactive_list(), not evict_pages() *)
  page_list,    (* the pages it isolated                                   *)
  todo,         (* those shrink_page_list() has still to look at           *)
  local,        (* local_list of __steal_delayed_pages()                   *)
  nr_taken,     (* what it added to NR_ISOLATED                            *)
  nr_queued,    (* what it has still to add for the pages it handed over   *)
  lru_inactive, pages, isolated, runnable,    (* under l_inactive_lock     *)
  nr_isolated,  (* NR_ISOLATED of the node                                 *)
  wpc, waiter,  (* where the worker is; on the wait queue and not woken    *)
  batch,        (* the worker's local_list                                 *)
  batch_isolated, nr_pages  (* its counts of that batch                    *)

initVars    == <<init_pc, setup, should_stop>>
pageVars    == <<lru, free, skip, delay>>
reclaimVars == <<pc, account, page_list, todo, local, nr_taken, nr_queued>>
sharedVars  == <<lru_inactive, pages, isolated, runnable>>
workerVars  == <<wpc, waiter, batch, batch_isolated, nr_pages>>
vars == <<initVars, pageVars, reclaimVars, sharedVars, nr_isolated, workerVars>>

InitPc    == {"spawn", "register", "enable", "done", "stop", "join", "failed"}
ReclaimPc == {"idle", "walk", "publish", "account", "wake", "return"}
BusyPc    == {"reclaim", "subtract"}
WorkerPc  == BusyPc \cup {"unborn", "loop", "prepare", "check", "asleep",
                          "take", "exited"}

-----------------------------------------------------------------------------
(* kshrink_lruvecd_init(): the worker, the hooks, /proc, then setup.        *)
InitUnchanged ==
  UNCHANGED <<pageVars, reclaimVars, sharedVars, nr_isolated, batch,
              batch_isolated, nr_pages>>

InitSpawn ==
  /\ init_pc = "spawn"
  /\ \/ init_pc' = "register" /\ wpc' = "loop"
     \/ init_pc' = "failed" /\ UNCHANGED wpc
  /\ UNCHANGED <<setup, should_stop, waiter>> /\ InitUnchanged

(* Until setup is set the hooks leave every flag as it is, so which of them *)
(* are registered when one registration fails is not kept.                  *)
InitRegister ==
  /\ init_pc = "register"
  /\ init_pc' \in {"enable", "stop"}
  /\ UNCHANGED <<setup, should_stop, wpc, waiter>> /\ InitUnchanged

InitEnable ==
  /\ init_pc = "enable"
  /\ init_pc' = "done"
  /\ setup' = TRUE
  /\ UNCHANGED <<should_stop, wpc, waiter>> /\ InitUnchanged

InitStop ==
  /\ init_pc = "stop"
  /\ init_pc' = "join"
  /\ should_stop' = TRUE
  /\ waiter' = FALSE
  /\ UNCHANGED <<setup, wpc>> /\ InitUnchanged

InitJoin ==
  /\ init_pc = "join" /\ wpc = "exited"
  /\ init_pc' = "failed"
  /\ UNCHANGED <<setup, should_stop, wpc, waiter>> /\ InitUnchanged

InitStep == InitSpawn \/ InitRegister \/ InitEnable \/ InitStop \/ InitJoin

-----------------------------------------------------------------------------
(* The hooks around the rmap walks of one page, on its two flags.           *)
Flags(p) == [skip |-> p \in skip, delay |-> p \in delay]

TrylockSet(f, worker) ==
  IF setup THEN [skip |-> ~worker, delay |-> FALSE] ELSE f

DoTrylock(f, contended) ==
  IF setup /\ f.skip THEN [skip |-> FALSE, delay |-> f.delay \/ contended] ELSE f

GetResult(f) == [f EXCEPT !.skip = FALSE]

TrylockFails(f, worker) == setup /\ ~worker /\ f.delay

TrylockClear(f) == [skip |-> FALSE, delay |-> FALSE]

(* shrink_page_list() on one page: set, a trylock that meets a contended   *)
(* rmap lock or not, the result, and a clear if the page got past it.       *)
Walked(f, worker, contended) ==
  GetResult(DoTrylock(TrylockSet(f, worker), contended))

SetFlags(p, f) ==
  /\ skip'  = IF f.skip THEN skip \cup {p} ELSE skip \ {p}
  /\ delay' = IF f.delay THEN delay \cup {p} ELSE delay \ {p}

-----------------------------------------------------------------------------
(* A reclaimer: isolate, walk, the hook, put back.                          *)
Goto(r, from, to) == pc[r] = from /\ pc' = [pc EXCEPT ![r] = to]

WorkerIdle == UNCHANGED <<initVars, wpc, batch, batch_isolated, nr_pages>>

Isolate(r, S, a) ==
  LET n == IF a THEN NrPages[S] ELSE 0
  IN /\ S \subseteq lru /\ S # {}
     /\ Goto(r, "idle", "walk")
     /\ account' = [account EXCEPT ![r] = a]
     /\ page_list' = [page_list EXCEPT ![r] = S]
     /\ todo' = [todo EXCEPT ![r] = S]
     /\ lru' = lru \ S
     /\ nr_taken' = [nr_taken EXCEPT ![r] = n]
     /\ nr_isolated' = nr_isolated + n
     /\ UNCHANGED <<free, skip, delay, local, nr_queued, sharedVars, waiter>>
     /\ WorkerIdle

(* A page somebody else has locked stays on the list and meets no hook.     *)
PassOver(r, p) ==
  /\ pc[r] = "walk" /\ p \in todo[r]
  /\ todo' = [todo EXCEPT ![r] = @ \ {p}]
  /\ UNCHANGED <<pageVars, pc, account, page_list, local, nr_taken, nr_queued,
                 sharedVars, nr_isolated, waiter>>
  /\ WorkerIdle

ShrinkPage(r, p, contended, freed, cleared) ==
  LET f == Walked(Flags(p), FALSE, contended)
      fails == TrylockFails(f, FALSE)
  IN /\ pc[r] = "walk" /\ p \in todo[r]
     /\ fails => ~freed /\ ~cleared
     /\ SetFlags(p, IF cleared THEN TrylockClear(f) ELSE f)
     /\ todo' = [todo EXCEPT ![r] = @ \ {p}]
     /\ page_list' = [page_list EXCEPT ![r] = IF freed THEN @ \ {p} ELSE @]
     /\ free' = IF freed THEN free \cup {p} ELSE free
     /\ UNCHANGED <<lru, pc, account, local, nr_taken, nr_queued, sharedVars,
                    nr_isolated, waiter>>
     /\ WorkerIdle

(* The loop of __steal_delayed_pages(): seen is the part of the list it    *)
(* looked at, all of it or up to a delayed page that no longer fits; the    *)
(* flags of that page are cleared as well, those after it are kept.         *)
Cut(r, seen, stolen) ==
  /\ seen \subseteq page_list[r]
  /\ NrPages[stolen] <= High
  /\ \/ seen = page_list[r] /\ stolen = seen \cap delay
     \/ \E p \in seen \cap delay :
          stolen = (seen \cap delay) \ {p} /\ NrPages[stolen \cup {p}] > High

StealDelayed(r, seen, stolen) ==
  /\ todo[r] = {}
  /\ setup
  /\ Cut(r, seen, stolen)
  /\ Goto(r, "walk", IF stolen = {} THEN "return" ELSE "publish")
  /\ skip' = skip \ seen
  /\ delay' = delay \ seen
  /\ page_list' = [page_list EXCEPT ![r] = @ \ stolen]
  /\ local' = [local EXCEPT ![r] = stolen]
  /\ UNCHANGED <<lru, free, account, todo, nr_taken, nr_queued, sharedVars,
                 nr_isolated, waiter>>
  /\ WorkerIdle

StealNotSetUp(r) ==
  /\ todo[r] = {}
  /\ ~setup
  /\ Goto(r, "walk", "return")
  /\ UNCHANGED <<pageVars, account, page_list, todo, local, nr_taken, nr_queued,
                 sharedVars, nr_isolated, waiter>>
  /\ WorkerIdle

HandBack(r) ==
  /\ page_list' = [page_list EXCEPT ![r] = @ \cup local[r]]
  /\ Goto(r, "publish", "return")
  /\ UNCHANGED <<nr_queued, sharedVars>>

(* Mutant: the pages of evict_pages() are taken back from NR_ISOLATED too.  *)
HandOverCounted(r) ==
  LET n == NrPages[local[r]]
      a == IF account[r] THEN n ELSE 0
  IN /\ lru_inactive' = lru_inactive \cup local[r]
     /\ pages' = pages + n
     /\ isolated' = isolated + n
     /\ runnable' = TRUE
     /\ nr_queued' = [nr_queued EXCEPT ![r] = a]
     /\ Goto(r, "publish", IF account[r] THEN "account" ELSE "wake")
     /\ UNCHANGED page_list

HandOver(r) ==
  LET n == NrPages[local[r]]
      a == IF account[r] THEN n ELSE 0
  IN /\ lru_inactive' = lru_inactive \cup local[r]
     /\ pages' = pages + n
     /\ isolated' = isolated + a
     /\ runnable' = TRUE
     /\ nr_queued' = [nr_queued EXCEPT ![r] = a]
     /\ Goto(r, "publish", IF account[r] THEN "account" ELSE "wake")
     /\ UNCHANGED page_list

(* Mutant: as many pages as the loop took, whatever is queued already.      *)
PublishUncapped(r) ==
  /\ HandOver(r)
  /\ local' = [local EXCEPT ![r] = {}]
  /\ UNCHANGED <<pageVars, account, todo, nr_taken, nr_isolated, waiter>>
  /\ WorkerIdle

(* Mutant: pages that do not fit are dropped from the local list.           *)
PublishOrDrop(r) ==
  /\ IF pages + NrPages[local[r]] > High
     THEN Goto(r, "publish", "return") /\ UNCHANGED <<page_list, nr_queued, sharedVars>>
     ELSE HandOver(r)
  /\ local' = [local EXCEPT ![r] = {}]
  /\ UNCHANGED <<pageVars, account, todo, nr_taken, nr_isolated, waiter>>
  /\ WorkerIdle

Publish(r) ==
  /\ IF pages + NrPages[local[r]] > High THEN HandBack(r) ELSE HandOver(r)
  /\ local' = [local EXCEPT ![r] = {}]
  /\ UNCHANGED <<pageVars, account, todo, nr_taken, nr_isolated, waiter>>
  /\ WorkerIdle

(* kshrink_isolated_account(..., +1), after the unlock.                     *)
AccountUp(r) ==
  /\ Goto(r, "account", "wake")
  /\ nr_isolated' = nr_isolated + nr_queued[r]
  /\ nr_queued' = [nr_queued EXCEPT ![r] = 0]
  /\ UNCHANGED <<pageVars, account, page_list, todo, local, nr_taken, sharedVars,
                 waiter>>
  /\ WorkerIdle

WakeWorker(r) ==
  /\ Goto(r, "wake", "return")
  /\ waiter' = FALSE
  /\ UNCHANGED <<pageVars, account, page_list, todo, local, nr_taken, nr_queued,
                 sharedVars, nr_isolated>>
  /\ WorkerIdle

(* shrink_inactive_list() subtracts its full nr_taken, both put back what  *)
(* is left of the list.                                                     *)
PutBack(r) ==
  /\ Goto(r, "return", "idle")
  /\ lru' = lru \cup page_list[r]
  /\ page_list' = [page_list EXCEPT ![r] = {}]
  /\ nr_isolated' = nr_isolated - nr_taken[r]
  /\ nr_taken' = [nr_taken EXCEPT ![r] = 0]
  /\ account' = [account EXCEPT ![r] = FALSE]
  /\ UNCHANGED <<free, skip, delay, todo, local, nr_queued, sharedVars, waiter>>
  /\ WorkerIdle

ReclaimStep(r) ==
  \/ \E p \in Pages : PassOver(r, p)
  \/ \E p \in Pages, contended, freed, cleared \in BOOLEAN :
       ShrinkPage(r, p, contended, freed, cleared)
  \/ \E seen, stolen \in SUBSET Pages : StealDelayed(r, seen, stolen)
  \/ StealNotSetUp(r)
  \/ Publish(r)
  \/ AccountUp(r)
  \/ WakeWorker(r)
  \/ PutBack(r)

(* A free page is used and put on an LRU list again.                        *)
Fault(p) ==
  /\ p \in free
  /\ free' = free \ {p} /\ lru' = lru \cup {p}
  /\ UNCHANGED <<initVars, skip, delay, reclaimVars, sharedVars, nr_isolated,
                 workerVars>>

-----------------------------------------------------------------------------
(* shrink_lruvecd(): the worker.                                            *)
WorkerGoto(from, to) == wpc = from /\ wpc' = to

Quiet == UNCHANGED <<initVars, pageVars, reclaimVars, sharedVars, nr_isolated, batch,
                     batch_isolated, nr_pages>>

WorkerLoop ==
  /\ WorkerGoto("loop", IF should_stop THEN "exited"
                        ELSE IF runnable THEN "take" ELSE "prepare")
  /\ UNCHANGED waiter /\ Quiet

(* Mutant: asleep without a second look at the condition.                   *)
PrepareAndSleep ==
  /\ WorkerGoto("prepare", "asleep")
  /\ waiter' = TRUE
  /\ Quiet

WorkerPrepare ==
  /\ WorkerGoto("prepare", "check")
  /\ waiter' = TRUE
  /\ Quiet

WorkerCheck ==
  /\ IF runnable \/ should_stop
     THEN /\ WorkerGoto("check", IF should_stop THEN "exited" ELSE "take")
          /\ waiter' = FALSE
     ELSE WorkerGoto("check", "asleep") /\ UNCHANGED waiter
  /\ Quiet

WorkerWakes ==
  /\ ~waiter
  /\ WorkerGoto("asleep", "prepare")
  /\ UNCHANGED waiter /\ Quiet

(* The whole list and its count; an empty list is accounted for at once.    *)
WorkerTake ==
  /\ WorkerGoto("take", IF lru_inactive = {} THEN "loop" ELSE "reclaim")
  /\ batch' = lru_inactive
  /\ lru_inactive' = {}
  /\ runnable' = FALSE
  /\ isolated' = 0
  /\ nr_pages' = NrPages[lru_inactive]
  /\ batch_isolated' = IF lru_inactive = {} THEN 0 ELSE isolated
  /\ nr_isolated' = IF lru_inactive = {} THEN nr_isolated - isolated ELSE nr_isolated
  /\ UNCHANGED <<initVars, pageVars, reclaimVars, pages, waiter>>

(* reclaim_pages(): each page is freed or put back.                         *)
WorkerReclaim(p, contended, freed, cleared) ==
  LET f == Walked(Flags(p), TRUE, contended)
  IN /\ wpc = "reclaim" /\ p \in batch
     /\ SetFlags(p, IF cleared THEN TrylockClear(f) ELSE f)
     /\ batch' = batch \ {p}
     /\ IF freed THEN free' = free \cup {p} /\ UNCHANGED lru
                 ELSE lru' = lru \cup {p} /\ UNCHANGED free
     /\ UNCHANGED <<initVars, reclaimVars, sharedVars, nr_isolated, wpc, waiter,
                    batch_isolated, nr_pages>>

(* kshrink_isolated_account(..., -1).                                       *)
WorkerAccount ==
  /\ batch = {}
  /\ WorkerGoto("reclaim", "subtract")
  /\ nr_isolated' = nr_isolated - batch_isolated
  /\ batch_isolated' = 0
  /\ UNCHANGED <<initVars, pageVars, reclaimVars, sharedVars, waiter, batch, nr_pages>>

WorkerSubtract ==
  /\ WorkerGoto("subtract", "loop")
  /\ pages' = pages - nr_pages
  /\ nr_pages' = 0
  /\ UNCHANGED <<initVars, pageVars, reclaimVars, lru_inactive, isolated, runnable,
                 nr_isolated, waiter, batch, batch_isolated>>

WorkerStep ==
  \/ WorkerLoop
  \/ WorkerPrepare
  \/ WorkerCheck
  \/ WorkerWakes
  \/ WorkerTake
  \/ \E p \in Pages, contended, freed, cleared \in BOOLEAN :
       WorkerReclaim(p, contended, freed, cleared)
  \/ WorkerAccount
  \/ WorkerSubtract

-----------------------------------------------------------------------------
Init ==
  /\ init_pc = "spawn" /\ setup = FALSE /\ should_stop = FALSE
  /\ lru = Pages /\ free = {} /\ skip = {} /\ delay = {}
  /\ pc = [r \in Reclaimers |-> "idle"]
  /\ account = [r \in Reclaimers |-> FALSE]
  /\ page_list = [r \in Reclaimers |-> {}]
  /\ todo = [r \in Reclaimers |-> {}]
  /\ local = [r \in Reclaimers |-> {}]
  /\ nr_taken = [r \in Reclaimers |-> 0]
  /\ nr_queued = [r \in Reclaimers |-> 0]
  /\ lru_inactive = {} /\ pages = 0 /\ isolated = 0 /\ runnable = FALSE
  /\ nr_isolated = 0
  /\ wpc = "unborn" /\ waiter = FALSE
  /\ batch = {} /\ batch_isolated = 0 /\ nr_pages = 0

Next ==
  \/ InitStep
  \/ \E r \in Reclaimers, S \in SUBSET Pages, a \in BOOLEAN : Isolate(r, S, a)
  \/ \E r \in Reclaimers : ReclaimStep(r)
  \/ \E p \in Pages : Fault(p)
  \/ WorkerStep

Spec == Init /\ [][Next]_vars

(* Tasks that can run do run; nothing makes anyone reclaim again.           *)
FairSpec ==
  /\ Spec
  /\ WF_vars(InitStep)
  /\ WF_vars(WorkerStep)
  /\ \A r \in Reclaimers : WF_vars(ReclaimStep(r))

-----------------------------------------------------------------------------
TypeOK ==
  /\ init_pc \in InitPc /\ setup \in BOOLEAN /\ should_stop \in BOOLEAN
  /\ lru \subseteq Pages /\ free \subseteq Pages
  /\ skip \subseteq Pages /\ delay \subseteq Pages
  /\ pc \in [Reclaimers -> ReclaimPc]
  /\ account \in [Reclaimers -> BOOLEAN]
  /\ page_list \in [Reclaimers -> SUBSET Pages]
  /\ todo \in [Reclaimers -> SUBSET Pages]
  /\ local \in [Reclaimers -> SUBSET Pages]
  /\ nr_taken \in [Reclaimers -> Nat] /\ nr_queued \in [Reclaimers -> Nat]
  /\ lru_inactive \subseteq Pages /\ pages \in Nat /\ isolated \in Nat
  /\ runnable \in BOOLEAN
  /\ nr_isolated \in Nat
  /\ wpc \in WorkerPc /\ waiter \in BOOLEAN
  /\ batch \subseteq Pages /\ batch_isolated \in Nat /\ nr_pages \in Nat

Held(r) == page_list[r] \cup local[r]

(* Every page is on exactly one list, the LRU's, the allocator's, a         *)
(* reclaimer's, the queue or the worker's: handing over, handing back and   *)
(* taking the queue lose none and put none on two lists.                    *)
PagesKept ==
  /\ \A p \in Pages : \/ p \in lru \cup free \cup lru_inactive \cup batch
                      \/ \E r \in Reclaimers : p \in Held(r)
  /\ lru \cap free = {} /\ lru_inactive \cap batch = {}
  /\ (lru \cup free) \cap (lru_inactive \cup batch) = {}
  /\ \A r \in Reclaimers :
       /\ page_list[r] \cap local[r] = {}
       /\ Held(r) \cap (lru \cup free \cup lru_inactive \cup batch) = {}
       /\ \A s \in Reclaimers \ {r} : Held(r) \cap Held(s) = {}

(* Handed-over pages never exceed SHRINK_LRUVECD_HIGH, though the counter   *)
(* that says so goes down only after the worker has let go of them.         *)
PendingBounded == NrPages[lru_inactive \cup batch] <= High

(* Why these two hold: what each list may hold at each point, and what the  *)
(* counter of pending pages stands for while the worker has a batch.        *)
ListsTyped ==
  /\ lru \subseteq Pages /\ free \subseteq Pages
  /\ lru_inactive \subseteq Pages /\ batch \subseteq Pages
  /\ page_list \in [Reclaimers -> SUBSET Pages]
  /\ todo \in [Reclaimers -> SUBSET Pages]
  /\ local \in [Reclaimers -> SUBSET Pages]
  /\ pc \in [Reclaimers -> ReclaimPc]
  /\ nr_pages \in Nat

ListInv ==
  \A r \in Reclaimers :
    /\ todo[r] \subseteq page_list[r]
    /\ pc[r] # "publish" => local[r] = {}
    /\ pc[r] = "idle" => page_list[r] = {}
    /\ pc[r] # "walk" => todo[r] = {}

PendingInv ==
  /\ pages = NrPages[lru_inactive] + (IF wpc \in BusyPc THEN nr_pages ELSE 0)
  /\ pages <= High
  /\ NrPages[batch] <= IF wpc \in BusyPc THEN nr_pages ELSE 0
  /\ wpc # "reclaim" => batch = {}
  /\ init_pc = "spawn" => wpc = "unborn"

IInv == ListsTyped /\ PagesKept /\ ListInv /\ PendingInv

(* NR_ISOLATED is never below what the reclaimers that account for their    *)
(* pages hold, and zero again with every reclaimer out and nothing queued:  *)
(* "the counter keeps matching reality".                                    *)
Accounted(R) == UNION {Held(r) : r \in {s \in R : account[s]}}

IsolatedMatches ==
  /\ NrPages[Accounted(Reclaimers)] <= nr_isolated
  /\ (\A r \in Reclaimers : pc[r] = "idle") /\ lru_inactive = {} /\ wpc \notin BusyPc
     => nr_isolated = 0

(* Why: what each reclaimer has in NR_ISOLATED is enough for what it holds, *)
(* and the rest of it is of the queue and of the worker's batch.            *)
Share(r) == nr_taken[r] - nr_queued[r]

ShareInv ==
  /\ account \in [Reclaimers -> BOOLEAN]
  /\ nr_taken \in [Reclaimers -> Nat] /\ nr_queued \in [Reclaimers -> Nat]
  /\ isolated \in Nat /\ batch_isolated \in Nat
  /\ isolated <= NrPages[lru_inactive]
  /\ wpc # "reclaim" => batch_isolated = 0
  /\ \A r \in Reclaimers :
       /\ NrPages[IF account[r] THEN Held(r) ELSE {}] + nr_queued[r] <= nr_taken[r]
       /\ pc[r] # "account" => nr_queued[r] = 0
       /\ pc[r] = "idle" => nr_taken[r] = 0
       /\ ~account[r] => nr_taken[r] = 0

(* A page taken off the LRU is freed or back on it in the end, whoever it   *)
(* was handed to.                                                           *)
PagesReturn == \A p \in Pages : (p \notin lru \cup free) ~> (p \in lru \cup free)
=============================================================================
