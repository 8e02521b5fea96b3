# Verification of the ABK kernel module set

This directory holds TLA+ models, TLC configurations and TLAPS proofs for the
kernel code in `src/`: a set of source modules for an Android 13 / Linux 5.15
kernel that `src/setup.sh` copies into a kernel tree. They are independent
pieces of kernel code (scheduler hooks, reclaim workers, an I/O scheduler,
power management, tracing aids), each compiled into one kernel and each entered
by that kernel's tasks, timers and interrupts. What they have in common is what
this project is about: shared state under a spinlock, with steps before the
lock is taken or after it is dropped, against a second actor that is a worker
thread, a timer or a task on another CPU.

Line numbers below are those of the files under `src/files/`.

## 1. Inventory

| Component | State it keeps | Operations | What is hard | Modelled in |
|---|---|---|---|---|
| Wakeup events (`boeffla_wl_blocker/.../wakeup.c`) | the list of wakeup sources, `dev->power.wakeup`, per source `active`, counts and timer, `combined_event_count`, `events_check_enabled`, `saved_count`, `pm_abort_suspend` | register, unregister, enable and disable a device, stay awake, relax, timed events, read and save the wakeup count, the pending check of a suspend | events race the suspend that reads the counter; sources removed under walks and timers; two counters in one word | `WakeupEvents` |
| Wakelock blocker (`boeffla_wl_blocker.c`, `check_for_block()`) | two name lists, one search string | store a list, refuse a source, deactivate an active blocked source from a walk | walks deactivate without `ws->lock`; the string is rewritten while it is searched | `WakelockBlocker` |
| Slab reclaim offload (`xiaomi-kshrink_slabd/mm/slabd.c`) | ring of 1024 requests with free running head and tail, one throttle timestamp, memcg references | hook on `shrink_slab()`, queue, worker, boot | lost wake-ups, wrap of head and tail, a memcg going away, `cmpxchg` throttle, boot failing with a live worker | `Slabd`, `ReclaimQueue` |
| LRU vector offload (`kshrink_lruvecd/mm/kshrink_lruvecd.c`) | two flags per page, the list of pages handed over and its counters, `NR_ISOLATED_*` | hooks around the rmap trylock, theft of delayed pages, worker | node counter changed outside the lock by three parties; limit with compound pages; two LRU designs with different accounting | `Lruvecd` |
| Sync timeline (`mi_sw_sync/drivers/dma-buf/`) | per timeline a value, a list and a tree of pending points | create a point, signal, release a fence, release the file | points freed or signalled while the tree is walked; signalling in chunks; a fence that outlives its file | `SwSync`, `Timeline` |
| Binder boost table (`binder_sched_opt/.../binder_sched_opt.c`) | 64 slots with the saved scheduling of boosted threads | boost at a transaction, nested boosts, restore, promotion | a thread that exits or changes policy while boosted, nesting, a full table | `BinderBoost` |
| SSG I/O scheduler (`ssg/block/ssg-iosched.c`, `ssg-cgroup.c`) | sorted and FIFO lists per direction, starvation counter, per-cgroup tag limits | insert, merge, dispatch, requeue, completion; change of depth | write starvation, expiry, pointers across merges, zone locks; tags running out | `SsgSched`, `IoQueue`, `SsgTags` |
| Frame load monitor (`xiaomi-unionpower/.../frame_load_monitor.c`) | a list of records with a ring of five frames each, queued messages, one flag `frame_jank` | announce a frame, queue a buffer, handle a message | indices modulo a ring that is reset and recycled; a flag that sums up all records; threads that exit with messages queued | `FrameMonitor` |
| Boot time log (`xiaomi-boottime/.../boottime.c`) | buffers allocated as needed and one cursor; the list of initcalls under way; whether it logs, whether boot is over | append, time an initcall, switch, read | two allocations may fail for one entry; readers without a lock; probes that come and go during an initcall | `BootLog` |
| QoS inheritance (`os4port-sched/.../sew_qos_inherit.c`) | a table of tasks that wait with a lent clamp, their number, two tunables | begin and end of a futex wait | tunables rewritten during a loan, a full table, the module loaded and unloaded under waiting tasks | `QosInherit` |
| Yield penalty (`os4port-sched/.../sew_yield_penalty.c`) | the chosen pid and two tunables, two counters, one queued work per task | a hook on `sched_yield()`, the work on the way to user space | a check when the pid is written, a use long after | `YieldPenalty` |
| RT load (`os4port-sched/.../sew_rtload.c`) | two counters per policy | a probe counts `sched_setscheduler()` calls | nothing decides by them | no |
| Memory policy hooks (`os4port-mm/mm/`, `sew_alloc_adjust`, `sew_mmap_bypass`, `mi_rmap`) | tunables; a tgid list (`sew_rss_monitor`); a VIP predicate pointer (`sew_unfairmem`) | return an adjusted value to the kernel | predicate called while its module goes away | `Slabd` uses the predicate as an input; the rest see §7 |
| Audit filter (`jiuxia-sew_audit_lsm`) | none | drop an audit record | nothing | no |
| Installer (`setup.sh`, `scripts/*.sh`) | the kernel tree it edits | copy, patch, append to Kconfig and Makefile | running twice, stopping half way | plan, low |
| zstd, zstdh; `clear_page.S`, `strcmp.S`, `memcmp.S` | none of the project's own | compression, string routines | vendored or straight-line code | no |

How they interact.  The two reclaim offloads meet in `shrink_node_memcgs()`: a
task in direct reclaim runs the LRU hooks of `kshrink_lruvecd` and then the
`shrink_slab` hook of `slabd`; each has its own worker, lock and wait queue and
they share no variable, so they are separate modules here.  `slabd` asks
`sew_unfairmem` whether a task is a VIP.  The wakelock blocker is a patch
inside `wakeup.c`, and what it adds takes no `ws->lock`: with it a critical
section of that lock is no step any more. `WakeupEvents` is therefore the file
without the blocker, one step per critical section, and `WakelockBlocker` the
counts and the gate with it, one step per access to a field; both count events
with `EventCounter`.  The other components meet only in the kernel they are
compiled into.

What makes each correct, in a sentence:

* *Wakeup events*: the counter of events in progress is the number of active
  sources; nobody sleeps in `pm_get_wakeup_count()` without an event to wait
  for; a suspend armed with a wakeup count never goes through over an event it
  did not see; no source is freed while a walk or a timer can reach it.
* *Wakelock blocker*: a kill leaves the counts as a relax would, unless it overlaps
  another deactivation of the same source; and whatever the counts are, no suspend
  armed with a wakeup count goes through over an activation it did not see.
* *Slab offload*: what is accepted is served once and in order, whatever the
  wrap of the counters; the memcg of a request is there when it is served and
  its reference is given back; boot returns.
* *LRU offload*: no page is lost or on two lists; the pages handed over stay
  within the limit; `NR_ISOLATED` covers what is isolated and returns to zero;
  every page comes back.
* *Sync timeline*: points signal in order and no later than the timeline passes
  them, and a released point is on no list.
* *Binder boost*: a thread ends with the scheduling it would have had without
  the boost, and what a boost has changed is in a slot until it is undone.
* *SSG*: no request is lost or dispatched twice, every request is served, reads
  starve a write a bounded number of times, and a zone has one write under way.
* *SSG tags*: what is counted for a cgroup is what it has in flight, so no limit is
  shut for good; a lockless look lets fewer past it than there are tasks.
* *Boot log*: what is below the cursor is there; the start of an initcall
  is that of this initcall.
* *QoS inheritance*: a loan ends with the wait it was made for.
* *Yield penalty*: only threads of apps are made to sleep.
* *Frame monitor*: a frame that is outstanding is neither overwritten nor counted
  twice, and `frame_jank` is held up by a record that janks.

## 2. Plan

In this order; the first eight items are built.

1. `EventCounter` and `WakeupEvents`: wakeup sources and the gate of a suspend;
   `WakelockBlocker`: the same counts and gate with kills that take no lock.
   *(built, proved)*
2. `Slabd` and the abstract `ReclaimQueue` it implements. *(built, proved)*
3. `Lruvecd`. *(built, proved)*
4. `SwSync` and the abstract `Timeline` it implements. *(built, proved, the
   refinement too)*
5. `BinderBoost`: the table with two threads and two slots; boost, nested boost,
   changes by user space, failures, exit. *(built, proved)*
6. `SsgSched` and the abstract `IoQueue` it implements: both lists, the merges,
   requeue, dispatch, zones. *(built; every safety property and the refinement
   proved)*
   `SsgTags`: the tag limits of cgroups, thread groups and asynchronous writes
   against concurrent allocation, a change of depth and a cgroup that goes away.
   *(built, proved)*
7. `FrameMonitor`: the records, their rings and the messages. *(built; `JankShown`
   and `OutstandingFresh` proved)*
8. `BootLog`, `YieldPenalty`, `QosInherit`: small, one run with `FrameMonitor`.
   *(built, proved)*
9. A reclaim path that composes `Slabd` and `Lruvecd` under one task's order of
   calls, if a property is found that relates the two; so far none does.
10. Proofs that remain: every safety property of a passing run is a theorem;
    liveness, and the types of `FrameMonitor`, stay with TLC (section 6).

## 3. Modules

Every module names its grain in its header. The rule is the same everywhere:
what runs under one lock is one step, what the code does before taking a lock
or after dropping it is a step of its own, an unlocked read and the use of what
it returned are two steps.

### `EventCounter` and `WakeupEvents` — `wakeup.c` without the blocker

| In the model | In the code |
|---|---|
| `phase`, `owner` | allocation, list membership and attachment of a `wakeup_source` |
| `src[s]` | `active`, `active_count`, `relax_count`, `timer_expires` (none, in the future, due) and the pending timer |
| `running` | timers whose callback has been started and waits for `ws->lock` |
| `grace` | the SRCU readers `synchronize_srcu()` in `wakeup_source_remove()` waits for |
| `combined_event_count` | its two halves; `Modulus` is `1 << IN_PROGRESS_BITS` |
| `since` | history for `NoEventMissed`, bounded by `Modulus` |

`WakeupSourceRegister`, `DeviceWakeupAttach`, `DeviceWakeupDisable`,
`UnregisterVirtual`, `RemoveFromList`, `RemoveFinish` and
`WakeupSourceDestroy` are the life of a source; `PmStayAwake`, `PmRelaxCall`,
`PmWakeupWsEvent` and `PmWakeupTimerFn` its events, each one critical section
of `ws->lock` (`LockedUpdate`) with the counter update and the wake-up that
belong to it; `GetWakeupCount` to `SaveReturn` the reads and writes of
`/sys/power/wakeup_count`; `SuspendStart`, `PmWakeupPending` and `Resume` the
suspend. A walk of the source list visits one source per step, and only reads
it. `EventCounter` is the arithmetic of the two halves, with carry and borrow.

Not kept: statistics and times, `autosleep`, wake IRQ numbers,
`device_set_wakeup_capable()`, debugfs.

### `WakelockBlocker` — `wakeup.c` with `CONFIG_BOEFFLA_WL_BLOCKER`, `boeffla_wl_blocker.c`

| In the model | In the code |
|---|---|
| `active`, `active_count`, `relax_count`, `timed` | the fields of each source, the counts `CountSize` wide (`2^64` in the code); `timed`: `timer_expires` is set |
| `code`, `next`, `reg`, `cur` | of each agent the access it makes next, where the function it is in returns to, `relax_count` as it loaded it; the source a walk is at. An agent is the holder of a source's `ws->lock` (named as the source) or a task that walks |
| `blocklist`, `storing` | the names in `list_wl_search`; whether some store is rewriting it |
| `at`, `todo`, `count` | where each task is in `pm_get_wakeup_count()`, `pm_save_wakeup_count()` or a suspend, what its walk has still to visit, the count it read |
| `registered`, `relaxed`, `overlapped` | history: activations and deactivations counted since the count in use was read; sources of which two agents had `relax_count` raised together |

`wakeup_source_deactivate()` is `RelaxLoad`, `RelaxStore`, `RelaxCompare`,
`RelaxLower` or `SetInactive`, `ClearTimer`, `AccountEvent`, the same for the
owner under its lock and for a walk without; `wakeup_source_activate()` is
`SetActive`, `CountActivation`, `RegisterEvent`. So an owner's raise, compare and
lower interleave with a kill's in every order. While `build_search_string()` runs
(`BuildSearchString` to `SearchStringBuilt`; several at once are one such time) a
search may answer either way for every name, and any list may be left behind.

Not kept: what `WakeupEvents` has of the life of a source and of the wait queue (all
sources are registered here, a reader may look again at any time, a suspend may be
aborted at any poll).

### `Slabd` and `ReclaimQueue` — `slabd.c`

| In the model | In the code |
|---|---|
| `init_pc` | where `kshrink_slabd_init()` is, with each failure it handles |
| `pc`, `arg`, `curr`, `prev` | a task in `kshrink_slabd_bypass()`: its arguments and what it has read |
| `ring`, `head`, `tail` | the ring; `Ring` is `KSHRINK_SLABD_RING`, `Width` is `2^32` |
| `prev_jiffies`, `jiffies`, `ULong` | the throttle; `ULong` is the width of `unsigned long` |
| `online`, `refs` | the css of each memcg: online, and how many references it has |
| `wpc`, `waiter`, `request` | the worker, whether it is on the wait queue and not yet woken, the request it serves |

A pass through the hook is `Gate` (bypass or not) and `ShrinkSlab`, then
`ReadPrev` and `Claim` for the two reads and the `cmpxchg` of the throttle,
`QueueRequest` for the critical section with `css_tryget_online()` (`Pin`), and
`WakeWorker` after the unlock. The worker is `WorkerLoop`, the two looks of
`wait_event_freezable()` (`WorkerPrepare`, `WorkerCheck`, `WorkerWakes`),
`WorkerTake`, `WorkerShrink` with the tuned priority, and `WorkerPut`.
`ReclaimQueue` is what this promises: a bounded queue that accepts or drops,
one server, in order, each request once and all of them in the end.

### `Lruvecd` — `kshrink_lruvecd.c`

| In the model | In the code |
|---|---|
| `skip`, `delay` | pages with `KSHRINK_SKIP_TRYLOCK`, `KSHRINK_TRYLOCK_DELAY` in their page_ext |
| `lru`, `free` | where pages come from and go to |
| `page_list`, `todo`, `local` | the list a reclaimer isolated, the pages `shrink_page_list()` has still to see, `local_list` |
| `account`, `nr_taken`, `nr_queued` | `shrink_inactive_list()` (accounts `NR_ISOLATED_*`) or `evict_pages()` (does not), what it added, what it has still to add for the pages it handed over |
| `lru_inactive`, `pages`, `isolated`, `runnable` | the state under `l_inactive_lock` |
| `batch`, `batch_isolated`, `nr_pages` | the worker's `local_list` and its counts |

`ShrinkPage` is what the hooks do to the two flags of one isolated page, as one
step since only the task that isolated the page runs them; `PassOver` is a page
somebody else has locked, which meets no hook. `StealDelayed` is the loop of
`__steal_delayed_pages()` with its break at the limit, `Publish` the critical
section with both outcomes (`HandOver`, `HandBack`), `AccountUp` and
`WakeWorker` what follows the unlock, `PutBack` the caller's unconditional
subtraction of `nr_taken`. `WorkerTake`, `WorkerReclaim` (one page),
`WorkerAccount` and `WorkerSubtract` are the worker. `Isolate`, `PassOver`,
`PutBack` and `Fault` are the kernel around the hooks and are marked external.

### `SwSync` and `Timeline` — `sw_sync.c`

| In the model | In the code |
|---|---|
| `file`, `kref` | the timeline's file is open; `obj->kref` |
| `value`, `pt_list` | `obj->value`, the pending points in order; the tree holds the same points in the same order |
| `phase` | the memory of a `sync_pt`: free, in use, its last reference put (`dying`), past the lock of its release (`unlinked`) |
| `seqno`, `signaled`, `refs`, `files` | the fence of a point and the sync files user space has of it |
| `pc`, `pt` | a task in an ioctl and the point it has created but not yet installed |
| `left`, `signalled` | what `sw_sync_ioctl_inc()` has still to add, the points of the local list of `sync_timeline_signal()` it has not put |
| `broken` | a release erased a point that was in no tree, or a put hit a point that was freed; the model ends there |
| `total`, `target` | history: the value without its wrap, and where on it a pending point is due |

`CreatePassed`, `CreateMerge` and `CreateInsert` are the outcomes of
`sync_pt_create()`, each with the allocation that precedes the lock, which
nobody sees; `Install` is the rest of the ioctl, with its failures. `Inc` and
`IncMore` are the steps of at most `INT_MAX` (`Chunk`) an increment is cut into,
each one critical section; `DropUnlink` and `DropPut` are the `list_del_init()` and
the `dma_fence_put()` of the loop that puts the signalled points without the lock,
so releases run between them. A reference that goes to zero leaves a point
`dying`: `ReleaseUnlink` is `timeline_fence_release()` under the lock, `ReleaseFree`
what follows. `CloseTimeline` is the release of the file, which leaves the points
listed and signalled with an error. `Timeline` is what this promises: a count
that only grows, and fences that are done when it has reached them.

Finding 7 has two ends, and the model stops at both because what the kernel does
next is undefined: `ReleaseCorrupts`, a release that finds the link of a revived point
on a local list, and `DropFreed`, the put of a point whose release ran after
`list_del_init()`, found the link empty and freed it (`Putting` becomes `"lost"`). The
passing properties are about the executions up to and including that step. A walk
that took a dying point holds no reference `RefsExact` counts, which is why it counts
walks only for points in use, and the put of a `"lost"` point is in none of the counts.

Not kept: `sync_debug.c` and its two global lists, names, other timelines (they
share only those lists), callbacks on a fence, which belong to other drivers.

### `BinderBoost` — `binder_sched_opt.c`

| In the model | In the code |
|---|---|
| `binder_boost_tbl`, `Hash`, `NSlots` | the table, `binder_boost_hash()` of each task, `BINDER_BOOST_SLOTS`; `rt` is `rt_promoted` |
| `mode`, `uclamp_min`, `Floors` | the two tunables and the values they take |
| `task` | of each task `uclamp_req[UCLAMP_MIN]` (value and `user_defined`), the maximum clamp and the policy |
| `pc`, `arg` | where a task is in a hook, the mode and the target it has read |
| `saved` | before the reservation what it read of itself, in a restore what it copied from its slot |
| `lent` | history: `"floor"` and `"rt"`, the changes of a boost nobody has undone or replaced |
| `want`, `dirty` | history: what user space set last; that it did so during a boost, or that the task came to the slot of one that exited |

`Received` is the hook up to the lock with all its early returns (`Eligible`),
`Reserve` the first critical section (full table, nested, new slot), `ApplyFloor`
and `PromoteRt` the change of the task with its failures, `ClearSlot` the
rollback and the end of a restore. `Unboost` copies the slot, `RestorePolicy`
and `RestoreFloor` put the task back or leave the slot, `MarkUserDefined` is the
store of the marker after `sched_setattr_nocheck()` has returned, a step because user
space can set the same field in between. `Finds` is the linear probe as a
relation; an insertion stops at a hole, a search does not. The scheduling that user
space sets (`SetMin`, `SetPolicy`, `SetMax`), the reuse of a task's address
(`Exit`) and the effect of a class on an undefined clamp (`WithPolicy`) are
external. A restore may run at any time a task is in no hook, since the module
leaves it to binder when a priority is restored.

Not kept: the match by name, the master switch (the effect of mode 0), the
status file, the priming at boot, `SCHED_RESET_ON_FORK`, nice values.

### `SsgSched` and `IoQueue` — `ssg-iosched.c`

| In the model | In the code |
|---|---|
| `ssg[d]` | `sort_list`, `fifo_list` and `next_rq` of a direction; an entry of `fifo_list` has what is left of its time (`fifo_time` less `jiffies`) |
| `starved_writes`, `dispatch` | the same |
| `phase`, `carrier` | where a request is; which request a bio is in. A request is named after the bio it was allocated for |
| `seq_zones_wlock`, `zone_locked` | the locked zones of the device; `RQF_ZONE_WRITE_LOCKED` of a request |
| `passed` | history: the reads that went first while a write could have gone |

`BioBackMerge` and `BioFrontMerge` are `ssg_bio_merge()` with the hooks the block
layer calls back (`RequestMerged`, `MergedRequests`), `InsertMerge` the same for
a request, which may join a whole chain, `InsertSort` the rest of
`ssg_insert_request()`, `InsertHead` a request the driver handed back.
`DispatchHead`, `DispatchRead` and `DispatchWrite` are the three ways through
`__ssg_dispatch_request()`: direction, then request (`Selected`), then
`MoveRequest` and the zone lock. `FinishRequest` is a completion. Which bios may
be merged, and how the block layer looks for chains, is external. `IoQueue` is
what this promises: what was submitted is issued in contiguous pieces of one
direction, nothing lost and nothing twice.

Not kept: tags, depths and `rq_info` (`SsgTags`), tunables changed while
running, discards, statistics, debugfs.

### `SsgTags` — `ssg-iosched.c`, `ssg-cgroup.c`

| In the model | In the code |
|---|---|
| `depth`, `WordBits` | `q->nr_requests`; the bits in a word of the bitmap of tags |
| `counts` | `allocated_rqs`, `async_write_rqs` |
| `blkg` | of each cgroup its `ssg_blkg`: `current` is `current_rqs`, `max` `max_available_rqs`, `shallow` its shallow depth, `live` whether `blkg_lookup()` finds it |
| `rq_info` | the array by tag, or none when `kmalloc()` failed |
| `alloc`, `rq` | how far a task is in allocating a request; the request of each tag |
| `within` | history: the cgroup whose present limit a look found room under |

`LimitBlkcg`, `LimitAsync` and `LimitTgroup` are the three looks of
`ssg_limit_depth()`, steps of their own since nothing is locked; `GetTag` is the
wait for a tag that the shallow depth allows (`Takes`), `PrepareRequest` and
`UncountRequest` are `ssg_prepare_request()` and `ssg_finish_request()`. `Migrate`
moves a task between any two of them, `PdInit` and `PdOffline` make and remove the
`ssg_blkg` of a cgroup, `SetMaxAvailableRatio` is the cgroup file, `DepthUpdated` and
`SwitchElevator` what happens to a frozen queue. That the memory of an `ssg_blkg`
outlives the requests that point to it is assumed, the code takes no reference.

Not kept: more than one hardware queue, where the code is wrong (finding 13),
statistics, debugfs.

### `FrameMonitor` — `unionpower/`

| In the model | In the code |
|---|---|
| `queue` | the messages on `queue_buffer_wq`, which is ordered |
| `buffer_record_list` | the records in the order of the list; `vsync` is the ring `vsync_record_list`, of each entry the id and `vsync_delay` |
| `frame_jank`, `notify_buffer_work_fp` | the same; the latter is set if the workqueue came up at boot |
| `alive` | the threads `find_get_pid()` finds |
| `sent` | the last id a process announced; ids of a process grow |
| `seen`, `passed` | history: the newest id the monitor has of a process, the newest that is counted or skipped |

`BufferVsync` and `BufferQueue` are the two commands of `device_ioctl()` with
`notify_buffer_work()`, the message lost when there is no memory. The rest is
the worker: `VsyncKnown`, `VsyncOfGone`, `VsyncRecycles` and `VsyncAdds` are the
ways through `on_notify_vsync()`, `QueueDropped`, `QueueRepeated`, `QueueUnknown`
and `QueueCounted` those through `on_notify_queue_buffer()`. `Store` is every
place where a record's status is set and `refresh_frame_load()` called. A clock
comparison has either outcome each time; the two streaks are kept up to the limit
they are compared with.

Not kept: what the clock values are, `history_buffer_interval`, `fpsChange()`
(which nothing calls), the sysfs file, `up_exit()` (the option is a bool, so the
code is never a module), a pid number used again, the overflow of `vsync_count`
after 2^31 frames without a reset.

### `BootLog` — `boottime.c`

| In the model | In the code |
|---|---|
| `log_count`, `bootprof`, `enabled`, `boot_finish` | the same; a buffer is `NULL` or has its entries, of which only `comm_event` is kept, as the task that logged |
| `initcall_list`, `call` | the entries with the task and the number of its initcall, which stands for the start time |
| `probes`, `booting` | the two tracepoints; where `bootprof_init()` is |
| `step` | where a task is: in an initcall, in a callback, in the switch |
| `missed` | history: tasks whose last recorded initcall ended while the finish probe was off |

`LogBoot` is `bootprof_log_boot()` under its lock, with each way out: switched off,
full, no buffer, no text. `StartCb` and `FinishCb` are the two callbacks,
`LogInitcall` what follows the second. `SwitchOn` and `SwitchOff` are writes of 1 and 0,
`TestBootFinish` and `SetBootFinish` the two accesses to `boot_finish` at the end of boot,
between which a second writer may pass the test, `Unregister` and `EmptyList` the
`tp_deinit()` they lead to. `Register` is a step of `tp_init()`, `NotFound` its exit when
the kernel lacks a tracepoint, with `UnloadProbes` and `UnloadList`.

Not kept: times, the entries drivers log with times of their own,
`bootprof_exit()` (findings 18 and 19).

### `QosInherit` — `sew_qos_inherit.c`

| In the model | In the code |
|---|---|
| `vip_tgid`, `hint_min` | the two tunables |
| `hints`, `active_hints` | the table of waiting tasks with the clamp to return, and its counter |
| `uclamp_req` | of each task `uclamp_req[UCLAMP_MIN].value` |
| `hooks`, `wait` | which hooks are registered; where a task is in `futex_wait()` |
| `asked`, `overtaken`, `forgotten` | history: the clamp last asked for; tasks that asked during a loan; tasks whose wait ended without the hook |

Each hook is two steps, what it looks at before `sew_qi_hint_lock` and its
section (`WaitStart`, `TakeHint`; `WaitEnd`, `ReturnHint`). `SetAttr` is anyone's
`sched_setattr()`, external. `HooksTo` is loading, a load that fails half-way, and unloading.

### `YieldPenalty` — `sew_yield_penalty.c`

`BeforeYield` is the hook with its gate (`Penalized`), `DoSleep` the work it
queued, on the way to user space or out of `do_exit()`; `TargetPidStore`,
`TargetFpsStore` and `HeadroomStore` are the files (`target_pid` takes 0, a negative
number or a thread that passes the uid check), `HookTo` loading and unloading,
`Kill` and `Fork` external. `app` is the set of threads with the uid of an app.

The MC modules declare the model values TLC needs, symmetry sets, the page
sizes, the hash and the number of frames; they define nothing of the system.
Two of them put modules with disjoint variables into one run: the initial state
chooses one (`MCSsg`: `SsgSched` or `SsgTags`; `MCSmall`: the four small ones), whose
actions are then the only ones taken, the others stay in an initial state. A
property of one module is thus checked over all behaviours of that module and, in the
executions of the others, over its initial state.

## 4. Runs

| Run | Bounds | Shows |
|---|---|---|
| `wakeup_gate` | 2 sources, 1 device, the power manager, `Modulus` 3, no blocker, one activation per life | `TypeOK`, `InProgressExact`, `WalkersKeepSources`, `AttachedIsLive`, `NoEventMissed` |
| `wakeup_readers` | 1 source, a second reader with signals, an abort of the suspend, `Modulus` 2, `FairSpec` | `NoLostWakeup`, `ReadersReturn` |
| `wakeup_blocker` | 1 source, its owner and timer, one walking task, stores at any time, `Modulus` 2, counts mod 3 | `ExactUnlessOverlapped`, `NoRegistrationMissed` |
| `wakeup_kill_race` | as above | `InProgressExact` fails (finding 1) |
| `slabd_queue` | 2 tasks, 1 memcg and the root, ring of 2 with counters mod 4, both throttle branches, `FairSpec` | `TypeOK`, `MemcgsKept`, `NoLostWake`, `PinsExact`, `ImplementsQueue`, `PinsReleased`, `InitReturns` |
| `slabd_throttle` | 2 tasks, 4 jiffies, `ULong` 8, window 2 | `ClaimsSpaced` fails (finding 4) |
| `lruvecd_handover` | 2 reclaimers, a base page and a compound page of 2, limit 2, `FairSpec` | `PagesKept`, `PendingBounded`, `IsolatedMatches`, `PagesReturn` |
| `swsync_timeline` | 3 points, 2 tasks, a word of 6 values (`Half` 3), increments of 1 and 5, `MaxTotal` 3, 1 file per point | `RefsExact`, `TimelineKept`, `PendingSorted`, `ImplementsTimeline` |
| `binder_boost` | 2 tasks with the same hash, 2 slots, `Scale` 2, floors 1 and 3, user space sets one task to normal or FIFO, its clamps to anything | `NoBoostLeaks`, `Restored` |
| `ssg_lists` | 1 read, 3 adjacent writes of a zone, 1 write of another, expiry after 1 and 2 ticks, the default limit of 2 starved reads; or 2 tasks of one process, 2 cgroups, depths of 2 and 3 tags | `ListsAgree`, `FifoInOrder`, `ZonesExclusive`, `WritesNotStarved`, `ImplementsIoQueue`; `CountsExact`, `LimitHolds` |
| `ssg_served` | 3 reads, 2 of them at one sector, 1 write, 1 passthrough request, limit 1, `FairSpec` | `Served` |
| `small_modules` | frames: 2 processes with 4 and 1 frames, 1 render thread, a ring of 3 reset at 3, `MaxQueue` 1 | `OutstandingFresh`, `JankShown` |
| | boot log: 2 buffers of 2 entries, 2 tasks with 2 and 1 initcalls, 1 writer | `LogComplete`, `StartsMatch` |
| | QoS inheritance: 2 waiters of one process, 1 slot, clamps 0, 5 and 7 | `HintsReturned` |
| | yield penalty: 3 threads, 2 of one process, 1 penalty counted | `OnlyAppsPenalized` |

Why the bounds are enough for the questions asked:

* Two sources make the counter go from 0 over 1 to 2 and back while a third
  count value is left for the wrap (`Modulus` must exceed the number of sources,
  as in the code). `MaxActivations` bounds the statistics counters, which only
  the balance in `IInv` looks at. `MaxAbort` bounds `pm_abort_suspend`.
* With the blocker one source and one walk are two agents in
  `wakeup_source_deactivate()`, the least that overlap, and what overlaps need not be
  two walks (finding 27). Counts modulo 3 (`CountSize`) are unbounded in the sense that
  matters: they wrap like the code's, at 2^64, and differences of one up and one down
  stay apart. `Modulus` 2 holds the one source and makes the gate's count wrap.
* A ring of 2 with counters mod 4 is the smallest that is empty, half full and
  full at every position, and that wraps; `Windows = {0, 1}` with the clock stopped
  makes the throttle accept and refuse, which is all `slabd_queue` needs of it.
  Time passes in `slabd_throttle`, where `ULong` 8 is wider than the clock can
  get, as 2^64 is.
* Two pages of sizes 1 and 2 with a limit of 2 give every outcome of both limit
  tests: one page fits, the other does, both do not, a batch fits alone but not
  beside what is queued. The second reclaimer is what races the worker.
* `Half` 3 is the smallest half range in which two pending points can have
  different values; an increment of 5 then exceeds `INT_MAX` (2) and is cut in
  three pieces, between which the other task adds 1. Three points give an
  insertion between two others and a second point of a value whose first is
  dying. `MaxTotal` 3: no increment starts when the
  count has reached 3, so the second task's increment can fall between the
  pieces of the first one's, and the count passes the wrap at 6. Points and
  tasks are symmetric, which is sound because the run checks safety only.
* Two tasks that probe from the same slot make each find the other's slot in
  front of its own, and a hole there once that is cleared. The floor of 3 is
  above `Scale` and cut to it; 1 lies below, so that a boosted thread is eligible
  again after a change. User space sets one of the two: the other shows what
  the module does when left alone, and is the one whose slot gets in the way.
* Three adjacent requests are the least a bio between two others, or a chain,
  can join; the write in a second zone is what a dispatch finds behind one whose
  zone is locked, and the read what passes them. Two ticks let an
  older write expire before a younger one, and a merge exchange their times. In
  `ssg_served` two reads at one sector follow each other in the sorted order for
  as long as they are submitted again: only expiry ends that.
* Depths of 2 and 3 tags in one word, resized either way whenever the queue is frozen.
  The ratio 40 allows a cgroup one tag of the three and none of the two: a limit of 0, a
  limit that is reached, one that a change of depth alters, and a shallow depth that
  leaves two tags to others. Two tasks are the least that find room for the same last request;
  one of them moves between the cgroups.
* Two buffers of two entries have an entry in the middle of a buffer, one that opens
  the second, and the full log; each allocation may fail at each of them. A task
  with two initcalls meets the entry its first one left.
* One slot for two waiters is a full table; `MaxActive` 3 lets a forgotten hint and
  two others be counted. A clamp lent (7) differs from those asked for (0 and 5).
* Two threads of a process and one of another, each an app or not: the pid written
  is the thread's own, its leader's, or gone and used again.
* A ring of 3 is full with three frames, reset by the fourth, and has indices
  that wrap; the frame of the other process is what a record is recycled for, and
  back. One message waiting is enough: each is handled in one step, which
  depends on the sender only in whether it is still alive then, so a second one
  waiting is a message sent later.
* Parameters that matter and are small here are constants, and the theorems of
  §6 hold for every value of them.

Deadlock is checked in the `wakeup_*` runs. It is not in the others because
those systems really stop: after a boot that failed, and when no task reclaims.

## 5. Fairness

* `WakeupEvents!FairSpec`: weak fairness of the steps of a task inside a call
  (`WalkStep`, `CountStep`): a task that can run does. Nothing is assumed of
  drivers, timers or user space, so an event may last for ever; `ReadersReturn`
  therefore only speaks of executions in which events stay at zero. A task in
  `schedule()` runs again only when it was woken or has a signal.
* `Slabd!FairSpec`: weak fairness of boot, of the worker and of what a task does
  once inside the hook. Nothing makes a task reclaim, a memcg go away or the
  clock tick.
* `Lruvecd!FairSpec`: the same: boot, the worker, a reclaimer between isolating
  pages and putting back what is left.

The scheduler of the kernel gives exactly that to runnable tasks; no lock is
held across any of these steps. The worker's sleep is modelled as the two looks
of `wait_event_freezable()`, so fairness never hides a lost wake-up: a worker
that is asleep and was not woken has no enabled step.

`SsgSched!FairSpec` speaks of the block layer and the device: a queue that has
work is run (`ssg_has_work()`, and the restart `ssg_finish_request()` asks for),
the device completes what it was given, and time passes. `Served` supposes in
addition that the dispatch list, which goes first without a limit, is empty from
some time on: nothing in the module bounds requeues and passthrough requests.

## 6. Proofs

All theorems are checked by TLAPS to the last leaf, for every value of the
constants that satisfies the named assumptions of the modules (which TLC
evaluates in the runs).

`WakeupEvents_proofs` — any finite set of sources, any devices and readers, any
`Modulus` above the number of sources, the file without the blocker:

* `TypeCorrect` (`TypeOK`), inductive as it stands.
* `LifeInvariant`: `LifeInv` is the strengthening of the two below: what an
  SRCU walk can still visit is on the list, or is unlisted with that very walk
  in the grace period its removal waits for, and a timer is pending or running
  only on a registered source. Neither `AttachedIsLive` nor
  `WalkersKeepSources` is inductive without it: `RemoveFinish` frees what nobody
  holds, and only `WalkInv` says who holds what.
* `AttachedLive`, `WalkersSafe`.

* `GateInvariant`: `IInv`. A source is ahead of its relaxes by one exactly while
  active; the low half counts the active sources; a waiter past its check sees
  an event in progress; and since the count now in use was read the high half
  has moved on by the activations that are over. The last is what makes the
  comparison in `pm_save_wakeup_count()` and `pm_wakeup_pending()` mean
  anything, and it holds while fewer than `Modulus` activations came between.
* `InProgressCounts` (`InProgressExact`), `WaitersWoken` (`NoLostWakeup`),
  `SuspendGateHolds` (`NoEventMissed`, an action property).

`WakelockBlocker_proofs` — any finite set of sources and of walking tasks, any
`Modulus` above the number of sources, any width of the counts:

* `GateHolds` (`NoRegistrationMissed`, an action property). `GateInv` (`Tracked`) keeps
  where the counter stands relative to the count in use: its low half is the activations
  since then less the deactivations, its high half the count plus the deactivations, with
  a borrow when there were more deactivations than activations. Nothing is said of the
  fields of a source, which is why kills that overlap do no harm to it.
* `KillsHarmless` (`ExactUnlessOverlapped`). `EvenInv`: of a source that was never
  overlapped there is a number that everything agrees on (`AgreeOn`): what the one agent
  in `wakeup_source_deactivate()` has loaded, `relax_count` before its raise and after
  its lowering, and `active_count` up to the activation under way. Where that agent
  stands decides which of them is one ahead. `CountInv` (`Balance`): the events in
  progress are the active sources, less those not registered yet, plus the deactivations
  not accounted yet, up to multiples of `Modulus`; with nobody inside a source only the
  first is left. Overlapped sources are excepted because they must be (finding 27).

`Slabd_proofs` — any ring size that divides the width of the counters at least
twice, any tasks and memcgs:

* `RingInvariant`: `IInv == TypeOK /\ RingInv /\ PinsExact`. What is occupied
  is a request, pinned if its memcg can go away; the worker holds one exactly
  while it is busy; a reference count is the number of its holders.
* `TypeCorrect`, `PinsCorrect`, `MemcgsSafe` (a freed memcg has no references,
  so it is in no slot), `WorkerAwake`.
* `QueueRefined`: every step maps to a step of `ReclaimQueue` or to a stutter.
  The queue is the sequence of the slots from `head` to `tail`; the arithmetic
  of the wrap is in the lemmas before it.

`Lruvecd_proofs` — any set of pages of any sizes (an additive count of base
pages), any reclaimers, any limit:

* `HandOverInvariant`: `IInv`. `PagesKept` needs to know which lists are empty
  at which point (`ListInv`); `PendingBounded` needs what
  `shrink_lruvec_pages` stands for while the worker has a batch: the queue plus
  the whole batch as it was taken, until `WorkerSubtract` (`PendingInv`).
* `PagesAreKept` (`PagesKept`), `PendingStaysBounded` (`PendingBounded`).
* `SharesAddUp`: `ShareInv /\ SumInv`. `IsolatedMatches` is not inductive, since it
  does not say whose pages the counter stands for. `NR_ISOLATED` is the sum over the
  reclaimers of what each took less what it has still to add for pages it handed over
  (`Share`), plus `isolated` and `batch_isolated`. The sum over a set of reclaimers is
  no recursive definition here: the invariant says that there is a function on the sets
  of reclaimers that adds up their shares, and a step of one of them gives the next such
  function from the last (`SumMoves`).
* `IsolatedCovered` (`IsolatedMatches`), `TypeCorrect` (`TypeOK`, with
  `nr_isolated \in Nat`).

`SwSync_proofs` — any points and tasks, any width of the word and any increments:

* `RefInvariant`: `RefInv`. `RefsExact` needs what it does not say of the lists: no
  point is on one twice, a pending point is in use or dying, one that an unlocked walk
  has yet to put may also be past the lock of its release if its link is already empty
  (`Carried`), and a task is in an ioctl exactly while it has a point or a list of its
  own, unless the point it was about to put was freed (`Shape`).
* `ReferencesExact` (`RefsExact`), `TimelineOutlivesPoints` (`TimelineKept`): up to the
  step at which a revived point does its first damage (finding 7), where the model ends.
* `PendingInvariant`: `PendInv`. What is pending is ahead of the value by less than
  half the word, and due at the total plus that distance; from the arithmetic of the
  word (`StepPasses`, `LaterIsFarther`) follows that a step of the increment passes
  exactly what it reaches, and keeps the rest within half the word. What is
  referenced and not signalled is on the list (`DueListed`).
* `PendingInOrder` (`PendingSorted`), `TimelineRefined` (`ImplementsTimeline`): a
  creation is an `Add` or a stutter, each piece of an increment an `Advance`, the put
  of the last reference a `Remove`, the close of the file an `End`.

Where the loop stops (`Passed`) is the last place of a run of points that are due; that
there is one is an induction on the length of the list, done here as the
least counterexample: the naturals are well founded, which the library states
without an operator parameter (`LeastOfNaturals`).

`BinderBoost_proofs` — any tasks, table size and hash, any tunables:

* `TypeCorrect` (`TypeOK`), which includes that no floor above the scale is
  written.
* `TableInvariant`: `IInv`. `NoBoostLeaks` alone is not inductive, since
  `ClearSlot` frees whatever slot the search returns. `FirstSlot` says that a
  thread past its reservation still finds the slot it reserved or copied,
  whatever other threads take and clear in front of it (`FindStable`), and that
  the slot to be cleared is not the last that owes something.
* `BoostsReturned` (`NoBoostLeaks`).
* `StackInvariant`: `StackInv`. The slots of a thread, in the order of the probe, are
  the stack of its boosts: an insertion takes a hole in front of the first of them, and
  a restore finds the first. Each slot saved what the boost before it had set, so the
  last of them saved what user space set, and a promotion still in force is that of
  the first. This is not part of `Restored`, which speaks only of a thread
  with no slot left.
* `StateRestored` (`Restored`): a thread without a slot has the policy, the floor and the
  marker user space gave it, unless user space set them during a boost or the slot was
  left behind by another thread (`dirty`).

`SmallModules_proofs`, `FrameMonitor` — any processes and threads, any ring and limits:

* `JankIsShown` (`JankShown`). `JankInv` adds only that the records are records:
  a record loses its jank or its place in one of four ways (`Store`, a skip,
  `Recycle`, a new record), and after each either another record still janks or
  `refresh_frame_load()` has cleared the flag.
* `FrameInvariant`, `FramesStayFresh` (`OutstandingFresh`). The queue takes part in
  the argument: the ids under way from one process are newer than what the worker has
  seen of it and come in order (`Coming`), even when some are lost. Each process has
  one record, and what is outstanding in it is in the order of its ids, ends with the
  newest, and spans at most the reset gap (`Fresh`), so that its indices are different
  modulo the ring (`SlotsApart`) and the entry stored next overwrites none of them.

`Ssg_proofs` — `SsgSched` for any set of bios, finite or not, any sectors, zones,
expiry times and `max_write_starvation`:

* `SsgInvariant`: `SsgInv`, from which the six theorems follow. What one call does to
  the two lists and `next_rq` of a direction is proved once, of any queue that holds
  each of its requests once, sorted and in the order of expiry (`QueueOK`): an
  insertion, a removal, a merge (`ssg_merged_requests()` removes one request and may
  hand its time and its place on) and a chain of merges, which is an induction along
  the chain by the least place that goes wrong.
* `OnBothLists` (`ListsAgree`), `ExpireInOrder` (`FifoInOrder`): neither is inductive
  alone. A merge at the front changes the sector a request is sorted by, and the list
  stays sorted only because requests carry disjoint pieces without gaps (`Piece`, in
  `RequestsOK`); a merged time keeps the order only because the times in the list are
  not above the time of a new one.
* `OneWriteOfAZone` (`ZonesExclusive`) needs `ZoneInv`, which speaks of the dispatch
  list too: what is there goes out without a look at its zone, so of the writes of a zone
  that are issued or on that list there is one. That a requeued write gives
  its zone up and still lets no other past is this conjunct.
* `ReadsGiveWay` (`WritesNotStarved`): `passed` is never above `starved_writes`, and
  that never above the limit.
* `QueueRefined` (`ImplementsIoQueue`): a submission is a `Submit`, a dispatch an
  `Issue` of the piece the request carries, a requeue and a completion the abstract
  ones, merges and insertions stutter. `Correct` is `TypeOK`.

and `SsgTags` for any tasks and cgroups, any depths, ratios and bits in a word:

* `TagsTypeCorrect` (`TagsTypeOK`), `CountsAreExact` (`CountsExact`),
  `LimitOvershoot` (`LimitHolds`). The invariant behind them has two parts the
  properties do not mention: a task about to prepare a request has a tag of its own
  (`AllocInv`), and the array remembers of each request in flight the cgroup it was
  counted for (`RqInv`), which is why a migration does no harm. For the limit, those
  let in and those that still may come in are counted together (`LimitInv`): a look
  that finds room finds fewer in flight than the limit, and there are never more
  looks pending than tasks.

`SmallModules_proofs`, the other three modules, each with an invariant of its own:

* `PenaltyForAppsOnly` (`OnlyAppsPenalized`), any threads.
* `SlotsStayHeld`, `LoansReturned` (`HintsReturned`), any waiters and any size of the
  table: what a slot saved is what its task last asked for (`LoansInv`); a wait that
  ends without a search has no slot, since `active_hints` is never below the slots
  taken.
* `LogIsComplete` (`LogComplete`), buffers of any number and size: of two entries the earlier is in an earlier buffer or before the other in
  the same one (`Places`), so neither a new buffer nor a new entry meets one that is
  counted.
* `StartsAreOwn` (`StartsMatch`), any tasks and any initcalls: the walk that leaves the
  duplicates out is followed entry by entry (`DuplicatesGone`), the removal of the first
  entry of a task place by place (`TakenOut`); with types, the property is inductive.

Only model-checked: every liveness property (`ReadersReturn`, `PinsReleased`,
`InitReturns`, `PagesReturn`, `Served`, the fairness half of `ImplementsQueue`), since the
proof system has no rules for fairness here, and the types of `FrameMonitor`. The types
of the modules whose `TypeOK` no run lists (`FrameMonitor`, `Lruvecd`, `SwSync`,
`SsgSched`) are there for the reader; those of the other three are proved. That a skip keeps the streaks in range, which `FrameMonitor!TypeOK` says, is an
induction over a fold and stays with TLC.

## 7. Not modelled

* Memory policy hooks: they look at their arguments and some tunables and return
  a value; no state of theirs changes over time. Exceptions: the tgid list of
  `sew_rss_monitor`, which only selects what is shown, and the predicate pointer of
  `sew_unfairmem`.
* RT load: a counter per event, which nothing reads but its file.
* The audit filter (no state), assembler routines, the installer scripts: file and
  text editing without a second actor.
* zstd and zstdh: two copies of a compression library taken over from upstream. They
  are some 74,000 of the 84,000 lines under `src/files`; what is this repository's own
  is the other tenth, and of that the modules cover the parts that keep state. A model
  of an entropy coder would say nothing about this code's own hazards.
* Of the modelled components: statistics and status files, CPU affinity of the
  workers, text and formatting, module exit where there is none.
* Interrupts as such: a spinlock taken with interrupts off is atomic, which is
  what the model takes it to be.

## 8. Findings

Disagreements between the code and its comments, and plain mistakes. 1 and 4 are
counterexamples of runs; the others were met while modelling.

1. `check_for_block()` deactivates an active source from a list walk without
   `ws->lock` (wakeup.c:660-662, called at 989). Two deactivations, or a
   deactivation and an activation, of one source overlap and the counter of
   events in progress no longer equals the number of active sources
   (`wakeup_kill_race`).
2. The argument `hard` of `wakeup_source_report_event()` is not used
   (wakeup.c:682-698); the comments promise that a hard event aborts a suspend
   under way.
3. `pm_get_active_wakeup_sources()` walks under `rcu_read_lock()` only
   (wakeup.c:952-973), removal waits for the SRCU readers only (wakeup.c:218):
   a source still to be visited can be freed. `WalkersKeepSources` is stated for
   the SRCU readers only.
4. The hook of `slabd` reads `jiffies` before the throttle's timestamp
   (slabd.c:378-379). A task overtaken in between computes a negative difference
   as a huge unsigned one and is accepted inside the window (`slabd_throttle`).
5. `kshrink_slabd_tune_priority()` raises priorities 1 to 5 to 6 (slabd.c:207)
   where its comment speaks of one step of a deeper scan.
6. Inside the throttle window the pass is dropped (slabd.c:380-384); the comment
   on the tunable says the caller shrinks synchronously (slabd.c:90-92).
7. `sync_timeline_signal()` takes a pending point with `dma_fence_get()`
   (sw_sync.c:209) even when its last reference is gone and its release waits
   for the lock. The release then finds the link in use, on the local list, and
   erases the point from the tree a second time (sw_sync.c:139-143):
   `ReleaseCorrupts`. Or it runs between the walk's `list_del_init()` and
   `dma_fence_put()` (220-221), finds the link empty and frees the point, and the put
   hits freed memory: `DropFreed`. `swsync_timeline` reaches both.
8. `binder_boost_find()` for an insertion stops at a hole in front of a slot the
   task already has (binder_sched_opt.c:209), so a nested boost may save a
   second time; the comment at 327 says it keeps the first saved state. `Restored`
   and `NoBoostLeaks` hold in spite of it: each slot is undone by a restore of its
   own.
9. No hook clears a slot when a thread exits (binder_sched_opt.c:331). The slot is
   lost, or taken over by the next thread at that address with the dead
   thread's saved values; `Restored` has to exclude that thread.
10. Every restore ends the boost, also that of a nested transaction
   (binder_sched_opt.c:466); the comment at 60-61 speaks of the duration of the
   transaction.
11. `binder_sched_opt_prime_uclamp()` undoes the `user_defined` marker only if it is
   not set (binder_sched_opt.c:523-525), after the write that sets it.
12. `max_write_starvation` may be set below zero (ssg-iosched.c:869) and is compared
   with an unsigned counter (361): no number of reads then lets a write go first,
   where the comment calls it the "max times reads can starve a write"
   (ssg-iosched.c:48). The model has the limit in `Nat`.
13. `rq_info` has one entry per tag, but every hardware queue numbers its tags from 0
   (ssg-iosched.c:156, 613): with two queues, two requests share an entry and a
   cgroup's count stays one too high for good. `SsgTags` has one queue.
14. `sbitmap_queue_min_shallow_depth()` is told the depth of asynchronous writes
   (ssg-iosched.c:492-493, 559-560), though cgroups and thread groups may be given a
   smaller one.
15. `queue_buffer_work()` takes a reference to a pid and to its task for every
   buffer (frame_load_monitor.c:359, 364) and puts neither; `on_notify_vsync()` the
   same for every new process (288, 294). The early returns (362, 368) leak the
   message as well.
16. With five frames outstanding the entry at `frame_count - 1` modulo the ring is
   the newest one (frame_load_monitor.c:192): its buffer is taken for a repeat of
   the frame counted last, and all five are dropped at the next vsync.
17. The end of boot is a write of 0 that finds the log switched on
   (boottime.c:411-412, 420); a full log or a failed allocation has switched it off
   already, and `boot_finish` stays false.
18. `bootprof_exit()` reads one buffer past the array when the log is full
   (boottime.c:569-570), and frees the entries before it removes the file.
19. When `bootprof_init()` gives up early it returns 0 (boottime.c:526-536), and
   `bootprof_exit()` walks a list head that was never initialised.
20. A start callback without memory makes the finish callback log
   "Kernel_init_done" (boottime.c:255, 318-322).
21. The buffer of an entry is allocated again when the text of its first entry could
   not be (boottime.c:125-128); the first one leaks.
22. Unloading `sew_qos_inherit`, or a load that fails at the proc entry, leaves tasks
   with the clamp they were lent (sew_qos_inherit.c:193-203), which the comment at
   39-41 says must be restored. `HintsReturned` excepts them (`forgotten`).
23. A `sched_setattr()` on a task with a lent clamp is overwritten when its wait ends
   (sew_qos_inherit.c:108-109): `overtaken`.
24. `sew_penalty_before_yield()` computes nanoseconds, `usleep_range()` takes
   microseconds (sew_yield_penalty.c:77, 99-101): a yield at 60 fps sleeps for 8 to
   18 seconds, not "~18ms".
25. `sleep_ns_total` adds up the width of the range, not what was slept
   (sew_yield_penalty.c:79).
26. `sew_yield_penalty_exit()` does not wait for works that are queued or asleep
   (sew_yield_penalty.c:262-270).
27. A walk's kill and the owner's locked deactivation of one source may overlap and
   leave `relax_count` above `active_count` for good: both raise it, compare and lower it
   (wakeup.c:773-785). With 1 and 1, left by a deactivation that is over, the owner raises
   to 2, the kill loads 2, the owner lowers to 1, the kill stores 3 and lowers to 2. One
   walk is enough. After the next activation the two are equal, the comparison fails for
   every deactivation of it, and the source stays active. `ExactUnlessOverlapped`
   therefore excepts the sources in `overlapped`.
28. `ssg_prepare_request()` keeps the `blkcg_gq` it looked up in `rqi->blkg` without a
   reference (ssg-iosched.c:754-757); `ssg_blkcg_pd_free()` frees its `ssg_blkg` with it
   (ssg-cgroup.c:108-116), and `ssg_finish_request()` decrements a counter in it (802). A
   cgroup removed with a request in flight is freed memory by then. `SsgTags` assumes
   that the memory stays, so `CountsExact` says nothing of that case.

## 9. Running the checks

    tlc -config MCLruvecd.cfg MCLruvecd.tla
    tlapm Lruvecd_proofs.tla

`PROJECT.json` lists the runs with their properties, a mutation of the code for
each property that its run must catch, the source lines of every definition, the
hazards and the theorems. Definitions with a `Mutant:` comment are those
mutations; no specification uses them.
