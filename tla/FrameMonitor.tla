---------------------------- MODULE FrameMonitor ----------------------------
(***************************************************************************)
(* drivers/mihw/unionpower: the frame load monitor behind                  *)
(* /proc/unionpower/ioctl.                                                 *)
(*                                                                         *)
(* Grain: an ioctl allocates a message and queues it, one step; the        *)
(* workqueue is ordered and a message is handled with list_lock held, so   *)
(* its handling is one step too.  Clock readings are not kept: whether a   *)
(* vsync came late, a buffer was slow, a record has timed out or a jank is *)
(* recent is open each time the code compares.                             *)
(***************************************************************************)
EXTENDS Integers, SequencesExt

CONSTANTS
  Pids,            (* processes, each named after its main thread          *)
  RenderThreads,   (* the threads whose comm is "RenderThread"             *)
  None,
  RecordSize,      (* RECORD_SIZE                                          *)
  ResetGap,        (* the literal 5 in update_vsync()                      *)
  NiceMoreLimit,   (* NICE_MORE_LIMIT                                      *)
  JankLimit,       (* JANK_LIMIT                                           *)
  MaxId,           (* bound: of each process, frame ids are 1..MaxId[p]    *)
  MaxQueue         (* bound: messages waiting for the worker               *)

Threads == Pids \cup RenderThreads

ASSUME ThreadAssumption == Pids \cap RenderThreads = {} /\ None \notin Threads
ASSUME RingAssumption ==
  /\ RecordSize \in Nat \ {0, 1} /\ ResetGap \in 2..RecordSize
  /\ NiceMoreLimit \in Nat \ {0} /\ JankLimit \in Nat
  /\ MaxId \in [Pids -> Nat] /\ MaxQueue \in Nat

VARIABLES
  notify_buffer_work_fp,  (* set: the monitor came up at boot              *)
  queue,                  (* the messages on queue_buffer_wq               *)
  buffer_record_list,
  frame_jank,             (* what sysfs shows                              *)
  alive,                  (* threads find_get_pid() would find             *)
  sent,                   (* the last frame id each process announced      *)
  seen, passed            (* history: the newest id the monitor has of a   *)
                          (* process, the newest it has left behind        *)

vars == <<notify_buffer_work_fp, queue, buffer_record_list, frame_jank, alive,
          sent, seen, passed>>

-----------------------------------------------------------------------------
Slot(k) == k % RecordSize

(* The streaks only matter up to the limits they are compared with.        *)
Nicer(r) == IF r.continus_nice < NiceMoreLimit THEN r.continus_nice + 1
                                               ELSE r.continus_nice
Jankier(r) == IF r.continus_jank <= JankLimit THEN r.continus_jank + 1
                                              ELSE r.continus_jank

EndsStreak(r) == [r EXCEPT !.continus_jank = 1, !.continus_nice = 0]

(* A frame that was late, or was not.                                      *)
Scored(r, late) ==
  IF ~late THEN [r EXCEPT !.continus_nice = Nicer(r)]
  ELSE IF r.continus_nice > 0 THEN EndsStreak(r)
  ELSE [r EXCEPT !.continus_jank = Jankier(r)]

JankStatus(r, delay) ==
  delay \/ (r.continus_jank > JankLimit /\ r.continus_nice < NiceMoreLimit)

InitBuffer(r, pid, id) ==
  [r EXCEPT !.pid = pid, !.render_thread = None, !.vsync_count = 1,
            !.vsync[0] = [id |-> id, delay |-> FALSE], !.jank_happend = FALSE,
            !.frame_count = 0, !.continus_nice = 0, !.continus_jank = 0]

Zeroed == [pid |-> None, render_thread |-> None, vsync_count |-> 0,
           vsync |-> [i \in 0..RecordSize - 1 |-> [id |-> 0, delay |-> FALSE]],
           jank_happend |-> FALSE, frame_count |-> 0, continus_nice |-> 0,
           continus_jank |-> 0]

(* What frame_jank may be after refresh_frame_load(): a record that janks  *)
(* counts only while that is recent.                                       *)
RefreshFrameLoad(status, list) ==
  IF status THEN {TRUE}
  ELSE IF frame_jank /\ \E r \in ToSet(list) : r.jank_happend THEN BOOLEAN
  ELSE {FALSE}

-----------------------------------------------------------------------------
Gap(r) == r.vsync_count - r.frame_count

(* Mutant: the reset is one frame late.                                    *)
GapPassed(r) == Gap(r) > ResetGap

GapReached(r) == Gap(r) >= ResetGap

(* Room for one more vsync; with too many frames outstanding only the last *)
(* is kept.                                                                *)
Advanced(r) ==
  IF GapReached(r)
  THEN [r EXCEPT !.vsync[0] = r.vsync[Slot(r.vsync_count - 1)],
                 !.vsync_count = 2, !.frame_count = 0,
                 !.continus_nice = 0, !.continus_jank = 0]
  ELSE [r EXCEPT !.vsync_count = @ + 1]

(* update_vsync(): the vsync is late only if the frame before it is still  *)
(* outstanding; a late one starts a jank and none of them ends it.         *)
UpdateVsync(r, id, late) ==
  LET a == Advanced(r)
      delay == late /\ a.frame_count # a.vsync_count - 1
  IN [a EXCEPT !.vsync[Slot(a.vsync_count - 1)] = [id |-> id, delay |-> delay],
               !.jank_happend = r.jank_happend \/ delay]

(* The frame counted last is queued once more.                             *)
IsRepeat(r, id) == r.frame_count > 0 /\ r.vsync[Slot(r.frame_count - 1)].id = id

Repeated(r, slow) ==
  LET s == IF slow /\ r.continus_nice > 0 THEN EndsStreak(r) ELSE r
  IN [s EXCEPT !.jank_happend = JankStatus(s, r.vsync[Slot(r.frame_count - 1)].delay)]

Outstanding(r) == r.frame_count..r.vsync_count - 1

(* The loop that skips outstanding frames up to the one that was queued.   *)
Skips(r, id) ==
  LET found == {k \in Outstanding(r) : r.vsync[Slot(k)].id = id}
  IN IF found = {} THEN Gap(r) ELSE Min(found) - r.frame_count

Skipped(r, id) ==
  LET late == [i \in 1..Skips(r, id) |-> r.vsync[Slot(r.frame_count + i - 1)].delay]
      s == FoldLeft(Scored, r, late)
  IN [r EXCEPT !.frame_count = @ + Skips(r, id),
               !.continus_nice = s.continus_nice, !.continus_jank = s.continus_jank]

Counted(r, slow) ==
  LET s == Scored(r, slow)
  IN [s EXCEPT !.frame_count = @ + 1,
               !.jank_happend = JankStatus(s, r.vsync[Slot(r.frame_count)].delay)]

-----------------------------------------------------------------------------
(* The ioctl: a thread announces a frame of its own, or queues a buffer    *)
(* for any process.  Without a message there is nothing to do.             *)
Message(type, from, pid, id) == [type |-> type, from |-> from, pid |-> pid, id |-> id]

NotifyBufferWork(m) ==
  /\ notify_buffer_work_fp
  /\ Len(queue) < MaxQueue
  /\ queue' = Append(queue, m)

BufferVsync(p) ==
  /\ p \in alive /\ sent[p] < MaxId[p]
  /\ sent' = [sent EXCEPT ![p] = @ + 1]
  /\ \/ NotifyBufferWork(Message("vsync", p, p, sent[p] + 1))
     \/ notify_buffer_work_fp /\ UNCHANGED queue          (* OOM *)
  /\ UNCHANGED <<notify_buffer_work_fp, buffer_record_list, frame_jank, alive,
                 seen, passed>>

BufferQueue(t, p) ==
  /\ t \in alive
  /\ \E id \in 1..sent[p] : NotifyBufferWork(Message("queue", t, p, id))
  /\ UNCHANGED <<notify_buffer_work_fp, buffer_record_list, frame_jank, alive,
                 sent, seen, passed>>

ThreadExits(t) ==
  /\ t \in alive
  /\ alive' = alive \ {t}
  /\ UNCHANGED <<notify_buffer_work_fp, queue, buffer_record_list, frame_jank,
                 sent, seen, passed>>

-----------------------------------------------------------------------------
(* The worker.                                                             *)
Dequeue(type) ==
  /\ queue # <<>> /\ Head(queue).type = type
  /\ queue' = Tail(queue)
  /\ UNCHANGED <<notify_buffer_work_fp, alive, sent>>

Drop == UNCHANGED <<buffer_record_list, frame_jank, seen, passed>>

Record(i) == buffer_record_list[i]

(* The new record i, and frame_jank refreshed by its status.               *)
Store(i, r) ==
  /\ buffer_record_list' = ReplaceAt(buffer_record_list, i, r)
  /\ frame_jank' \in RefreshFrameLoad(r.jank_happend, buffer_record_list')

First(S) == {i \in S : \A j \in S : i <= j}

RecordsOf(pid) == First({i \in DOMAIN buffer_record_list : Record(i).pid = pid})

See(m) == seen' = [seen EXCEPT ![m.pid] = m.id] /\ UNCHANGED passed

VsyncKnown ==
  LET m == Head(queue)
  IN /\ Dequeue("vsync")
     /\ \E i \in RecordsOf(m.pid), late \in BOOLEAN :
          Store(i, UpdateVsync(Record(i), m.id, late))
     /\ See(m)

VsyncOfGone ==
  /\ Dequeue("vsync") /\ RecordsOf(Head(queue).pid) = {}
  /\ Head(queue).pid \notin alive
  /\ Drop

(* Mutant: recycling forgets that the record may hold frame_jank up.       *)
RecycleSilently(i, m) ==
  /\ buffer_record_list' =
       ReplaceAt(buffer_record_list, i, InitBuffer(Record(i), m.pid, m.id))
  /\ UNCHANGED frame_jank

(* A record with nothing outstanding that has not been used for long goes  *)
(* to the new process.                                                     *)
Recycle(i, m) ==
  LET calm == ReplaceAt(buffer_record_list, i, [Record(i) EXCEPT !.jank_happend = FALSE])
  IN /\ buffer_record_list' = ReplaceAt(calm, i, InitBuffer(Record(i), m.pid, m.id))
     /\ frame_jank' \in IF Record(i).jank_happend THEN RefreshFrameLoad(FALSE, calm)
                                                  ELSE {frame_jank}

VsyncRecycles ==
  LET m == Head(queue)
  IN /\ Dequeue("vsync") /\ RecordsOf(m.pid) = {} /\ m.pid \in alive
     /\ \E i \in DOMAIN buffer_record_list : Gap(Record(i)) <= 0 /\ Recycle(i, m)
     /\ See(m)

VsyncAdds ==
  LET m == Head(queue)
  IN /\ Dequeue("vsync") /\ RecordsOf(m.pid) = {} /\ m.pid \in alive
     /\ \/ /\ buffer_record_list' =
                Append(buffer_record_list, InitBuffer(Zeroed, m.pid, m.id))
           /\ See(m)
        \/ UNCHANGED <<buffer_record_list, seen, passed>>   (* kzalloc() fails *)
     /\ UNCHANGED frame_jank

(* The record a buffer is for: that of its process, if the thread is the   *)
(* one which renders for it or if none is known yet.                       *)
RecordsFor(m) ==
  LET With(t) == First({i \in DOMAIN buffer_record_list :
                          Record(i).pid = m.pid /\ Record(i).render_thread = t})
  IN IF With(m.from) # {} THEN With(m.from) ELSE With(None)

Renders(t) == t \in alive /\ t \in RenderThreads

QueueDropped ==
  LET m == Head(queue)
  IN /\ Dequeue("queue")
     /\ ~Renders(m.from) \/ RecordsFor(m) = {}
     /\ Drop

(* update_buffer() on record i, for the buffer at the head of the queue.   *)
UpdateBuffer(i) ==
  /\ Dequeue("queue") /\ Renders(Head(queue).from) /\ i \in RecordsFor(Head(queue))
  /\ UNCHANGED seen

Buffer(i) == [Record(i) EXCEPT !.render_thread = Head(queue).from]

Leave(r) ==
  passed' = [passed EXCEPT ![r.pid] = r.vsync[Slot(r.frame_count - 1)].id]

QueueRepeated(i) ==
  /\ UpdateBuffer(i) /\ IsRepeat(Buffer(i), Head(queue).id)
  /\ \E slow \in BOOLEAN : Store(i, Repeated(Buffer(i), slow))
  /\ UNCHANGED passed

(* The frame is not among those outstanding: all of them are skipped.      *)
QueueUnknown(i) ==
  LET s == Skipped(Buffer(i), Head(queue).id)
  IN /\ UpdateBuffer(i) /\ ~IsRepeat(Buffer(i), Head(queue).id) /\ Gap(s) = 0
     /\ buffer_record_list' = ReplaceAt(buffer_record_list, i, s)
     /\ IF Gap(Buffer(i)) > 0 THEN Leave(s) ELSE UNCHANGED passed
     /\ UNCHANGED frame_jank

QueueCounted(i) ==
  LET s == Skipped(Buffer(i), Head(queue).id)
  IN /\ UpdateBuffer(i) /\ ~IsRepeat(Buffer(i), Head(queue).id) /\ Gap(s) > 0
     /\ \E slow \in BOOLEAN :
          LET c == Counted(s, slow) IN Store(i, c) /\ Leave(c)

-----------------------------------------------------------------------------
Init ==
  /\ notify_buffer_work_fp \in BOOLEAN /\ queue = <<>> /\ buffer_record_list = <<>>
  /\ frame_jank = FALSE /\ alive = Threads
  /\ sent = [p \in Pids |-> 0] /\ seen = sent /\ passed = sent

Next ==
  \/ \E p \in Pids : BufferVsync(p)
  \/ \E t \in Threads, p \in Pids : BufferQueue(t, p)
  \/ \E t \in Threads : ThreadExits(t)
  \/ VsyncKnown \/ VsyncOfGone \/ VsyncRecycles \/ VsyncAdds
  \/ QueueDropped
  \/ \E i \in DOMAIN buffer_record_list :
       QueueRepeated(i) \/ QueueUnknown(i) \/ QueueCounted(i)

Spec == Init /\ [][Next]_vars

-----------------------------------------------------------------------------
Entry == [id : Nat, delay : BOOLEAN]

BufferRecords ==
  [pid : Pids, render_thread : RenderThreads \cup {None},
   vsync_count : Nat, vsync : [0..RecordSize - 1 -> Entry],
   jank_happend : BOOLEAN, frame_count : Nat,
   continus_nice : 0..NiceMoreLimit, continus_jank : 0..JankLimit + 1]

Messages == [type : {"vsync", "queue"}, from : Threads, pid : Pids, id : Nat]

(* Types.  What a record has for its render thread is one, or none.        *)
TypeOK ==
  /\ notify_buffer_work_fp \in BOOLEAN /\ frame_jank \in BOOLEAN
  /\ queue \in Seq(Messages) /\ buffer_record_list \in Seq(BufferRecords)
  /\ alive \subseteq Threads
  /\ {sent, seen, passed} \subseteq [Pids -> Nat]

(* The ring never overwrites a frame that is still outstanding: those of a *)
(* record are in the order announced, end with the newest the monitor has  *)
(* heard of, and none of them has been left behind before, so that no      *)
(* frame is counted twice.  (the modular indices of update_vsync() and     *)
(* update_buffer(), across the reset and recycling)                        *)
OutstandingFresh ==
  \A i \in DOMAIN buffer_record_list :
    LET r == Record(i)  Id(k) == r.vsync[Slot(k)].id
    IN /\ 0 <= Gap(r) /\ Gap(r) <= RecordSize
       /\ \A k \in Outstanding(r) : passed[r.pid] < Id(k)
       /\ \A k \in Outstanding(r), l \in Outstanding(r) : k < l => Id(k) < Id(l)
       /\ Id(r.vsync_count - 1) = seen[r.pid]

(* While frame_jank is shown some record has a jank that its process has   *)
(* not yet ended: no frame, recycling or time-out drops the last such      *)
(* record without clearing it.                                             *)
JankShown ==
  frame_jank => \E r \in ToSet(buffer_record_list) : r.jank_happend

=============================================================================
