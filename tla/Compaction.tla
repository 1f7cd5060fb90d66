----------------------------- MODULE Compaction -----------------------------
(***************************************************************************)
(* Compaction of a table (src/storage/src/compaction): a schedule loop     *)
(* picks files, marks them and queues a task; a receive loop spawns the    *)
(* tasks; every task merges its inputs into a new SST object, replaces     *)
(* them in the manifest and deletes their objects.  Writes add files all   *)
(* the while, calls fail, and the process may crash.                       *)
(*                                                                         *)
(* The manifest is here what module Manifest shows it to be: an update is  *)
(* persisted, in `stored', and then applied to the cache, `live'; a        *)
(* restart may bring back files that were removed.  The rows of a file are *)
(* the ids of the writes they came from.                                   *)
(***************************************************************************)
EXTENDS Picker, Sequences

CONSTANTS
    Tasks,        \* bound: tasks alive at one time
    MaxFiles,     \* bound: SST ids handed out
    MaxWrites,    \* bound: writes
    MaxFaults,    \* bound: failed calls and crashes
    MaxReturned,  \* bound: files that one restart brings back
    Faults,       \* the kinds of fault that may happen
    Ranges,       \* the time ranges of writes, <<start, end>>
    Sizes,        \* the sizes of SST objects
    Clock,        \* the times now() may return
    MaxPending,   \* SchedulerConfig.max_pending_compaction_tasks
    MemLimit,     \* SchedulerConfig.memory_limit
    U64Max        \* the largest value of inused_memory's type

(***************************************************************************)
(* "sst": writing an SST object fails, and may leave the object behind;    *)
(* "update": Manifest::update fails or refuses; "lost_ack": it fails after *)
(* its delta was persisted; "delete": deleting an object fails.            *)
(***************************************************************************)
FaultKinds == {"sst", "update", "lost_ack", "delete", "crash"}

FileId == 1..MaxFiles
Metas == [start: {r[1] : r \in Ranges}, end: {r[2] : r \in Ranges}, size: Sizes]
Stages == {"free", "queued", "spawned", "admit", "merge", "persist", "apply",
           "delete", "failed", "unmark"}
NoTask == [inputs |-> {}, expireds |-> {}]

ASSUME CompactionAssumption ==
    /\ MaxFiles \in Nat /\ MaxWrites \in Nat /\ MaxFaults \in Nat
    /\ MaxReturned \in Nat
    /\ Faults \subseteq FaultKinds
    /\ MaxPending \in Nat \ {0} /\ MemLimit \in Nat /\ U64Max \in Nat
    /\ Ranges \subseteq Int \X Int /\ Ranges # {} /\ Sizes \subseteq Nat /\ Sizes # {}
    /\ Clock \subseteq Nat

VARIABLES
    \* the object store
    objects,    \* SST objects that exist
    stored,     \* the files the persisted manifest lists
    \* what is known of a file from its id
    meta, rows,
    \* the process
    live,       \* the files the manifest's cache lists
    marked,     \* files whose in_compaction is set
    picking,    \* the schedule loop is inside pick_candidate
    seen,       \* the list of files it was given
    trigger,    \* the trigger channel, of size 1, holds a message
    queue,      \* the task channel
    task,       \* the files of each task
    stage,      \* where it is
    left,       \* its files that are still to be deleted or unmarked
    out,        \* its output file
    inused_memory,
    writing,    \* writes that have put their object, not updated the manifest
    applying,   \* ... and writes whose delta is persisted
    \* the environment and history
    now, nextFile, writes, faults,
    acked,      \* writes that returned Ok
    dropped,    \* files that an update has removed from the persisted manifest
    returned    \* files that a restart has listed again

store == <<objects, stored>>
file == <<meta, rows>>
picker == <<picking, seen>>
tasks == <<task, stage, left, out>>
writers == <<writing, applying, writes, acked>>
history == <<dropped, returned>>
vars == <<store, file, live, marked, picker, trigger, queue, tasks,
          inused_memory, writers, now, nextFile, faults, history>>

Fault(kind) ==
    /\ kind \in Faults
    /\ faults < MaxFaults
    /\ faults' = faults + 1

Files(t) == task[t].inputs \cup task[t].expireds
Goto(t, s) == stage' = [stage EXCEPT ![t] = s]

\* AtomicU64 arithmetic wraps.  (Mutant: it does not.)
NoWrap(n) == n

Wrap(n) == n % (U64Max + 1)

Init ==
    /\ objects = {} /\ stored = {}
    /\ meta = [f \in FileId |-> CHOOSE m \in Metas : TRUE]
    /\ rows = [f \in FileId |-> {}]
    /\ live = {} /\ marked = {}
    /\ picking = TRUE /\ seen = {} /\ trigger = FALSE /\ queue = <<>>
    /\ task = [t \in Tasks |-> NoTask] /\ stage = [t \in Tasks |-> "free"]
    /\ left = [t \in Tasks |-> {}] /\ out = [t \in Tasks |-> 0]
    /\ inused_memory = 0
    /\ writing = {} /\ applying = {} /\ writes = 0 /\ acked = {}
    /\ now \in {n \in Clock : \A m \in Clock : n <= m}
    /\ nextFile = 1 /\ faults = 0 /\ dropped = {} /\ returned = {}
-----------------------------------------------------------------------------
(***************************************************************************)
(* CloudObjectStorage::write: put an SST object under a new id, then add   *)
(* the file to the manifest.                                               *)
(***************************************************************************)
WriteSst ==
    /\ writes < MaxWrites /\ nextFile \in FileId
    /\ writes' = writes + 1 /\ nextFile' = nextFile + 1
    /\ \E r \in Ranges, n \in Sizes :
          meta' = [meta EXCEPT ![nextFile] = [start |-> r[1], end |-> r[2], size |-> n]]
    /\ rows' = [rows EXCEPT ![nextFile] = {nextFile}]
    /\ objects' = objects \cup {nextFile}
    /\ writing' = writing \cup {nextFile}
    /\ UNCHANGED <<stored, live, marked, picker, trigger, queue, tasks,
                   inused_memory, applying, acked, now, faults, history>>

AddFilePersisted(f) ==
    /\ f \in writing
    /\ stored' = stored \cup {f}
    /\ writing' = writing \ {f}
    /\ \/ applying' = applying \cup {f} /\ UNCHANGED faults
       \/ Fault("lost_ack") /\ UNCHANGED applying
    /\ UNCHANGED <<objects, file, live, marked, picker, trigger, queue, tasks,
                   inused_memory, writes, acked, now, nextFile, history>>

\* The object is there, and write_batch or the update after it fails.
AddFileFails(f) ==
    /\ f \in writing
    /\ \E kind \in {"sst", "update"} : Fault(kind)
    /\ writing' = writing \ {f}
    /\ UNCHANGED <<store, file, live, marked, picker, trigger, queue, tasks,
                   inused_memory, applying, writes, acked, now, nextFile, history>>

AddFileApplied(f) ==
    /\ f \in applying
    /\ live' = live \cup {f}
    /\ acked' = acked \cup {f}
    /\ applying' = applying \ {f}
    /\ UNCHANGED <<store, file, marked, picker, trigger, queue, tasks,
                   inused_memory, writing, writes, now, nextFile, faults, history>>
-----------------------------------------------------------------------------
(***************************************************************************)
(* Scheduler.  The schedule loop picks once when it starts, and whenever   *)
(* the timer or the trigger channel wakes it.                              *)
(***************************************************************************)
TriggerCompaction ==
    /\ ~trigger
    /\ trigger' = TRUE
    /\ UNCHANGED <<store, file, live, marked, picker, queue, tasks,
                   inused_memory, writers, now, nextFile, faults, history>>

\* Picker::pick_candidate begins with a copy of the manifest's list.
\* (Mutant: the list is not read again.)
WakeUpWithOldList ==
    /\ ~picking
    /\ picking' = TRUE /\ UNCHANGED seen
    /\ UNCHANGED <<store, file, live, marked, queue, tasks, inused_memory,
                   writers, now, nextFile, faults, history>>

WakeUp ==
    /\ ~picking
    /\ picking' = TRUE /\ seen' = live
    /\ UNCHANGED <<store, file, live, marked, queue, tasks, inused_memory,
                   writers, now, nextFile, faults, history>>

TimerFires == WakeUp /\ UNCHANGED trigger

TriggerReceived == WakeUp /\ trigger /\ trigger' = FALSE

\* The files of the task are marked, and try_send drops it when the channel is
\* full.
PickAndSend(t, picked) ==
    /\ picking /\ picking' = FALSE /\ seen' = {}
    /\ stage[t] = "free"
    /\ marked' = marked \cup picked.inputs \cup picked.expireds
    /\ IF Len(queue) < MaxPending
       THEN /\ queue' = Append(queue, t)
            /\ task' = [task EXCEPT ![t] = picked]
            /\ Goto(t, "queued")
       ELSE UNCHANGED <<queue, task, stage>>
    /\ UNCHANGED <<store, file, live, trigger, left, out, inused_memory, writers,
                   now, nextFile, faults, history>>

PickNothing ==
    /\ picking /\ picking' = FALSE /\ seen' = {}
    /\ PickCandidate(meta, seen, marked, now) = {}
    /\ UNCHANGED <<store, file, live, marked, trigger, queue, tasks,
                   inused_memory, writers, now, nextFile, faults, history>>

\* recv_task_loop, Executor::submit.
SubmitTask ==
    /\ queue # <<>>
    /\ queue' = Tail(queue)
    /\ Goto(Head(queue), "spawned")
    /\ UNCHANGED <<store, file, live, marked, picker, trigger, task, left, out,
                   inused_memory, writers, now, nextFile, faults, history>>
-----------------------------------------------------------------------------
(***************************************************************************)
(* Executor: one spawned task.                                             *)
(***************************************************************************)
TaskSize(t) == InputSize(meta, task[t].inputs)

\* The task is over; its slot is used again.
Finish(t) ==
    /\ Goto(t, "free")
    /\ task' = [task EXCEPT ![t] = NoTask]
    /\ left' = [left EXCEPT ![t] = {}]
    /\ out' = [out EXCEPT ![t] = 0]

\* The assertions at the top of pre_check.
Asserted(t) == task[t].inputs # {} /\ Files(t) \subseteq marked

\* pre_check up to the load of inused_memory and the test of the limit.  The
\* sum is checked arithmetic: an overflow panics, as a failed assertion does,
\* and the panic ends the spawned task without on_failure.
PreCheck(t) ==
    /\ stage[t] = "spawned"
    /\ Asserted(t) /\ inused_memory + TaskSize(t) <= U64Max
    /\ Goto(t, IF inused_memory + TaskSize(t) <= MemLimit THEN "admit" ELSE "failed")
    /\ UNCHANGED <<store, file, live, marked, picker, trigger, queue, task, left,
                   out, inused_memory, writers, now, nextFile, faults, history>>

PreCheckPanics(t) ==
    /\ stage[t] = "spawned"
    /\ ~(Asserted(t) /\ inused_memory + TaskSize(t) <= U64Max)
    /\ Finish(t)
    /\ UNCHANGED <<store, file, live, marked, picker, trigger, queue,
                   inused_memory, writers, now, nextFile, faults, history>>

\* pre_check's fetch_add, then trigger_more_task: a message unless there is one.
\* (Mutant: it waits for room in the channel.)
AdmitWhenTriggerIsFree(t) ==
    /\ stage[t] = "admit" /\ ~trigger
    /\ inused_memory' = Wrap(inused_memory + TaskSize(t))
    /\ trigger' = TRUE
    /\ Goto(t, "merge")
    /\ UNCHANGED <<store, file, live, marked, picker, queue, task, left, out,
                   writers, now, nextFile, faults, history>>

Admit(t) ==
    /\ stage[t] = "admit"
    /\ inused_memory' = Wrap(inused_memory + TaskSize(t))
    /\ trigger' = TRUE
    /\ Goto(t, "merge")
    /\ UNCHANGED <<store, file, live, marked, picker, queue, task, left, out,
                   writers, now, nextFile, faults, history>>

\* TimeRange::merge over the inputs.  (Mutant: the first input's range only.)
FirstRange(files) ==
    LET f == Min(files) IN [start |-> meta[f].start, end |-> meta[f].end]

MergedRange(files) ==
    [start |-> Min({meta[f].start : f \in files}), end |-> Max({meta[f].end : f \in files})]

\* The inputs are read and the output object is written.
MergeInputs(t) ==
    /\ stage[t] = "merge"
    /\ task[t].inputs \subseteq objects
    /\ nextFile \in FileId /\ nextFile' = nextFile + 1
    /\ LET range == MergedRange(task[t].inputs)
       IN  \E n \in Sizes : meta' =
              [meta EXCEPT ![nextFile] = [start |-> range.start, end |-> range.end, size |-> n]]
    /\ rows' = [rows EXCEPT ![nextFile] = UNION {rows[f] : f \in task[t].inputs}]
    /\ objects' = objects \cup {nextFile}
    /\ out' = [out EXCEPT ![t] = nextFile]
    /\ Goto(t, "persist")
    /\ UNCHANGED <<stored, live, marked, picker, trigger, queue, task, left,
                   inused_memory, writers, now, faults, history>>

\* An input is not there, or a read or the write fails; a failed write may have
\* left the output all the same.
MergeFails(t) ==
    /\ stage[t] = "merge"
    /\ \/ ~(task[t].inputs \subseteq objects) /\ UNCHANGED <<faults, objects, nextFile>>
       \/ /\ task[t].inputs \subseteq objects
          /\ Fault("sst")
          /\ \/ UNCHANGED <<objects, nextFile>>
             \/ /\ nextFile \in FileId /\ nextFile' = nextFile + 1
                /\ objects' = objects \cup {nextFile}
    /\ Goto(t, "failed")
    /\ UNCHANGED <<stored, file, live, marked, picker, trigger, queue, task, left,
                   out, inused_memory, writers, now, history>>

\* Manifest::update with the output and with all files of the task.
Replaced(files, t) == (files \ Files(t)) \cup {out[t]}

UpdatePersisted(t) ==
    /\ stage[t] = "persist"
    /\ stored' = Replaced(stored, t)
    /\ dropped' = dropped \cup (stored \cap Files(t))
    /\ \/ Goto(t, "apply") /\ UNCHANGED faults
       \/ Goto(t, "failed") /\ Fault("lost_ack")
    /\ UNCHANGED <<objects, file, live, marked, picker, trigger, queue, task,
                   left, out, inused_memory, writers, now, nextFile, returned>>

\* (Mutant: the error is ignored and the old files are deleted.)
IgnoreUpdateError(t) ==
    /\ stage[t] = "persist"
    /\ Fault("update")
    /\ Goto(t, "delete")
    /\ left' = [left EXCEPT ![t] = Files(t)]
    /\ UNCHANGED <<store, file, live, marked, picker, trigger, queue, task, out,
                   inused_memory, writers, now, nextFile, history>>

UpdateFails(t) ==
    /\ stage[t] = "persist"
    /\ Fault("update")
    /\ Goto(t, "failed")
    /\ UNCHANGED <<store, file, live, marked, picker, trigger, queue, task, left,
                   out, inused_memory, writers, now, nextFile, history>>

\* The objects do_compaction deletes.  (Mutant: the inputs only.)
DeleteInputs(t) == task[t].inputs

ToDelete(t) == Files(t)

UpdateApplied(t) ==
    /\ stage[t] = "apply"
    /\ live' = Replaced(live, t)
    /\ Goto(t, "delete")
    /\ left' = [left EXCEPT ![t] = ToDelete(t)]
    /\ UNCHANGED <<store, file, marked, picker, trigger, queue, task, out,
                   inused_memory, writers, now, nextFile, faults, history>>

\* delete_ssts: in parallel, and a failure is only logged.
DeleteSst(t, f) ==
    /\ stage[t] = "delete" /\ f \in left[t]
    /\ left' = [left EXCEPT ![t] = @ \ {f}]
    /\ \/ objects' = objects \ {f} /\ UNCHANGED faults
       \/ Fault("delete") /\ UNCHANGED objects
    /\ UNCHANGED <<stored, file, live, marked, picker, trigger, queue, task, stage,
                   out, inused_memory, writers, now, nextFile, history>>

OnSuccess(t) ==
    /\ stage[t] = "delete" /\ left[t] = {}
    /\ inused_memory' = Wrap(inused_memory - TaskSize(t))
    /\ Finish(t)
    /\ UNCHANGED <<store, file, live, marked, picker, trigger, queue, writers, now,
                   nextFile, faults, history>>

\* What on_failure unmarks.
ToUnmark(t) == Files(t)

\* (Mutant: a failed task keeps its memory.)
OnFailureKeepsMemory(t) ==
    /\ stage[t] = "failed"
    /\ left' = [left EXCEPT ![t] = ToUnmark(t)]
    /\ Goto(t, "unmark")
    /\ UNCHANGED <<store, file, live, marked, picker, trigger, queue, task, out,
                   inused_memory, writers, now, nextFile, faults, history>>

\* on_failure subtracts whether or not pre_check has added.
OnFailure(t) ==
    /\ stage[t] = "failed"
    /\ inused_memory' = Wrap(inused_memory - TaskSize(t))
    /\ left' = [left EXCEPT ![t] = ToUnmark(t)]
    /\ Goto(t, "unmark")
    /\ UNCHANGED <<store, file, live, marked, picker, trigger, queue, task, out,
                   writers, now, nextFile, faults, history>>

\* The marks are cleared one by one.  Any order stands for the picker's reading
\* them one by one while they are being cleared.  (Mutant: the first mark only.)
UnmarkFirst(t, f) ==
    /\ stage[t] = "unmark" /\ f \in left[t]
    /\ marked' = marked \ {f}
    /\ Finish(t)
    /\ UNCHANGED <<store, file, live, picker, trigger, queue, inused_memory,
                   writers, now, nextFile, faults, history>>

Unmark(t, f) ==
    /\ stage[t] = "unmark" /\ f \in left[t]
    /\ marked' = marked \ {f}
    /\ IF left[t] = {f} THEN Finish(t)
       ELSE left' = [left EXCEPT ![t] = @ \ {f}] /\ UNCHANGED <<task, stage, out>>
    /\ UNCHANGED <<store, file, live, picker, trigger, queue, inused_memory,
                   writers, now, nextFile, faults, history>>
-----------------------------------------------------------------------------
ClockTicks ==
    /\ now' \in {n \in Clock : n > now}
    /\ UNCHANGED <<store, file, live, marked, picker, trigger, queue, tasks,
                   inused_memory, writers, nextFile, faults, history>>

(***************************************************************************)
(* The process dies; a new one loads the manifest and starts the           *)
(* scheduler, with nothing marked.  The manifest's merge at startup folds  *)
(* in again the deltas that were merged and are still in the store (see    *)
(* Manifest), so that files which updates had removed may come back.  A    *)
(* file that would be listed twice is listed once here.                    *)
(***************************************************************************)
Crash ==
    /\ Fault("crash")
    /\ \E back \in SUBSET dropped :
          /\ Cardinality(back) <= MaxReturned
          /\ stored' = stored \cup back /\ returned' = returned \cup back
    /\ live' = stored' /\ marked' = {}
    /\ picking' = TRUE /\ seen' = stored' /\ trigger' = FALSE /\ queue' = <<>>
    /\ task' = [t \in Tasks |-> NoTask] /\ stage' = [t \in Tasks |-> "free"]
    /\ left' = [t \in Tasks |-> {}] /\ out' = [t \in Tasks |-> 0]
    /\ inused_memory' = 0
    /\ writing' = {} /\ applying' = {}
    /\ UNCHANGED <<objects, file, writes, acked, now, nextFile, dropped>>

WriteStep ==
    \/ WriteSst
    \/ \E f \in FileId : AddFilePersisted(f) \/ AddFileFails(f) \/ AddFileApplied(f)

Pick ==
    /\ picking
    /\ \/ \E picked \in PickCandidate(meta, seen, marked, now), t \in Tasks :
             PickAndSend(t, picked)
       \/ PickNothing

TaskStep(t) ==
    \/ PreCheck(t) \/ PreCheckPanics(t) \/ Admit(t)
    \/ MergeInputs(t) \/ MergeFails(t)
    \/ UpdatePersisted(t) \/ UpdateFails(t) \/ UpdateApplied(t)
    \/ \E f \in FileId : DeleteSst(t, f) \/ Unmark(t, f)
    \/ OnSuccess(t) \/ OnFailure(t)

Next ==
    \/ WriteStep
    \/ TriggerCompaction \/ TimerFires \/ TriggerReceived \/ Pick
    \/ SubmitTask \/ \E t \in Tasks : TaskStep(t)
    \/ ClockTicks \/ Crash

Spec == Init /\ [][Next]_vars

\* The runtimes keep running what can run, the timer fires, calls return.
Fairness ==
    /\ WF_vars(TimerFires) /\ WF_vars(Pick) /\ WF_vars(SubmitTask)
    /\ \A t \in Tasks : WF_vars(TaskStep(t))
    /\ WF_vars(\E f \in FileId : AddFilePersisted(f) \/ AddFileApplied(f))

FairSpec == Spec /\ Fairness
-----------------------------------------------------------------------------
(***************************************************************************)
(* Properties.                                                             *)
(***************************************************************************)
FileMetas == [start: Int, end: Int, size: Nat]

\* The variables have their types (SstFile, Task, Executor::Inner).
TypeOK ==
    /\ objects \subseteq FileId /\ stored \subseteq FileId
    /\ meta \in [FileId -> FileMetas] /\ rows \in [FileId -> SUBSET FileId]
    /\ live \subseteq FileId /\ marked \subseteq FileId
    /\ picking \in BOOLEAN /\ seen \subseteq FileId /\ trigger \in BOOLEAN
    /\ queue \in Seq(Tasks) /\ Len(queue) <= MaxPending
    /\ task \in [Tasks -> [inputs: SUBSET FileId, expireds: SUBSET FileId]]
    /\ stage \in [Tasks -> Stages] /\ left \in [Tasks -> SUBSET FileId]
    /\ out \in [Tasks -> FileId \cup {0}]
    /\ inused_memory \in 0..U64Max
    /\ writing \subseteq FileId /\ applying \subseteq FileId /\ acked \subseteq FileId
    /\ writes \in 0..MaxWrites /\ nextFile \in 1..(MaxFiles + 1)
    /\ faults \in 0..MaxFaults /\ now \in Nat
    /\ dropped \subseteq FileId /\ returned \subseteq dropped

\* The files a task has to itself: all of its files until it has failed, then
\* those on_failure has not unmarked yet.  A free slot has no files.
Held(t) == IF stage[t] = "unmark" THEN left[t] ELSE Files(t)

\* No file is in two compactions at once (pick_candidate: "otherwise a SST may
\* be picked by multiple threads"), although the picker works on a copy of the
\* list and failing tasks clear marks while it reads them.
NoSharedFile == \A t, u \in Tasks : t # u => Held(t) \cap Held(u) = {}

\* The assertions of pre_check: a task that is about to run has inputs, and its
\* files are still marked.
PreCheckAsserts == \A t \in Tasks : stage[t] = "spawned" => Asserted(t)

\* Every file the manifest lists, in the store and in memory, has its object,
\* whatever fails or crashes: objects are deleted only once the update that
\* replaces them is persisted and applied (do_compaction, delete_ssts).  The
\* exception is a file that was replaced before and that a restart brought back.
ListedFilesExist == (stored \cup live) \ returned \subseteq objects

\* The files a task reads are not deleted under it; the only inputs that can be
\* missing are files that a restart brought back.
InputsExist ==
    \A t \in Tasks : stage[t] \in {"spawned", "admit", "merge"}
        => task[t].inputs \ returned \subseteq objects

\* No acknowledged write is lost: its rows are in a file the persisted manifest
\* lists until the write itself, not just some file it was merged into, is
\* older than the time to live.
NothingLost ==
    \A w \in acked : IsExpired(meta[w], now) \/ \E f \in stored \cap objects : w \in rows[f]

\* The rows of a write are in one listed file only: in Append mode a scan would
\* otherwise return their bytes twice.  It takes updates that are persisted only
\* if they return Ok, and lasts until a restart brings a replaced file back.
RowsAreDisjoint ==
    \A f, g \in stored : f # g => rows[f] \cap rows[g] = {}
RowsListedOnce == returned = {} => RowsAreDisjoint

\* A file's time range covers the ranges of the writes merged into it, so
\* find_ssts, which filters by range, finds every row.
RangeCoversRows ==
    \A f \in stored : \A w \in rows[f] :
        meta[f].start <= meta[w].start /\ meta[w].end <= meta[f].end

\* The listed files that stay marked although no task has them any more: the
\* picker passes over them until the process is restarted.
Stuck == (live \cap marked) \ UNION {Held(t) : t \in Tasks}

\* A task that ends leaves no listed file marked, whether it succeeds, fails or
\* is refused (on_failure: "unmark sst so they can be reschduled").  Marks are
\* left behind in two cases only: the picked task is dropped at the full channel,
\* or it panics in pre_check.
MarksAreReleased ==
    [][\/ Stuck' \subseteq Stuck
       \/ picking /\ ~picking' /\ ~(Len(queue) < MaxPending)
       \/ \E t \in Tasks : stage[t] = "spawned" /\ stage'[t] = "free"]_vars

\* Every object is accounted for: as long as no call has failed and no process
\* has died, an object is listed, or is the output of a write or a task under
\* way, or is about to be deleted by one.  Nothing collects what is left over.
NoOrphans ==
    faults = 0 =>
        objects \subseteq stored \cup live \cup writing
            \cup UNION {IF stage[t] = "delete" THEN left[t] ELSE {out[t]} : t \in Tasks}

\* Memory in use by tasks that pre_check has let through.
Admitted == {t \in Tasks : stage[t] \in {"merge", "persist", "apply", "delete"}}
AdmittedSize == MapThenSumSet(TaskSize, Admitted)

Reserved == {t \in Tasks : stage[t] \in {"merge", "persist", "apply", "delete", "failed"}}
ReservedSize == MapThenSumSet(TaskSize, Reserved)

\* The counter follows the tasks that pre_check has let through, step by step:
\* each step adds what it reserves and gives back what it releases, once, whether
\* the task succeeds or fails, and a restart begins at zero (pre_check,
\* on_success, on_failure).  The exception is a task that is refused: on_failure
\* gives back what was never added.
MemoryFollowsTasks ==
    [][\/ inused_memory' = Wrap(inused_memory + ReservedSize' - ReservedSize)
       \/ inused_memory' = 0 /\ \A t \in Tasks : stage'[t] = "free"
       \/ \E t \in Tasks : stage[t] = "spawned" /\ stage'[t] = "failed"]_vars

\* A refusal by pre_check ("Compaction memory usage too high") is true: the
\* tasks that run do not leave enough memory.  A sum that overflows is a panic
\* and no refusal.
RefusalIsTrue ==
    \A t \in Tasks : stage[t] = "spawned"
            /\ inused_memory + TaskSize(t) \in (MemLimit + 1)..U64Max
        => AdmittedSize + TaskSize(t) > MemLimit

\* Every task that is sent ends, and its deletions with it: in on_success, in
\* on_failure once its files are unmarked, or in a panic of pre_check, which
\* leaves them marked (MarksAreReleased).
TasksFinish == \A t \in Tasks : stage[t] # "free" ~> stage[t] = "free"

\* A list with files to compact is compacted, to the point where the picker would
\* find nothing in it even if nothing were marked.  The exceptions are marks that
\* were left behind and a task that is refused for its memory, after which the
\* counter may be wrong for good (RefusalIsTrue).
Crowded == PickCandidate(meta, live, {}, now) # {}
Refusing == \E t \in Tasks : stage[t] = "spawned" /\ inused_memory + TaskSize(t) > MemLimit
ListIsCompacted == Crowded ~> ~Crowded \/ Stuck # {} \/ Refusing
=============================================================================
