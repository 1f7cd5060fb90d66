-------------------------- MODULE CompactionProofs --------------------------
(***************************************************************************)
(* Theorems about compaction, for any number of tasks, writes and faults   *)
(* and any configuration, in three parts.                                  *)
(*                                                                         *)
(* Objects: no file is in two tasks, and no object is deleted that is      *)
(* listed or that a task still has to read.                                *)
(*                                                                         *)
(* Rows, which compaction moves from file to file: no acknowledged write   *)
(* is lost before its time to live is over, and the time range of a file   *)
(* covers its rows.                                                        *)
(*                                                                         *)
(* The list of files and the marks.  The picker works on a copy of the     *)
(* list that may be old.  What makes the copy safe is the mark: a file     *)
(* that leaves the list stays marked, so a file of the copy without a mark *)
(* is still listed, in the cache always, and in the store as long as no    *)
(* answer of the manifest is lost.  From that follow that the rows of a    *)
(* write are listed once, that no object is forgotten, and that a mark is  *)
(* not left behind by a task.                                              *)
(***************************************************************************)
EXTENDS Compaction, WellFoundedInduction, TLAPS

\* Most steps are first-order: Zenon is tried first, then SMT, then Zenon for longer.
USE ZenonT(3), SMTT(30), ZenonT(30) DEF history
-----------------------------------------------------------------------------
(* Objects. *)

\* The ids handed out so far.
Old == 1..(nextFile - 1)

\* What the manifest does not know of yet, or is just being told: files of
\* writes, and the output of a task.
Pending == writing \cup applying
Fresh(t) == IF stage[t] \in {"persist", "apply"} THEN {out[t]} ELSE {}

Shape ==
    /\ nextFile \in 1..(MaxFiles + 1)
    /\ objects \subseteq Old /\ stored \subseteq Old
    /\ dropped \subseteq Old /\ returned \subseteq dropped
    /\ live \subseteq Old /\ seen \subseteq Old /\ Pending \subseteq Old
    /\ \A t \in Tasks : Files(t) \subseteq Old
    /\ task \in [Tasks -> [inputs: SUBSET FileId, expireds: SUBSET FileId]]
    /\ stage \in [Tasks -> Stages]
    /\ left \in [Tasks -> SUBSET FileId]
    /\ out \in [Tasks -> FileId \cup {0}]
    /\ queue \in Seq(Tasks)

\* A task is in the channel once, and has not begun.
QueueOK ==
    /\ \A i \in 1..Len(queue) : stage[queue[i]] = "queued"
    /\ \A i, j \in 1..Len(queue) : queue[i] = queue[j] => i = j

\* What a task has to itself is marked, which keeps the picker from it.
HeldOK ==
    /\ \A t \in Tasks : Held(t) \subseteq marked
    /\ \A t \in Tasks : stage[t] = "delete" => left[t] \subseteq Files(t)
    /\ NoSharedFile

\* A file that the manifest will list next exists, and is in no task: the picker
\* cannot have seen it.
FreshOK ==
    /\ writing \cap applying = {}
    /\ Pending \subseteq objects /\ Pending \cap live = {} /\ Pending \cap seen = {}
    /\ \A t \in Tasks :
          /\ Fresh(t) \subseteq objects /\ Fresh(t) \cap Pending = {}
          /\ Fresh(t) \cap live = {} /\ Fresh(t) \cap seen = {}
          /\ Pending \cap Files(t) = {}
    /\ \A t, u \in Tasks : Fresh(t) \cap Files(u) = {}
    /\ \A t, u \in Tasks : t # u => Fresh(t) \cap Fresh(u) = {}

\* The manifest has dropped the files that a task deletes.
DroppedOK ==
    \A t \in Tasks :
        /\ stage[t] \in {"apply", "delete"} => Files(t) \cap stored = {}
        /\ stage[t] = "delete" => Files(t) \cap live = {}

\* The picker's copy of the list may be old, but what it has and is not marked
\* exists, unless a restart brought it back.
Present == objects \cup returned
ExistOK ==
    /\ stored \subseteq Present /\ live \subseteq Present
    /\ seen \ marked \subseteq Present
    /\ \A t \in Tasks : stage[t] # "delete" => Held(t) \subseteq Present

\* The inductive invariant.
CompactionInv == Shape /\ QueueOK /\ HeldOK /\ FreshOK /\ DroppedOK /\ ExistOK
-----------------------------------------------------------------------------
\* Every task the picker may return is made of files of its list that are not
\* marked (find_uncompacted_and_expired_files).
LEMMA PickedFiles ==
    ASSUME NEW m, NEW list, NEW mk, NEW n, NEW picked \in PickCandidate(m, list, mk, n)
    PROVE  picked \in [inputs: SUBSET (list \ mk), expireds: SUBSET (list \ mk)]
<1> DEFINE free == Uncompacted(list, mk)
           expired == {f \in free : IsExpired(m[f], n)}
<1>1. PICK S \in PickCompactionFiles(m, free \ expired) :
          picked = [inputs |-> S, expireds |-> expired]
  BY DEF PickCandidate
<1>2. S \subseteq free \ expired
  BY <1>1 DEF PickCompactionFiles, Taken, SmallestFirst, FilesOfSegment
<1> QED  BY <1>1, <1>2 DEF Uncompacted

\* Ids are handed out one after the other.
LEMMA Ids ==
    ASSUME Shape
    PROVE  /\ Old \subseteq FileId /\ nextFile \notin Old
           /\ nextFile' \in {nextFile, nextFile + 1} => Old \subseteq Old'
           /\ nextFile' = nextFile + 1 => Old' = Old \cup {nextFile}
<1>1. nextFile \in 1..(MaxFiles + 1) /\ MaxFiles \in Nat
  BY CompactionAssumption DEF Shape
<1> QED  BY <1>1 DEF Old, FileId

\* A new process has no task.
LEMMA InitInv == Init => CompactionInv
<1> SUFFICES ASSUME Init  PROVE CompactionInv
  OBVIOUS
<1>1. \A t \in Tasks : Held(t) = {} /\ Files(t) = {} /\ Fresh(t) = {} /\ stage[t] = "free"
  BY DEF Init, Held, Files, Fresh, NoTask
<1>2. Shape
  BY <1>1, CompactionAssumption DEF Init, Shape, Old, Pending, NoTask, Stages
<1>3. QueueOK /\ HeldOK /\ FreshOK /\ DroppedOK /\ ExistOK
  BY <1>1 DEF Init, QueueOK, HeldOK, FreshOK, DroppedOK, ExistOK, Present, NoSharedFile, Pending
<1> QED  BY <1>2, <1>3 DEF CompactionInv

\* What no part of the invariant speaks of may change.
LEMMA Irrelevant ==
    ASSUME CompactionInv,
           UNCHANGED <<objects, stored, live, marked, seen, queue, tasks, writing,
                       applying, nextFile, history>>
    PROVE  CompactionInv'
BY DEF CompactionInv, Shape, QueueOK, HeldOK, FreshOK, DroppedOK, ExistOK, Present, NoSharedFile,
       Pending, Old, Held, Files, Fresh, tasks
-----------------------------------------------------------------------------
\* Writes: a file is pending from its put until the manifest lists it.
LEMMA WriteInv ==
    ASSUME CompactionInv, WriteStep
    PROVE  CompactionInv'
<1> USE CompactionAssumption DEF CompactionInv, store, file, picker, tasks, writers
<1>1. CASE WriteSst
  <2>1. /\ nextFile' = nextFile + 1 /\ nextFile \in FileId
        /\ objects' = objects \cup {nextFile} /\ writing' = writing \cup {nextFile}
        /\ UNCHANGED <<stored, live, marked, seen, queue, task, stage, left, out, applying,
                       history>>
    BY <1>1 DEF WriteSst
  <2>2. \A t \in Tasks : Held(t)' = Held(t) /\ Files(t)' = Files(t) /\ Fresh(t)' = Fresh(t)
    BY <2>1 DEF Held, Files, Fresh
  <2>3. \A t \in Tasks : nextFile \notin Files(t)
    BY Ids DEF Shape
  <2>4. nextFile \notin objects /\ nextFile \notin live \cup seen \cup Pending
    BY Ids DEF Shape
  <2>5. Old' = Old \cup {nextFile}
    BY <2>1, Ids
  <2>6. Shape'
    <3>1. objects' \subseteq Old' /\ stored' \subseteq Old' /\ Pending' \subseteq Old'
      BY <2>1, <2>5 DEF Shape, Pending
    <3>2. nextFile' \in 1..(MaxFiles + 1)
      BY <2>1 DEF FileId
    <3> QED  BY <2>1, <2>2, <2>5, <3>1, <3>2 DEF Shape
  <2>7. FreshOK'
    BY <2>1, <2>2, <2>3, <2>4 DEF FreshOK, Pending
  <2> QED  BY <2>1, <2>2, <2>6, <2>7 DEF QueueOK, HeldOK, DroppedOK, ExistOK, Present, NoSharedFile
<1>2. ASSUME NEW f \in FileId, AddFilePersisted(f)  PROVE CompactionInv'
  <2>1. /\ f \in writing /\ stored' = stored \cup {f} /\ writing' = writing \ {f}
        /\ applying' \in {applying, applying \cup {f}}
        /\ UNCHANGED <<objects, live, marked, seen, queue, task, stage, left, out, nextFile,
                       history>>
    BY <1>2 DEF AddFilePersisted
  <2>2. \A t \in Tasks : Held(t)' = Held(t) /\ Files(t)' = Files(t) /\ Fresh(t)' = Fresh(t)
    BY <2>1 DEF Held, Files, Fresh
  <2>3. Pending' \subseteq Pending /\ f \in Pending
    BY <2>1 DEF Pending
  <2>4. Shape'
    BY <2>1, <2>2, <2>3 DEF Shape, Old
  <2>5. FreshOK'
    BY <2>1, <2>2, <2>3 DEF FreshOK
  <2>6. DroppedOK' /\ ExistOK'
    BY <2>1, <2>2, <2>3 DEF FreshOK, DroppedOK, ExistOK, Present
  <2> QED  BY <2>1, <2>2, <2>4, <2>5, <2>6 DEF QueueOK, HeldOK, NoSharedFile
<1>3. ASSUME NEW f \in FileId, AddFileFails(f)  PROVE CompactionInv'
  <2>1. /\ writing' = writing \ {f}
        /\ UNCHANGED <<objects, stored, live, marked, seen, queue, task, stage, left, out,
                       applying, nextFile, history>>
    BY <1>3 DEF AddFileFails
  <2>2. \A t \in Tasks : Held(t)' = Held(t) /\ Files(t)' = Files(t) /\ Fresh(t)' = Fresh(t)
    BY <2>1 DEF Held, Files, Fresh
  <2>3. Shape' /\ FreshOK'
    BY <2>1, <2>2 DEF Shape, Old, FreshOK, Pending
  <2> QED  BY <2>1, <2>2, <2>3 DEF QueueOK, HeldOK, DroppedOK, ExistOK, Present, NoSharedFile
<1>4. ASSUME NEW f \in FileId, AddFileApplied(f)  PROVE CompactionInv'
  <2>1. /\ f \in applying /\ live' = live \cup {f} /\ applying' = applying \ {f}
        /\ UNCHANGED <<objects, stored, marked, seen, queue, task, stage, left, out,
                       writing, nextFile, history>>
    BY <1>4 DEF AddFileApplied
  <2>2. \A t \in Tasks : Held(t)' = Held(t) /\ Files(t)' = Files(t) /\ Fresh(t)' = Fresh(t)
    BY <2>1 DEF Held, Files, Fresh
  <2>3. f \in Pending /\ Pending' = Pending \ {f}
    BY <2>1 DEF Pending, FreshOK
  <2>4. Shape'
    BY <2>1, <2>2, <2>3 DEF Shape, Old
  <2>5. FreshOK'
    BY <2>1, <2>2, <2>3 DEF FreshOK
  <2>6. DroppedOK' /\ ExistOK'
    BY <2>1, <2>2, <2>3 DEF FreshOK, DroppedOK, ExistOK, Present
  <2> QED  BY <2>1, <2>2, <2>4, <2>5, <2>6 DEF QueueOK, HeldOK, NoSharedFile
<1> QED  BY <1>1, <1>2, <1>3, <1>4 DEF WriteStep
-----------------------------------------------------------------------------
\* A task that is under way is not in the channel.
LEMMA QueueKept ==
    ASSUME CompactionInv, NEW t \in Tasks, stage[t] # "queued", UNCHANGED queue,
           \A u \in Tasks : u # t => stage'[u] = stage[u]
    PROVE  QueueOK'
<1>1. \A i \in 1..Len(queue) : queue[i] \in Tasks /\ queue[i] # t
  BY DEF CompactionInv, Shape, QueueOK
<1> QED  BY <1>1 DEF CompactionInv, QueueOK

\* A task goes on, or fails, with all of its files.  An object may be left
\* behind, and an update that is reported as failed may have been persisted.
LEMMA Advance ==
    ASSUME CompactionInv, NEW t \in Tasks, NEW s \in {"spawned", "admit", "merge", "failed"},
           stage[t] \in {"queued", "spawned", "admit", "merge", "persist"}, Goto(t, s),
           nextFile' \in {nextFile, nextFile + 1}, nextFile' \in 1..(MaxFiles + 1),
           objects \subseteq objects', objects' \subseteq Old',
           stored' \subseteq stored \cup Fresh(t),
           dropped \subseteq dropped', dropped' \subseteq Old,
           queue' \in Seq(Tasks), QueueOK',
           UNCHANGED <<live, marked, seen, task, left, out, writing, applying, returned>>
    PROVE  CompactionInv'
<1> USE DEF CompactionInv
<1>1. \A u \in Tasks : u # t => stage'[u] = stage[u]
  BY DEF Goto, Shape
<1>2. stage'[t] = s
  BY DEF Goto, Shape
<1>3. \A u \in Tasks : Held(u)' = Held(u) /\ Files(u)' = Files(u) /\ Fresh(u)' \subseteq Fresh(u)
  BY <1>1, <1>2 DEF Held, Files, Fresh
<1>4. Old \subseteq Old' /\ UNCHANGED Pending
  BY Ids DEF Pending
<1>5. Fresh(t) \subseteq objects
  BY DEF FreshOK
<1>6. Shape'
  BY <1>3, <1>4, <1>5 DEF Shape, Goto, Stages
<1>7. HeldOK'
  BY <1>1, <1>2, <1>3 DEF HeldOK, NoSharedFile
<1>8. FreshOK'
  BY <1>3, <1>4 DEF FreshOK
<1>9. DroppedOK'
  BY <1>1, <1>2, <1>3 DEF DroppedOK, FreshOK
<1>10. ExistOK'
  BY <1>1, <1>2, <1>3, <1>5 DEF ExistOK, Present
<1> QED  BY <1>6, <1>7, <1>8, <1>9, <1>10

\* A task is over.  What is unmarked by that exists and is in no other task.
LEMMA Over ==
    ASSUME CompactionInv, NEW t \in Tasks, stage[t] # "queued", Finish(t),
           marked' \subseteq marked, marked \ marked' \subseteq Held(t) \cap Present,
           UNCHANGED <<objects, stored, live, seen, queue, writing, applying, nextFile, history>>
    PROVE  CompactionInv'
<1> USE DEF CompactionInv
<1>1. \A u \in Tasks : u # t =>
         stage'[u] = stage[u] /\ task'[u] = task[u] /\ left'[u] = left[u] /\ out'[u] = out[u]
  BY DEF Finish, Goto, Shape
<1>2. stage'[t] = "free" /\ task'[t] = NoTask
  BY DEF Finish, Goto, Shape
<1>3. \A u \in Tasks : u # t =>
         Held(u)' = Held(u) /\ Files(u)' = Files(u) /\ Fresh(u)' = Fresh(u)
  BY <1>1 DEF Held, Files, Fresh
<1>4. Held(t)' = {} /\ Files(t)' = {} /\ Fresh(t)' = {}
  BY <1>2 DEF Held, Files, Fresh, NoTask
<1>5. Shape'
  BY <1>3, <1>4 DEF Shape, Finish, Goto, Stages, NoTask, Old, Pending
<1>6. QueueOK'
  BY <1>1, QueueKept
<1>7. HeldOK'
  <2>1. \A u \in Tasks : u # t => Held(u) \subseteq marked'
    BY DEF HeldOK, NoSharedFile
  <2>2. \A u \in Tasks : Held(u)' \subseteq marked'
    BY <1>3, <1>4, <2>1
  <2>3. NoSharedFile'
    BY <1>3, <1>4 DEF HeldOK, NoSharedFile
  <2>4. \A u \in Tasks : stage'[u] = "delete" => left'[u] \subseteq Files(u)'
    BY <1>1, <1>2, <1>3 DEF HeldOK
  <2> QED  BY <2>2, <2>3, <2>4 DEF HeldOK
<1>8. FreshOK'
  BY <1>3, <1>4 DEF FreshOK, Pending
<1>9. DroppedOK'
  BY <1>1, <1>3, <1>4 DEF DroppedOK
<1>10. ExistOK'
  BY <1>1, <1>3, <1>4 DEF ExistOK, Present
<1> QED  BY <1>5, <1>6, <1>7, <1>8, <1>9, <1>10
-----------------------------------------------------------------------------
\* The loops of the scheduler.  The picker takes unmarked files of its copy of
\* the list and marks them before it looks at the next list.
LEMMA SchedulerInv ==
    ASSUME CompactionInv, TriggerCompaction \/ WakeUp \/ Pick \/ SubmitTask
    PROVE  CompactionInv'
<1> USE DEF CompactionInv, store, file, picker, tasks, writers
<1>1. CASE TriggerCompaction
  BY <1>1, Irrelevant DEF TriggerCompaction
<1>2. CASE WakeUp
  <2>1. /\ seen' = live
        /\ UNCHANGED <<objects, stored, live, marked, queue, task, stage, left, out, writing,
                       applying, nextFile, history>>
    BY <1>2 DEF WakeUp
  <2>2. \A t \in Tasks : Held(t)' = Held(t) /\ Files(t)' = Files(t) /\ Fresh(t)' = Fresh(t)
    BY <2>1 DEF Held, Files, Fresh
  <2>3. Shape' /\ FreshOK' /\ ExistOK'
    <3>1. Shape'
      BY <2>1, <2>2 DEF Shape, Old, Pending
    <3>2. FreshOK'
      BY <2>1, <2>2 DEF FreshOK, Pending
    <3>3. ExistOK'
      BY <2>1, <2>2 DEF ExistOK, Present
    <3> QED  BY <3>1, <3>2, <3>3
  <2>4. QueueOK'
    BY <2>1 DEF QueueOK
  <2>5. HeldOK'
    BY <2>1, <2>2 DEF HeldOK, NoSharedFile
  <2>6. DroppedOK'
    BY <2>1, <2>2 DEF DroppedOK
  <2> QED  BY <2>3, <2>4, <2>5, <2>6
<1>3. ASSUME NEW t \in Tasks, NEW picked \in PickCandidate(meta, seen, marked, now),
             PickAndSend(t, picked)
      PROVE  CompactionInv'
  <2> DEFINE taken == picked.inputs \cup picked.expireds
  <2>1. picked \in [inputs: SUBSET (seen \ marked), expireds: SUBSET (seen \ marked)]
    BY PickedFiles
  <2>2. taken \subseteq seen \ marked
    BY <2>1
  <2>3. /\ seen' = {} /\ stage[t] = "free" /\ marked' = marked \cup taken
        /\ UNCHANGED <<objects, stored, live, left, out, writing, applying, nextFile, history>>
    BY <1>3 DEF PickAndSend
  <2>4. CASE Len(queue) < MaxPending
    <3>1. /\ queue' = Append(queue, t) /\ task' = [task EXCEPT ![t] = picked]
          /\ stage' = [stage EXCEPT ![t] = "queued"]
      BY <1>3, <2>4 DEF PickAndSend, Goto
    <3>2. \A u \in Tasks : u # t => stage'[u] = stage[u] /\ task'[u] = task[u]
      BY <3>1 DEF Shape
    <3>3. stage'[t] = "queued" /\ task'[t] = picked
      BY <3>1 DEF Shape
    <3>4. \A u \in Tasks : u # t =>
             Held(u)' = Held(u) /\ Files(u)' = Files(u) /\ Fresh(u)' = Fresh(u)
      BY <2>3, <3>2 DEF Held, Files, Fresh
    <3>5. Held(t)' = taken /\ Files(t)' = taken /\ Fresh(t)' = {}
      BY <3>3 DEF Held, Files, Fresh
    <3>6. Shape'
      <4>1. picked \in [inputs: SUBSET FileId, expireds: SUBSET FileId]
        BY <2>1, Ids DEF Shape
      <4>2. queue' \in Seq(Tasks)
        BY <3>1 DEF Shape
      <4> QED  BY <2>2, <2>3, <3>1, <3>4, <3>5, <4>1, <4>2 DEF Shape, Old, Pending, Stages
    <3>7. QueueOK'
      <4>1. \A i \in 1..Len(queue) : queue[i] \in Tasks /\ queue[i] # t
        BY <2>3 DEF Shape, QueueOK
      <4>2. /\ Len(queue') = Len(queue) + 1 /\ queue'[Len(queue) + 1] = t
            /\ \A i \in 1..Len(queue) : queue'[i] = queue[i]
            /\ Len(queue) \in Nat
        <5>1. queue \in Seq(Tasks)
          BY DEF Shape
        <5> QED  BY <3>1, <5>1
      <4> QED  BY <3>2, <3>3, <4>1, <4>2 DEF QueueOK
    <3>8. HeldOK'
      <4>1. \A u \in Tasks : Held(u)' \subseteq marked'
        BY <2>3, <3>4, <3>5 DEF HeldOK
      <4>2. \A u \in Tasks : u # t => Held(u)' \cap taken = {}
        BY <2>2, <3>4 DEF HeldOK
      <4>3. NoSharedFile'
        BY <3>4, <3>5, <4>2 DEF HeldOK, NoSharedFile
      <4>4. \A u \in Tasks : stage'[u] = "delete" => left'[u] \subseteq Files(u)'
        BY <2>3, <3>2, <3>3, <3>4 DEF HeldOK
      <4> QED  BY <4>1, <4>3, <4>4 DEF HeldOK
    <3>9. FreshOK'
      <4>1. \A u \in Tasks : Fresh(u)' \subseteq Fresh(u)
        BY <3>4, <3>5
      <4>2. \A u \in Tasks : Pending \cap Files(u)' = {}
        BY <2>2, <3>4, <3>5 DEF FreshOK
      <4>3. \A u, v \in Tasks : Fresh(u)' \cap Files(v)' = {}
        <5> SUFFICES ASSUME NEW u \in Tasks, NEW v \in Tasks
                     PROVE  Fresh(u) \cap Files(v)' = {}
          BY <4>1
        <5>1. CASE v = t
          BY <2>2, <3>5, <5>1 DEF FreshOK
        <5>2. CASE v # t
          BY <3>4, <5>2 DEF FreshOK
        <5> QED  BY <5>1, <5>2
      <4>4. \A u, v \in Tasks : u # v => Fresh(u)' \cap Fresh(v)' = {}
        BY <4>1 DEF FreshOK
      <4> QED  BY <2>3, <4>1, <4>2, <4>3, <4>4 DEF FreshOK, Pending
    <3>10. DroppedOK' /\ ExistOK'
      BY <2>2, <2>3, <3>2, <3>3, <3>4, <3>5 DEF DroppedOK, ExistOK, Present
    <3> QED  BY <3>6, <3>7, <3>8, <3>9, <3>10
  <2>5. CASE ~(Len(queue) < MaxPending)
    <3>1. UNCHANGED <<queue, task, stage>>
      BY <1>3, <2>5 DEF PickAndSend
    <3>2. \A u \in Tasks : Held(u)' = Held(u) /\ Files(u)' = Files(u) /\ Fresh(u)' = Fresh(u)
      BY <2>3, <3>1 DEF Held, Files, Fresh
    <3>3. Shape' /\ FreshOK'
      BY <2>3, <3>1, <3>2 DEF Shape, Old, Pending, FreshOK
    <3> QED
      BY <2>3, <3>1, <3>2, <3>3 DEF QueueOK, HeldOK, DroppedOK, ExistOK, Present, NoSharedFile
  <2> QED  BY <2>4, <2>5
<1>4. CASE PickNothing
  <2>1. /\ seen' = {}
        /\ UNCHANGED <<objects, stored, live, marked, queue, task, stage, left, out, writing,
                       applying, nextFile, history>>
    BY <1>4 DEF PickNothing
  <2>2. \A t \in Tasks : Held(t)' = Held(t) /\ Files(t)' = Files(t) /\ Fresh(t)' = Fresh(t)
    BY <2>1 DEF Held, Files, Fresh
  <2>3. Shape' /\ FreshOK' /\ ExistOK'
    <3>1. Shape'
      BY <2>1, <2>2 DEF Shape, Old, Pending
    <3>2. FreshOK'
      BY <2>1, <2>2 DEF FreshOK, Pending
    <3>3. ExistOK'
      BY <2>1, <2>2 DEF ExistOK, Present
    <3> QED  BY <3>1, <3>2, <3>3
  <2>4. QueueOK'
    BY <2>1 DEF QueueOK
  <2>5. HeldOK'
    BY <2>1, <2>2 DEF HeldOK, NoSharedFile
  <2>6. DroppedOK'
    BY <2>1, <2>2 DEF DroppedOK
  <2> QED  BY <2>3, <2>4, <2>5, <2>6
<1>5. CASE SubmitTask
  <2> DEFINE t == Head(queue)
  <2>1. /\ queue # <<>> /\ queue' = Tail(queue) /\ Goto(t, "spawned")
        /\ UNCHANGED <<objects, stored, live, marked, seen, task, left, out, writing,
                       applying, nextFile, history>>
    BY <1>5 DEF SubmitTask
  <2>2. /\ Len(queue) \in Nat \ {0} /\ t = queue[1] /\ queue' \in Seq(Tasks)
        /\ Len(queue') = Len(queue) - 1
        /\ \A i \in 1..Len(queue') : queue'[i] = queue[i + 1]
        /\ \A i \in 1..Len(queue) : queue[i] \in Tasks
    BY <2>1 DEF Shape
  <2>3. t \in Tasks /\ stage[t] = "queued"
    BY <2>2 DEF QueueOK
  <2>4. QueueOK'
    <3>1. \A i \in 1..Len(queue') : i + 1 \in 1..Len(queue) /\ i + 1 # 1
      BY <2>2
    <3>2. \A i \in 1..Len(queue') : queue'[i] \in Tasks /\ queue'[i] # t
      BY <2>2, <3>1 DEF QueueOK
    <3>3. \A u \in Tasks : u # t => stage'[u] = stage[u]
      BY <2>1, <2>3 DEF Goto, Shape
    <3>4. ASSUME NEW i \in 1..Len(queue')  PROVE stage'[queue'[i]] = "queued"
      <4>1. queue'[i] = queue[i + 1] /\ stage[queue[i + 1]] = "queued"
        BY <2>2, <3>1 DEF QueueOK
      <4> QED  BY <3>2, <3>3, <4>1
    <3>5. ASSUME NEW i \in 1..Len(queue'), NEW j \in 1..Len(queue'), queue'[i] = queue'[j]
          PROVE  i = j
      <4>1. queue[i + 1] = queue[j + 1]
        BY <2>2, <3>5
      <4>2. i + 1 = j + 1
        BY <3>1, <4>1 DEF QueueOK
      <4> QED  BY <4>2
    <3> QED  BY <3>4, <3>5 DEF QueueOK
  <2> HIDE DEF t
  <2> QED  BY <2>1, <2>2, <2>3, <2>4, Advance DEF Shape, Old
<1> QED  BY <1>1, <1>2, <1>3, <1>4, <1>5 DEF Pick
-----------------------------------------------------------------------------
\* The steps of a task.
LEMMA TaskInv ==
    ASSUME CompactionInv, NEW t \in Tasks, TaskStep(t)
    PROVE  CompactionInv'
<1> USE CompactionAssumption DEF CompactionInv, store, file, picker, tasks, writers
<1>1. ASSUME NEW s, Goto(t, s)
      PROVE  (\A u \in Tasks : u # t => stage'[u] = stage[u]) /\ stage'[t] = s
  BY <1>1 DEF Goto, Shape
<1>2. CASE PreCheck(t)
  <2>1. PICK s \in {"admit", "failed"} : Goto(t, s)
    BY <1>2 DEF PreCheck
  <2>2. QueueOK'
    BY <1>1, <1>2, <2>1, QueueKept DEF PreCheck
  <2> QED  BY <1>2, <2>1, <2>2, Advance DEF PreCheck, Shape, Old
<1>3. CASE PreCheckPanics(t)
  BY <1>3, Over DEF PreCheckPanics
<1>4. CASE Admit(t)
  <2>1. QueueOK'
    BY <1>1, <1>4, QueueKept DEF Admit
  <2> QED  BY <1>4, <2>1, Advance DEF Admit, Shape, Old
<1>5. CASE MergeInputs(t)
  <2>1. /\ stage[t] = "merge" /\ nextFile' = nextFile + 1 /\ nextFile \in FileId
        /\ objects' = objects \cup {nextFile} /\ out' = [out EXCEPT ![t] = nextFile]
        /\ Goto(t, "persist")
        /\ UNCHANGED <<stored, live, marked, seen, queue, task, left, writing, applying, history>>
    BY <1>5 DEF MergeInputs
  <2>2. /\ \A u \in Tasks : u # t => stage'[u] = stage[u] /\ out'[u] = out[u]
        /\ stage'[t] = "persist" /\ out'[t] = nextFile
    BY <1>1, <2>1 DEF Shape
  <2>3. \A u \in Tasks : Held(u)' = Held(u) /\ Files(u)' = Files(u)
    BY <2>1, <2>2 DEF Held, Files
  <2>4. /\ \A u \in Tasks : u # t => Fresh(u)' = Fresh(u)
        /\ Fresh(t)' = {nextFile} /\ UNCHANGED Pending
    BY <2>1, <2>2 DEF Fresh, Pending
  <2>5. \A u \in Tasks : nextFile \notin Files(u) /\ nextFile \notin Fresh(u)
    BY Ids DEF Shape, FreshOK
  <2>6. nextFile \notin objects /\ nextFile \notin live \cup seen \cup Pending
    BY Ids DEF Shape
  <2>7. Old' = Old \cup {nextFile}
    BY <2>1, Ids
  <2>8. Shape'
    <3>1. /\ stage' \in [Tasks -> Stages] /\ out' \in [Tasks -> FileId \cup {0}]
          /\ nextFile' \in 1..(MaxFiles + 1)
      BY <2>1, <2>7 DEF Shape, Goto, Stages, FileId
    <3>2. objects' \subseteq Old' /\ stored' \subseteq Old' /\ Pending' \subseteq Old'
      BY <2>1, <2>4, <2>7 DEF Shape
    <3> QED  BY <2>1, <2>3, <2>7, <3>1, <3>2 DEF Shape
  <2>9. QueueOK'
    BY <2>1, <2>2, QueueKept
  <2>10. HeldOK' /\ DroppedOK' /\ ExistOK'
    <3>1. HeldOK'
      BY <2>1, <2>2, <2>3 DEF HeldOK, NoSharedFile
    <3>2. DroppedOK'
      BY <2>1, <2>2, <2>3 DEF DroppedOK
    <3>3. ExistOK'
      BY <2>1, <2>2, <2>3 DEF ExistOK, Present
    <3> QED  BY <3>1, <3>2, <3>3
  <2>11. FreshOK'
    <3>1. \A u \in Tasks : Fresh(u)' \subseteq Fresh(u) \cup {nextFile}
      BY <2>4
    <3>2. \A u \in Tasks : /\ Fresh(u)' \subseteq objects' /\ Fresh(u)' \cap Pending = {}
                            /\ Fresh(u)' \cap live = {} /\ Fresh(u)' \cap seen = {}
      BY <2>1, <2>6, <3>1 DEF FreshOK
    <3>3. \A u, v \in Tasks : Fresh(u)' \cap Files(v) = {}
      BY <2>5, <3>1 DEF FreshOK
    <3>4. \A u, v \in Tasks : u # v => Fresh(u)' \cap Fresh(v)' = {}
      BY <2>4, <2>5 DEF FreshOK
    <3> QED  BY <2>1, <2>3, <2>4, <3>2, <3>3, <3>4 DEF FreshOK
  <2> QED  BY <2>8, <2>9, <2>10, <2>11
<1>6. CASE MergeFails(t)
  <2>1. /\ stage[t] = "merge" /\ Goto(t, "failed")
        /\ \/ UNCHANGED <<objects, nextFile>>
           \/ /\ nextFile \in FileId /\ nextFile' = nextFile + 1
              /\ objects' = objects \cup {nextFile}
        /\ UNCHANGED <<stored, live, marked, seen, queue, task, left, out, writing, applying,
                       history>>
    BY <1>6 DEF MergeFails
  <2>2. QueueOK'
    BY <1>1, <2>1, QueueKept
  <2>3. /\ nextFile' \in {nextFile, nextFile + 1} /\ nextFile' \in 1..(MaxFiles + 1)
        /\ objects \subseteq objects' /\ objects' \subseteq Old'
    BY <2>1, Ids DEF Shape, FileId
  <2>4. queue' \in Seq(Tasks) /\ dropped' \subseteq Old
    BY <2>1 DEF Shape
  <2> QED  BY <2>1, <2>2, <2>3, <2>4, Advance
<1>7. CASE UpdatePersisted(t)
  <2>1. /\ stage[t] = "persist" /\ stored' = (stored \ Files(t)) \cup {out[t]}
        /\ Goto(t, "apply") \/ Goto(t, "failed")
        /\ dropped' = dropped \cup (stored \cap Files(t))
        /\ UNCHANGED <<objects, live, marked, seen, queue, task, left, out, writing,
                       applying, nextFile, returned>>
    BY <1>7 DEF UpdatePersisted, Replaced
  <2>2. Fresh(t) = {out[t]}
    BY <2>1 DEF Fresh
  <2>3. QueueOK'
    BY <1>1, <2>1, QueueKept
  <2>4. CASE Goto(t, "failed")
    BY <2>1, <2>2, <2>3, <2>4, Advance DEF Shape, Old
  <2>5. CASE Goto(t, "apply")
    <3>1. \A u \in Tasks : Held(u)' = Held(u) /\ Files(u)' = Files(u) /\ Fresh(u)' = Fresh(u)
      <4>1. (\A u \in Tasks : u # t => stage'[u] = stage[u]) /\ stage'[t] = "apply"
        BY <1>1, <2>5
      <4> QED  BY <2>1, <4>1 DEF Held, Files, Fresh
    <3>2. out[t] \in objects
      BY <2>2 DEF FreshOK
    <3>3. Shape'
      <4>1. stored' \subseteq Old /\ stage' \in [Tasks -> Stages]
        BY <2>1, <2>5, <3>2 DEF Shape, Goto, Stages
      <4>2. Old' = Old /\ Pending' = Pending
        BY <2>1 DEF Old, Pending
      <4> QED  BY <2>1, <3>1, <4>1, <4>2 DEF Shape
    <3>4. HeldOK'
      <4>1. \A u \in Tasks : stage'[u] = "delete" => stage[u] = "delete"
        BY <1>1, <2>5
      <4> QED  BY <2>1, <3>1, <4>1 DEF HeldOK, NoSharedFile
    <3>5. FreshOK'
      BY <2>1, <3>1 DEF FreshOK, Pending
    <3>6. DroppedOK'
      <4> SUFFICES ASSUME NEW u \in Tasks
                   PROVE  /\ stage'[u] \in {"apply", "delete"} => Files(u) \cap stored' = {}
                          /\ stage'[u] = "delete" => Files(u) \cap live' = {}
        BY <3>1 DEF DroppedOK
      <4> QED  BY <1>1, <2>1, <2>2, <2>5 DEF DroppedOK, FreshOK
    <3>7. ExistOK'
      BY <1>1, <2>1, <2>5, <3>1, <3>2 DEF ExistOK, Present
    <3> QED  BY <2>3, <3>3, <3>4, <3>5, <3>6, <3>7
  <2> QED  BY <2>1, <2>4, <2>5
<1>8. CASE UpdateFails(t)
  <2>1. QueueOK'
    BY <1>1, <1>8, QueueKept DEF UpdateFails
  <2> QED  BY <1>8, <2>1, Advance DEF UpdateFails, Shape, Old
<1>9. CASE UpdateApplied(t)
  <2>1. /\ stage[t] = "apply" /\ live' = (live \ Files(t)) \cup {out[t]}
        /\ Goto(t, "delete") /\ left' = [left EXCEPT ![t] = Files(t)]
        /\ UNCHANGED <<objects, stored, marked, seen, queue, task, out, writing, applying,
                       nextFile, history>>
    BY <1>9 DEF UpdateApplied, Replaced, ToDelete
  <2>2. /\ \A u \in Tasks : u # t => stage'[u] = stage[u] /\ left'[u] = left[u]
        /\ stage'[t] = "delete" /\ left'[t] = Files(t)
    BY <1>1, <2>1 DEF Shape
  <2>3. \A u \in Tasks : Held(u)' = Held(u) /\ Files(u)' = Files(u)
    BY <2>1, <2>2 DEF Held, Files
  <2>4. /\ \A u \in Tasks : u # t => Fresh(u)' = Fresh(u)
        /\ Fresh(t) = {out[t]} /\ Fresh(t)' = {} /\ UNCHANGED Pending
    BY <2>1, <2>2 DEF Fresh, Pending
  <2>5. Shape'
    <3>1. out[t] \in Old /\ Files(t) \subseteq FileId
      BY <2>4 DEF FreshOK, Shape, Files
    <3>2. /\ live' \subseteq Old /\ left' \in [Tasks -> SUBSET FileId]
          /\ stage' \in [Tasks -> Stages]
      BY <2>1, <3>1 DEF Shape, Goto, Stages
    <3> QED  BY <2>1, <2>3, <2>4, <3>2 DEF Shape, Old
  <2>6. QueueOK'
    BY <2>1, <2>2, QueueKept
  <2>7. HeldOK'
    BY <2>1, <2>2, <2>3 DEF HeldOK, NoSharedFile
  <2>8. FreshOK'
    <3>1. Pending' \cap live' = {}
      BY <2>1, <2>4 DEF FreshOK
    <3>2. \A u \in Tasks : Fresh(u)' \cap live' = {}
      <4> SUFFICES ASSUME NEW u \in Tasks, u # t  PROVE Fresh(u) \cap live' = {}
        BY <2>4
      <4> QED  BY <2>1, <2>4 DEF FreshOK
    <3>3. \A u \in Tasks : Fresh(u)' \subseteq Fresh(u)
      BY <2>4
    <3>4. \A u \in Tasks : /\ Fresh(u)' \subseteq objects /\ Fresh(u)' \cap Pending = {}
                            /\ Fresh(u)' \cap seen = {}
      BY <3>3 DEF FreshOK
    <3>5. \A u, v \in Tasks : Fresh(u)' \cap Files(v)' = {}
      BY <2>3, <3>3 DEF FreshOK
    <3>6. \A u, v \in Tasks : u # v => Fresh(u)' \cap Fresh(v)' = {}
      BY <3>3 DEF FreshOK
    <3> QED  BY <2>1, <2>3, <2>4, <3>1, <3>2, <3>4, <3>5, <3>6 DEF FreshOK
  <2>9. DroppedOK'
    <3> SUFFICES ASSUME NEW u \in Tasks
                 PROVE  /\ stage'[u] \in {"apply", "delete"} => Files(u) \cap stored = {}
                        /\ stage'[u] = "delete" => Files(u) \cap live' = {}
      BY <2>1, <2>3 DEF DroppedOK
    <3>1. out[t] \notin Files(u)
      BY <2>4 DEF FreshOK
    <3>2. CASE u = t
      BY <2>1, <3>1, <3>2 DEF DroppedOK
    <3>3. CASE u # t
      BY <2>1, <2>2, <3>1, <3>3 DEF DroppedOK
    <3> QED  BY <3>2, <3>3
  <2>10. ExistOK'
    BY <2>1, <2>2, <2>3, <2>4 DEF ExistOK, Present, FreshOK
  <2> QED  BY <2>5, <2>6, <2>7, <2>8, <2>9, <2>10
<1>10. ASSUME NEW f \in FileId, DeleteSst(t, f)  PROVE CompactionInv'
  <2>1. /\ stage[t] = "delete" /\ f \in left[t] /\ left' = [left EXCEPT ![t] = @ \ {f}]
        /\ objects' \in {objects, objects \ {f}}
        /\ UNCHANGED <<stored, live, marked, seen, queue, task, stage, out, writing,
                       applying, nextFile, history>>
    BY <1>10 DEF DeleteSst
  <2>2. (\A u \in Tasks : u # t => left'[u] = left[u]) /\ left'[t] = left[t] \ {f}
    BY <2>1 DEF Shape
  <2>3. \A u \in Tasks : Held(u)' = Held(u) /\ Files(u)' = Files(u) /\ Fresh(u)' = Fresh(u)
    BY <2>1, <2>2 DEF Held, Files, Fresh
  <2>4. f \in Held(t) /\ f \in Files(t) /\ f \in marked
    BY <2>1 DEF Held, HeldOK
  <2>5. f \notin stored \cup live \cup Pending /\ \A u \in Tasks : f \notin Fresh(u)
    BY <2>1, <2>4 DEF DroppedOK, FreshOK
  <2>6. \A u \in Tasks : stage[u] # "delete" => f \notin Held(u)
    BY <2>1, <2>4 DEF HeldOK, NoSharedFile
  <2>7. Shape'
    BY <2>1, <2>3 DEF Shape, Old, Pending
  <2>8. HeldOK' /\ QueueOK' /\ DroppedOK'
    <3>1. HeldOK'
      BY <2>1, <2>2, <2>3 DEF HeldOK, NoSharedFile
    <3>2. QueueOK'
      BY <2>1 DEF QueueOK
    <3>3. DroppedOK'
      BY <2>1, <2>3 DEF DroppedOK
    <3> QED  BY <3>1, <3>2, <3>3
  <2>9. FreshOK'
    BY <2>1, <2>3, <2>5 DEF FreshOK, Pending
  <2>10. ExistOK'
    BY <2>1, <2>3, <2>4, <2>5, <2>6 DEF ExistOK, Present
  <2> QED  BY <2>7, <2>8, <2>9, <2>10
<1>11. ASSUME NEW f \in FileId, Unmark(t, f)  PROVE CompactionInv'
  <2>1. /\ stage[t] = "unmark" /\ f \in left[t] /\ marked' = marked \ {f}
        /\ UNCHANGED <<objects, stored, live, seen, queue, writing, applying, nextFile, history>>
    BY <1>11 DEF Unmark
  <2>2. Held(t) = left[t] /\ f \in Present
    BY <2>1 DEF Held, ExistOK, Present
  <2>3. CASE left[t] = {f}
    BY <1>11, <2>1, <2>2, <2>3, Over DEF Unmark
  <2>4. CASE left[t] # {f}
    <3>1. left' = [left EXCEPT ![t] = @ \ {f}] /\ UNCHANGED <<task, stage, out>>
      BY <1>11, <2>4 DEF Unmark
    <3>2. (\A u \in Tasks : u # t => left'[u] = left[u]) /\ left'[t] = left[t] \ {f}
      BY <3>1 DEF Shape
    <3>3. /\ \A u \in Tasks : Files(u)' = Files(u) /\ Fresh(u)' = Fresh(u)
          /\ \A u \in Tasks : u # t => Held(u)' = Held(u)
          /\ Held(t)' = Held(t) \ {f}
      BY <2>1, <3>1, <3>2 DEF Held, Files, Fresh
    <3>4. \A u \in Tasks : u # t => f \notin Held(u)
      BY <2>1, <2>2 DEF HeldOK, NoSharedFile
    <3>5. Shape'
      BY <2>1, <3>1, <3>3 DEF Shape, Old, Pending
    <3>6. HeldOK'
      <4>1. \A u \in Tasks : Held(u)' \subseteq Held(u)
        BY <3>3
      <4>2. \A u \in Tasks : Held(u)' \subseteq marked'
        BY <2>1, <3>3, <3>4, <4>1 DEF HeldOK
      <4>3. \A u \in Tasks : stage'[u] = "delete" => left'[u] \subseteq Files(u)'
        BY <2>1, <3>1, <3>2, <3>3 DEF HeldOK
      <4>4. NoSharedFile'
        BY <4>1, <2>2 DEF HeldOK, NoSharedFile
      <4> QED  BY <4>2, <4>3, <4>4 DEF HeldOK
    <3>7. QueueOK' /\ FreshOK' /\ DroppedOK'
      BY <2>1, <3>1, <3>3 DEF QueueOK, FreshOK, Pending, DroppedOK
    <3>8. ExistOK'
      BY <2>1, <2>2, <3>1, <3>3 DEF ExistOK, Present
    <3> QED  BY <3>5, <3>6, <3>7, <3>8
  <2> QED  BY <2>3, <2>4
<1>12. CASE OnSuccess(t)
  BY <1>12, Over DEF OnSuccess
<1>13. CASE OnFailure(t)
  <2>1. /\ stage[t] = "failed" /\ Goto(t, "unmark") /\ left' = [left EXCEPT ![t] = Files(t)]
        /\ UNCHANGED <<objects, stored, live, marked, seen, queue, task, out, writing,
                       applying, nextFile, history>>
    BY <1>13 DEF OnFailure, ToUnmark
  <2>2. /\ \A u \in Tasks : u # t => stage'[u] = stage[u] /\ left'[u] = left[u]
        /\ stage'[t] = "unmark" /\ left'[t] = Files(t)
    BY <1>1, <2>1 DEF Shape
  <2>3. \A u \in Tasks : Held(u)' = Held(u) /\ Files(u)' = Files(u) /\ Fresh(u)' = Fresh(u)
    BY <2>1, <2>2 DEF Held, Files, Fresh
  <2>4. Shape'
    <3>1. Files(t) \subseteq FileId
      BY DEF Shape, Files
    <3> QED  BY <2>1, <2>3, <3>1 DEF Shape, Goto, Stages, Old, Pending
  <2>5. QueueOK'
    BY <2>1, <2>2, QueueKept
  <2>6. HeldOK'
    BY <2>1, <2>2, <2>3 DEF HeldOK, NoSharedFile
  <2>7. FreshOK'
    BY <2>1, <2>3 DEF FreshOK, Pending
  <2>8. DroppedOK' /\ ExistOK'
    BY <2>1, <2>2, <2>3 DEF DroppedOK, ExistOK, Present
  <2> QED  BY <2>4, <2>5, <2>6, <2>7, <2>8
<1> QED
  BY <1>2, <1>3, <1>4, <1>5, <1>6, <1>7, <1>8, <1>9, <1>10, <1>11, <1>12, <1>13 DEF TaskStep

\* A crash: the new process knows what the store lists, and has no task.
LEMMA CrashInv ==
    ASSUME CompactionInv, Crash
    PROVE  CompactionInv'
<1> USE DEF CompactionInv, store, file
<1>1. /\ live' = stored' /\ seen' = stored' /\ queue' = <<>> /\ writing' = {} /\ applying' = {}
      /\ task' = [t \in Tasks |-> NoTask] /\ stage' = [t \in Tasks |-> "free"]
      /\ left' = [t \in Tasks |-> {}] /\ out' = [t \in Tasks |-> 0]
      /\ UNCHANGED <<objects, nextFile, dropped>>
  BY DEF Crash
<1>2. PICK back \in SUBSET dropped :
         stored' = stored \cup back /\ returned' = returned \cup back
  BY DEF Crash
<1>3. \A t \in Tasks : Held(t)' = {} /\ Files(t)' = {} /\ Fresh(t)' = {} /\ stage'[t] = "free"
  BY <1>1 DEF Held, Files, Fresh, NoTask
<1>4. Shape'
  <2>1. Pending' = {} /\ Old' = Old
    BY <1>1 DEF Pending, Old
  <2>2. task' \in [Tasks -> [inputs: SUBSET FileId, expireds: SUBSET FileId]]
    BY <1>1 DEF NoTask
  <2>3. stage' \in [Tasks -> Stages] /\ left' \in [Tasks -> SUBSET FileId]
    BY <1>1 DEF Stages
  <2>4. out' \in [Tasks -> FileId \cup {0}] /\ queue' \in Seq(Tasks)
    BY <1>1
  <2> QED  BY <1>1, <1>2, <1>3, <2>1, <2>2, <2>3, <2>4 DEF Shape
<1>5. QueueOK'
  <2>1. 1..Len(queue') = {}
    BY <1>1
  <2> QED  BY <2>1 DEF QueueOK
<1>6. HeldOK'
  BY <1>3 DEF HeldOK, NoSharedFile
<1>7. FreshOK'
  BY <1>1, <1>3 DEF FreshOK, Pending
<1>8. DroppedOK'
  BY <1>3 DEF DroppedOK
<1>9. ExistOK'
  BY <1>1, <1>2, <1>3 DEF ExistOK, Present
<1> QED  BY <1>4, <1>5, <1>6, <1>7, <1>8, <1>9
-----------------------------------------------------------------------------
\* CompactionInv is inductive: it holds of writes, scheduler, executor and
\* crashes in any interleaving.
THEOREM CompactionInvariant == Spec => []CompactionInv
<1>1. CompactionInv /\ [Next]_vars => CompactionInv'
  <2> SUFFICES ASSUME CompactionInv, [Next]_vars  PROVE CompactionInv'
    OBVIOUS
  <2>1. CASE WriteStep  BY <2>1, WriteInv
  <2>2. CASE TriggerCompaction \/ TimerFires \/ TriggerReceived \/ Pick \/ SubmitTask
    BY <2>2, SchedulerInv DEF TimerFires, TriggerReceived
  <2>3. ASSUME NEW t \in Tasks, TaskStep(t)  PROVE CompactionInv'
    BY <2>3, TaskInv
  <2>4. CASE ClockTicks
    BY <2>4, Irrelevant DEF ClockTicks, store, file, picker, tasks, writers
  <2>5. CASE Crash  BY <2>5, CrashInv
  <2>6. CASE UNCHANGED vars
    BY <2>6, Irrelevant DEF vars, store, file, picker, tasks, writers
  <2> QED  BY <2>1, <2>2, <2>3, <2>4, <2>5, <2>6 DEF Next
<1> QED  BY InitInv, <1>1, PTL DEF Spec

\* No file is in two compactions at once, however many tasks run, fail and unmark
\* their files while the picker works on an old list (pick_candidate,
\* on_failure).
THEOREM FilesAreNotShared == Spec => []NoSharedFile
<1>1. CompactionInv => NoSharedFile
  BY DEF CompactionInv, HeldOK
<1> QED  BY <1>1, CompactionInvariant, PTL

\* Whatever fails or crashes, a file that the manifest lists, in the store or in
\* the cache, has its object, unless it was replaced before and a restart has
\* brought it back (do_compaction, delete_ssts).
THEOREM NoListedFileIsDeleted == Spec => []ListedFilesExist
<1>1. CompactionInv => ListedFilesExist
  BY DEF CompactionInv, ExistOK, Present, ListedFilesExist
<1> QED  BY <1>1, CompactionInvariant, PTL

\* The inputs of a task that has not read them yet are not deleted by another; an
\* input without an object is a file that a restart has brought back
\* (do_compaction, delete_ssts).
THEOREM NoInputIsDeleted == Spec => []InputsExist
<1>1. CompactionInv => InputsExist
  <2> SUFFICES ASSUME CompactionInv, NEW t \in Tasks,
                      stage[t] \in {"spawned", "admit", "merge"}
               PROVE  task[t].inputs \ returned \subseteq objects
    BY DEF InputsExist
  <2>1. Held(t) \subseteq objects \cup returned
    BY DEF CompactionInv, ExistOK, Present
  <2> QED  BY <2>1 DEF Held, Files
<1> QED  BY <1>1, CompactionInvariant, PTL

\* The files of a task are marked when pre_check asserts that they are: no other
\* task's on_failure has cleared the marks since the picker set them.
THEOREM TaskFilesAreMarked ==
    Spec => [](\A t \in Tasks : stage[t] = "spawned" => Files(t) \subseteq marked)
<1>1. CompactionInv => \A t \in Tasks : stage[t] = "spawned" => Files(t) \subseteq marked
  BY DEF CompactionInv, HeldOK, Held
<1> QED  BY <1>1, CompactionInvariant, PTL
-----------------------------------------------------------------------------
(* Rows. *)

\* The empty set has no members.
LEMMA NoFiles == Cardinality({}) = 0
<1> DEFINE F(count) == [T \in SUBSET {} |->
                           IF T = {} THEN 0 ELSE 1 + count[T \ {CHOOSE x : x \in T}]]
           none == [T \in SUBSET {} |-> 0]
           chosen == CHOOSE count : count = F(count)
<1>1. none = F(none)
  OBVIOUS
<1>2. chosen = F(chosen)
  <2> HIDE DEF F, none
  <2> QED  BY <1>1
<1>3. F(chosen)[{}] = 0
  OBVIOUS
<1>4. chosen[{}] = 0
  <2> HIDE DEF chosen, F
  <2> QED  BY <1>2, <1>3
<1> QED  BY <1>4 DEF Cardinality

\* An interval of naturals, and its last element.
LEMMA OneMore ==
    ASSUME NEW n \in Nat, n # 0
    PROVE  1..n = (1..(n - 1)) \cup {n}
OBVIOUS

\* Of a set of files, one has the largest value of g.
LEMMA LargestFile ==
    ASSUME NEW S \in SUBSET FileId, S # {}, NEW g, \A f \in S : g[f] \in Int
    PROVE  \E f \in S : \A h \in S : g[h] <= g[f]
<1> DEFINE Upto(n) == S \cap (1..n)
           Top(T) == \E f \in T : \A h \in T : g[h] <= g[f]
           bad == {n \in Nat : Upto(n) # {} /\ ~Top(Upto(n))}
<1>1. bad = {}
  <2> SUFFICES ASSUME bad # {}  PROVE FALSE
    OBVIOUS
  <2>1. bad \subseteq Nat
    OBVIOUS
  <2>2. PICK n \in bad : \A k \in bad : ~(<<k, n>> \in OpToRel(<, Nat))
    <3> HIDE DEF bad
    <3> QED  BY <2>1, NatLessThanWellFounded, WFMin
  <2>3. n \in Nat /\ Upto(n) # {} /\ ~Top(Upto(n))
    OBVIOUS
  <2>4. n # 0 /\ n - 1 \in Nat
    BY <2>3
  <2>5. n - 1 \notin bad
    <3>1. <<n - 1, n>> \in OpToRel(<, Nat)
      BY <2>3, <2>4 DEF OpToRel
    <3> HIDE DEF bad
    <3> QED  BY <2>2, <3>1
  <2>6. Upto(n) = Upto(n - 1) \cup (S \cap {n})
    <3>1. 1..n = (1..(n - 1)) \cup {n}
      BY <2>3, <2>4, OneMore
    <3> QED  BY <3>1
  <2>7. CASE Upto(n - 1) = {}
    <3>1. Upto(n) = {n} /\ n \in S
      BY <2>3, <2>6, <2>7
    <3>2. g[n] <= g[n]
      BY <3>1
    <3> QED  BY <2>3, <3>1, <3>2
  <2>8. CASE Upto(n - 1) # {}
    <3>1. PICK f \in Upto(n - 1) : \A h \in Upto(n - 1) : g[h] <= g[f]
      BY <2>4, <2>5, <2>8
    <3>2. \A h \in Upto(n) : h \in Upto(n - 1) \/ h = n
      BY <2>6
    <3>3. f \in S /\ g[f] \in Int
      BY <3>1
    <3>4. CASE n \in S /\ g[f] <= g[n]
      <4>1. n \in Upto(n)
        BY <2>6, <3>4
      <4>2. \A h \in Upto(n) : g[h] <= g[n]
        BY <3>1, <3>2, <3>3, <3>4
      <4> QED  BY <2>3, <4>1, <4>2
    <3>5. CASE ~(n \in S /\ g[f] <= g[n])
      <4>1. f \in Upto(n)
        BY <2>6, <3>1
      <4>2. \A h \in Upto(n) : g[h] <= g[f]
        BY <3>1, <3>2, <3>3, <3>5
      <4> QED  BY <2>3, <4>1, <4>2
    <3> QED  BY <3>4, <3>5
  <2> QED  BY <2>7, <2>8
<1>2. MaxFiles \in Nat /\ Upto(MaxFiles) = S
  BY CompactionAssumption DEF FileId
<1> QED  BY <1>1, <1>2

\* Max and Min of numbers that belong to files are among them and bound them.
LEMMA MaxOfFiles ==
    ASSUME NEW S \in SUBSET FileId, S # {}, NEW g, \A f \in S : g[f] \in Int,
           NEW values, values = {g[f] : f \in S}
    PROVE  /\ Max(values) \in values /\ \A f \in S : g[f] <= Max(values)
           /\ Min(values) \in values /\ \A f \in S : Min(values) <= g[f]
<1> DEFINE neg == [f \in S |-> -g[f]]
<1>1. PICK f \in S : \A h \in S : g[h] <= g[f]
  BY LargestFile
<1>2. PICK e \in S : \A h \in S : neg[h] <= neg[e]
  <2>1. \A h \in S : neg[h] \in Int
    OBVIOUS
  <2> HIDE DEF neg
  <2> QED  BY <2>1, LargestFile
<1>3. g[f] \in values /\ \A y \in values : g[f] >= y
  BY <1>1
<1>4. g[e] \in values /\ \A y \in values : g[e] =< y
  BY <1>2
<1>5. Max(values) \in values /\ \A y \in values : Max(values) >= y
  BY <1>3 DEF Max
<1>6. Min(values) \in values /\ \A y \in values : Min(values) =< y
  BY <1>4 DEF Min
<1>7. \A h \in S : g[h] \in values
  OBVIOUS
<1>8. values \subseteq Int
  OBVIOUS
<1> QED  BY <1>5, <1>6, <1>7, <1>8
-----------------------------------------------------------------------------
RowsShape ==
    /\ meta \in [FileId -> FileMetas] /\ rows \in [FileId -> SUBSET FileId]
    /\ now \in Nat

\* The range of a file covers the ranges of the writes in it.
Covered ==
    \A f \in FileId : \A w \in rows[f] :
        w \in Old /\ meta[f].start <= meta[w].start /\ meta[w].end <= meta[f].end

\* The stages of a task that must have inputs: after the assertion of pre_check,
\* and before it if the picker never returns a task without.
NeedsInputs(s) ==
    s \in {"admit", "merge"} \/ (InputMinNum > 0 /\ s \in {"queued", "spawned"})

\* What a task drops without reading it is expired, and its output has the rows
\* of everything else that it replaces.
TaskRows ==
    \A t \in Tasks :
        /\ \A f \in task[t].expireds : IsExpired(meta[f], now)
        /\ NeedsInputs(stage[t]) => task[t].inputs # {}
        /\ stage[t] = "persist" => \A f \in task[t].inputs : rows[f] \subseteq rows[out[t]]

\* A write is in the persisted manifest before it is acknowledged, and from then
\* on, in one file or another that exists, until it expires.
WriteRows ==
    /\ applying \subseteq stored
    /\ \A f \in Pending : f \in rows[f]
    /\ acked \subseteq Old
    /\ \A w \in acked : IsExpired(meta[w], now) \/ \E f \in stored \cap objects : w \in rows[f]

\* The inductive invariant, together with CompactionInv.
RowsInv == RowsShape /\ Covered /\ TaskRows /\ WriteRows

\* What is expired stays so.
LEMMA StaysExpired ==
    ASSUME NEW f \in FileId, RowsShape, meta'[f] = meta[f], now' \in Nat, now' >= now,
           IsExpired(meta[f], now)
    PROVE  IsExpired(meta'[f], now')
<1>1. meta[f].end \in Int /\ now \in Nat /\ (Ttl # NoTtl => Ttl \in Nat)
  BY PickerAssumption DEF RowsShape, FileMetas
<1> QED  BY <1>1 DEF IsExpired, ExpireTime

\* A file that expires takes no row with it that is not expired.
LEMMA RowsExpireFirst ==
    ASSUME RowsInv, NEW f \in FileId, NEW w \in rows[f], IsExpired(meta[f], now)
    PROVE  IsExpired(meta[w], now)
<1>1. w \in FileId /\ meta[w].end <= meta[f].end
  BY DEF RowsInv, RowsShape, Covered
<1>2. /\ meta[w].end \in Int /\ meta[f].end \in Int /\ now \in Nat
      /\ Ttl # NoTtl => Ttl \in Nat
  BY <1>1, PickerAssumption DEF RowsInv, RowsShape, FileMetas
<1> QED  BY <1>1, <1>2 DEF IsExpired, ExpireTime

\* At first there are no rows.
LEMMA InitRows == Init => RowsInv
<1> SUFFICES ASSUME Init  PROVE RowsInv
  OBVIOUS
<1>1. (CHOOSE m \in Metas : TRUE) \in FileMetas
  <2>1. PICK r \in Ranges, n \in Sizes : TRUE
    BY CompactionAssumption
  <2>2. [start |-> r[1], end |-> r[2], size |-> n] \in Metas
    BY DEF Metas
  <2>3. Metas \subseteq FileMetas
    BY CompactionAssumption DEF Metas, FileMetas
  <2> QED  BY <2>2, <2>3
<1>2. RowsShape /\ Covered
  BY <1>1, CompactionAssumption DEF Init, RowsShape, Covered
<1>3. TaskRows /\ WriteRows
  BY DEF Init, TaskRows, WriteRows, Pending, NoTask, NeedsInputs
<1> QED  BY <1>2, <1>3 DEF RowsInv

\* Steps that leave files, list and writes as they are.
LEMMA OtherSteps ==
    ASSUME CompactionInv, RowsInv,
           UNCHANGED <<meta, rows, now, stored, writing, applying, acked>>,
           nextFile' \in {nextFile, nextFile + 1}, stored \cap objects \subseteq objects',
           \A t \in Tasks :
              /\ task'[t] \in {task[t], NoTask}
              /\ NeedsInputs(stage'[t]) => task'[t].inputs # {}
              /\ stage'[t] = "persist" =>
                   stage[t] = "persist" /\ task'[t] = task[t] /\ out'[t] = out[t]
    PROVE  RowsInv'
<1>1. Old \subseteq Old'
  BY Ids DEF CompactionInv
<1>2. RowsShape' /\ Covered' /\ WriteRows'
  BY <1>1 DEF RowsInv, RowsShape, Covered, WriteRows, Pending
<1>3. TaskRows'
  BY DEF RowsInv, TaskRows, NoTask
<1> QED  BY <1>2, <1>3 DEF RowsInv
-----------------------------------------------------------------------------
\* A new file, written by a write or a task.
LEMMA NewFile ==
    ASSUME CompactionInv, RowsInv, nextFile \in FileId, nextFile' = nextFile + 1,
           NEW m \in FileMetas, NEW R \in SUBSET Old', UNCHANGED now,
           meta' = [meta EXCEPT ![nextFile] = m], rows' = [rows EXCEPT ![nextFile] = R],
           \A w \in R : m.start <= meta'[w].start /\ meta'[w].end <= m.end
    PROVE  /\ RowsShape' /\ Covered'
           /\ \A f \in Old : f \in FileId /\ meta'[f] = meta[f] /\ rows'[f] = rows[f]
           /\ rows'[nextFile] = R /\ Old' = Old \cup {nextFile} /\ nextFile \notin Old
<1>1. Old' = Old \cup {nextFile} /\ nextFile \notin Old /\ Old \subseteq FileId
  BY Ids DEF CompactionInv
<1>2. /\ \A f \in FileId : f # nextFile => meta'[f] = meta[f] /\ rows'[f] = rows[f]
      /\ meta'[nextFile] = m /\ rows'[nextFile] = R
  BY DEF RowsInv, RowsShape
<1>3. RowsShape'
  BY <1>1 DEF RowsInv, RowsShape
<1>4. Covered'
  <2> SUFFICES ASSUME NEW f \in FileId, NEW w \in rows'[f]
               PROVE  /\ w \in Old' /\ meta'[f].start <= meta'[w].start
                      /\ meta'[w].end <= meta'[f].end
    BY DEF Covered
  <2>1. CASE f = nextFile
    BY <1>2, <2>1
  <2>2. CASE f # nextFile
    <3>1. /\ w \in Old /\ meta[f].start <= meta[w].start /\ meta[w].end <= meta[f].end
      BY <1>2, <2>2 DEF RowsInv, Covered
    <3> QED  BY <1>1, <1>2, <2>2, <3>1
  <2> QED  BY <2>1, <2>2
<1> QED  BY <1>1, <1>2, <1>3, <1>4

\* Writes.
LEMMA WriteStepRows ==
    ASSUME CompactionInv, RowsInv, WriteStep
    PROVE  RowsInv'
<1> USE DEF store, file, picker, tasks, writers
<1>1. CASE WriteSst
  <2>1. PICK r \in Ranges, n \in Sizes :
           meta' = [meta EXCEPT ![nextFile] = [start |-> r[1], end |-> r[2], size |-> n]]
    BY <1>1 DEF WriteSst
  <2> DEFINE m == [start |-> r[1], end |-> r[2], size |-> n]
  <2>2. /\ nextFile \in FileId /\ nextFile' = nextFile + 1
        /\ rows' = [rows EXCEPT ![nextFile] = {nextFile}] /\ writing' = writing \cup {nextFile}
        /\ objects \subseteq objects'
        /\ UNCHANGED <<stored, task, stage, out, applying, acked, now>>
    BY <1>1 DEF WriteSst
  <2>3. m \in FileMetas
    BY CompactionAssumption DEF FileMetas
  <2>4. {nextFile} \in SUBSET Old'
    BY <2>2, Ids DEF CompactionInv
  <2>5. \A w \in {nextFile} : m.start <= meta'[w].start /\ meta'[w].end <= m.end
    <3>1. meta'[nextFile] = m
      BY <2>1, <2>2 DEF RowsInv, RowsShape
    <3>2. m.start \in Int /\ m.end \in Int
      BY <2>3 DEF FileMetas
    <3> HIDE DEF m
    <3> QED  BY <3>1, <3>2
  <2>6. /\ RowsShape' /\ Covered'
        /\ \A f \in Old : f \in FileId /\ meta'[f] = meta[f] /\ rows'[f] = rows[f]
        /\ rows'[nextFile] = {nextFile} /\ Old' = Old \cup {nextFile} /\ nextFile \notin Old
    <3> HIDE DEF m
    <3>1. meta' = [meta EXCEPT ![nextFile] = m]
      BY <2>1 DEF m
    <3> QED  BY <2>2, <2>3, <2>4, <2>5, <3>1, NewFile
  <2>7. TaskRows'
    <3> SUFFICES ASSUME NEW t \in Tasks
                 PROVE  /\ \A f \in task[t].expireds : IsExpired(meta'[f], now)
                        /\ NeedsInputs(stage[t]) => task[t].inputs # {}
                        /\ stage[t] = "persist" =>
                             \A f \in task[t].inputs : rows'[f] \subseteq rows'[out[t]]
      BY <2>2 DEF TaskRows
    <3>1. task[t].inputs \subseteq Old /\ task[t].expireds \subseteq Old
      BY DEF CompactionInv, Shape, Files
    <3>2. stage[t] = "persist" => out[t] \in Old
      BY DEF CompactionInv, FreshOK, Fresh, Shape
    <3> QED  BY <2>6, <3>1, <3>2 DEF RowsInv, TaskRows
  <2>8. WriteRows'
    <3>1. stored \subseteq Old /\ Pending \subseteq Old
      BY DEF CompactionInv, Shape
    <3>2. \A f \in Pending' : f \in rows'[f]
      BY <2>2, <2>6, <3>1 DEF Pending, RowsInv, WriteRows
    <3> QED  BY <2>2, <2>6, <3>1, <3>2 DEF RowsInv, WriteRows
  <2> QED  BY <2>6, <2>7, <2>8 DEF RowsInv
<1>2. ASSUME NEW f \in FileId, AddFilePersisted(f) \/ AddFileFails(f)  PROVE RowsInv'
  <2>1. /\ f \in writing /\ stored' \in {stored, stored \cup {f}}
        /\ applying' \subseteq applying \cup {f} /\ applying' \subseteq applying \cup stored'
        /\ writing' = writing \ {f}
        /\ UNCHANGED <<objects, meta, rows, task, stage, out, acked, now, nextFile>>
    BY <1>2 DEF AddFilePersisted, AddFileFails
  <2>2. RowsShape' /\ Covered' /\ TaskRows'
    BY <2>1 DEF RowsInv, RowsShape, Covered, TaskRows, Old
  <2>3. Pending' \subseteq Pending /\ UNCHANGED Old
    BY <2>1 DEF Pending, Old
  <2>4. WriteRows'
    BY <2>1, <2>3 DEF RowsInv, WriteRows
  <2> QED  BY <2>2, <2>4 DEF RowsInv
<1>3. ASSUME NEW f \in FileId, AddFileApplied(f)  PROVE RowsInv'
  <2>1. /\ f \in applying /\ acked' = acked \cup {f} /\ applying' = applying \ {f}
        /\ UNCHANGED <<objects, meta, rows, stored, task, stage, out, writing, now, nextFile>>
    BY <1>3 DEF AddFileApplied
  <2>2. RowsShape' /\ Covered' /\ TaskRows'
    BY <2>1 DEF RowsInv, RowsShape, Covered, TaskRows, Old
  <2>3. Pending' \subseteq Pending /\ f \in Pending /\ UNCHANGED Old
    BY <2>1 DEF Pending, Old
  <2>4. f \in Old /\ f \in stored \cap objects /\ f \in rows[f]
    BY <2>1, <2>3 DEF CompactionInv, Shape, FreshOK, RowsInv, WriteRows
  <2>5. WriteRows'
    BY <2>1, <2>3, <2>4 DEF RowsInv, WriteRows
  <2> QED  BY <2>2, <2>5 DEF RowsInv
<1> QED  BY <1>1, <1>2, <1>3 DEF WriteStep
-----------------------------------------------------------------------------
\* The picker's task drops expired files only, and if a task is to have a number
\* of inputs, it has inputs: the newest segment with enough files exists.
LEMMA PickedRows ==
    ASSUME RowsShape, NEW list \in SUBSET FileId, NEW mk,
           NEW picked \in PickCandidate(meta, list, mk, now)
    PROVE  /\ \A f \in picked.expireds : IsExpired(meta[f], now)
           /\ InputMinNum > 0 => picked.inputs # {}
<1> DEFINE free == Uncompacted(list, mk)
           expired == {f \in free : IsExpired(meta[f], now)}
           files == free \ expired
           seg == [f \in FileId |-> SegmentOf(meta[f])]
           ready == {s \in {SegmentOf(meta[f]) : f \in files} :
                        HasEnough(meta, FilesOfSegment(meta, files, s))}
<1>1. PICK S \in PickCompactionFiles(meta, files) :
          picked = [inputs |-> S, expireds |-> expired]
  BY DEF PickCandidate
<1>2. files \subseteq FileId
  BY DEF Uncompacted
<1>3. ready # {} /\ S \in Taken(meta, FilesOfSegment(meta, files, Max(ready)))
  BY <1>1 DEF PickCompactionFiles
<1>4. Max(ready) \in ready
  <2> DEFINE T == {f \in files : seg[f] \in ready}
  <2>1. T \in SUBSET FileId /\ T # {} /\ ready = {seg[f] : f \in T}
    BY <1>2, <1>3
  <2>2. \A f \in T : seg[f] \in Int
    <3> SUFFICES ASSUME NEW f \in FileId  PROVE SegmentOf(meta[f]) \in Int
      BY <1>2
    <3>1. meta[f].start \in Int
      BY DEF RowsShape, FileMetas
    <3> DEFINE ts == meta[f].start
    <3>2. ts \div SegmentDuration \in Int /\ (-ts) \div SegmentDuration \in Int
          /\ SegmentDuration \in Int
      BY <3>1, PickerAssumption
    <3> HIDE DEF ts
    <3>3. TruncateBy(ts) \in Int
      BY <3>2 DEF TruncateBy
    <3> QED  BY <3>3 DEF SegmentOf, ts
  <2> HIDE DEF T, seg, ready
  <2> QED  BY <2>1, <2>2, MaxOfFiles
<1>5. HasEnough(meta, FilesOfSegment(meta, files, Max(ready)))
  BY <1>4
<1>6. Cardinality(S) >= InputMinNum
  BY <1>3, <1>5 DEF HasEnough
<1>7. InputMinNum > 0 => S # {}
  BY <1>6, NoFiles, PickerAssumption
<1> QED  BY <1>1, <1>7

\* The loops of the scheduler.
LEMMA SchedulerRows ==
    ASSUME CompactionInv, RowsInv, Pick \/ SubmitTask
    PROVE  RowsInv'
<1> USE DEF store, file, picker, tasks, writers
<1>1. ASSUME NEW t \in Tasks, NEW picked \in PickCandidate(meta, seen, marked, now),
             PickAndSend(t, picked)
      PROVE  RowsInv'
  <2>1. UNCHANGED <<objects, meta, rows, now, stored, writing, applying, acked, nextFile, out>>
    BY <1>1 DEF PickAndSend
  <2>2. CASE Len(queue) < MaxPending
    <3>1. task' = [task EXCEPT ![t] = picked] /\ stage' = [stage EXCEPT ![t] = "queued"]
      BY <1>1, <2>2 DEF PickAndSend, Goto
    <3>2. /\ \A u \in Tasks : u # t => stage'[u] = stage[u] /\ task'[u] = task[u]
          /\ stage'[t] = "queued" /\ task'[t] = picked
      BY <3>1 DEF CompactionInv, Shape
    <3>3. seen \in SUBSET FileId
      BY Ids DEF CompactionInv, Shape
    <3>4. /\ \A f \in picked.expireds : IsExpired(meta[f], now)
          /\ InputMinNum > 0 => picked.inputs # {}
      BY <3>3, PickedRows DEF RowsInv
    <3>5. RowsShape' /\ Covered' /\ WriteRows'
      BY <2>1 DEF RowsInv, RowsShape, Covered, WriteRows, Pending, Old
    <3>6. TaskRows'
      BY <2>1, <3>2, <3>4 DEF RowsInv, TaskRows, NeedsInputs
    <3> QED  BY <3>5, <3>6 DEF RowsInv
  <2>3. CASE ~(Len(queue) < MaxPending)
    <3>1. UNCHANGED <<task, stage>>
      BY <1>1, <2>3 DEF PickAndSend
    <3> QED  BY <2>1, <3>1, OtherSteps DEF RowsInv, TaskRows
  <2> QED  BY <2>2, <2>3
<1>2. CASE PickNothing
  BY <1>2, OtherSteps DEF PickNothing, RowsInv, TaskRows
<1>3. CASE SubmitTask
  <2> DEFINE t == Head(queue)
  <2>1. /\ queue # <<>> /\ stage' = [stage EXCEPT ![t] = "spawned"]
        /\ UNCHANGED <<objects, meta, rows, now, stored, writing, applying, acked, nextFile,
                       task, out>>
    BY <1>3 DEF SubmitTask, Goto
  <2>2. t \in Tasks /\ stage[t] = "queued"
    BY <2>1 DEF CompactionInv, Shape, QueueOK
  <2> HIDE DEF t
  <2>3. (\A u \in Tasks : u # t => stage'[u] = stage[u]) /\ stage'[t] = "spawned"
    BY <2>1, <2>2 DEF CompactionInv, Shape
  <2> QED  BY <2>1, <2>2, <2>3, OtherSteps DEF RowsInv, TaskRows, NeedsInputs
<1> QED  BY <1>1, <1>2, <1>3 DEF Pick
-----------------------------------------------------------------------------
\* The merged range covers the ranges of the files (TimeRange::merge).
LEMMA MergedRangeCovers ==
    ASSUME RowsShape, NEW S \in SUBSET FileId, S # {}
    PROVE  /\ MergedRange(S).start \in Int /\ MergedRange(S).end \in Int
           /\ \A f \in S : /\ MergedRange(S).start <= meta[f].start
                           /\ meta[f].end <= MergedRange(S).end
<1> DEFINE from == [f \in FileId |-> meta[f].start]
           to == [f \in FileId |-> meta[f].end]
           starts == {meta[f].start : f \in S}
           ends == {meta[f].end : f \in S}
<1>1. \A f \in S : from[f] \in Int /\ to[f] \in Int
  BY DEF RowsShape, FileMetas
<1>2. starts = {from[f] : f \in S} /\ ends = {to[f] : f \in S}
  OBVIOUS
<1>3. \A f \in S : from[f] = meta[f].start /\ to[f] = meta[f].end
  OBVIOUS
<1>4. MergedRange(S).start = Min(starts) /\ MergedRange(S).end = Max(ends)
  BY DEF MergedRange
<1> HIDE DEF from, to, starts, ends
<1>5. Min(starts) \in starts /\ \A f \in S : Min(starts) <= from[f]
  BY <1>1, <1>2, MaxOfFiles
<1>6. Max(ends) \in ends /\ \A f \in S : to[f] <= Max(ends)
  BY <1>1, <1>2, MaxOfFiles
<1>7. starts \subseteq Int /\ ends \subseteq Int
  BY <1>1, <1>2
<1> QED  BY <1>3, <1>4, <1>5, <1>6, <1>7

\* The output has the rows of all inputs.
LEMMA MergeRows ==
    ASSUME CompactionInv, RowsInv, NEW t \in Tasks, MergeInputs(t)
    PROVE  RowsInv'
<1> USE DEF store, file, picker, tasks, writers
<1> DEFINE inputs == task[t].inputs
           range == MergedRange(inputs)
           R == UNION {rows[f] : f \in inputs}
<1>1. PICK n \in Sizes :
         meta' = [meta EXCEPT ![nextFile] = [start |-> range.start, end |-> range.end, size |-> n]]
  BY DEF MergeInputs
<1> DEFINE m == [start |-> range.start, end |-> range.end, size |-> n]
<1>2. /\ stage[t] = "merge" /\ nextFile \in FileId /\ nextFile' = nextFile + 1
      /\ rows' = [rows EXCEPT ![nextFile] = R] /\ out' = [out EXCEPT ![t] = nextFile]
      /\ stage' = [stage EXCEPT ![t] = "persist"] /\ objects \subseteq objects'
      /\ UNCHANGED <<stored, task, writing, applying, acked, now>>
  BY DEF MergeInputs, Goto
<1>3. /\ \A u \in Tasks : u # t => stage'[u] = stage[u] /\ out'[u] = out[u]
      /\ stage'[t] = "persist" /\ out'[t] = nextFile
  BY <1>2 DEF CompactionInv, Shape
<1>4. \A u \in Tasks : task[u].inputs \subseteq Old /\ task[u].expireds \subseteq Old
  BY DEF CompactionInv, Shape, Files
<1>5. /\ Old \subseteq FileId /\ nextFile \notin Old /\ Old' = Old \cup {nextFile}
  BY <1>2, Ids DEF CompactionInv
<1>6. inputs \in SUBSET FileId /\ inputs # {}
  BY <1>2, <1>4, <1>5 DEF RowsInv, TaskRows, NeedsInputs
<1>7. /\ range.start \in Int /\ range.end \in Int
      /\ \A f \in inputs : range.start <= meta[f].start /\ meta[f].end <= range.end
  <2> HIDE DEF inputs
  <2> QED  BY <1>6, MergedRangeCovers DEF RowsInv
<1>8. m \in FileMetas /\ m.start = range.start /\ m.end = range.end
  <2> HIDE DEF range
  <2> QED  BY <1>7, CompactionAssumption DEF FileMetas
<1>9. R \in SUBSET Old
  BY <1>6 DEF RowsInv, Covered
<1>10. \A w \in R : m.start <= meta'[w].start /\ meta'[w].end <= m.end
  <2> SUFFICES ASSUME NEW f \in inputs, NEW w \in rows[f]
               PROVE  m.start <= meta'[w].start /\ meta'[w].end <= m.end
    OBVIOUS
  <2>1. f \in FileId /\ w \in Old /\ w \in FileId
    BY <1>5, <1>6 DEF RowsInv, Covered
  <2>2. meta'[w] = meta[w]
    BY <1>1, <1>5, <2>1 DEF RowsInv, RowsShape
  <2>3. meta[f].start <= meta[w].start /\ meta[w].end <= meta[f].end
    BY <2>1 DEF RowsInv, Covered
  <2>4. /\ meta[f].start \in Int /\ meta[f].end \in Int
        /\ meta[w].start \in Int /\ meta[w].end \in Int
    BY <2>1 DEF RowsInv, RowsShape, FileMetas
  <2>5. range.start <= meta[f].start /\ meta[f].end <= range.end
    BY <1>7
  <2> HIDE DEF m, range
  <2> QED  BY <1>7, <1>8, <2>2, <2>3, <2>4, <2>5
<1>11. meta' = [meta EXCEPT ![nextFile] = m]
  BY <1>1
<1>12. /\ RowsShape' /\ Covered'
       /\ \A f \in Old : f \in FileId /\ meta'[f] = meta[f] /\ rows'[f] = rows[f]
       /\ rows'[nextFile] = R
  <2> HIDE DEF m, R
  <2> QED  BY <1>2, <1>5, <1>8, <1>9, <1>10, <1>11, NewFile
<1>13. TaskRows'
  <2> SUFFICES ASSUME NEW u \in Tasks
               PROVE  /\ \A f \in task[u].expireds : IsExpired(meta'[f], now)
                      /\ NeedsInputs(stage'[u]) => task[u].inputs # {}
                      /\ stage'[u] = "persist" =>
                           \A f \in task[u].inputs : rows'[f] \subseteq rows'[out'[u]]
    BY <1>2 DEF TaskRows
  <2>1. \A f \in task[u].expireds : IsExpired(meta'[f], now)
    BY <1>4, <1>12 DEF RowsInv, TaskRows
  <2>2. CASE u = t
    BY <1>3, <1>4, <1>12, <2>1, <2>2 DEF NeedsInputs
  <2>3. CASE u # t
    <3>1. stage[u] = "persist" => out[u] \in Old
      BY DEF CompactionInv, FreshOK, Fresh, Shape
    <3> QED  BY <1>3, <1>4, <1>12, <2>1, <2>3, <3>1 DEF RowsInv, TaskRows
  <2> QED  BY <2>2, <2>3
<1>14. WriteRows'
  <2>1. stored \subseteq Old /\ Pending \subseteq Old
    BY DEF CompactionInv, Shape
  <2>2. UNCHANGED Pending
    BY <1>2 DEF Pending
  <2> QED  BY <1>2, <1>5, <1>12, <2>1, <2>2 DEF RowsInv, WriteRows
<1> QED  BY <1>12, <1>13, <1>14 DEF RowsInv

\* The list loses the files of a task and has its output, whether or not the
\* answer arrives: a row of an input is in the output, and a row of another file
\* of the task is expired.
LEMMA ReplaceRows ==
    ASSUME CompactionInv, RowsInv, NEW t \in Tasks, UpdatePersisted(t)
    PROVE  RowsInv'
<1> USE DEF store, file, picker, tasks, writers
<1>1. /\ stage[t] = "persist" /\ stored' = (stored \ Files(t)) \cup {out[t]}
      /\ Goto(t, "apply") \/ Goto(t, "failed")
      /\ UNCHANGED <<objects, meta, rows, now, nextFile, task, out, writing, applying, acked>>
  BY DEF UpdatePersisted, Replaced
<1>2. /\ \A u \in Tasks : u # t => stage'[u] = stage[u]
      /\ stage'[t] \in {"apply", "failed"}
  BY <1>1 DEF Goto, CompactionInv, Shape
<1>3. RowsShape' /\ Covered' /\ TaskRows'
  BY <1>1, <1>2 DEF RowsInv, RowsShape, Covered, TaskRows, NeedsInputs, Old
<1>4. WriteRows'
  <2>1. UNCHANGED <<Old, Pending>>
    BY <1>1 DEF Old, Pending
  <2>2. applying \cap Files(t) = {}
    BY DEF CompactionInv, FreshOK, Pending
  <2>5. out[t] \in stored' \cap objects
    BY <1>1 DEF CompactionInv, FreshOK, Fresh
  <2>3. ASSUME NEW w \in acked
        PROVE  IsExpired(meta[w], now) \/ \E f \in stored' \cap objects : w \in rows[f]
    <3>1. CASE IsExpired(meta[w], now)  BY <3>1
    <3>2. ASSUME NEW f \in stored \cap objects, w \in rows[f]
          PROVE  IsExpired(meta[w], now) \/ \E g \in stored' \cap objects : w \in rows[g]
      <4>1. CASE f \notin Files(t)
        BY <1>1, <3>2, <4>1
      <4>2. CASE f \in task[t].inputs
        BY <1>1, <2>5, <3>2, <4>2 DEF RowsInv, TaskRows
      <4>3. CASE f \in task[t].expireds
        <5>1. f \in FileId /\ IsExpired(meta[f], now)
          BY <4>3 DEF RowsInv, TaskRows, CompactionInv, Shape
        <5> QED  BY <3>2, <5>1, RowsExpireFirst
      <4> QED  BY <4>1, <4>2, <4>3 DEF Files
    <3> QED  BY <3>1, <3>2 DEF RowsInv, WriteRows
  <2>4. applying' \subseteq stored'
    BY <1>1, <2>2 DEF RowsInv, WriteRows
  <2> QED  BY <1>1, <2>1, <2>3, <2>4 DEF RowsInv, WriteRows
<1> QED  BY <1>3, <1>4 DEF RowsInv

\* The other steps of a task.
LEMMA TaskStepRows ==
    ASSUME CompactionInv, RowsInv, NEW t \in Tasks, TaskStep(t)
    PROVE  RowsInv'
<1> USE DEF store, file, picker, tasks, writers
<1>1. ASSUME UNCHANGED <<meta, rows, now, stored, writing, applying, acked>>,
             nextFile' \in {nextFile, nextFile + 1}, stored \cap objects \subseteq objects',
             \A u \in Tasks : u # t =>
                task'[u] = task[u] /\ stage'[u] = stage[u] /\ out'[u] = out[u],
             task'[t] \in {task[t], NoTask}, stage'[t] # "persist",
             NeedsInputs(stage'[t]) => task'[t].inputs # {}
      PROVE  RowsInv'
  BY <1>1, OtherSteps DEF RowsInv, TaskRows
<1>2. ASSUME NEW s, Goto(t, s)
      PROVE  (\A u \in Tasks : u # t => stage'[u] = stage[u]) /\ stage'[t] = s
  BY <1>2 DEF Goto, CompactionInv, Shape
<1>3. ASSUME Finish(t)
      PROVE  /\ \A u \in Tasks : u # t =>
                   task'[u] = task[u] /\ stage'[u] = stage[u] /\ out'[u] = out[u]
             /\ task'[t] = NoTask /\ stage'[t] = "free"
  BY <1>3 DEF Finish, Goto, CompactionInv, Shape
<1>4. CASE PreCheck(t)
  <2>1. PICK s \in {"admit", "failed"} : Goto(t, s)
    BY <1>4 DEF PreCheck
  <2>2. task[t].inputs # {}
    BY <1>4 DEF PreCheck, Asserted
  <2> QED  BY <1>1, <1>2, <1>4, <2>1, <2>2 DEF PreCheck
<1>5. CASE PreCheckPanics(t)
  BY <1>1, <1>3, <1>5 DEF PreCheckPanics, NeedsInputs
<1>6. CASE Admit(t)
  <2>1. task[t].inputs # {}
    BY <1>6 DEF Admit, RowsInv, TaskRows, NeedsInputs
  <2> QED  BY <1>1, <1>2, <1>6, <2>1 DEF Admit
<1>7. CASE MergeInputs(t)  BY <1>7, MergeRows
<1>8. CASE MergeFails(t)
  BY <1>1, <1>2, <1>8 DEF MergeFails, NeedsInputs
<1>9. CASE UpdatePersisted(t)  BY <1>9, ReplaceRows
<1>10. CASE UpdateFails(t)
  BY <1>1, <1>2, <1>10 DEF UpdateFails, NeedsInputs
<1>11. CASE UpdateApplied(t)
  BY <1>1, <1>2, <1>11 DEF UpdateApplied, NeedsInputs
<1>12. ASSUME NEW f \in FileId, DeleteSst(t, f)  PROVE RowsInv'
  <2>1. f \notin stored
    BY <1>12 DEF DeleteSst, CompactionInv, HeldOK, DroppedOK
  <2> QED  BY <1>1, <1>12, <2>1 DEF DeleteSst, NeedsInputs
<1>13. ASSUME NEW f \in FileId, Unmark(t, f)  PROVE RowsInv'
  <2>1. CASE left[t] = {f}
    BY <1>1, <1>3, <1>13, <2>1 DEF Unmark, NeedsInputs
  <2>2. CASE left[t] # {f}
    BY <1>1, <1>13, <2>2 DEF Unmark, NeedsInputs
  <2> QED  BY <2>1, <2>2
<1>14. CASE OnSuccess(t)
  BY <1>1, <1>3, <1>14 DEF OnSuccess, NeedsInputs
<1>15. CASE OnFailure(t)
  BY <1>1, <1>2, <1>15 DEF OnFailure, NeedsInputs
<1> QED
  BY <1>4, <1>5, <1>6, <1>7, <1>8, <1>9, <1>10, <1>11, <1>12, <1>13, <1>14, <1>15 DEF TaskStep

\* Time passes.
LEMMA ClockRows ==
    ASSUME CompactionInv, RowsInv, ClockTicks
    PROVE  RowsInv'
<1> USE DEF store, file, picker, tasks, writers
<1>1. /\ now' \in Nat /\ now' >= now
      /\ UNCHANGED <<objects, meta, rows, stored, writing, applying, acked, nextFile, task,
                     stage, out>>
  BY CompactionAssumption DEF ClockTicks, RowsInv, RowsShape
<1>2. \A f \in FileId : IsExpired(meta[f], now) => IsExpired(meta[f], now')
  BY <1>1, StaysExpired DEF RowsInv
<1>3. Old \subseteq FileId /\ UNCHANGED <<Old, Pending>>
  BY <1>1, Ids DEF CompactionInv, Old, Pending
<1>4. \A t \in Tasks : task[t].expireds \subseteq FileId
  BY DEF CompactionInv, Shape
<1>5. RowsShape' /\ Covered'
  BY <1>1, <1>3 DEF RowsInv, RowsShape, Covered
<1>6. TaskRows'
  BY <1>1, <1>2, <1>4 DEF RowsInv, TaskRows
<1>7. WriteRows'
  BY <1>1, <1>2, <1>3 DEF RowsInv, WriteRows
<1> QED  BY <1>5, <1>6, <1>7 DEF RowsInv

\* A crash takes what is not acknowledged.
LEMMA CrashRows ==
    ASSUME CompactionInv, RowsInv, Crash
    PROVE  RowsInv'
<1> USE DEF store, file
<1>1. /\ \A t \in Tasks : task'[t] = NoTask /\ stage'[t] = "free"
      /\ writing' = {} /\ applying' = {} /\ stored \subseteq stored'
      /\ UNCHANGED <<objects, meta, rows, acked, now, nextFile>>
  BY DEF Crash
<1>2. RowsShape' /\ Covered' /\ WriteRows'
  BY <1>1 DEF RowsInv, RowsShape, Covered, WriteRows, Pending, Old
<1>3. TaskRows'
  BY <1>1 DEF TaskRows, NeedsInputs, NoTask
<1> QED  BY <1>2, <1>3 DEF RowsInv
-----------------------------------------------------------------------------
\* RowsInv is inductive relative to CompactionInv.
THEOREM RowsInvariant == Spec => []RowsInv
<1>1. CompactionInv /\ RowsInv /\ [Next]_vars => RowsInv'
  <2> SUFFICES ASSUME CompactionInv, RowsInv, [Next]_vars  PROVE RowsInv'
    OBVIOUS
  <2>1. CASE WriteStep  BY <2>1, WriteStepRows
  <2>2. CASE TriggerCompaction \/ WakeUp \/ UNCHANGED vars
    BY <2>2, OtherSteps
    DEF TriggerCompaction, WakeUp, vars, store, file, picker, tasks, writers, RowsInv, TaskRows
  <2>3. CASE Pick \/ SubmitTask  BY <2>3, SchedulerRows
  <2>4. ASSUME NEW t \in Tasks, TaskStep(t)  PROVE RowsInv'
    BY <2>4, TaskStepRows
  <2>5. CASE ClockTicks  BY <2>5, ClockRows
  <2>6. CASE Crash  BY <2>6, CrashRows
  <2> QED
    BY <2>1, <2>2, <2>3, <2>4, <2>5, <2>6 DEF Next, TimerFires, TriggerReceived
<1> QED  BY InitRows, <1>1, CompactionInvariant, PTL DEF Spec

\* No acknowledged write is lost before it expires, through any interleaving of
\* compactions, failed and unacknowledged updates, failed deletions and crashes
\* (do_compaction): the list always has a file with its rows, and the file's
\* object exists.
THEOREM NoWriteIsLost == Spec => []NothingLost
<1>1. RowsInv => NothingLost
  BY DEF NothingLost, RowsInv, WriteRows
<1> QED  BY <1>1, RowsInvariant, PTL

\* A scan that looks for files by their range finds every row: the range of a
\* listed file covers the writes merged into it (TimeRange::merge).
THEOREM RangesCover == Spec => []RangeCoversRows
<1>1. CompactionInv /\ RowsInv => RangeCoversRows
  <2> SUFFICES ASSUME CompactionInv, RowsInv  PROVE RangeCoversRows
    OBVIOUS
  <2>1. stored \subseteq FileId
    BY Ids DEF CompactionInv, Shape
  <2> QED  BY <2>1 DEF RangeCoversRows, RowsInv, Covered
<1> QED  BY <1>1, CompactionInvariant, RowsInvariant, PTL

\* If input_sst_min_num is not zero, the assertions of pre_check never fail: a
\* task has inputs, and they are marked.
THEOREM AssertionsHold ==
    ASSUME InputMinNum > 0
    PROVE  Spec => []PreCheckAsserts
<1>1. CompactionInv /\ RowsInv => PreCheckAsserts
  <2> SUFFICES ASSUME CompactionInv, RowsInv, NEW t \in Tasks, stage[t] = "spawned"
               PROVE  Asserted(t)
    BY DEF PreCheckAsserts
  <2>1. Files(t) \subseteq marked
    BY DEF CompactionInv, HeldOK, Held
  <2>2. task[t].inputs # {}
    BY DEF RowsInv, TaskRows, NeedsInputs
  <2> QED  BY <2>1, <2>2 DEF Asserted
<1> QED  BY <1>1, CompactionInvariant, RowsInvariant, PTL
-----------------------------------------------------------------------------
(* The list of files and the marks. *)

\* A file that a task or the picker may take is in the cache.
InCache ==
    /\ seen \ marked \subseteq live
    /\ \A t \in Tasks : stage[t] # "delete" => Held(t) \subseteq live

\* A file that the manifest will list next has no mark.
FreshUnmarked ==
    /\ marked \subseteq Old /\ Pending \cap marked = {}
    /\ \A t \in Tasks : Fresh(t) \cap marked = {}

\* A free slot has no files.
SlotsFree == \A t \in Tasks : stage[t] = "free" => Files(t) = {}

CacheInv == InCache /\ FreshUnmarked /\ SlotsFree

\* The same of the store.
InStore ==
    /\ seen \ marked \subseteq stored /\ live \ marked \subseteq stored
    /\ \A t \in Tasks : stage[t] \notin {"apply", "delete"} => Held(t) \subseteq stored
    /\ \A t \in Tasks : stage[t] = "apply" => out[t] \in stored

\* Rows come from one write each, and go into one output.
OwnRows == \A f \in writing : rows[f] = {f} /\ \A g \in FileId : f \in rows[g] => g = f
OutputRows ==
    \A t \in Tasks : stage[t] = "persist" =>
        \A w \in rows[out[t]] : \E f \in task[t].inputs : w \in rows[f]
RowSources == OwnRows /\ OutputRows

OnceInv == InStore /\ RowSources /\ RowsListedOnce

\* An object that is listed, or that a write or a task has: NoOrphans says this
\* of every object while there has been no fault.
Has(t, o) == IF stage[t] = "delete" THEN o \in left[t] ELSE o = out[t]
Known(o) ==
    \/ o \in stored \/ o \in live \/ o \in writing
    \/ \E t \in Tasks : Has(t, o)
AllKnown == faults = 0 => \A o \in objects : Known(o)

\* Without faults, only a task that has an output object names one.
OutputsInv ==
    /\ faults \in Nat
    /\ faults = 0 => \A t \in Tasks : stage[t] \notin {"persist", "apply", "delete"} => out[t] = 0
    /\ AllKnown

\* The inductive invariant, together with CompactionInv and RowsInv.
ListInv == CacheInv /\ ("lost_ack" \notin Faults => OnceInv) /\ OutputsInv

\* A step leaves no mark behind.
MarksKept == Stuck' \subseteq Stuck

\* The property, from the way the proofs say it.
LEMMA NoOrphansMeans == AllKnown => NoOrphans
BY DEF AllKnown, Known, Has, NoOrphans

\* Rows keep their sources in a step that makes no rows and no output.
LEMMA SourcesStay ==
    ASSUME RowSources, writing' \subseteq writing, UNCHANGED <<rows, task, out>>,
           \A u \in Tasks : stage'[u] = "persist" => stage[u] = "persist"
    PROVE  RowSources'
<1>1. OwnRows'
  BY DEF RowSources, OwnRows
<1>2. ASSUME NEW u \in Tasks, stage'[u] = "persist"
      PROVE  \A w \in rows'[out'[u]] : \E f \in task'[u].inputs : w \in rows'[f]
  BY <1>2 DEF RowSources, OutputRows
<1> QED  BY <1>1, <1>2 DEF RowSources, OutputRows

\* An object that is known stays known in a step that drops nothing.
LEMMA KnownStays ==
    ASSUME NEW o, Known(o), stored \subseteq stored', live \subseteq live',
           writing \subseteq writing', \A u \in Tasks : Has(u, o) => Has(u, o)'
    PROVE  Known(o)'
BY DEF Known

\* A new process has nothing.
LEMMA InitLists == Init => ListInv
<1> SUFFICES ASSUME Init  PROVE ListInv
  OBVIOUS
<1>1. \A t \in Tasks :
         /\ Held(t) = {} /\ Files(t) = {} /\ Fresh(t) = {}
         /\ stage[t] = "free" /\ out[t] = 0
  BY DEF Init, Held, Files, Fresh, NoTask
<1>2. CacheInv
  BY <1>1 DEF Init, CacheInv, InCache, FreshUnmarked, SlotsFree, Pending
<1>3. OnceInv
  BY <1>1 DEF Init, OnceInv, InStore, RowSources, OwnRows, OutputRows,
              RowsListedOnce, RowsAreDisjoint
<1>4. OutputsInv
  BY <1>1 DEF Init, OutputsInv, AllKnown, Known, Has
<1> QED  BY <1>2, <1>3, <1>4 DEF ListInv

\* Steps of the scheduler's loops that touch no file and no task.
LEMMA IdleLists ==
    ASSUME ListInv, seen' \in {seen, live, {}},
           UNCHANGED <<objects, stored, live, marked, task, stage, left, out, writing,
                       applying, nextFile, rows, faults, history>>
    PROVE  ListInv' /\ MarksKept
<1>1. \A t \in Tasks : Held(t)' = Held(t) /\ Files(t)' = Files(t) /\ Fresh(t)' = Fresh(t)
  BY DEF Held, Files, Fresh
<1>2. CacheInv'
  BY <1>1 DEF ListInv, CacheInv, InCache, FreshUnmarked, SlotsFree, Pending, Old
<1>3. "lost_ack" \notin Faults => OnceInv'
  <2> SUFFICES ASSUME OnceInv  PROVE OnceInv'
    BY DEF ListInv
  <2>1. InStore'
    BY <1>1 DEF OnceInv, InStore
  <2>2. RowSources'
    BY SourcesStay DEF OnceInv
  <2>3. RowsListedOnce'
    BY DEF OnceInv, RowsListedOnce, RowsAreDisjoint
  <2> QED  BY <2>1, <2>2, <2>3 DEF OnceInv
<1>4. OutputsInv'
  <2>1. AllKnown'
    BY DEF ListInv, OutputsInv, AllKnown, Known, Has
  <2> QED  BY <2>1 DEF ListInv, OutputsInv
<1>5. MarksKept
  BY <1>1 DEF MarksKept, Stuck
<1> QED  BY <1>2, <1>3, <1>4, <1>5 DEF ListInv
-----------------------------------------------------------------------------
\* Writes.
LEMMA WriteLists ==
    ASSUME CompactionInv, RowsInv, ListInv, WriteStep
    PROVE  ListInv' /\ MarksKept
<1> USE DEF store, file, picker, tasks, writers
<1>1. CASE WriteSst
  <2>1. /\ nextFile \in FileId /\ nextFile' = nextFile + 1
        /\ rows' = [rows EXCEPT ![nextFile] = {nextFile}] /\ writing' = writing \cup {nextFile}
        /\ objects' = objects \cup {nextFile}
        /\ UNCHANGED <<stored, live, marked, seen, task, stage, left, out, applying, faults,
                       history>>
    BY <1>1 DEF WriteSst
  <2>2. Old' = Old \cup {nextFile} /\ nextFile \notin Old /\ Old \subseteq FileId
    BY <2>1, Ids DEF CompactionInv
  <2>3. /\ \A f \in FileId : f # nextFile => rows'[f] = rows[f]
        /\ rows'[nextFile] = {nextFile}
    BY <2>1 DEF RowsInv, RowsShape
  <2>4. \A t \in Tasks : Held(t)' = Held(t) /\ Files(t)' = Files(t) /\ Fresh(t)' = Fresh(t)
    BY <2>1 DEF Held, Files, Fresh
  <2>5. CacheInv'
    BY <2>1, <2>2, <2>4 DEF ListInv, CacheInv, InCache, FreshUnmarked, SlotsFree, Pending
  <2>6. ASSUME OnceInv  PROVE OnceInv'
    <3>1. InStore'
      BY <2>1, <2>4, <2>6 DEF OnceInv, InStore
    <3>2. \A f \in writing' : rows'[f] = {f} /\ \A g \in FileId : f \in rows'[g] => g = f
      <4>1. writing \subseteq Old
        BY DEF CompactionInv, Shape, Pending
      <4>2. \A g \in FileId : rows[g] \subseteq Old
        BY DEF RowsInv, Covered
      <4> QED  BY <2>1, <2>2, <2>3, <2>6, <4>1, <4>2 DEF OnceInv, RowSources, OwnRows, OutputRows
    <3>3. ASSUME NEW t \in Tasks, stage'[t] = "persist", NEW w \in rows'[out'[t]]
          PROVE  \E f \in task'[t].inputs : w \in rows'[f]
      <4>1. out[t] \in Old /\ task[t].inputs \subseteq Old
        BY <2>1, <3>3 DEF CompactionInv, FreshOK, Fresh, Shape, Files
      <4> QED  BY <2>1, <2>2, <2>3, <2>6, <3>3, <4>1 DEF OnceInv, RowSources, OwnRows, OutputRows
    <3>4. RowsListedOnce'
      <4>1. stored \subseteq Old
        BY DEF CompactionInv, Shape
      <4> QED  BY <2>1, <2>2, <2>3, <2>6, <4>1 DEF OnceInv, RowsListedOnce, RowsAreDisjoint
    <3> QED  BY <3>1, <3>2, <3>3, <3>4 DEF OnceInv, RowSources, OwnRows, OutputRows
  <2>7. OutputsInv'
    BY <2>1 DEF ListInv, OutputsInv, AllKnown, Known, Has
  <2>8. MarksKept
    BY <2>1, <2>4 DEF MarksKept, Stuck
  <2> QED  BY <2>5, <2>6, <2>7, <2>8 DEF ListInv
<1>2. ASSUME NEW f \in FileId, AddFilePersisted(f)  PROVE ListInv' /\ MarksKept
  <2>1. /\ f \in writing /\ stored' = stored \cup {f} /\ writing' = writing \ {f}
        /\ applying' \subseteq applying \cup {f}
        /\ UNCHANGED <<objects, rows, live, marked, seen, task, stage, left, out, nextFile,
                       history>>
    BY <1>2 DEF AddFilePersisted
  <2>2. \A t \in Tasks : Held(t)' = Held(t) /\ Files(t)' = Files(t) /\ Fresh(t)' = Fresh(t)
    BY <2>1 DEF Held, Files, Fresh
  <2>3. Pending' \subseteq Pending /\ UNCHANGED Old
    BY <2>1 DEF Pending, Old
  <2>4. CacheInv'
    BY <2>1, <2>2, <2>3 DEF ListInv, CacheInv, InCache, FreshUnmarked, SlotsFree
  <2>5. ASSUME OnceInv  PROVE OnceInv'
    <3>1. InStore'
      BY <2>1, <2>2, <2>5 DEF OnceInv, InStore
    <3>2. RowSources'
      BY <2>1, <2>5 DEF OnceInv, RowSources, OwnRows, OutputRows
    <3>3. RowsListedOnce'
      <4>1. stored \subseteq FileId
        BY Ids DEF CompactionInv, Shape
      <4>2. rows[f] = {f} /\ \A g \in stored : g # f => f \notin rows[g]
        BY <2>1, <2>5, <4>1 DEF OnceInv, RowSources, OwnRows, OutputRows
      <4> QED  BY <2>1, <2>5, <4>2 DEF OnceInv, RowsListedOnce, RowsAreDisjoint
    <3> QED  BY <3>1, <3>2, <3>3 DEF OnceInv
  <2>6. OutputsInv'
    <3>1. faults' \in Nat /\ (faults' = 0 => faults = 0)
      BY <1>2 DEF AddFilePersisted, Fault, ListInv, OutputsInv
    <3> QED  BY <2>1, <3>1 DEF ListInv, OutputsInv, AllKnown, Known, Has
  <2>7. MarksKept
    BY <2>1, <2>2 DEF MarksKept, Stuck
  <2> QED  BY <2>4, <2>5, <2>6, <2>7 DEF ListInv
<1>3. ASSUME NEW f \in FileId, AddFileFails(f)  PROVE ListInv' /\ MarksKept
  <2>1. /\ writing' = writing \ {f}
        /\ UNCHANGED <<objects, stored, rows, live, marked, seen, task, stage, left, out,
                       applying, nextFile, history>>
    BY <1>3 DEF AddFileFails
  <2>2. faults' \in Nat /\ faults' # 0
    <3>1. faults \in Nat
      BY DEF ListInv, OutputsInv
    <3> QED  BY <1>3, <3>1 DEF AddFileFails, Fault
  <2>3. \A t \in Tasks : Held(t)' = Held(t) /\ Files(t)' = Files(t) /\ Fresh(t)' = Fresh(t)
    BY <2>1 DEF Held, Files, Fresh
  <2>4. Pending' \subseteq Pending /\ UNCHANGED Old
    BY <2>1 DEF Pending, Old
  <2>5. CacheInv'
    BY <2>1, <2>3, <2>4 DEF ListInv, CacheInv, InCache, FreshUnmarked, SlotsFree
  <2>6. OnceInv => OnceInv'
    BY <2>1, <2>3 DEF OnceInv, InStore, RowSources, OwnRows, OutputRows,
                      RowsListedOnce, RowsAreDisjoint
  <2>7. OutputsInv' /\ MarksKept
    BY <2>1, <2>2, <2>3 DEF OutputsInv, AllKnown, MarksKept, Stuck
  <2> QED  BY <2>5, <2>6, <2>7 DEF ListInv
<1>4. ASSUME NEW f \in FileId, AddFileApplied(f)  PROVE ListInv' /\ MarksKept
  <2>1. /\ f \in applying /\ live' = live \cup {f} /\ applying' = applying \ {f}
        /\ UNCHANGED <<objects, stored, rows, marked, seen, task, stage, left, out, writing,
                       nextFile, faults, history>>
    BY <1>4 DEF AddFileApplied
  <2>2. \A t \in Tasks : Held(t)' = Held(t) /\ Files(t)' = Files(t) /\ Fresh(t)' = Fresh(t)
    BY <2>1 DEF Held, Files, Fresh
  <2>3. Pending' \subseteq Pending /\ f \in Pending /\ UNCHANGED Old
    BY <2>1 DEF Pending, Old
  <2>4. f \notin marked /\ f \in stored
    BY <2>1, <2>3 DEF ListInv, CacheInv, FreshUnmarked, RowsInv, WriteRows
  <2>5. CacheInv'
    BY <2>1, <2>2, <2>3 DEF ListInv, CacheInv, InCache, FreshUnmarked, SlotsFree
  <2>6. OnceInv => OnceInv'
    BY <2>1, <2>2, <2>4 DEF OnceInv, InStore, RowSources, OwnRows, OutputRows,
                            RowsListedOnce, RowsAreDisjoint
  <2>7. OutputsInv' /\ MarksKept
    <3>1. OutputsInv'
      BY <2>1 DEF ListInv, OutputsInv, AllKnown, Known, Has
    <3>2. MarksKept
      BY <2>1, <2>2, <2>4 DEF MarksKept, Stuck
    <3> QED  BY <3>1, <3>2
  <2> QED  BY <2>5, <2>6, <2>7 DEF ListInv
<1> QED  BY <1>1, <1>2, <1>3, <1>4 DEF WriteStep
-----------------------------------------------------------------------------
\* The picker marks what it takes.  If there is room in the channel, a task has
\* all of it.
LEMMA PickLists ==
    ASSUME CompactionInv, RowsInv, ListInv, NEW t \in Tasks,
           NEW picked \in PickCandidate(meta, seen, marked, now), PickAndSend(t, picked)
    PROVE  ListInv' /\ (Len(queue) < MaxPending => MarksKept)
<1> DEFINE taken == picked.inputs \cup picked.expireds
<1> USE DEF store, file, picker, writers
<1>1. taken \subseteq seen \ marked
  BY PickedFiles
<1>2. /\ seen' = {} /\ stage[t] = "free" /\ marked' = marked \cup taken
      /\ UNCHANGED <<objects, stored, rows, live, left, out, writing, applying, nextFile, faults,
                     history>>
  BY DEF PickAndSend
<1>3. Pending' = Pending /\ Old' = Old
  BY <1>2 DEF Pending, Old
<1>4. taken \subseteq Old /\ taken \cap Pending = {} /\ \A u \in Tasks : taken \cap Fresh(u) = {}
  BY <1>1 DEF CompactionInv, Shape, FreshOK
<1> HIDE DEF taken
<1>5. taken \subseteq live /\ (OnceInv => taken \subseteq stored)
  BY <1>1 DEF ListInv, CacheInv, InCache, OnceInv, InStore
<1>6. CASE Len(queue) < MaxPending
  <2>1. task' = [task EXCEPT ![t] = picked] /\ stage' = [stage EXCEPT ![t] = "queued"]
    BY <1>6 DEF PickAndSend, Goto
  <2>2. /\ \A u \in Tasks : u # t => stage'[u] = stage[u] /\ task'[u] = task[u]
        /\ stage'[t] = "queued" /\ task'[t] = picked
    BY <2>1 DEF CompactionInv, Shape
  <2>3. \A u \in Tasks : u # t =>
           Held(u)' = Held(u) /\ Files(u)' = Files(u) /\ Fresh(u)' = Fresh(u)
    BY <1>2, <2>2 DEF Held, Files, Fresh
  <2>4. Held(t)' = taken /\ Fresh(t)' = {}
    BY <2>2 DEF Held, Files, Fresh, taken
  <2>5. CacheInv'
    <3>1. InCache'
      BY <1>2, <1>5, <2>2, <2>3, <2>4 DEF ListInv, CacheInv, InCache
    <3>2. FreshUnmarked'
      BY <1>2, <1>3, <1>4, <2>3, <2>4 DEF ListInv, CacheInv, FreshUnmarked
    <3>3. SlotsFree'
      BY <2>2, <2>3 DEF ListInv, CacheInv, SlotsFree
    <3> QED  BY <3>1, <3>2, <3>3 DEF CacheInv
  <2>6. ASSUME OnceInv  PROVE OnceInv'
    <3>1. InStore'
      BY <1>2, <1>5, <2>2, <2>3, <2>4, <2>6 DEF OnceInv, InStore
    <3>2. RowSources'
      <4>1. OwnRows'
        BY <1>2, <2>6 DEF OnceInv, RowSources, OwnRows
      <4>2. ASSUME NEW u \in Tasks, stage'[u] = "persist"
            PROVE  \A w \in rows'[out'[u]] : \E f \in task'[u].inputs : w \in rows'[f]
        <5>1. u # t
          BY <2>2, <4>2
        <5>2. stage[u] = "persist" /\ task'[u] = task[u]
          BY <2>2, <4>2, <5>1
        <5>3. \A w \in rows[out[u]] : \E f \in task[u].inputs : w \in rows[f]
          BY <2>6, <5>2 DEF OnceInv, RowSources, OutputRows
        <5>4. rows' = rows /\ out' = out
          BY <1>2
        <5> QED  BY <5>2, <5>3, <5>4
      <4>3. OutputRows'
        BY <4>2 DEF OutputRows
      <4> QED  BY <4>1, <4>3 DEF RowSources
    <3>3. RowsListedOnce'
      <4>1. stored' = stored /\ rows' = rows /\ returned' = returned
        BY <1>2
      <4> QED  BY <2>6, <4>1 DEF OnceInv, RowsListedOnce, RowsAreDisjoint
    <3> QED  BY <3>1, <3>2, <3>3 DEF OnceInv
  <2>7. OutputsInv'
    BY <1>2, <2>2 DEF ListInv, OutputsInv, AllKnown, Known, Has
  <2>8. MarksKept
    <3>1. Held(t) = {}
      BY <1>2 DEF ListInv, CacheInv, SlotsFree, Held
    <3> QED  BY <1>2, <2>3, <2>4, <3>1 DEF MarksKept, Stuck
  <2> QED  BY <2>5, <2>6, <2>7, <2>8 DEF ListInv
<1>7. CASE ~(Len(queue) < MaxPending)
  <2>1. UNCHANGED <<task, stage>>
    BY <1>7 DEF PickAndSend
  <2>2. \A u \in Tasks : Held(u)' = Held(u) /\ Files(u)' = Files(u) /\ Fresh(u)' = Fresh(u)
    BY <1>2, <2>1 DEF Held, Files, Fresh
  <2>3. CacheInv'
    BY <1>2, <1>3, <1>4, <2>1, <2>2 DEF ListInv, CacheInv, InCache, FreshUnmarked, SlotsFree
  <2>4. OnceInv => OnceInv'
    <3> SUFFICES ASSUME OnceInv  PROVE OnceInv'
      OBVIOUS
    <3>1. InStore'
      BY <1>2, <2>1, <2>2 DEF OnceInv, InStore
    <3>2. RowSources'
      BY <1>2, <2>1, SourcesStay DEF OnceInv
    <3>3. RowsListedOnce'
      BY <1>2 DEF OnceInv, RowsListedOnce, RowsAreDisjoint
    <3> QED  BY <3>1, <3>2, <3>3 DEF OnceInv
  <2>5. OutputsInv'
    <3>1. AllKnown'
      BY <1>2, <2>1 DEF ListInv, OutputsInv, AllKnown, Known, Has
    <3> QED  BY <1>2, <2>1, <3>1 DEF ListInv, OutputsInv
  <2> QED  BY <1>7, <2>3, <2>4, <2>5 DEF ListInv
<1> QED  BY <1>6, <1>7

\* A task goes on with all of its files.  If an object is left behind, a call has
\* failed.
LEMMA AdvanceLists ==
    ASSUME CompactionInv, RowsInv, ListInv, NEW t \in Tasks,
           NEW s \in {"spawned", "admit", "merge", "failed"},
           stage[t] \in {"queued", "spawned", "admit", "merge", "persist"}, Goto(t, s),
           nextFile' \in {nextFile, nextFile + 1}, faults' \in Nat,
           faults' = 0 => faults = 0 /\ objects' = objects /\ stage[t] # "persist",
           UNCHANGED <<stored, rows, live, marked, seen, task, left, out, writing, applying,
                       history>>
    PROVE  ListInv' /\ MarksKept
<1>1. (\A u \in Tasks : u # t => stage'[u] = stage[u]) /\ stage'[t] = s
  BY DEF Goto, CompactionInv, Shape
<1>2. \A u \in Tasks : Held(u)' = Held(u) /\ Files(u)' = Files(u) /\ Fresh(u)' \subseteq Fresh(u)
  BY <1>1 DEF Held, Files, Fresh
<1>3. Old \subseteq Old' /\ Pending' = Pending
  BY Ids DEF CompactionInv, Pending
<1>4. CacheInv'
  <2>1. InCache'
    BY <1>1, <1>2 DEF ListInv, CacheInv, InCache
  <2>2. FreshUnmarked'
    BY <1>2, <1>3 DEF ListInv, CacheInv, FreshUnmarked
  <2>3. SlotsFree'
    BY <1>1, <1>2 DEF ListInv, CacheInv, SlotsFree
  <2> QED  BY <2>1, <2>2, <2>3 DEF CacheInv
<1>5. ASSUME OnceInv  PROVE OnceInv'
  <2>1. InStore'
    BY <1>1, <1>2, <1>5 DEF OnceInv, InStore
  <2>2. RowSources'
    BY <1>1, <1>5, SourcesStay DEF OnceInv
  <2>3. RowsListedOnce'
    BY <1>5 DEF OnceInv, RowsListedOnce, RowsAreDisjoint
  <2> QED  BY <2>1, <2>2, <2>3 DEF OnceInv
<1>6. OutputsInv'
  <2>1. ASSUME faults' = 0, NEW o \in objects'  PROVE Known(o)'
    <3>1. Known(o)
      BY <2>1 DEF ListInv, OutputsInv, AllKnown
    <3>2. \A u \in Tasks : Has(u, o) => Has(u, o)'
      BY <1>1 DEF Has
    <3> QED  BY <3>1, <3>2, KnownStays
  <2>2. ASSUME faults' = 0, NEW u \in Tasks, stage'[u] \notin {"persist", "apply", "delete"}
        PROVE  out'[u] = 0
    BY <1>1, <2>2 DEF ListInv, OutputsInv
  <2> QED  BY <2>1, <2>2 DEF OutputsInv, AllKnown
<1>7. MarksKept
  BY <1>2 DEF MarksKept, Stuck
<1> QED  BY <1>4, <1>5, <1>6, <1>7 DEF ListInv

\* A task is over.  It unmarks what is still listed, or nothing.
LEMMA OverLists ==
    ASSUME CompactionInv, RowsInv, ListInv, NEW t \in Tasks, Finish(t),
           stage[t] \in {"spawned", "unmark", "delete"}, stage[t] = "delete" => left[t] = {},
           marked' \subseteq marked, marked \ marked' \subseteq Held(t),
           marked' # marked => stage[t] = "unmark",
           UNCHANGED <<objects, stored, rows, live, seen, writing, applying, nextFile, faults,
                       history>>
    PROVE  ListInv' /\ (live \cap marked' \cap Held(t) = {} => MarksKept)
<1>1. \A u \in Tasks : u # t =>
         stage'[u] = stage[u] /\ task'[u] = task[u] /\ left'[u] = left[u] /\ out'[u] = out[u]
  BY DEF Finish, Goto, CompactionInv, Shape
<1>2. stage'[t] = "free" /\ task'[t] = NoTask /\ out'[t] = 0
  BY DEF Finish, Goto, CompactionInv, Shape
<1>3. \A u \in Tasks : u # t =>
         Held(u)' = Held(u) /\ Files(u)' = Files(u) /\ Fresh(u)' = Fresh(u)
  BY <1>1 DEF Held, Files, Fresh
<1>4. Held(t)' = {} /\ Files(t)' = {} /\ Fresh(t)' = {}
  BY <1>2 DEF Held, Files, Fresh, NoTask
<1>5. Old' = Old /\ Pending' = Pending
  BY DEF Old, Pending
<1>6. /\ marked \ marked' \subseteq live
      /\ OnceInv => marked \ marked' \subseteq stored
  BY DEF ListInv, CacheInv, InCache, OnceInv, InStore
<1>7. CacheInv'
  <2>1. InCache'
    BY <1>1, <1>2, <1>3, <1>4, <1>6 DEF ListInv, CacheInv, InCache
  <2>2. FreshUnmarked'
    BY <1>3, <1>4, <1>5 DEF ListInv, CacheInv, FreshUnmarked
  <2>3. SlotsFree'
    BY <1>1, <1>3, <1>4 DEF ListInv, CacheInv, SlotsFree
  <2> QED  BY <2>1, <2>2, <2>3 DEF CacheInv
<1>8. ASSUME OnceInv  PROVE OnceInv'
  <2>1. InStore'
    BY <1>1, <1>2, <1>3, <1>4, <1>6, <1>8 DEF OnceInv, InStore
  <2>2. RowSources'
    <3>1. ASSUME NEW u \in Tasks, stage'[u] = "persist"
          PROVE  u # t /\ stage[u] = "persist"
      BY <1>1, <1>2, <3>1
    <3> QED  BY <1>1, <1>8, <3>1 DEF OnceInv, RowSources, OwnRows, OutputRows
  <2>3. RowsListedOnce'
    BY <1>8 DEF OnceInv, RowsListedOnce, RowsAreDisjoint
  <2> QED  BY <2>1, <2>2, <2>3 DEF OnceInv
<1>9. OutputsInv'
  <2>1. 0 \notin objects
    BY DEF CompactionInv, Shape, Old
  <2>2. ASSUME faults = 0, NEW o \in objects, Has(t, o)
        PROVE  FALSE
    BY <2>1, <2>2 DEF ListInv, OutputsInv, Has
  <2>3. ASSUME faults' = 0, NEW o \in objects'  PROVE Known(o)'
    <3>1. Known(o) /\ ~Has(t, o)
      BY <2>2, <2>3 DEF ListInv, OutputsInv, AllKnown
    <3>2. \A u \in Tasks : Has(u, o) => Has(u, o)'
      BY <1>1, <3>1 DEF Has
    <3> QED  BY <3>1, <3>2, KnownStays
  <2>4. ASSUME faults' = 0, NEW u \in Tasks, stage'[u] \notin {"persist", "apply", "delete"}
        PROVE  out'[u] = 0
    BY <1>1, <1>2, <2>4 DEF ListInv, OutputsInv
  <2> QED  BY <2>3, <2>4 DEF ListInv, OutputsInv, AllKnown
<1>10. ASSUME live \cap marked' \cap Held(t) = {}  PROVE MarksKept
  BY <1>3, <1>10 DEF MarksKept, Stuck
<1> QED  BY <1>7, <1>8, <1>9, <1>10 DEF ListInv

\* The merge: the rows of the output are those of the inputs.
LEMMA MergeLists ==
    ASSUME CompactionInv, RowsInv, ListInv, NEW t \in Tasks, MergeInputs(t)
    PROVE  ListInv' /\ MarksKept
<1> USE DEF picker, writers
<1>1. /\ stage[t] = "merge" /\ nextFile \in FileId /\ nextFile' = nextFile + 1
      /\ rows' = [rows EXCEPT ![nextFile] = UNION {rows[f] : f \in task[t].inputs}]
      /\ objects' = objects \cup {nextFile} /\ out' = [out EXCEPT ![t] = nextFile]
      /\ Goto(t, "persist")
      /\ UNCHANGED <<stored, live, marked, seen, task, left, writing, applying, faults, history>>
  BY DEF MergeInputs
<1>2. /\ \A u \in Tasks : u # t => stage'[u] = stage[u] /\ out'[u] = out[u]
      /\ stage'[t] = "persist" /\ out'[t] = nextFile
  BY <1>1 DEF Goto, CompactionInv, Shape
<1>3. /\ \A u \in Tasks : Held(u)' = Held(u) /\ Files(u)' = Files(u)
      /\ \A u \in Tasks : u # t => Fresh(u)' = Fresh(u)
      /\ Fresh(t)' = {nextFile}
  BY <1>1, <1>2 DEF Held, Files, Fresh
<1>4. Old' = Old \cup {nextFile} /\ nextFile \notin Old /\ Old \subseteq FileId
  BY <1>1, Ids DEF CompactionInv
<1>5. /\ \A f \in FileId : f # nextFile => rows'[f] = rows[f]
      /\ rows'[nextFile] = UNION {rows[f] : f \in task[t].inputs}
  BY <1>1 DEF RowsInv, RowsShape
<1>6. CacheInv'
  <2>1. InCache'
    BY <1>1, <1>2, <1>3 DEF ListInv, CacheInv, InCache
  <2>2. FreshUnmarked'
    BY <1>1, <1>3, <1>4 DEF ListInv, CacheInv, FreshUnmarked, Pending
  <2>3. SlotsFree'
    BY <1>2, <1>3 DEF ListInv, CacheInv, SlotsFree
  <2> QED  BY <2>1, <2>2, <2>3 DEF CacheInv
<1>7. ASSUME OnceInv  PROVE OnceInv'
  <2>1. InStore'
    BY <1>1, <1>2, <1>3, <1>7 DEF OnceInv, InStore
  <2>2. ASSUME NEW f \in writing'
        PROVE  rows'[f] = {f} /\ \A g \in FileId : f \in rows'[g] => g = f
    <3>1. f \in writing /\ f \in Old /\ f \notin task[t].inputs
      BY <1>1, <2>2 DEF CompactionInv, Shape, FreshOK, Pending, Files
    <3>2. task[t].inputs \subseteq FileId
      BY DEF CompactionInv, Shape
    <3>3. rows[f] = {f} /\ \A g \in FileId : f \in rows[g] => g = f
      BY <1>7, <3>1 DEF OnceInv, RowSources, OwnRows
    <3>4. \A g \in task[t].inputs : f \notin rows[g]
      BY <3>1, <3>2, <3>3
    <3>5. f \notin rows'[nextFile]
      BY <1>5, <3>4
    <3> QED  BY <1>4, <1>5, <3>1, <3>3, <3>5
  <2>3. ASSUME NEW u \in Tasks, stage'[u] = "persist", NEW w \in rows'[out'[u]]
        PROVE  \E f \in task'[u].inputs : w \in rows'[f]
    <3>1. task[u].inputs \subseteq Old
      BY DEF CompactionInv, Shape, Files
    <3>2. \A f \in task[u].inputs : rows'[f] = rows[f]
      BY <1>4, <1>5, <3>1
    <3>3. CASE u = t
      BY <1>1, <1>2, <1>5, <2>3, <3>2, <3>3
    <3>4. CASE u # t
      <4>1. stage[u] = "persist" /\ out[u] \in Old
        BY <1>2, <2>3, <3>4 DEF CompactionInv, FreshOK, Fresh, Shape
      <4>2. w \in rows[out[u]]
        BY <1>2, <1>4, <1>5, <2>3, <3>4, <4>1
      <4>3. PICK f \in task[u].inputs : w \in rows[f]
        BY <1>7, <4>1, <4>2 DEF OnceInv, RowSources, OwnRows, OutputRows
      <4> QED  BY <1>1, <3>2, <4>3
    <3> QED  BY <3>3, <3>4
  <2>4. RowsListedOnce'
    <3>1. stored \subseteq Old
      BY DEF CompactionInv, Shape
    <3> QED  BY <1>1, <1>4, <1>5, <1>7, <3>1 DEF OnceInv, RowsListedOnce, RowsAreDisjoint
  <2> QED  BY <2>1, <2>2, <2>3, <2>4 DEF OnceInv, RowSources, OwnRows, OutputRows
<1>8. OutputsInv'
  <2>1. 0 \notin objects
    BY DEF CompactionInv, Shape, Old
  <2>2. faults = 0 => out[t] \notin objects
    BY <1>1, <2>1 DEF ListInv, OutputsInv
  <2>3. ASSUME faults' = 0, NEW o \in objects'  PROVE Known(o)'
    <3>1. CASE o = nextFile
      BY <1>2, <3>1 DEF Known, Has
    <3>2. CASE o \in objects
      <4>1. Known(o) /\ o # out[t]
        BY <1>1, <2>2, <2>3, <3>2 DEF ListInv, OutputsInv, AllKnown
      <4>2. \A u \in Tasks : Has(u, o) => Has(u, o)'
        BY <1>1, <1>2, <4>1 DEF Has
      <4> QED  BY <1>1, <4>1, <4>2, KnownStays
    <3> QED  BY <1>1, <2>3, <3>1, <3>2
  <2>4. ASSUME faults' = 0, NEW u \in Tasks, stage'[u] \notin {"persist", "apply", "delete"}
        PROVE  out'[u] = 0
    BY <1>1, <1>2, <2>4 DEF ListInv, OutputsInv
  <2> QED  BY <1>1, <2>3, <2>4 DEF ListInv, OutputsInv, AllKnown
<1>9. MarksKept
  BY <1>1, <1>3 DEF MarksKept, Stuck
<1> QED  BY <1>6, <1>7, <1>8, <1>9 DEF ListInv

\* The update of the manifest is persisted: one file takes the place of files
\* that are listed, with rows that were in them.
LEMMA PersistLists ==
    ASSUME CompactionInv, RowsInv, ListInv, NEW t \in Tasks, UpdatePersisted(t)
    PROVE  ListInv' /\ MarksKept
<1> USE DEF file, picker, writers
<1>1. /\ stage[t] = "persist" /\ stored' = (stored \ Files(t)) \cup {out[t]}
      /\ UNCHANGED <<objects, rows, live, marked, seen, task, left, out, writing, applying,
                     nextFile, returned>>
  BY DEF UpdatePersisted, Replaced
<1>2. /\ \A u \in Tasks : u # t => stage'[u] = stage[u]
      /\ stage'[t] \in {"apply", "failed"} /\ ("lost_ack" \notin Faults => stage'[t] = "apply")
  BY DEF UpdatePersisted, Fault, Goto, CompactionInv, Shape
<1>3. faults' \in Nat /\ (faults' = 0 => faults = 0 /\ stage'[t] = "apply")
  BY DEF UpdatePersisted, Fault, Goto, CompactionInv, Shape, ListInv, OutputsInv
<1>4. \A u \in Tasks : Held(u)' = Held(u) /\ Files(u)' = Files(u) /\ Fresh(u)' \subseteq Fresh(u)
  BY <1>1, <1>2 DEF Held, Files, Fresh
<1>5. Held(t) = Files(t) /\ Files(t) \subseteq marked /\ Files(t) \subseteq live
  BY <1>1 DEF Held, CompactionInv, HeldOK, ListInv, CacheInv, InCache
<1>6. Old' = Old /\ Pending' = Pending
  BY <1>1 DEF Old, Pending
<1>7. CacheInv'
  <2>1. InCache'
    BY <1>1, <1>2, <1>4 DEF ListInv, CacheInv, InCache
  <2>2. FreshUnmarked'
    BY <1>1, <1>4, <1>6 DEF ListInv, CacheInv, FreshUnmarked
  <2>3. SlotsFree'
    BY <1>2, <1>4 DEF ListInv, CacheInv, SlotsFree
  <2> QED  BY <2>1, <2>2, <2>3 DEF CacheInv
<1>8. ASSUME OnceInv, "lost_ack" \notin Faults  PROVE OnceInv'
  <2>1. \A u \in Tasks : u # t => Held(u) \cap Files(t) = {}
    BY <1>5 DEF CompactionInv, HeldOK, NoSharedFile
  <2>2. \A u \in Tasks : stage[u] = "apply" => out[u] \notin Files(t)
    BY DEF CompactionInv, FreshOK, Fresh
  <2>3. InStore'
    <3>1. seen' \ marked' \subseteq stored' /\ live' \ marked' \subseteq stored'
      BY <1>1, <1>5, <1>8 DEF OnceInv, InStore
    <3>2. \A u \in Tasks : stage'[u] \notin {"apply", "delete"} => Held(u)' \subseteq stored'
      BY <1>1, <1>2, <1>4, <1>8, <2>1 DEF OnceInv, InStore
    <3>3. \A u \in Tasks : stage'[u] = "apply" => out'[u] \in stored'
      BY <1>1, <1>2, <1>8, <2>2 DEF OnceInv, InStore
    <3> QED  BY <3>1, <3>2, <3>3 DEF InStore
  <2>4. RowSources'
    BY <1>1, <1>2, <1>8, SourcesStay DEF OnceInv
  <2>5. RowsListedOnce'
    <3> SUFFICES ASSUME returned = {}  PROVE RowsAreDisjoint'
      BY <1>1 DEF RowsListedOnce
    <3>1. RowsAreDisjoint
      BY <1>8 DEF OnceInv, RowsListedOnce
    <3>2. \A w \in rows[out[t]] : \E f \in Files(t) : w \in rows[f]
      BY <1>1, <1>8 DEF OnceInv, RowSources, OwnRows, OutputRows, Files
    <3>3. Files(t) \subseteq stored
      BY <1>1, <1>5, <1>8 DEF OnceInv, InStore
    <3>4. \A g \in stored \ Files(t) : rows[g] \cap rows[out[t]] = {}
      <4>1. ASSUME NEW g \in stored \ Files(t), NEW w \in rows[out[t]]
            PROVE  w \notin rows[g]
        <5>1. PICK f \in Files(t) : w \in rows[f]
          BY <3>2, <4>1
        <5>2. f \in stored /\ f # g
          BY <3>3, <4>1, <5>1
        <5>3. rows[f] \cap rows[g] = {}
          BY <3>1, <4>1, <5>2 DEF RowsAreDisjoint
        <5> QED  BY <5>1, <5>3
      <4> QED  BY <4>1
    <3> QED  BY <1>1, <3>1, <3>4 DEF RowsAreDisjoint
  <2> QED  BY <2>3, <2>4, <2>5 DEF OnceInv
<1>9. OutputsInv'
  <2>1. ASSUME faults' = 0, NEW o \in objects'  PROVE Known(o)'
    <3>1. Known(o)
      BY <1>1, <1>3, <2>1 DEF ListInv, OutputsInv, AllKnown
    <3>2. \A u \in Tasks : Has(u, o) => Has(u, o)'
      BY <1>1, <1>2, <1>3, <2>1 DEF Has
    <3>3. o \in stored => o \in stored' \/ o \in live'
      BY <1>1, <1>5
    <3> QED  BY <1>1, <3>1, <3>2, <3>3 DEF Known
  <2>2. ASSUME faults' = 0, NEW u \in Tasks, stage'[u] \notin {"persist", "apply", "delete"}
        PROVE  out'[u] = 0
    BY <1>1, <1>2, <1>3, <2>2 DEF ListInv, OutputsInv
  <2> QED  BY <1>3, <2>1, <2>2 DEF OutputsInv, AllKnown
<1>10. MarksKept
  BY <1>1, <1>4 DEF MarksKept, Stuck
<1> QED  BY <1>7, <1>8, <1>9, <1>10 DEF ListInv

\* ... and applied to the cache.
LEMMA AppliedLists ==
    ASSUME CompactionInv, RowsInv, ListInv, NEW t \in Tasks, UpdateApplied(t)
    PROVE  ListInv' /\ MarksKept
<1> USE DEF store, file, picker, writers
<1>1. /\ stage[t] = "apply" /\ live' = (live \ Files(t)) \cup {out[t]}
      /\ left' = [left EXCEPT ![t] = Files(t)] /\ Goto(t, "delete")
      /\ UNCHANGED <<objects, stored, rows, marked, seen, task, out, writing, applying,
                     nextFile, faults, history>>
  BY DEF UpdateApplied, Replaced, ToDelete
<1>2. /\ \A u \in Tasks : u # t => stage'[u] = stage[u] /\ left'[u] = left[u]
      /\ stage'[t] = "delete" /\ left'[t] = Files(t)
  BY <1>1 DEF Goto, CompactionInv, Shape
<1>3. \A u \in Tasks : Held(u)' = Held(u) /\ Files(u)' = Files(u) /\ Fresh(u)' \subseteq Fresh(u)
  BY <1>1, <1>2 DEF Held, Files, Fresh
<1>4. Held(t) = Files(t) /\ Files(t) \subseteq marked /\ out[t] \notin marked
  BY <1>1 DEF Held, Fresh, CompactionInv, HeldOK, ListInv, CacheInv, FreshUnmarked
<1>5. \A u \in Tasks : u # t => Held(u) \cap Files(t) = {}
  BY <1>4 DEF CompactionInv, HeldOK, NoSharedFile
<1>6. Old' = Old /\ Pending' = Pending
  BY <1>1 DEF Old, Pending
<1>7. CacheInv'
  <2>1. InCache'
    BY <1>1, <1>2, <1>3, <1>4, <1>5 DEF ListInv, CacheInv, InCache
  <2>2. FreshUnmarked'
    BY <1>1, <1>3, <1>6 DEF ListInv, CacheInv, FreshUnmarked
  <2>3. SlotsFree'
    BY <1>2, <1>3 DEF ListInv, CacheInv, SlotsFree
  <2> QED  BY <2>1, <2>2, <2>3 DEF CacheInv
<1>8. ASSUME OnceInv  PROVE OnceInv'
  <2>1. InStore'
    BY <1>1, <1>2, <1>3, <1>8 DEF OnceInv, InStore
  <2>2. RowSources'
    BY <1>1, <1>2, <1>8, SourcesStay DEF OnceInv
  <2>3. RowsListedOnce'
    BY <1>1, <1>8 DEF OnceInv, RowsListedOnce, RowsAreDisjoint
  <2> QED  BY <2>1, <2>2, <2>3 DEF OnceInv
<1>9. OutputsInv'
  <2>1. ASSUME faults' = 0, NEW o \in objects'  PROVE Known(o)'
    <3>1. Known(o)
      BY <1>1, <2>1 DEF ListInv, OutputsInv, AllKnown
    <3>2. \A u \in Tasks : u # t /\ Has(u, o) => Has(u, o)'
      BY <1>1, <1>2 DEF Has
    <3>3. Has(t, o) => o \in live'
      BY <1>1 DEF Has
    <3>4. o \in live => o \in live' \/ Has(t, o)'
      BY <1>1, <1>2 DEF Has
    <3> QED  BY <1>1, <3>1, <3>2, <3>3, <3>4 DEF Known
  <2>2. ASSUME faults' = 0, NEW u \in Tasks, stage'[u] \notin {"persist", "apply", "delete"}
        PROVE  out'[u] = 0
    BY <1>1, <1>2, <2>2 DEF ListInv, OutputsInv
  <2> QED  BY <1>1, <2>1, <2>2 DEF ListInv, OutputsInv, AllKnown
<1>10. MarksKept
  BY <1>1, <1>3, <1>4 DEF MarksKept, Stuck
<1> QED  BY <1>7, <1>8, <1>9, <1>10 DEF ListInv
-----------------------------------------------------------------------------
\* The steps of a task.  Only a panic in pre_check leaves marks behind.
LEMMA TaskLists ==
    ASSUME CompactionInv, RowsInv, ListInv, NEW t \in Tasks, TaskStep(t)
    PROVE  ListInv' /\ (~PreCheckPanics(t) => MarksKept)
<1> USE DEF store, file, picker, writers
<1>1. CASE PreCheck(t)
  <2>1. PICK s \in {"admit", "failed"} : Goto(t, s)
    BY <1>1 DEF PreCheck
  <2>2. /\ stage[t] = "spawned"
        /\ UNCHANGED <<objects, stored, rows, live, marked, seen, task, left, out, writing,
                       applying, nextFile, faults, history>>
    BY <1>1 DEF PreCheck
  <2> QED  BY <2>1, <2>2, AdvanceLists DEF ListInv, OutputsInv
<1>2. CASE PreCheckPanics(t)
  <2>1. /\ stage[t] = "spawned" /\ Finish(t)
        /\ UNCHANGED <<objects, stored, rows, live, marked, seen, writing, applying, nextFile,
                       faults, history>>
    BY <1>2 DEF PreCheckPanics
  <2> QED  BY <1>2, <2>1, OverLists
<1>3. CASE Admit(t)
  <2>1. /\ stage[t] = "admit" /\ Goto(t, "merge")
        /\ UNCHANGED <<objects, stored, rows, live, marked, seen, task, left, out, writing,
                       applying, nextFile, faults, history>>
    BY <1>3 DEF Admit
  <2> QED  BY <2>1, AdvanceLists DEF ListInv, OutputsInv
<1>4. CASE MergeInputs(t)  BY <1>4, MergeLists
<1>5. CASE MergeFails(t)
  <2>1. /\ stage[t] = "merge" /\ Goto(t, "failed") /\ nextFile' \in {nextFile, nextFile + 1}
        /\ UNCHANGED <<stored, rows, live, marked, seen, task, left, out, writing, applying,
                       history>>
    BY <1>5 DEF MergeFails
  <2>2. faults' \in Nat /\ (faults' = 0 => faults = 0 /\ objects' = objects)
    <3>1. faults \in Nat
      BY DEF ListInv, OutputsInv
    <3>2. UNCHANGED <<faults, objects>> \/ faults' = faults + 1
      BY <1>5 DEF MergeFails, Fault
    <3> QED  BY <3>1, <3>2
  <2> QED  BY <2>1, <2>2, AdvanceLists
<1>6. CASE UpdatePersisted(t)  BY <1>6, PersistLists
<1>7. CASE UpdateFails(t)
  <2>1. /\ stage[t] = "persist" /\ Goto(t, "failed")
        /\ UNCHANGED <<stored, rows, live, marked, seen, task, left, out, writing, applying,
                       nextFile, history>>
    BY <1>7 DEF UpdateFails
  <2>2. faults' = faults + 1 /\ faults \in Nat
    BY <1>7 DEF UpdateFails, Fault, ListInv, OutputsInv
  <2> QED  BY <2>1, <2>2, AdvanceLists
<1>8. CASE UpdateApplied(t)  BY <1>8, AppliedLists
<1>9. ASSUME NEW f \in FileId, DeleteSst(t, f)  PROVE ListInv' /\ MarksKept
  <2>1. /\ stage[t] = "delete" /\ left' = [left EXCEPT ![t] = @ \ {f}]
        /\ UNCHANGED <<stored, rows, live, marked, seen, task, stage, out, writing, applying,
                       nextFile, history>>
    BY <1>9 DEF DeleteSst
  <2>2. faults' \in Nat /\ (faults' = 0 => faults = 0 /\ objects' = objects \ {f})
    <3>1. faults \in Nat
      BY DEF ListInv, OutputsInv
    <3>2. (objects' = objects \ {f} /\ faults' = faults) \/ faults' = faults + 1
      BY <1>9 DEF DeleteSst, Fault
    <3> QED  BY <3>1, <3>2
  <2>3. (\A u \in Tasks : u # t => left'[u] = left[u]) /\ left'[t] = left[t] \ {f}
    BY <2>1 DEF CompactionInv, Shape
  <2>4. \A u \in Tasks : Held(u)' = Held(u) /\ Files(u)' = Files(u) /\ Fresh(u)' = Fresh(u)
    BY <2>1, <2>3 DEF Held, Files, Fresh
  <2>5. CacheInv'
    BY <2>1, <2>4 DEF ListInv, CacheInv, InCache, FreshUnmarked, SlotsFree, Pending, Old
  <2>6. OnceInv => OnceInv'
    <3> SUFFICES ASSUME OnceInv  PROVE OnceInv'
      OBVIOUS
    <3>1. InStore'
      BY <2>1, <2>4 DEF OnceInv, InStore
    <3>2. RowSources'
      BY <2>1, SourcesStay DEF OnceInv
    <3>3. RowsListedOnce'
      BY <2>1 DEF OnceInv, RowsListedOnce, RowsAreDisjoint
    <3> QED  BY <3>1, <3>2, <3>3 DEF OnceInv
  <2>7. OutputsInv'
    <3>1. AllKnown'
      <4> SUFFICES ASSUME faults' = 0, NEW o \in objects'  PROVE Known(o)'
        BY DEF AllKnown
      <4>1. Known(o) /\ o # f
        BY <2>2 DEF ListInv, OutputsInv, AllKnown
      <4>2. \A u \in Tasks : Has(u, o) => Has(u, o)'
        BY <2>1, <2>3, <4>1 DEF Has
      <4> QED  BY <2>1, <4>1, <4>2, KnownStays
    <3> QED  BY <2>1, <2>2, <3>1 DEF ListInv, OutputsInv
  <2>8. MarksKept
    BY <2>1, <2>4 DEF MarksKept, Stuck
  <2> QED  BY <2>5, <2>6, <2>7, <2>8 DEF ListInv
<1>10. ASSUME NEW f \in FileId, Unmark(t, f)  PROVE ListInv' /\ MarksKept
  <2>1. /\ stage[t] = "unmark" /\ f \in left[t] /\ marked' = marked \ {f}
        /\ UNCHANGED <<objects, stored, rows, live, seen, writing, applying, nextFile, faults,
                       history>>
    BY <1>10 DEF Unmark
  <2>2. Held(t) = left[t]
    BY <2>1 DEF Held
  <2>3. CASE left[t] = {f}
    <3>1. Finish(t)
      BY <1>10, <2>3 DEF Unmark
    <3> QED  BY <2>1, <2>2, <2>3, <3>1, OverLists
  <2>4. CASE left[t] # {f}
    <3>1. left' = [left EXCEPT ![t] = @ \ {f}] /\ UNCHANGED <<task, stage, out>>
      BY <1>10, <2>4 DEF Unmark
    <3>2. (\A u \in Tasks : u # t => left'[u] = left[u]) /\ left'[t] = left[t] \ {f}
      BY <3>1 DEF CompactionInv, Shape
    <3>3. /\ \A u \in Tasks : Files(u)' = Files(u) /\ Fresh(u)' = Fresh(u)
          /\ \A u \in Tasks : u # t => Held(u)' = Held(u)
          /\ Held(t)' = Held(t) \ {f}
      BY <2>1, <2>2, <3>1, <3>2 DEF Held, Files, Fresh
    <3>4. f \in live /\ (OnceInv => f \in stored)
      BY <2>1, <2>2 DEF ListInv, CacheInv, InCache, OnceInv, InStore
    <3>5. CacheInv'
      <4>1. InCache'
        BY <2>1, <3>1, <3>3, <3>4 DEF ListInv, CacheInv, InCache
      <4> QED  BY <2>1, <3>1, <3>3, <4>1
               DEF ListInv, CacheInv, FreshUnmarked, SlotsFree, Pending, Old
    <3>6. ASSUME OnceInv  PROVE OnceInv'
      <4>1. InStore'
        BY <2>1, <3>1, <3>3, <3>4, <3>6 DEF OnceInv, InStore
      <4>2. RowSources'
        BY <2>1, <3>1, <3>6, SourcesStay DEF OnceInv
      <4>3. RowsListedOnce'
        BY <2>1, <3>6 DEF OnceInv, RowsListedOnce, RowsAreDisjoint
      <4> QED  BY <4>1, <4>2, <4>3 DEF OnceInv
    <3>7. OutputsInv'
      <4>1. AllKnown'
        <5> SUFFICES ASSUME faults' = 0, NEW o \in objects'  PROVE Known(o)'
          BY DEF AllKnown
        <5>1. Known(o)
          BY <2>1 DEF ListInv, OutputsInv, AllKnown
        <5>2. \A u \in Tasks : Has(u, o) => Has(u, o)'
          BY <2>1, <3>1, <3>2 DEF Has
        <5> QED  BY <2>1, <5>1, <5>2, KnownStays
      <4> QED  BY <2>1, <3>1, <4>1 DEF ListInv, OutputsInv
    <3>8. MarksKept
      BY <2>1, <3>3 DEF MarksKept, Stuck
    <3> QED  BY <3>5, <3>6, <3>7, <3>8 DEF ListInv
  <2> QED  BY <2>3, <2>4
<1>11. CASE OnSuccess(t)
  <2>1. /\ stage[t] = "delete" /\ left[t] = {} /\ Finish(t)
        /\ UNCHANGED <<objects, stored, rows, live, marked, seen, writing, applying, nextFile,
                       faults, history>>
    BY <1>11 DEF OnSuccess
  <2>2. live \cap Held(t) = {}
    BY <2>1 DEF CompactionInv, DroppedOK, Held
  <2> QED  BY <2>1, <2>2, OverLists
<1>12. CASE OnFailure(t)
  <2>1. /\ stage[t] = "failed" /\ left' = [left EXCEPT ![t] = Files(t)] /\ Goto(t, "unmark")
        /\ UNCHANGED <<objects, stored, rows, live, marked, seen, task, out, writing, applying,
                       nextFile, faults, history>>
    BY <1>12 DEF OnFailure, ToUnmark
  <2>2. /\ \A u \in Tasks : u # t => stage'[u] = stage[u] /\ left'[u] = left[u]
        /\ stage'[t] = "unmark" /\ left'[t] = Files(t)
    BY <2>1 DEF Goto, CompactionInv, Shape
  <2>3. \A u \in Tasks : Held(u)' = Held(u) /\ Files(u)' = Files(u) /\ Fresh(u)' = Fresh(u)
    BY <2>1, <2>2 DEF Held, Files, Fresh
  <2>4. CacheInv'
    <3>1. InCache' /\ SlotsFree'
      BY <2>1, <2>2, <2>3 DEF ListInv, CacheInv, InCache, SlotsFree
    <3> QED  BY <2>1, <2>3, <3>1 DEF ListInv, CacheInv, FreshUnmarked, Pending, Old
  <2>5. ASSUME OnceInv  PROVE OnceInv'
    <3>1. InStore'
      BY <2>1, <2>2, <2>3, <2>5 DEF OnceInv, InStore
    <3>2. RowSources'
      BY <2>1, <2>2, <2>5, SourcesStay DEF OnceInv
    <3>3. RowsListedOnce'
      BY <2>1, <2>5 DEF OnceInv, RowsListedOnce, RowsAreDisjoint
    <3> QED  BY <3>1, <3>2, <3>3 DEF OnceInv
  <2>6. OutputsInv'
    <3>1. ASSUME faults' = 0, NEW o \in objects'  PROVE Known(o)'
      <4>1. Known(o)
        BY <2>1, <3>1 DEF ListInv, OutputsInv, AllKnown
      <4>2. \A u \in Tasks : Has(u, o) => Has(u, o)'
        BY <2>1, <2>2 DEF Has
      <4> QED  BY <2>1, <4>1, <4>2, KnownStays
    <3>2. ASSUME faults' = 0, NEW u \in Tasks, stage'[u] \notin {"persist", "apply", "delete"}
          PROVE  out'[u] = 0
      BY <2>1, <2>2, <3>2 DEF ListInv, OutputsInv
    <3> QED  BY <2>1, <3>1, <3>2 DEF ListInv, OutputsInv, AllKnown
  <2>7. MarksKept
    BY <2>1, <2>3 DEF MarksKept, Stuck
  <2> QED  BY <2>4, <2>5, <2>6, <2>7 DEF ListInv
<1> QED  BY <1>1, <1>2, <1>3, <1>4, <1>5, <1>6, <1>7, <1>8, <1>9, <1>10, <1>11, <1>12
         DEF TaskStep
-----------------------------------------------------------------------------
\* A crash forgets the marks together with the tasks.
LEMMA CrashLists ==
    ASSUME CompactionInv, ListInv, Crash
    PROVE  ListInv' /\ MarksKept
<1> USE DEF store, file
<1>1. /\ live' = stored' /\ seen' = stored' /\ marked' = {} /\ writing' = {} /\ applying' = {}
      /\ task' = [t \in Tasks |-> NoTask] /\ stage' = [t \in Tasks |-> "free"]
      /\ returned' = {} => returned = {} /\ stored' = stored
      /\ UNCHANGED <<rows, nextFile>>
  BY DEF Crash
<1>2. \A t \in Tasks : /\ Held(t)' = {} /\ Files(t)' = {} /\ Fresh(t)' = {}
                       /\ stage'[t] = "free"
  BY <1>1 DEF Held, Files, Fresh, NoTask
<1>3. faults' \in Nat /\ faults' # 0
  <2>1. faults \in Nat
    BY DEF ListInv, OutputsInv
  <2>2. faults' = faults + 1
    BY DEF Crash, Fault
  <2> QED  BY <2>1, <2>2
<1>4. CacheInv'
  BY <1>1, <1>2 DEF CacheInv, InCache, FreshUnmarked, SlotsFree, Pending
<1>5. ASSUME OnceInv  PROVE OnceInv'
  <2>1. InStore'
    BY <1>1, <1>2, <1>5 DEF OnceInv, InStore
  <2>2. OwnRows'
    BY <1>1 DEF OwnRows
  <2>3. OutputRows'
    BY <1>2 DEF OutputRows
  <2>4. RowsListedOnce'
    BY <1>1, <1>5 DEF OnceInv, RowsListedOnce, RowsAreDisjoint
  <2> QED  BY <2>1, <2>2, <2>3, <2>4 DEF OnceInv, RowSources
<1>6. OutputsInv' /\ MarksKept
  BY <1>1, <1>3 DEF OutputsInv, AllKnown, MarksKept, Stuck
<1> QED  BY <1>4, <1>5, <1>6 DEF ListInv

\* The steps that leave marks behind: a task that the channel has no room for,
\* and a panic in pre_check.
Leaks ==
    \/ /\ ~(Len(queue) < MaxPending)
       /\ \E t \in Tasks, picked \in PickCandidate(meta, seen, marked, now) :
             PickAndSend(t, picked)
    \/ \E t \in Tasks : PreCheckPanics(t)

\* Every step keeps the invariant, and only those leave marks behind.
LEMMA StepLists ==
    ASSUME CompactionInv, RowsInv, ListInv, [Next]_vars
    PROVE  ListInv' /\ (Leaks \/ MarksKept)
<1> USE DEF store, file, picker, tasks, writers
<1>1. CASE WriteStep  BY <1>1, WriteLists
<1>2. CASE TriggerCompaction
  BY <1>2, IdleLists DEF TriggerCompaction
<1>3. CASE TimerFires \/ TriggerReceived
  <2>1. WakeUp
    BY <1>3 DEF TimerFires, TriggerReceived
  <2> QED  BY <2>1, IdleLists DEF WakeUp
<1>4. ASSUME NEW t \in Tasks, NEW picked \in PickCandidate(meta, seen, marked, now),
             PickAndSend(t, picked)
      PROVE  ListInv' /\ (Leaks \/ MarksKept)
  BY <1>4, PickLists DEF Leaks
<1>5. CASE PickNothing
  BY <1>5, IdleLists DEF PickNothing
<1>6. CASE SubmitTask
  <2> DEFINE t == Head(queue)
  <2>1. /\ queue # <<>> /\ Goto(t, "spawned")
        /\ UNCHANGED <<objects, stored, rows, live, marked, seen, task, left, out, writing,
                       applying, nextFile, faults, history>>
    BY <1>6 DEF SubmitTask
  <2>2. t \in Tasks /\ stage[t] = "queued"
    BY <2>1 DEF CompactionInv, Shape, QueueOK
  <2> HIDE DEF t
  <2> QED  BY <2>1, <2>2, AdvanceLists DEF ListInv, OutputsInv
<1>7. ASSUME NEW t \in Tasks, TaskStep(t)  PROVE ListInv' /\ (Leaks \/ MarksKept)
  BY <1>7, TaskLists DEF Leaks
<1>8. CASE ClockTicks
  BY <1>8, IdleLists DEF ClockTicks
<1>9. CASE Crash  BY <1>9, CrashLists
<1>10. CASE UNCHANGED vars
  BY <1>10, IdleLists DEF vars
<1> QED  BY <1>1, <1>2, <1>3, <1>4, <1>5, <1>6, <1>7, <1>8, <1>9, <1>10 DEF Next, Pick

\* The invariant holds in every reachable state.
THEOREM ListInvariant == Spec => []ListInv
<1>1. CompactionInv /\ RowsInv /\ ListInv /\ [Next]_vars => ListInv'
  BY StepLists
<1> QED  BY <1>1, InitLists, CompactionInvariant, RowsInvariant, PTL DEF Spec
-----------------------------------------------------------------------------
\* As long as no answer of the manifest is lost, the rows of a write are in one
\* listed file only, so a scan in Append mode returns no byte twice, whatever
\* fails and whenever the process dies, until a restart brings a replaced file
\* back (do_compaction, Manifest::update).
THEOREM RowsAreListedOnce ==
    ASSUME "lost_ack" \notin Faults
    PROVE  Spec => []RowsListedOnce
<1>1. ListInv => RowsListedOnce
  BY DEF ListInv, OnceInv
<1> QED  BY <1>1, ListInvariant, PTL

\* Until a call fails or the process dies, every object is listed, or is the
\* output of a write or a task under way, or is about to be deleted by one
\* (CloudObjectStorage::write, do_compaction, delete_ssts).
THEOREM ObjectsAreAccountedFor == Spec => []NoOrphans
<1>1. ListInv => NoOrphans
  BY NoOrphansMeans DEF ListInv, OutputsInv
<1> QED  BY <1>1, ListInvariant, PTL

\* A listed file is left marked without a task in two cases only: a task is
\* dropped at the full channel, or panics in pre_check.  No success, failure or
\* refusal leaves one, whatever else runs at the same time (pick_once, pre_check,
\* on_success, on_failure).
THEOREM NoMarkIsLeftBehind == Spec => MarksAreReleased
<1>1. CompactionInv /\ Leaks =>
        \/ picking /\ ~picking' /\ ~(Len(queue) < MaxPending)
        \/ \E t \in Tasks : stage[t] = "spawned" /\ stage'[t] = "free"
  <2> SUFFICES ASSUME CompactionInv, Leaks
               PROVE  \/ picking /\ ~picking' /\ ~(Len(queue) < MaxPending)
                      \/ \E t \in Tasks : stage[t] = "spawned" /\ stage'[t] = "free"
    OBVIOUS
  <2>1. ASSUME NEW t \in Tasks, PreCheckPanics(t)
        PROVE  stage[t] = "spawned" /\ stage'[t] = "free"
    BY <2>1 DEF PreCheckPanics, Finish, Goto, CompactionInv, Shape
  <2>2. ASSUME NEW t \in Tasks, NEW picked, PickAndSend(t, picked)
        PROVE  picking /\ ~picking'
    BY <2>2 DEF PickAndSend
  <2> QED  BY <2>1, <2>2 DEF Leaks
<1>2. CompactionInv /\ RowsInv /\ ListInv /\ [Next]_vars =>
        [\/ Stuck' \subseteq Stuck
         \/ picking /\ ~picking' /\ ~(Len(queue) < MaxPending)
         \/ \E t \in Tasks : stage[t] = "spawned" /\ stage'[t] = "free"]_vars
  BY <1>1, StepLists DEF MarksKept
<1> QED  BY <1>2, CompactionInvariant, RowsInvariant, ListInvariant, PTL
         DEF Spec, MarksAreReleased
=============================================================================
