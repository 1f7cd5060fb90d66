----------------------- MODULE CompactionMemoryProofs -----------------------
(***************************************************************************)
(* The counter of the memory that tasks share, for any number of tasks:    *)
(* each step adds what it reserves and gives back what it releases.  And   *)
(* the types of all variables.                                             *)
(***************************************************************************)
EXTENDS CompactionProofs, PickerProofs

\* Most steps are first-order: Zenon is tried first, then SMT, then Zenon for longer.
USE ZenonT(3), SMTT(30), ZenonT(30)

\* What a task has reserved is in the counter until on_success or on_failure.
Reserving == {"merge", "persist", "apply", "delete", "failed"}
SizeOf == [t \in Tasks |-> TaskSize(t)]

\* The three ways in which a step may change the counter.
Follows == inused_memory' = Wrap(inused_memory + ReservedSize' - ReservedSize)
Restarts == inused_memory' = 0 /\ \A t \in Tasks : stage'[t] = "free"
Refuses == \E t \in Tasks : stage[t] = "spawned" /\ stage'[t] = "failed"
-----------------------------------------------------------------------------
\* The files of a task are finitely many, so their sizes have a sum.
LEMMA TaskSizes ==
    ASSUME Shape, RowsShape, NEW t \in Tasks
    PROVE  TaskSize(t) \in Nat
<1> DEFINE S == task[t].inputs
           w == [f \in FileId |-> meta[f].size]
<1>1. S \subseteq FileId /\ \A f \in S : w[f] = meta[f].size /\ w[f] \in Nat
  BY DEF Shape, RowsShape, FileMetas
<1>2. IsFiniteSet(S)
  <2>1. IsFiniteSet(FileId)
    BY CompactionAssumption, FS_Interval DEF FileId
  <2> HIDE DEF S
  <2> QED  BY <1>1, <2>1, FS_Subset
<1>3. TaskSize(t) = Sum(w, S)
  <2>1. InputSize(meta, S) = Sum(w, S)
    <3> HIDE DEF S, w
    <3> QED  BY <1>1, InputSizeIsSum
  <2> QED  BY <2>1 DEF TaskSize
<1>4. Sum(w, S) \in Nat
  <2> HIDE DEF S, w
  <2> QED  BY <1>1, <1>2, SumNat
<1> QED  BY <1>3, <1>4

\* A task keeps its size: what is known of its files does not change.
LEMMA SizeStays ==
    ASSUME Shape, RowsShape, NEW t \in Tasks, task'[t] = task[t],
           \A f \in Old : meta'[f] = meta[f]
    PROVE  TaskSize(t)' = TaskSize(t)
<1> DEFINE S == task[t].inputs
           w == [f \in FileId |-> meta[f].size]
<1>1. S \subseteq FileId /\ S \subseteq Old
  BY DEF Shape, Files
<1>2. (\A f \in S : w[f] = meta[f].size) /\ \A f \in S : w[f] = meta'[f].size
  BY <1>1
<1>3. InputSize(meta, S) = Sum(w, S) /\ InputSize(meta', S) = Sum(w, S)
  <2> HIDE DEF S, w
  <2> QED  BY <1>2, InputSizeIsSum
<1>4. TaskSize(t) = InputSize(meta, S) /\ TaskSize(t)' = InputSize(meta', S)
  BY DEF TaskSize
<1> QED  BY <1>3, <1>4

\* The sum that the property is about.
LEMMA SumOfTasks ==
    ASSUME NEW S \in SUBSET Tasks
    PROVE  MapThenSumSet(TaskSize, S) = Sum(SizeOf, S)
<1> DEFINE G(sums) == [s \in SUBSET S |->
                          IF s = {} THEN 0 ELSE TaskSize(Any(s)) + sums[s \ {Any(s)}]]
           H(sums) == [s \in SUBSET S |-> SumStep(SizeOf, sums, s)]
<1>1. ASSUME NEW sums  PROVE G(sums) = H(sums)
  <2>1. \A s \in SUBSET S : s # {} => SizeOf[Any(s)] = TaskSize(Any(s))
    BY AnyIn DEF SizeOf
  <2> QED  BY <2>1 DEF SumStep
<1>2. MapThenSumSet(TaskSize, S) = (CHOOSE sums : sums = G(sums))[S]
  BY DEF MapThenSumSet, MapThenFoldSet, Any
<1>3. Sum(SizeOf, S) = (CHOOSE sums : sums = H(sums))[S]
  BY DEF Sum, Sums
<1>4. (CHOOSE sums : sums = G(sums)) = (CHOOSE sums : sums = H(sums))
  <2> HIDE DEF G, H
  <2> QED  BY <1>1
<1> QED  BY <1>2, <1>3, <1>4
-----------------------------------------------------------------------------
\* What no other invariant says of the counters and the channels.
Counters ==
    /\ picking \in BOOLEAN /\ trigger \in BOOLEAN /\ Len(queue) <= MaxPending
    /\ inused_memory \in 0..U64Max
    /\ writes \in 0..MaxWrites /\ faults \in 0..MaxFaults

\* The counter is a u64, whatever is added or subtracted.
LEMMA WrapIsU64 ==
    ASSUME NEW n \in Int
    PROVE  Wrap(n) \in 0..U64Max
<1>1. U64Max \in Nat
  BY CompactionAssumption
<1> QED  BY <1>1 DEF Wrap

\* Every step keeps the counters in their ranges.
LEMMA StepCounters ==
    ASSUME Shape, RowsShape, Counters, [Next]_vars
    PROVE  Counters'
<1> DEFINE Flags == /\ picking' \in {picking, TRUE, FALSE}
                    /\ trigger' \in {trigger, TRUE, FALSE}
           Counts == /\ writes' = writes \/ (writes < MaxWrites /\ writes' = writes + 1)
                     /\ faults' = faults \/ (faults < MaxFaults /\ faults' = faults + 1)
           Channel == \/ queue' = queue \/ queue' = <<>>
                      \/ queue # <<>> /\ queue' = Tail(queue)
                      \/ Len(queue) < MaxPending /\ \E t \in Tasks : queue' = Append(queue, t)
           Memory == \/ inused_memory' \in {inused_memory, 0}
                     \/ \E t \in Tasks : inused_memory' \in {Wrap(inused_memory + TaskSize(t)),
                                                             Wrap(inused_memory - TaskSize(t))}
<1>1. Flags /\ Counts /\ Channel /\ Memory
  <2> USE DEF Fault, picker, writers
  <2>1. CASE WriteStep
    <3> USE <2>1 DEF WriteStep, WriteSst, AddFilePersisted, AddFileFails, AddFileApplied
    <3>1. Flags /\ Channel /\ Memory  OBVIOUS
    <3>2. Counts                     OBVIOUS
    <3> QED  BY <3>1, <3>2
  <2>2. CASE TriggerCompaction \/ TimerFires \/ TriggerReceived
    BY <2>2 DEF TriggerCompaction, TimerFires, TriggerReceived, WakeUp
  <2>3. CASE Pick
    BY <2>3 DEF Pick, PickAndSend, PickNothing
  <2>4. CASE SubmitTask
    BY <2>4 DEF SubmitTask
  <2>5. ASSUME NEW t \in Tasks, TaskStep(t)  PROVE Flags /\ Counts /\ Channel /\ Memory
    <3>1. CASE PreCheck(t) \/ PreCheckPanics(t) \/ Admit(t)
      BY <3>1 DEF PreCheck, PreCheckPanics, Admit
    <3>2. CASE MergeInputs(t) \/ MergeFails(t)
      BY <3>2 DEF MergeInputs, MergeFails
    <3>3. CASE UpdatePersisted(t) \/ UpdateFails(t) \/ UpdateApplied(t)
      BY <3>3 DEF UpdatePersisted, UpdateFails, UpdateApplied
    <3>4. ASSUME NEW f \in FileId, DeleteSst(t, f) \/ Unmark(t, f)
          PROVE  Flags /\ Counts /\ Channel /\ Memory
      BY <3>4 DEF DeleteSst, Unmark
    <3>5. CASE OnSuccess(t) \/ OnFailure(t)
      BY <3>5 DEF OnSuccess, OnFailure
    <3> HIDE DEF Flags, Counts, Channel, Memory
    <3> QED  BY <2>5, <3>1, <3>2, <3>3, <3>4, <3>5 DEF TaskStep
  <2>6. CASE ClockTicks \/ Crash
    BY <2>6 DEF ClockTicks, Crash
  <2>7. CASE UNCHANGED vars
    BY <2>7 DEF vars
  <2> HIDE DEF Flags, Counts, Channel, Memory
  <2> QED  BY <2>1, <2>2, <2>3, <2>4, <2>5, <2>6, <2>7 DEF Next
<1>2. picking' \in BOOLEAN /\ trigger' \in BOOLEAN
  BY <1>1 DEF Counters
<1>3. writes' \in 0..MaxWrites /\ faults' \in 0..MaxFaults
  BY <1>1, CompactionAssumption DEF Counters
<1>4. Len(queue') <= MaxPending
  <2>1. queue \in Seq(Tasks) /\ Len(queue) <= MaxPending /\ MaxPending \in Nat
    BY CompactionAssumption DEF Shape, Counters
  <2> QED  BY <1>1, <2>1
<1>5. inused_memory' \in 0..U64Max
  <2>1. inused_memory \in 0..U64Max /\ U64Max \in Nat
    BY CompactionAssumption DEF Counters
  <2>2. ASSUME NEW t \in Tasks
        PROVE  /\ Wrap(inused_memory + TaskSize(t)) \in 0..U64Max
               /\ Wrap(inused_memory - TaskSize(t)) \in 0..U64Max
    <3>1. inused_memory + TaskSize(t) \in Int /\ inused_memory - TaskSize(t) \in Int
      BY <2>1, TaskSizes
    <3> QED  BY <3>1, WrapIsU64
  <2> QED  BY <1>1, <2>1, <2>2
<1> QED  BY <1>2, <1>3, <1>4, <1>5 DEF Counters

\* The counters stay in their ranges.
LEMMA CountersInvariant == Spec => []Counters
<1>1. Init => Counters
  <2> SUFFICES ASSUME Init  PROVE Counters
    OBVIOUS
  <2>1. Len(queue) = 0
    BY DEF Init
  <2>2. /\ picking \in BOOLEAN /\ trigger \in BOOLEAN
        /\ inused_memory = 0 /\ writes = 0 /\ faults = 0
    BY DEF Init
  <2> QED  BY <2>1, <2>2, CompactionAssumption DEF Counters
<1>2. CompactionInv /\ RowsInv /\ Counters /\ [Next]_vars => Counters'
  BY StepCounters DEF CompactionInv, RowsInv
<1> QED  BY <1>1, <1>2, CompactionInvariant, RowsInvariant, PTL DEF Spec
-----------------------------------------------------------------------------
\* What is reserved is a sum over the tasks that have reserved.
SizeIsSum == ReservedSize = Sum(SizeOf, Reserved)

\* This is so in every state.
LEMMA ReservedSizeIsSum == SizeIsSum
<1>1. Reserved \in SUBSET Tasks
  BY DEF Reserved
<1> QED  BY <1>1, SumOfTasks DEF ReservedSize, SizeIsSum

\* The tasks that have reserved are finitely many and have sizes.
LEMMA ReservedSizes ==
    ASSUME IsFiniteSet(Tasks), Shape, RowsShape
    PROVE  /\ Reserved \subseteq Tasks /\ IsFiniteSet(Reserved)
           /\ \A t \in Tasks : SizeOf[t] = TaskSize(t) /\ SizeOf[t] \in Nat
           /\ ReservedSize = Sum(SizeOf, Reserved) /\ ReservedSize \in Nat
<1>1. Reserved \subseteq Tasks
  BY DEF Reserved
<1>2. IsFiniteSet(Reserved)
  BY <1>1, FS_Subset
<1>3. \A t \in Tasks : SizeOf[t] = TaskSize(t) /\ SizeOf[t] \in Nat
  BY TaskSizes DEF SizeOf
<1>4. Sum(SizeOf, Reserved) \in Nat
  BY <1>1, <1>2, <1>3, SumNat
<1> QED  BY <1>1, <1>2, <1>3, <1>4, ReservedSizeIsSum DEF SizeIsSum

\* The same of the next state.
LEMMA ReservedSizeNext ==
    ReservedSize' = Sum(SizeOf', Reserved')
<1>1. SizeIsSum'
  BY ReservedSizeIsSum, PTL
<1> QED  BY <1>1 DEF SizeIsSum

\* A counter that does not change is what it wraps to.
LEMMA WrapOfCounter ==
    ASSUME Counters
    PROVE  Wrap(inused_memory) = inused_memory
<1>1. inused_memory \in 0..U64Max /\ U64Max \in Nat
  BY CompactionAssumption DEF Counters
<1> QED  BY <1>1 DEF Wrap

\* A step that reserves nothing and gives nothing back.
LEMMA QuietMem ==
    ASSUME IsFiniteSet(Tasks), Shape, RowsShape, Counters, Reserved' = Reserved,
           inused_memory' = inused_memory, \A u \in Reserved : TaskSize(u)' = TaskSize(u)
    PROVE  Follows
<1>1. \A u \in Reserved : SizeOf[u] \in Nat /\ SizeOf'[u] = SizeOf[u]
  BY ReservedSizes DEF SizeOf
<1>2. Sum(SizeOf, Reserved) = Sum(SizeOf', Reserved)
  BY <1>1, ReservedSizes, SumCong
<1>3. ReservedSize' = ReservedSize
  BY <1>2, ReservedSizes, ReservedSizeNext
<1>4. inused_memory + ReservedSize' - ReservedSize = inused_memory
  <2>1. ReservedSize \in Int /\ inused_memory \in Int
    BY ReservedSizes DEF Counters
  <2> QED  BY <1>3, <2>1
<1> QED  BY <1>4, WrapOfCounter DEF Follows

\* pre_check's fetch_add.
LEMMA AdmitMem ==
    ASSUME IsFiniteSet(Tasks), Shape, RowsShape, Counters, NEW t \in Tasks, t \notin Reserved,
           Reserved' = Reserved \cup {t}, inused_memory' = Wrap(inused_memory + TaskSize(t)),
           \A u \in Tasks : TaskSize(u)' = TaskSize(u)
    PROVE  Follows
<1>1. \A u \in Reserved \cup {t} : SizeOf[u] \in Nat /\ SizeOf'[u] = SizeOf[u]
  BY ReservedSizes DEF SizeOf
<1>2. IsFiniteSet(Reserved)
  BY ReservedSizes
<1>3. Sum(SizeOf', Reserved \cup {t}) = Sum(SizeOf, Reserved) + SizeOf[t]
  BY <1>1, <1>2, SumMore
<1>4. ReservedSize' = ReservedSize + TaskSize(t)
  BY <1>3, ReservedSizes, ReservedSizeNext
<1>5. inused_memory + ReservedSize' - ReservedSize = inused_memory + TaskSize(t)
  <2>1. ReservedSize \in Int /\ inused_memory \in Int /\ TaskSize(t) \in Int
    BY ReservedSizes DEF Counters
  <2> QED  BY <1>4, <2>1
<1> QED  BY <1>5 DEF Follows

\* The fetch_sub of on_success and on_failure.
LEMMA ReleaseMem ==
    ASSUME IsFiniteSet(Tasks), Shape, RowsShape, Counters, NEW t \in Reserved,
           Reserved' = Reserved \ {t}, inused_memory' = Wrap(inused_memory - TaskSize(t)),
           \A u \in Tasks : u # t => TaskSize(u)' = TaskSize(u)
    PROVE  Follows
<1>1. /\ \A u \in Reserved : SizeOf[u] \in Nat
      /\ \A u \in Reserved \ {t} : SizeOf'[u] = SizeOf[u]
  BY ReservedSizes DEF SizeOf
<1>2. IsFiniteSet(Reserved)
  BY ReservedSizes
<1>3. Sum(SizeOf', Reserved \ {t}) = Sum(SizeOf, Reserved) - SizeOf[t]
  BY <1>1, <1>2, SumLess
<1>4. ReservedSize' = ReservedSize - TaskSize(t)
  BY <1>3, ReservedSizes, ReservedSizeNext
<1>5. inused_memory + ReservedSize' - ReservedSize = inused_memory - TaskSize(t)
  <2>1. ReservedSize \in Int /\ inused_memory \in Int /\ TaskSize(t) \in Int
    BY ReservedSizes DEF Counters
  <2> QED  BY <1>4, <2>1
<1> QED  BY <1>5 DEF Follows

\* A task goes on, or nothing happens to the tasks.
LEMMA AdvanceMem ==
    ASSUME IsFiniteSet(Tasks), Shape, RowsShape, Counters, UNCHANGED <<task, inused_memory>>,
           \A f \in Old : meta'[f] = meta[f],
           \A u \in Tasks : stage'[u] \in Reserving <=> stage[u] \in Reserving
    PROVE  Follows
<1>1. \A u \in Tasks : TaskSize(u)' = TaskSize(u)
  BY SizeStays
<1>2. Reserved' = Reserved
  BY DEF Reserved, Reserving
<1>3. \A u \in Reserved : TaskSize(u)' = TaskSize(u)
  BY <1>1 DEF Reserved
<1> QED  BY <1>2, <1>3, QuietMem

\* A task that has reserved nothing gets its files, or is over.
LEMMA SlotMem ==
    ASSUME IsFiniteSet(Tasks), Shape, RowsShape, Counters, NEW t \in Tasks,
           stage[t] \notin Reserving, stage'[t] \notin Reserving,
           UNCHANGED <<meta, inused_memory>>,
           \A u \in Tasks : u # t => task'[u] = task[u] /\ stage'[u] = stage[u]
    PROVE  Follows
<1>1. \A u \in Tasks : u # t => TaskSize(u)' = TaskSize(u)
  BY SizeStays
<1>2. Reserved' = Reserved /\ t \notin Reserved /\ Reserved \subseteq Tasks
  BY DEF Reserved, Reserving
<1>3. \A u \in Reserved : TaskSize(u)' = TaskSize(u)
  BY <1>1, <1>2
<1> QED  BY <1>2, <1>3, QuietMem

\* What Finish does to the slots.
LEMMA FinishedSlot ==
    ASSUME Shape, NEW t \in Tasks, Finish(t)
    PROVE  /\ stage'[t] = "free"
           /\ \A u \in Tasks : u # t => task'[u] = task[u] /\ stage'[u] = stage[u]
BY DEF Finish, Goto, Shape

\* What Goto does to the slots.
LEMMA WentTo ==
    ASSUME Shape, NEW t \in Tasks, NEW s, Goto(t, s)
    PROVE  stage'[t] = s /\ \A u \in Tasks : u # t => stage'[u] = stage[u]
BY DEF Goto, Shape

\* One step of a task.
LEMMA TaskMem ==
    ASSUME IsFiniteSet(Tasks), Shape, RowsShape, Counters, NEW t \in Tasks, TaskStep(t)
    PROVE  Follows \/ Refuses
<1> USE DEF file, tasks
<1>1. CASE PreCheck(t)
  <2>1. stage[t] = "spawned" /\ UNCHANGED <<meta, task, inused_memory>>
    BY <1>1 DEF PreCheck
  <2>2. CASE Goto(t, "admit")
    <3>1. \A u \in Tasks : stage'[u] \in Reserving <=> stage[u] \in Reserving
      BY <2>1, <2>2, WentTo DEF Reserving
    <3> QED  BY <2>1, <3>1, AdvanceMem
  <2>3. CASE Goto(t, "failed")
    <3>1. stage'[t] = "failed"
      BY <2>3, WentTo
    <3> QED  BY <2>1, <3>1 DEF Refuses
  <2> QED  BY <1>1, <2>2, <2>3 DEF PreCheck
<1>2. CASE PreCheckPanics(t)
  <2>1. stage[t] = "spawned" /\ Finish(t) /\ UNCHANGED <<meta, inused_memory>>
    BY <1>2 DEF PreCheckPanics
  <2>2. stage[t] \notin Reserving /\ "free" \notin Reserving
    BY <2>1 DEF Reserving
  <2> QED  BY <2>1, <2>2, FinishedSlot, SlotMem
<1>3. CASE Admit(t)
  <2>1. /\ stage[t] = "admit" /\ Goto(t, "merge") /\ UNCHANGED <<meta, task>>
        /\ inused_memory' = Wrap(inused_memory + TaskSize(t))
    BY <1>3 DEF Admit
  <2>2. stage'[t] = "merge" /\ \A u \in Tasks : u # t => stage'[u] = stage[u]
    BY <2>1, WentTo
  <2>3. t \notin Reserved /\ Reserved' = Reserved \cup {t}
    BY <2>1, <2>2 DEF Reserved
  <2>4. \A u \in Tasks : TaskSize(u)' = TaskSize(u)
    BY <2>1, SizeStays
  <2> QED  BY <2>1, <2>3, <2>4, AdmitMem
<1>4. CASE MergeInputs(t)
  <2>1. /\ stage[t] = "merge" /\ Goto(t, "persist") /\ UNCHANGED <<task, inused_memory>>
        /\ \E m : meta' = [meta EXCEPT ![nextFile] = m]
    BY <1>4 DEF MergeInputs
  <2>2. \A f \in Old : meta'[f] = meta[f]
    BY <2>1, Ids DEF RowsShape
  <2>3. \A u \in Tasks : stage'[u] \in Reserving <=> stage[u] \in Reserving
    BY <2>1, WentTo DEF Reserving
  <2> QED  BY <2>1, <2>2, <2>3, AdvanceMem
<1>5. CASE MergeFails(t) \/ UpdatePersisted(t) \/ UpdateFails(t) \/ UpdateApplied(t)
  <2>1. /\ UNCHANGED <<meta, task, inused_memory>>
        /\ stage[t] \in Reserving /\ \E s \in Reserving : Goto(t, s)
    BY <1>5 DEF MergeFails, UpdatePersisted, UpdateFails, UpdateApplied, Reserving
  <2>2. \A u \in Tasks : stage'[u] \in Reserving <=> stage[u] \in Reserving
    BY <2>1, WentTo
  <2> QED  BY <2>1, <2>2, AdvanceMem
<1>6. ASSUME NEW f \in FileId, DeleteSst(t, f)  PROVE Follows
  <2>1. UNCHANGED <<meta, task, stage, inused_memory>>
    BY <1>6 DEF DeleteSst
  <2> QED  BY <2>1, AdvanceMem
<1>7. ASSUME NEW f \in FileId, Unmark(t, f)  PROVE Follows
  <2>1. stage[t] = "unmark" /\ UNCHANGED <<meta, inused_memory>>
    BY <1>7 DEF Unmark
  <2>2. CASE Finish(t)
    <3>1. stage[t] \notin Reserving /\ "free" \notin Reserving
      BY <2>1 DEF Reserving
    <3> QED  BY <2>1, <2>2, <3>1, FinishedSlot, SlotMem
  <2>3. CASE UNCHANGED <<task, stage>>
    BY <2>1, <2>3, AdvanceMem
  <2> QED  BY <1>7, <2>2, <2>3 DEF Unmark
<1>8. CASE OnSuccess(t)
  <2>1. /\ stage[t] = "delete" /\ Finish(t) /\ UNCHANGED meta
        /\ inused_memory' = Wrap(inused_memory - TaskSize(t))
    BY <1>8 DEF OnSuccess
  <2>2. /\ stage'[t] = "free"
        /\ \A u \in Tasks : u # t => task'[u] = task[u] /\ stage'[u] = stage[u]
    BY <2>1, FinishedSlot
  <2>3. t \in Reserved /\ Reserved' = Reserved \ {t}
    BY <2>1, <2>2 DEF Reserved
  <2>4. \A u \in Tasks : u # t => TaskSize(u)' = TaskSize(u)
    BY <2>1, <2>2, SizeStays
  <2> QED  BY <2>1, <2>3, <2>4, ReleaseMem
<1>9. CASE OnFailure(t)
  <2>1. /\ stage[t] = "failed" /\ Goto(t, "unmark") /\ UNCHANGED <<meta, task>>
        /\ inused_memory' = Wrap(inused_memory - TaskSize(t))
    BY <1>9 DEF OnFailure
  <2>2. stage'[t] = "unmark" /\ \A u \in Tasks : u # t => stage'[u] = stage[u]
    BY <2>1, WentTo
  <2>3. t \in Reserved /\ Reserved' = Reserved \ {t}
    BY <2>1, <2>2 DEF Reserved
  <2>4. \A u \in Tasks : TaskSize(u)' = TaskSize(u)
    BY <2>1, SizeStays
  <2> QED  BY <2>1, <2>3, <2>4, ReleaseMem
<1> QED  BY <1>1, <1>2, <1>3, <1>4, <1>5, <1>6, <1>7, <1>8, <1>9 DEF TaskStep

\* Every step.
LEMMA StepMem ==
    ASSUME IsFiniteSet(Tasks), Shape, QueueOK, RowsShape, Counters, [Next]_vars
    PROVE  Follows \/ Restarts \/ Refuses
<1> USE DEF file, tasks
<1>1. CASE WriteStep
  <2>1. UNCHANGED <<task, stage, inused_memory>>
    BY <1>1 DEF WriteStep, WriteSst, AddFilePersisted, AddFileFails, AddFileApplied
  <2>2. UNCHANGED meta \/ \E m : meta' = [meta EXCEPT ![nextFile] = m]
    BY <1>1 DEF WriteStep, WriteSst, AddFilePersisted, AddFileFails, AddFileApplied
  <2>3. \A f \in Old : meta'[f] = meta[f]
    BY <2>2, Ids DEF RowsShape
  <2> QED  BY <2>1, <2>3, AdvanceMem
<1>2. CASE TriggerCompaction \/ TimerFires \/ TriggerReceived \/ PickNothing \/ ClockTicks
  <2>1. UNCHANGED <<meta, task, stage, inused_memory>>
    BY <1>2 DEF TriggerCompaction, TimerFires, TriggerReceived, WakeUp, PickNothing, ClockTicks
  <2> QED  BY <2>1, AdvanceMem
<1>3. ASSUME NEW t \in Tasks, NEW picked \in PickCandidate(meta, seen, marked, now),
             PickAndSend(t, picked)
      PROVE  Follows
  <2>1. stage[t] = "free" /\ UNCHANGED <<meta, inused_memory>>
    BY <1>3 DEF PickAndSend
  <2>2. CASE Len(queue) < MaxPending
    <3>1. task' = [task EXCEPT ![t] = picked] /\ Goto(t, "queued")
      BY <1>3, <2>2 DEF PickAndSend
    <3>2. task'[t] = picked /\ \A u \in Tasks : u # t => task'[u] = task[u]
      BY <3>1 DEF Shape
    <3>3. stage'[t] = "queued" /\ \A u \in Tasks : u # t => stage'[u] = stage[u]
      BY <3>1, WentTo
    <3>4. stage[t] \notin Reserving /\ stage'[t] \notin Reserving
      BY <2>1, <3>3 DEF Reserving
    <3> QED  BY <2>1, <3>2, <3>3, <3>4, SlotMem
  <2>3. CASE ~(Len(queue) < MaxPending)
    <3>1. UNCHANGED <<task, stage>>
      BY <1>3, <2>3 DEF PickAndSend
    <3> QED  BY <2>1, <3>1, AdvanceMem
  <2> QED  BY <2>2, <2>3
<1>4. CASE SubmitTask
  <2>1. /\ queue # <<>> /\ Goto(Head(queue), "spawned")
        /\ UNCHANGED <<meta, task, inused_memory>>
    BY <1>4 DEF SubmitTask
  <2>2. Head(queue) \in Tasks
    BY <2>1 DEF Shape
  <2>3. stage[Head(queue)] = "queued"
    BY <2>1 DEF QueueOK
  <2>4. \A u \in Tasks : stage'[u] \in Reserving <=> stage[u] \in Reserving
    BY <2>1, <2>2, <2>3, WentTo DEF Reserving
  <2> QED  BY <2>1, <2>4, AdvanceMem
<1>5. ASSUME NEW t \in Tasks, TaskStep(t)  PROVE Follows \/ Refuses
  BY <1>5, TaskMem
<1>6. CASE Crash
  BY <1>6 DEF Crash, Restarts
<1>7. CASE UNCHANGED vars
  <2>1. UNCHANGED <<meta, task, stage, inused_memory>>
    BY <1>7 DEF vars
  <2> QED  BY <2>1, AdvanceMem
<1> QED  BY <1>1, <1>2, <1>3, <1>4, <1>5, <1>6, <1>7 DEF Next, Pick

\* The counter follows the tasks that pre_check has let through, for finitely many
\* tasks of any number: whatever runs at the same time, each step adds what it
\* reserves and gives back what it releases, once, except that a task that
\* pre_check refuses gives back what it never added (pre_check, on_success,
\* on_failure).
THEOREM MemoryIsGivenBack ==
    ASSUME IsFiniteSet(Tasks)
    PROVE  Spec => MemoryFollowsTasks
<1>1. CompactionInv /\ RowsInv /\ Counters /\ [Next]_vars =>
        [\/ inused_memory' = Wrap(inused_memory + ReservedSize' - ReservedSize)
         \/ inused_memory' = 0 /\ \A t \in Tasks : stage'[t] = "free"
         \/ \E t \in Tasks : stage[t] = "spawned" /\ stage'[t] = "failed"]_vars
  BY StepMem DEF CompactionInv, RowsInv, Follows, Restarts, Refuses
<1> QED  BY <1>1, CompactionInvariant, RowsInvariant, CountersInvariant, PTL
         DEF Spec, MemoryFollowsTasks
-----------------------------------------------------------------------------
\* The variables have their types: files are files that were written, the channel
\* is within its capacity, and the counter is a u64 (SstFile, Task, Inner).
THEOREM TypesAreKept == Spec => []TypeOK
<1>1. CompactionInv /\ RowsInv /\ ListInv /\ Counters => TypeOK
  <2> SUFFICES ASSUME CompactionInv, RowsInv, ListInv, Counters  PROVE TypeOK
    OBVIOUS
  <2>1. Old \subseteq FileId
    BY Ids DEF CompactionInv
  <2>2. marked \subseteq Old /\ acked \subseteq Old
    BY DEF ListInv, CacheInv, FreshUnmarked, RowsInv, WriteRows
  <2>3. /\ objects \subseteq FileId /\ stored \subseteq FileId /\ live \subseteq FileId
        /\ seen \subseteq FileId /\ writing \subseteq FileId /\ applying \subseteq FileId
        /\ marked \subseteq FileId /\ acked \subseteq FileId /\ dropped \subseteq FileId
    BY <2>1, <2>2 DEF CompactionInv, Shape, Pending
  <2> QED  BY <2>3 DEF TypeOK, CompactionInv, Shape, RowsInv, RowsShape, Counters
<1> QED  BY <1>1, CompactionInvariant, RowsInvariant, ListInvariant, CountersInvariant, PTL
=============================================================================
