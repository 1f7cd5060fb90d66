# A TLA+ model of the HoraeDB storage engine

The subject is `src/storage`: a table kept as parquet files (SSTs) in an object
store, a manifest that lists them, a compaction that merges them, and scans.
The modules here are translated from the Rust code; `PROJECT.json` maps every
definition to its lines. TLC checks the properties on small instances, TLAPS
proves the central ones of the manifest, of compaction and of scans for every
instance.

## The system

| Part | State | Operations |
|---|---|---|
| Manifest (`manifest/mod.rs`) | snapshot object, delta objects, cached list, delta counter, merge channel | `add_file`, `update`, the merge loop, `do_merge`, `try_new` |
| Encoding (`manifest/encoding.rs`) | – | fold deltas into a snapshot, bytes to records and back |
| Picker (`compaction/picker.rs`) | marks on files | `pick_candidate` |
| Scheduler (`compaction/scheduler.rs`) | task channel, trigger channel | schedule loop, receive loop, `trigger_compaction` |
| Executor (`compaction/executor.rs`) | memory counter, running tasks | `pre_check`, `do_compaction`, `delete_ssts`, `on_success`, `on_failure` |
| Table (`storage.rs`) | – | `write`, `scan`, `compact` |
| Plans and merging (`read.rs`, `operator.rs`) | pending batch | `build_df_plan`, `merge_batch`, `poll_next`, two merge operators |
| Schema and time (`types.rs`, `sst.rs`) | – | projections, builtin columns, ranges, segments, expiry, ids |
| Sizes, durations (`common`) | – | parsing and formatting; the clock |
| Server, metric engine, benchmarks, `pb_types` | – | process start and HTTP; `todo!()` bodies; measurement; generated types |

How they interact: a write puts an SST object and then calls `Manifest::update`;
an update puts a delta object and then changes the cache. The merger folds
deltas into the snapshot and deletes them. The schedule loop copies the cached
list, picks and marks files and queues a task. The task reads its inputs, puts
an output object, calls `Manifest::update`, and deletes the input objects. A
scan copies the cached list and reads objects. Writes, the merger, the two
loops and the tasks run on different threads; every call of the store can fail
and the process can die between any two of them.

What makes it hard is in `hazards` of `PROJECT.json`, at the line where each
hazard bites: crashes and failures inside `do_merge` and `do_compaction`, puts
whose answer is lost, counters that are tested and changed in two steps or that
wrap, tasks dropped at full channels, lists that are stale when they are used,
merging that depends on how rows and files are grouped, columns removed by their
place, and bytes and texts that have to be read back.

## Modules

| Module | What it is |
|---|---|
| `Manifest` | the manifest with its callers, merger, store and restarts |
| `LiveFiles` | what the manifest promises: one set of files, changed in single steps |
| `ManifestProofs` | theorems about `Manifest`: types, durability, the delta counter, the snapshot |
| `ManifestRefinementProofs` | ... that it implements `LiveFiles`, and what that rests on |
| `Picker` | the choice of files, as operators |
| `PickLoop` | the picker called repeatedly on one list |
| `PickerProofs`, `PickLoopProofs` | lemmas about sums and the greedy choice; theorems about `PickLoop` |
| `Compaction` | extends `Picker`: writes, scheduler, executor, tasks, crashes |
| `CompactionProofs` | theorems about `Compaction`: objects, then rows, then the list and the marks |
| `CompactionMemoryProofs` | ... the memory counter and the types |
| `StorageSchema` | the columns of a table and projections, as operators |
| `MergeStream` | extends `StorageSchema`: merging a stream that is cut into batches |
| `Scan` | writes, compactions, deletions of objects and a scan, on the level of rows |
| `ScanRowsProofs` | lemmas: what sorting, cutting, merging and grouping do to rows and files |
| `ScanProofs` | theorems about `Scan`: what compaction keeps and what a scan returns |
| `SnapshotCodec` | the snapshot's bytes, and the merges that rewrite them |
| `ReadableSize`, `ReadableDuration` | texts of sizes and durations, as operators |
| `RoundTrip` | composes the three above: what is written is read back |
| `MC*` | instances for TLC |

Operators marked "(Mutant: ...)" are faulty variants of the definition that
follows them. No specification uses them; substituted for the definition they
show that a property can fail.

### Manifest

A `Vec` of records is a function from file ids to multiplicities: order is
irrelevant to every operation and duplicates are not. One action is one step of
`update` (`pc`) or `do_merge` (`mpc`) between two accesses to shared state:
`MaybeScheduleMerge` loads the counter, `IncDeltaNum` raises it, `PutDelta`
writes the object, `ApplyToCache` holds the write lock. The deltas of a merge
are read in one step, which loses nothing because a delta never changes, and
are deleted in parallel, one action each. The messages of the merge channel are
all treated alike by the code, so the channel is their number.

Faults: a `get`, `put` or `delete` that fails without effect; `lost_ack`, a call
that took effect and reports failure; a crash, told apart (`merge_crash`) when
it falls among the deletions of a merge, because some properties survive every
crash but that one; `list`, a listing of the delta directory that takes its time
(`BeginListing`, `EndListing`): it has the deltas that were there all the while
and any of those that came in between. `faults` counts them all, and those that
lost an answer, since some properties hold until then. `Replace` stands for a compaction; that two of them never
name the same file is `NoSharedFile` of `Compaction`. Ids come from the clock
and are assumed not to go back, as the comment on `NEXT_ID` demands.

### Picker and Compaction

The unstable sort leaves files of one size in any order, so `Taken` and
`PickCandidate` are the sets of results the code may return. The arithmetic is
that of the code: division towards zero, and a time to live subtracted in
microseconds from a clock in milliseconds.

`Compaction` takes the manifest as what `Manifest` shows it to be, a persisted
set (`stored`) followed by the cached one (`live`). A task goes through `queued`,
`spawned`, `admit` (limit tested, memory not yet taken), `merge`, `persist`,
`apply`, `delete`, or `failed` and `unmark`. A panic in `pre_check` ends the task
without `on_failure`. The memory counter wraps at `U64Max`. A file's rows are
the ids of the writes they came from.

A restart is where the persisted set is not kept as it was. The merge at startup
folds in again the deltas that a crash or a failed deletion left in the store (run
`manifest_resurrect`), and files that updates had removed are listed again, with
or without their objects, beside the file that replaced them. `Crash` lets any
`MaxReturned` of the files removed so far (`dropped`) come back, and `returned`
remembers them; a merge that misses the object of such a file fails. Properties
about what is listed say what they except. Two things are coarser than the code:
a file that the manifest would record twice is listed once, and a mark belongs to
a file's id, while in the code two records of a file would have a mark each.

### Rows

A row in `MergeStream` is a sequence of columns: keys, values, sequence,
reserved. The stream starts from every sorted sequence of up to `MaxRows` rows,
reads the columns of a projection and cuts the rows into batches in every way.
Rows kept back have their builtin columns, rows merged within a batch lose them
after the merge, and those left at the end lose them before it, as in the code.
`Expected` is the reference: rows grouped by key over the whole stream, merged,
in the columns the stream reports. Sort expressions and operators name columns
by their places in the full schema, so `RequestsInPlace` demands projections that
leave keys, values and sequence in those places.

`Scan` takes the merge as given and looks at what surrounds it: the choice of
files by time range, writes that cross segments, the grouping of files by
segment, predicates on keys and on values below the merge, parts of a union that
run side by side, and compactions that rewrite rows. A scan copies the list of
files when it starts and opens the objects of a part when it polls it; in between
compactions replace files and delete their objects, and then the scan fails
(`PartFails`). A part that is open may finish from what it has buffered. Writes
receive their ids in one order and may reach the manifest in another. A compaction
also drops expired files, unread and of any segment, in the update that replaces
its inputs. What it keeps is therefore stated for keys whose time has not expired.
For an expired key an older value can take the place of the newest: the file with
the newest row is dropped while one with later rows of other keys, and an older
row of this one, is not yet expired as a whole.

### Bytes and texts

`SnapshotCodec` has the snapshot as a sequence of bytes: header, records, little
endian integers of both signs, and the checks of `Snapshot::try_from` one by one.
A merge may be handed a part of the object. `ReadableSize` and `ReadableDuration`
have a text as numbers with units. What counts in a size is the float in
`from_str`: rounding to the mantissa, saturation at the width. The instance is
scaled down, with factor, width and mantissa in the code's proportions (a unit
of 2 bits instead of 10, 13 bits instead of 64, 10 instead of 53), small enough
to try every size.

## Runs

All runs leave deadlock unchecked: ids, writes and faults are bounded, and a
behaviour that has used them up stops.

| Run | Result |
|---|---|
| `manifest_faults` | All faults, two of them in any places: acknowledged files survive, no empty snapshot is written; until an answer is lost the counter is exact and refused writers are let in again |
| `manifest_clean` | Deletions succeed, no crash interrupts them, listings are atomic: no record twice, cache equals store, the hard limit is exceeded by at most one delta per caller, and `Manifest` implements `LiveFiles` |
| `pick_loop` | Greedy choice of files is as good as any choice within the limits |
| `compaction_live` | A failed write or update or a lost answer, full channels, refusals and panics: no file in two tasks, `pre_check`'s assertions, marks and memory given back; every task ends, and the list is compacted but for the exceptions below |
| `compaction_expiry` | A failed update or deletion, or a crash after which a replaced file is listed again: no write lost before it expires, ranges cover rows, no other listed or needed file misses its object, no row listed twice until then, marks given back, and without a fault no object left over |
| `merge_stream` | Batching is invisible, in both modes, for requests that have the builtin columns in their places, kept or removed |
| `scan` | Until a key expires, compaction keeps its value (Overwrite) and every byte once (Append); a scan that does not fail returns each newest value or each byte |
| `round_trip` | Snapshots, sizes and durations are read as they were written, time after time |

Four runs show the code disagreeing with its own tests, comments or messages;
`findings` quotes each:

| Run | What happens |
|---|---|
| `manifest_resurrect` | One failed deletion brings back a file that was compacted away |
| `pick_ttl` | Files outlive their time to live a thousandfold |
| `compaction_memory` | A refused task subtracts memory it never took; the counter wraps, and a task is refused while nothing uses memory |
| `projection` | A scan of all user columns loses the last of them |

Three properties name what they except, and TLC finds each property violated
without its exceptions, but for the refusal in the third, which this bound does
not need. `MarksAreReleased`: a listed file is marked without a task only after
its task was dropped at a full channel or panicked in `pre_check`.
`MemoryFollowsTasks`: the counter moves by what tasks reserve and release, except
when a task is refused. `ListIsCompacted`: a list in which the picker would find a
task, were nothing marked, comes to one in which it would not, unless marks are
left behind or a task is refused. `TasksFinish` is only that each task ends, be it
in a panic.

The conditions of the passing runs matter too. Outside of them the model shows:

* After a crash among the deletions of merged deltas, the next merge can fail
  the debug assertion of `delete_records`, or record a file twice.
* After a put of a delta that took effect and was reported as failed, the delta
  counter can wrap below zero, and updates are refused with no delta in sight.
  The same in `do_compaction` compacts the inputs again, and a restart lists both
  outputs.
* A listing that has the delta which deletes a file, and not the one which adds
  it, brings the file back with the next merge.
* A snapshot object of no bytes at all is read as an empty list.
* A size written as a negative number in a string is read as 0, while a negative
  integer is refused; parts of a duration may be negative (`1h-30m`).
* A task dropped at a full channel leaves its files marked until a restart.
* Two tasks can pass the memory test together and exceed the limit.
* With `input_sst_min_num = 0` a task of expired files only fails the first
  assertion of `pre_check`.
* Appending values of a key that are all empty fails. In Append mode the last key
  of a projection without the reserved column panics.
* A predicate on a value drops a key's newest row and lets an older one through.
* Files of a segment that are not neighbours in the manifest's list are merged
  separately, so a scan can return old rows of a key beside the newest; and its
  rows are not in the order of time.

### Bounds

The manifest runs have two callers, three or four files and deltas, and one or
two faults. Two callers are needed for a race on the counter and for a delta
that arrives during a merge; three deltas for a merge in which one is left
behind and one arrives; two faults for a failure during the recovery from
another. `compaction_live` has two tasks, three writes, a task channel of one
and a memory limit below the size of two tasks, so drops, refusals and panics
all occur. It has ids for every retry, since a run out of ids would look like a
task that does not end; `input_sst_min_num` is 2, because with 1 a file is
compacted alone again and again; and no file comes back (`MaxReturned` is 0),
because a task that reads one without its object fails for ever.
`compaction_expiry` has two ranges of one segment that expire one after the other,
a task channel of one, and one file that a restart may bring back.
`compaction_memory` has files of two sizes, so that a false refusal is told from
the panic of a sum that overflows. `pick_loop` has five files with sizes
1, 2 and 4 in three ranges, one of them before the epoch. Streams have three rows
of three keys, two of which differ in the second column only and two in the
first only; every place of a cut within and between keys occurs. Scans have three
writes, two compactions, two expire times, and three keys in two segments, the
first of which reaches below zero; at the later time the files inside the first
segment have expired and those that cross its end have not. The narrower of two
time ranges begins and ends inside files.
Snapshots have up to four files whose numbers need one byte or several, of both
signs; durations have all texts of up to two parts and some of five.

Symmetry is used for callers, tasks and files in runs of invariants and of
step properties only, never under fairness.

### Fairness

`FairSpec` assumes weak fairness of each step a tokio task can take: updates,
the merger, the timers, the loops, the tasks. The runtimes schedule every task
that is ready, the timers fire again and again, and a call of the store returns.
New writes and crashes are not fair. Failures are bounded, so a merge or task
that is retried meets a working store in the end.

## Proofs

TLAPS proves the following for every number of callers, tasks, files, deltas and
faults, and every configuration that satisfies the assumptions named in
`Manifest`, `Picker`, `PickLoop`, `Compaction` and `Scan`. Where a theorem has a
hypothesis of its own, TLC finds its property violated without it; that the tasks
are finitely many (`MemoryIsGivenBack`) is needed for their sum to make sense.

Of the manifest, under all faults:

* `TypeCorrect`: `Spec => []TypeOK`.
* `Durability`: `Spec => []AckedDurable`, under all faults. `AckedDurable` is not
  inductive: it says nothing of the snapshot a merge has in memory, nor of why a
  merged delta may be deleted. `DurableInv` adds that a file an update has
  promised, or is about to promise, is in the snapshot or in a delta (`Held`);
  that the merged snapshot has every such file of the old snapshot and of the
  listed deltas (`Folded`); that while deltas are being deleted the snapshot has
  what they add (`Covered`); and that only persisted ids are listed and what they
  delete is recorded (`IdsPersisted`).
* `CounterIsExact` and `DeltasAreBounded`, until an answer is lost
  (`faults.lost = 0`; after that they fail). The induction counts deltas, updates
  between increment and put, and deletions not yet subtracted; the bound also
  counts callers that have passed the test of the limit and not yet raised the
  counter. That no answer was lost after a step means that none was before it
  (`AnswersKept`), which lets the hypothesis be used.
* `SnapshotStaysReadable`: no empty snapshot is written, although `do_merge` does
  not look for one. Every update adds a file newer than all it deletes
  (`CallsForward`, `DeltasForward`), so the newest file a merge adds is not among
  those it deletes. A compaction that removed expired files without an output
  would break this.

Of compaction, under all faults, any number of restarts and of files that each of
them brings back (`MaxReturned`) included:

* `FilesAreNotShared`, `NoListedFileIsDeleted`, `NoInputIsDeleted`. None of them is
  inductive. `CompactionInv` adds that what a task holds is marked (`HeldOK`),
  which keeps the picker from it; that a file the manifest will list next exists
  and is in no task (`FreshOK`); that the manifest has dropped what a task deletes
  (`DroppedOK`); and that the picker's copy of the list may be old, but what it
  has and is not marked exists or came back in a restart (`ExistOK`). The last is
  the heart of it: a file leaves the marks only if its object is still there, since
  `on_success` keeps the marks of the files it deleted. `ListedFilesExist` and
  `InputsExist` are about all files that did not come back in a restart.
* `NoWriteIsLost`, `RangesCover`. `RowsInv` adds that a file's range covers the
  writes in it (`Covered`), that what a task drops unread is expired and its
  output has the rows of its inputs (`TaskRows`), and that a write is in the
  persisted list before it is acknowledged (`WriteRows`). With `Covered`, a write
  in an expired file is itself expired. That a finite set of files has a largest
  end and a smallest start is proved from the order of the naturals.
* `AssertionsHold`: `pre_check` does not panic on its assertions, from the
  assumption that `input_sst_min_num` is not 0.
* `ObjectsAreAccountedFor` (`NoOrphans`), and `RowsAreListedOnce`, until a file
  comes back, if no answer of the manifest is lost. Both rest on why the picker's old copy of the list does
  no harm: a file that leaves the list stays marked, so a file of the copy without
  a mark is still listed (`InCache`, and `InStore` for the store), and what the
  manifest will list next has no mark (`FreshUnmarked`). The inputs of a task are
  then still listed when its update replaces them, and `RowSources` says that a
  write's rows go into one output. `OutputsInv` says which task has which object
  while there is no fault. `ListInv` is all of these.
* `NoMarkIsLeftBehind` (`MarksAreReleased`), whatever the sizes of the channels and
  of the memory. Each step is shown to add nothing to the listed files that are
  marked without a task (`MarksKept`), or to be one of the two that do (`Leaks`). It
  takes `InCache` and `FreshUnmarked`: a task that ends well drops its files from
  the list before it lets go of them, and what it adds to the list has no mark.
* `MemoryIsGivenBack` (`MemoryFollowsTasks`), for any limit, and for counters of any
  width: no task that was let through keeps memory or gives it back twice. One
  lemma for each way in which a step changes the set of tasks that hold memory
  (`QuietMem`, `AdmitMem`, `ReleaseMem`) carries the sum over to the next state.
* `TypesAreKept`: `TypeOK`, the wrapping of the memory counter included.

Of the picker, called on one list again and again:

* `NothingIsLeftBehind` (`NoneLeftBehind`), if `input_sst_min_num` is not 0, and
  `NoChoiceTakesMore` (`TakesAsManyAsFit`). The order by size is what makes the
  greedy choice good: of two sets where the one taken has only files that are no
  larger, the other cannot have more files and fit (`MoreAndHeavier`,
  `TakenIsLargest`). `PickInv` says that the task was picked under the marks
  there were before its own. The sums of sizes are those of a recursive library
  operator. `PickerProofs` shows that its recursion has a solution on finite sets
  and that the order of summation is free (`SumRemove`, `SumUnion`), by induction
  over a set of sets from which a smallest counterexample is taken
  (`SetInduction`).

Of the manifest, if deletions succeed, no crash interrupts them, no answer is lost
and listings are atomic (`CleanFaults`; reads and puts may fail and the process
may die anywhere else):

* `NoRecordIsMissing` (`DeletedRecordsExist`), `NoRecordIsDoubled`
  (`NoDuplicateRecords`), `CacheIsTheStore` (`CacheMatchesStore`), and
  `Refinement`: `Spec => ImplementsLiveFiles`. The refinement mapping is `View`, the
  files that snapshot and deltas stand for. It changes only where a delta is
  written, because a file has one source, the snapshot or one delta (`OneSource`);
  because what a delta deletes is in the snapshot or in an older delta, and is
  deleted once (`OneEnd`); and because a merge folds the oldest deltas
  (`MergeInv`). `CallsInv` keeps the updates in flight apart from each other and
  from what is known, and `CacheInv` says by which updates the cache is behind.
  `CleanInv` is all of these. Each of the four kinds of fault breaks it: a failed
  deletion all four properties, the others at least two.

Of scans, for any keys, batches, segment duration, time ranges and predicates, and
any number of writes and compactions:

* `CompactionIsInvisible` (`CompactionInvisible`) and `CompactionKeepsEveryByte`
  (`CompactionKeepsBytes`), the action properties of a compaction in the two modes,
  for keys that have not expired. A file is dropped unread only if it ends before
  the expire time, and rows are inside the range of their file, so no such key is
  in a dropped file.
* `ScanMissesNothing` (`ScanReturnsNewest`) and `ScanReturnsEveryByte`
  (`ScanReturnsBytes`). Neither says anything before a scan is done. `ScanInv`
  (theorem `ScanInvariant`) adds, for the table, the files of the scan and those of
  each plan, that a row is inside the range of its file, which makes the choice of
  files by range safe; that in mode Overwrite a value is the one written with its
  sequence, so two rows of a key with one sequence are one row; and that in mode
  Append no byte of a key is in two rows (`FilesOk`). A sequence that was not used
  yet is in no row (`TableOk`). The plans have every row of the range between them
  and share no byte (`PartsOk`), and the output is what the finished plans return
  (`OutputOk`).

  Under that are lemmas about the operators, in `ScanRowsProofs`. `InOrder` lists
  the members of a finite strict order, each once and in order (`Ordered`), by
  counting the members before each; sorted rows cut where the key changes are runs
  that have all rows of a key (`RunsCut`); and merging a run leaves the row with
  the highest sequence, or all bytes of the run, each once (`MergedRows`,
  `MergedBytes`). `Planned` puts these together for a plan, `MergedFiles` for a
  compaction. What `Joined`, a recursive function, computes is shown by taking the
  smallest place at which it would fail (`UpTo`).

Only model-checked: liveness (the prover has no fairness); that the stream which
`Scan` takes as given merges by key however it is cut into batches (`MergeStream`);
and `RoundTrip`, whose properties are about what recursive operators compute from
bytes and texts, while the prover cannot use an induction theorem that takes an
operator. The properties of the four runs above that show disagreements do not
hold.

## Not modelled

* The bytes of parquet files and protobuf messages, and what their libraries do
  with corrupted objects.
* Column types and nulls. Projections that move keys, values or the sequence out
  of their places: the code then sorts by columns that are not there. Two rows of
  one key in one batch of one file.
* Names of paths, spellings, blanks and fractions in sizes and durations.
* Storage options and their translation to parquet properties, the sizes of the
  runtimes, configuration parsing, and the server.
* Shutdown: the loops never stop.
* In `Compaction`, a file recorded twice by the manifest, and marks by record.
* The order of rows and bytes that a scan returns, which no property is about.
* The metric engine, which has no bodies yet; generated types and benchmarks.

## Plan

1. `Compaction` and `Scan` in one module, so that a scan meets the marks, retries
   and crashes of the scheduler.
2. A proof that batching is invisible, which would carry `MergeStream` over to
   streams of any length.
3. Key columns of different types, with the comparisons of `primary_key_eq`.
