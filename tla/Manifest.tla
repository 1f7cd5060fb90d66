------------------------------ MODULE Manifest ------------------------------
(***************************************************************************)
(* The manifest of a table: which SST files make it up                     *)
(* (src/storage/src/manifest/mod.rs).  The list is kept three times: as    *)
(* one snapshot object, as one small delta object per update that no merge *)
(* has folded into the snapshot yet, and as a cache in memory.  Callers    *)
(* (writes and compactions) persist a delta and then change the cache; a   *)
(* background merger folds deltas into the snapshot and deletes them; a    *)
(* restart folds everything and loads the snapshot.                        *)
(*                                                                         *)
(* A Vec of records or of files is a function from file ids to the number  *)
(* of times the file occurs in it: its order matters to no operation here  *)
(* and its duplicates do.                                                  *)
(***************************************************************************)
EXTENDS Integers, FiniteSets

CONSTANTS
    Updaters,      \* tasks that may be inside Manifest::update at one time
    MaxFiles,      \* bound: SST ids handed out
    MaxDeltas,     \* bound: delta ids handed out
    MaxFaults,     \* bound: failed calls and crashes
    Faults,        \* the kinds of fault that may happen
    ChannelSize,   \* ManifestConfig.channel_size
    MinMerge,      \* ManifestConfig.min_merge_threshold
    SoftMerge,     \* ManifestConfig.soft_merge_threshold
    HardMerge,     \* ManifestConfig.hard_merge_threshold
    UsizeMax       \* the largest value of the delta counter's type

(***************************************************************************)
(* The faults of the environment.  A failed call had no effect on the      *)
(* store, except "lost_ack": a put that took effect and whose answer was   *)
(* lost.  "merge_crash" is a crash while merged deltas are being deleted,  *)
(* "crash" a crash at any other moment.  "list" is no failure: a listing   *)
(* that takes its time, and is no picture of any one moment.               *)
(***************************************************************************)
FaultKinds == {"get", "put", "delete", "lost_ack", "crash", "merge_crash", "list"}

ASSUME UpdatersAssumption == IsFiniteSet(Updaters)
ASSUME BoundsAssumption == MaxFiles \in Nat /\ MaxDeltas \in Nat /\ MaxFaults \in Nat
ASSUME FaultsAssumption == Faults \subseteq FaultKinds
ASSUME ConfigAssumption ==
    /\ ChannelSize \in Nat \ {0}
    /\ MinMerge \in Nat /\ SoftMerge \in Nat /\ HardMerge \in Nat
ASSUME UsizeAssumption ==
    /\ UsizeMax \in Nat
    /\ UsizeMax > HardMerge + Cardinality(Updaters)
    /\ UsizeMax >= MaxDeltas

FileId == 1..MaxFiles
DeltaId == 1..MaxDeltas
Update == [adds: SUBSET FileId, dels: SUBSET FileId]
NoUpdate == [adds |-> {}, dels |-> {}]
Records == [FileId -> Nat]
Empty == [f \in FileId |-> 0]
Ids(records) == {f \in FileId : records[f] > 0}

VARIABLES
    \* the object store
    hasSnapshot,   \* the snapshot object exists
    snapshot,      \* its records
    deltas,        \* ids of the delta objects that exist
    payload,       \* the update each delta id was written with
    \* the process
    phase,         \* "starting": inside Manifest::try_new; "running": after it
    ssts,          \* Manifest.ssts, the cached list
    deltas_num,    \* ManifestMerger.deltas_num
    channel,       \* messages in the merge channel
    pc,            \* where each updater is inside Manifest::update
    op,            \* the update each updater was called with
    \* the merger, inside do_merge when mpc # "idle"
    mpc,
    paths,         \* the delta paths it listed
    merged,        \* the snapshot it is about to put
    deleting,      \* paths whose deletion has not returned
    deleted,       \* paths deleted, the counter not yet decremented for them
    \* allocators and history
    nextFile, nextDelta,
    faults,        \* history: how many faults, and how many of them lost an answer
    acked,         \* history: files of updates that returned Ok
    removed        \* history: files some persisted update deletes

store == <<hasSnapshot, snapshot, deltas, payload>>
merger == <<mpc, paths, merged, deleting, deleted>>
updaters == <<pc, op>>
history == <<acked, removed>>
vars == <<store, phase, ssts, deltas_num, channel, updaters, merger,
          nextFile, nextDelta, faults, history>>

Fault(kind) ==
    /\ kind \in Faults
    /\ faults.all < MaxFaults
    /\ faults' = [all |-> faults.all + 1,
                  lost |-> IF kind = "lost_ack" THEN faults.lost + 1 ELSE faults.lost]

(***************************************************************************)
(* The snapshot and the deltas, as objects.                                *)
(***************************************************************************)
Adds(ds) == UNION {payload[d].adds : d \in ds}
Dels(ds) == UNION {payload[d].dels : d \in ds}

\* Snapshot::try_from refuses an object that holds no record; an object that is
\* not there reads as the default snapshot.
CanReadSnapshot == hasSnapshot => Ids(snapshot) # {}

\* add_records for every delta, in any order, then delete_records once.
\* (Mutant: the other way round.)
DeletedThenAdded(ds) ==
    [f \in FileId |->
        Cardinality({d \in ds : f \in payload[d].adds})
            + IF f \in Dels(ds) THEN 0 ELSE snapshot[f]]

MergedRecords(ds) ==
    [f \in FileId |->
        IF f \in Dels(ds) THEN 0
        ELSE snapshot[f] + Cardinality({d \in ds : f \in payload[d].adds})]

\* What a restart would load if nothing more went wrong.
Recovered == (Ids(snapshot) \cup Adds(deltas)) \ Dels(deltas)

\* Atomic usize arithmetic wraps.  (Mutant: it does not.)
DecWithoutWrap(n) == n - 1

Inc(n) == IF n = UsizeMax THEN 0 ELSE n + 1
Dec(n) == IF n = 0 THEN UsizeMax ELSE n - 1

\* try_send: a full channel drops the message.
ScheduleMerge == channel' = IF channel < ChannelSize THEN channel + 1 ELSE channel

\* The ids start from the wall clock, which is past every id handed out.
IdAfterRestart(n) == n
-----------------------------------------------------------------------------
Init ==
    /\ hasSnapshot = FALSE /\ snapshot = Empty
    /\ deltas = {} /\ payload = [d \in DeltaId |-> NoUpdate]
    /\ phase = "starting" /\ ssts = Empty /\ deltas_num = 0 /\ channel = 0
    /\ pc = [u \in Updaters |-> "idle"] /\ op = [u \in Updaters |-> NoUpdate]
    /\ mpc = "list" /\ paths = {} /\ merged = Empty
    /\ deleting = {} /\ deleted = {}
    /\ nextFile = 1 /\ nextDelta = 1 /\ faults = [all |-> 0, lost |-> 0]
    /\ acked = {} /\ removed = {}
-----------------------------------------------------------------------------
(***************************************************************************)
(* Manifest::update.  A write calls it with one new file (add_file); a     *)
(* compaction calls it with its output and with the inputs and expired     *)
(* files it replaces.  A compaction only names cached files, and no two    *)
(* running compactions name the same one (module Compaction).              *)
(***************************************************************************)
\* (Mutant: nothing keeps two compactions apart.)
NothingClaimed == {}

Claimed == UNION {op[u].dels : u \in {w \in Updaters : pc[w] # "idle"}}

Call(u, adds, dels) ==
    /\ phase = "running" /\ pc[u] = "idle" /\ nextFile \in FileId
    /\ nextFile' = nextFile + 1
    /\ op' = [op EXCEPT ![u] = [adds |-> adds, dels |-> dels]]
    /\ pc' = [pc EXCEPT ![u] = "check"]
    /\ UNCHANGED <<store, phase, ssts, deltas_num, channel, merger, nextDelta,
                   faults, history>>

AddFile(u) == Call(u, {nextFile}, {})

\* (Mutant: a compaction of expired files only, which has no output.)
ReplaceByNothing(u) ==
    \E dels \in (SUBSET (Ids(ssts) \ Claimed)) \ {{}} : Call(u, {}, dels)

Replace(u) ==
    \E dels \in (SUBSET (Ids(ssts) \ Claimed)) \ {{}} : Call(u, {nextFile}, dels)

Return(u) ==
    /\ pc' = [pc EXCEPT ![u] = "idle"]
    /\ op' = [op EXCEPT ![u] = NoUpdate]

\* (Mutant: off by one.)
FarOverHardLimit(n) == n > HardMerge + 1

OverHardLimit(n) == n > HardMerge

\* maybe_schedule_merge: load the counter; above the hard limit, refuse.
MaybeScheduleMerge(u) ==
    /\ pc[u] = "check"
    /\ \/ /\ OverHardLimit(deltas_num)
          /\ ScheduleMerge
          /\ Return(u)
       \/ /\ ~OverHardLimit(deltas_num)
          /\ IF deltas_num > SoftMerge THEN ScheduleMerge ELSE UNCHANGED channel
          /\ pc' = [pc EXCEPT ![u] = "inc"]
          /\ UNCHANGED op
    /\ UNCHANGED <<store, phase, ssts, deltas_num, merger, nextFile, nextDelta,
                   faults, history>>

IncDeltaNum(u) ==
    /\ pc[u] = "inc"
    /\ deltas_num' = Inc(deltas_num)
    /\ pc' = [pc EXCEPT ![u] = "put"]
    /\ UNCHANGED <<store, phase, ssts, channel, op, merger, nextFile, nextDelta,
                   faults, history>>

\* update_inner, step 1: the delta object is written under a new id.
Persist(u) ==
    /\ nextDelta \in DeltaId
    /\ nextDelta' = nextDelta + 1
    /\ deltas' = deltas \cup {nextDelta}
    /\ payload' = [payload EXCEPT ![nextDelta] = op[u]]
    /\ removed' = removed \cup op[u].dels

PutDelta(u) ==
    /\ pc[u] = "put"
    /\ Persist(u)
    /\ pc' = [pc EXCEPT ![u] = "apply"]
    /\ UNCHANGED <<hasSnapshot, snapshot, phase, ssts, deltas_num, channel, op,
                   merger, nextFile, faults, acked>>

PutDeltaFails(u) ==
    /\ pc[u] = "put"
    /\ \/ /\ Fault("put")
          /\ UNCHANGED <<deltas, payload, nextDelta, removed>>
       \/ /\ Fault("lost_ack")
          /\ Persist(u)
    /\ pc' = [pc EXCEPT ![u] = "dec"]
    /\ UNCHANGED <<hasSnapshot, snapshot, phase, ssts, deltas_num, channel, op,
                   merger, nextFile, acked>>

\* (Mutant: the cache keeps the files an update deletes.)
CachedWithoutRetain(u) ==
    [f \in FileId |-> IF f \in op[u].adds THEN ssts[f] + 1 ELSE ssts[f]]

\* update_inner, step 2, under the write lock of the cache.
Cached(u) ==
    [f \in FileId |->
        IF f \in op[u].dels THEN 0
        ELSE IF f \in op[u].adds THEN ssts[f] + 1 ELSE ssts[f]]

ApplyToCache(u) ==
    /\ pc[u] = "apply"
    /\ ssts' = Cached(u)
    /\ acked' = acked \cup op[u].adds
    /\ Return(u)
    /\ UNCHANGED <<store, phase, deltas_num, channel, merger, nextFile,
                   nextDelta, faults, removed>>

\* (Mutant: the failed update leaves the counter raised.)
ForgetToDec(u) ==
    /\ pc[u] = "dec"
    /\ Return(u)
    /\ UNCHANGED <<store, phase, ssts, deltas_num, channel, merger, nextFile,
                   nextDelta, faults, history>>

DecDeltaNum(u) ==
    /\ pc[u] = "dec"
    /\ deltas_num' = Dec(deltas_num)
    /\ Return(u)
    /\ UNCHANGED <<store, phase, ssts, channel, merger, nextFile, nextDelta,
                   faults, history>>
-----------------------------------------------------------------------------
(***************************************************************************)
(* ManifestMerger::run: the timer or a message wakes it, and it merges     *)
(* when the counter is above the minimum.                                  *)
(***************************************************************************)
\* (Mutant: the comparison is turned round.)
FewDeltas == deltas_num < MinMerge

WorthMerging == deltas_num > MinMerge

Wake ==
    /\ phase = "running" /\ mpc = "idle"
    /\ mpc' = IF WorthMerging THEN "list" ELSE "idle"
    /\ UNCHANGED <<store, phase, ssts, deltas_num, updaters, paths, merged,
                   deleting, deleted, nextFile, nextDelta, faults, history>>

Tick == Wake /\ WorthMerging /\ UNCHANGED channel

Receive == Wake /\ channel > 0 /\ channel' = channel - 1

\* do_merge returned.  At startup the snapshot is loaded next.
AfterMerge == IF phase = "starting" THEN "load" ELSE "idle"

\* The process dies, or try_new fails: what is in memory is lost, and the
\* next process starts in Manifest::try_new.
Restart ==
    /\ phase' = "starting" /\ ssts' = Empty /\ deltas_num' = 0 /\ channel' = 0
    /\ pc' = [u \in Updaters |-> "idle"] /\ op' = [u \in Updaters |-> NoUpdate]
    /\ mpc' = "list" /\ paths' = {} /\ merged' = Empty
    /\ deleting' = {} /\ deleted' = {}
    /\ nextFile' = IdAfterRestart(nextFile)
    /\ nextDelta' = IdAfterRestart(nextDelta)
    /\ UNCHANGED history

\* do_merge returned Err, which ends the startup and which the running merger
\* only logs.
GiveUpMerge ==
    \/ /\ phase = "starting"
       /\ Restart
    \/ /\ phase = "running"
       /\ mpc' = "idle" /\ paths' = {} /\ merged' = Empty
       /\ UNCHANGED <<phase, ssts, deltas_num, channel, updaters, deleting,
                      deleted, nextFile, nextDelta, history>>

\* do_merge: list the deltas; at startup the counter is set to their number.
ListDeltas ==
    /\ mpc = "list"
    /\ paths' = deltas
    /\ mpc' = IF deltas = {} THEN AfterMerge ELSE "read"
    /\ deltas_num' = IF phase = "starting" /\ deltas # {}
                     THEN Cardinality(deltas) ELSE deltas_num
    /\ UNCHANGED <<store, phase, ssts, channel, updaters, merged, deleting,
                   deleted, nextFile, nextDelta, faults, history>>

\* A listing that is not atomic: every delta that was there when it began is in
\* it, and of those written since then any.  At startup none is written.
BeginListing ==
    /\ mpc = "list" /\ phase = "running"
    /\ Fault("list")
    /\ paths' = deltas
    /\ mpc' = "listing"
    /\ UNCHANGED <<store, phase, ssts, deltas_num, channel, updaters, merged,
                   deleting, deleted, nextFile, nextDelta, history>>

EndListing ==
    /\ mpc = "listing"
    /\ \E listed \in SUBSET deltas :
          /\ paths \subseteq listed
          /\ paths' = listed
          /\ mpc' = IF listed = {} THEN AfterMerge ELSE "read"
    /\ UNCHANGED <<store, phase, ssts, deltas_num, channel, updaters, merged,
                   deleting, deleted, nextFile, nextDelta, faults, history>>

\* Read the listed deltas and the snapshot and fold one into the other.
ReadAndMerge ==
    /\ mpc = "read"
    /\ CanReadSnapshot
    /\ merged' = MergedRecords(paths)
    /\ mpc' = "put"
    /\ UNCHANGED <<store, phase, ssts, deltas_num, channel, updaters, paths,
                   deleting, deleted, nextFile, nextDelta, faults, history>>

\* (Mutant: the directory is listed again.)
RelistedPaths == deltas

\* (Mutant: nothing is deleted.)
NoPaths == {}

\* The merged paths are the ones that were listed.
MergedPaths == paths

PutSnapshot ==
    /\ mpc = "put"
    /\ hasSnapshot' = TRUE /\ snapshot' = merged
    /\ deleting' = MergedPaths /\ deleted' = {}
    /\ merged' = Empty
    /\ mpc' = "delete"
    /\ UNCHANGED <<deltas, payload, phase, ssts, deltas_num, channel, updaters,
                   paths, nextFile, nextDelta, faults, history>>

\* The put fails, or takes effect and is reported as failed.
PutSnapshotFails ==
    /\ mpc = "put"
    /\ \/ Fault("put") /\ UNCHANGED <<hasSnapshot, snapshot>>
       \/ Fault("lost_ack") /\ hasSnapshot' = TRUE /\ snapshot' = merged
    /\ GiveUpMerge
    /\ UNCHANGED <<deltas, payload>>

\* The deletions run in parallel; one that fails is logged and forgotten.
DeleteDelta(d) ==
    /\ mpc = "delete" /\ d \in deleting
    /\ deleting' = deleting \ {d}
    /\ \/ /\ deltas' = deltas \ {d}
          /\ deleted' = deleted \cup {d}
          /\ UNCHANGED faults
       \/ /\ Fault("delete")
          /\ UNCHANGED <<deltas, deleted>>
       \/ /\ Fault("lost_ack")
          /\ deltas' = deltas \ {d}
          /\ UNCHANGED deleted
    /\ UNCHANGED <<hasSnapshot, snapshot, payload, phase, ssts, deltas_num,
                   channel, updaters, mpc, paths, merged, nextFile, nextDelta,
                   history>>

\* After the join, one decrement per deletion that succeeded.
DecDeleted(d) ==
    /\ mpc = "delete" /\ deleting = {} /\ d \in deleted
    /\ deleted' = deleted \ {d}
    /\ deltas_num' = Dec(deltas_num)
    /\ UNCHANGED <<store, phase, ssts, channel, updaters, mpc, paths, merged,
                   deleting, nextFile, nextDelta, faults, history>>

MergeDone ==
    /\ mpc = "delete" /\ deleting = {} /\ deleted = {}
    /\ mpc' = AfterMerge /\ paths' = {}
    /\ UNCHANGED <<store, phase, ssts, deltas_num, channel, updaters, merged,
                   deleting, deleted, nextFile, nextDelta, faults, history>>

\* Manifest::try_new after the first merge: the snapshot becomes the cache.
LoadSnapshot ==
    /\ mpc = "load"
    /\ CanReadSnapshot
    /\ ssts' = snapshot
    /\ phase' = "running" /\ mpc' = "idle"
    /\ UNCHANGED <<store, deltas_num, channel, updaters, paths, merged,
                   deleting, deleted, nextFile, nextDelta, faults, history>>
-----------------------------------------------------------------------------
Crash ==
    /\ Fault(IF mpc = "delete" THEN "merge_crash" ELSE "crash")
    /\ Restart
    /\ UNCHANGED store

\* A list or a read fails.
ReadFails ==
    /\ \/ mpc \in {"list", "listing", "read"} /\ Fault("get")
       \/ mpc = "read" /\ ~CanReadSnapshot /\ UNCHANGED faults
    /\ GiveUpMerge
    /\ UNCHANGED store

LoadFails ==
    /\ mpc = "load"
    /\ \/ Fault("get")
       \/ ~CanReadSnapshot /\ UNCHANGED faults
    /\ Restart
    /\ UNCHANGED store
-----------------------------------------------------------------------------
UpdateStep(u) ==
    \/ MaybeScheduleMerge(u) \/ IncDeltaNum(u) \/ PutDelta(u)
    \/ PutDeltaFails(u) \/ ApplyToCache(u) \/ DecDeltaNum(u)

MergeStep ==
    \/ ListDeltas \/ BeginListing \/ EndListing \/ ReadAndMerge \/ PutSnapshot
    \/ \E d \in DeltaId : DeleteDelta(d) \/ DecDeleted(d)
    \/ MergeDone \/ LoadSnapshot
    \/ ReadFails \/ PutSnapshotFails \/ LoadFails

Next ==
    \/ \E u \in Updaters : AddFile(u) \/ Replace(u) \/ UpdateStep(u)
    \/ Tick \/ Receive \/ MergeStep
    \/ Crash

Spec == Init /\ [][Next]_vars

\* The runtime keeps running a task that can run; the store answers.
Fairness ==
    /\ \A u \in Updaters : WF_vars(UpdateStep(u))
    /\ WF_vars(Tick)
    /\ WF_vars(MergeStep)

FairSpec == Spec /\ Fairness
-----------------------------------------------------------------------------
(***************************************************************************)
(* Properties.                                                             *)
(***************************************************************************)
UpdaterPcs == {"idle", "check", "inc", "put", "apply", "dec"}
FaultCounts == {n \in [all: 0..MaxFaults, lost: 0..MaxFaults] : n.lost <= n.all}
MergerPcs == {"idle", "list", "listing", "read", "put", "delete", "load"}

\* The variables have their types, and the merger's own variables are set only
\* in the steps of do_merge that use them (mod.rs, ManifestMerger::do_merge).
TypeOK ==
    /\ hasSnapshot \in BOOLEAN /\ snapshot \in Records
    /\ deltas \subseteq DeltaId /\ payload \in [DeltaId -> Update]
    /\ phase \in {"starting", "running"} /\ ssts \in Records
    /\ deltas_num \in 0..UsizeMax /\ channel \in 0..ChannelSize
    /\ pc \in [Updaters -> UpdaterPcs] /\ op \in [Updaters -> Update]
    /\ mpc \in MergerPcs /\ paths \subseteq DeltaId /\ merged \in Records
    /\ deleting \subseteq paths /\ deleted \subseteq paths
    /\ mpc # "delete" => deleting = {} /\ deleted = {}
    /\ nextFile \in 1..(MaxFiles + 1) /\ nextDelta \in 1..(MaxDeltas + 1)
    /\ faults \in FaultCounts
    /\ acked \subseteq FileId /\ removed \subseteq FileId

\* Durability.  A file whose update returned Ok and that no persisted update
\* deletes is in what a restart loads, at every moment: merges, failed or
\* unacknowledged calls, crashes between any two steps of Manifest::update and
\* do_merge, and listings that miss a delta never lose it.
AckedDurable == acked \ removed \subseteq Recovered

\* Until an answer of the store is lost, the counter that throttles writers is
\* exact: it counts the delta objects, the updates that have raised it and not
\* written theirs, and the deletions not yet subtracted (inc_delta_num,
\* dec_delta_num, the store at startup).
InFlight == {u \in Updaters : pc[u] \in {"put", "dec"}}
Exact ==
    ~(phase = "starting" /\ mpc = "list") =>
        deltas_num = Cardinality(deltas) + Cardinality(InFlight) + Cardinality(deleted)
CounterExact == faults.lost = 0 => Exact

\* The check of the hard limit and the increment are two steps, so concurrent
\* updates overshoot it, by at most one delta each (maybe_schedule_merge), until
\* an answer is lost.
DeltaBound == faults.lost = 0 => Cardinality(deltas) <= HardMerge + Cardinality(Updaters)

\* No merge ever writes a snapshot without records: Snapshot::try_from would
\* refuse it, and with it every later merge and every startup.
SnapshotReadable == CanReadSnapshot

\* The debug assertion of delete_records: a merge finds every file it is told
\* to delete among the snapshot's records and the files it just added.
DeletedRecordsExist ==
    mpc = "read" => Dels(paths) \subseteq Ids(snapshot) \cup Adds(paths)

\* No file is recorded twice, in the snapshot or in the cache (the TODO of
\* add_records): a scan would read its rows twice.
NoDuplicateRecords == \A f \in FileId : snapshot[f] <= 1 /\ ssts[f] <= 1

\* The files the store stands for.  The deltas a merge has folded into the
\* snapshot and is deleting no longer count.
View ==
    LET ds == IF mpc = "delete" THEN deltas \ paths ELSE deltas
    IN  (Ids(snapshot) \cup Adds(ds)) \ Dels(ds)

\* The cache is the store's list, but for the updates that are persisted and
\* not applied yet.
CacheMatchesStore ==
    LET applying == {u \in Updaters : pc[u] = "apply"}
        adds == UNION {op[u].adds : u \in applying}
        dels == UNION {op[u].dels : u \in applying}
    IN  phase = "running" => Ids(ssts) = (View \ adds) \cup dels

\* What test_merge_manifest expects once every delta is merged: the snapshot
\* lists the files the cache lists.
MergedSnapshotMatchesCache ==
    phase = "running" /\ deltas = {} /\ mpc = "idle"
        /\ (\A u \in Updaters : pc[u] = "idle") => Ids(snapshot) = Ids(ssts)

\* Writers are not shut out for good: above the hard limit the merger brings
\* the counter down again, unless an answer of the store was lost.
WritersUnblocked == deltas_num > HardMerge ~> deltas_num <= HardMerge \/ faults.lost > 0

\* A merge, a failure and a restart leave the list of files as it is; only the
\* write of a delta changes it, by what one update adds and deletes.
Files == INSTANCE LiveFiles WITH live <- View, retired <- removed
ImplementsLiveFiles == Files!Spec
=============================================================================
