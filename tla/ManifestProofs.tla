--------------------------- MODULE ManifestProofs ---------------------------
(***************************************************************************)
(* Theorems about the manifest, for any number of callers, any thresholds  *)
(* and any set of faults: types, the durability of acknowledged files, the *)
(* counter of deltas, and the snapshot that is never empty.                *)
(***************************************************************************)
EXTENDS Manifest, FiniteSetTheorems, WellFoundedInduction, TLAPS

\* Most steps are first-order: Zenon is tried first, then SMT, then Zenon for longer.
USE ZenonT(3), SMTT(30), ZenonT(30)

\* A set of delta ids is finite and has at most MaxDeltas members.
LEMMA DeltaSets ==
    ASSUME NEW S \in SUBSET DeltaId
    PROVE  IsFiniteSet(S) /\ Cardinality(S) \in 0..MaxDeltas
<1>1. IsFiniteSet(1..MaxDeltas) /\ Cardinality(1..MaxDeltas) = MaxDeltas
  BY FS_Interval, BoundsAssumption
<1>2. IsFiniteSet(S) /\ Cardinality(S) <= MaxDeltas
  BY <1>1, FS_Subset DEF DeltaId
<1>3. Cardinality(S) \in Nat
  BY <1>2, FS_CardinalityType
<1> QED  BY <1>2, <1>3, BoundsAssumption

\* Folding deltas into the snapshot's records gives records.
LEMMA MergedType ==
    ASSUME TypeOK, NEW ds \in SUBSET DeltaId
    PROVE  MergedRecords(ds) \in Records
<1> SUFFICES ASSUME NEW f \in FileId
             PROVE  snapshot[f] + Cardinality({d \in ds : f \in payload[d].adds}) \in Nat
  BY DEF MergedRecords, Records
<1>1. Cardinality({d \in ds : f \in payload[d].adds}) \in Nat
  BY DeltaSets, BoundsAssumption
<1> QED  BY <1>1 DEF TypeOK, Records
-----------------------------------------------------------------------------
(***************************************************************************)
(* Type correctness.                                                       *)
(***************************************************************************)
\* A fault is counted within the bound.
LEMMA FaultType ==
    ASSUME TypeOK, NEW kind, Fault(kind)
    PROVE  faults' \in FaultCounts
<1>1. /\ faults.all \in 0..MaxFaults /\ faults.lost \in 0..MaxFaults
      /\ faults.lost <= faults.all /\ faults.all < MaxFaults
  BY DEF TypeOK, FaultCounts, Fault
<1>2. /\ faults'.all = faults.all + 1 /\ faults'.lost \in {faults.lost, faults.lost + 1}
      /\ faults' = [all |-> faults'.all, lost |-> faults'.lost]
  BY DEF Fault
<1> QED  BY <1>1, <1>2, BoundsAssumption DEF FaultCounts

\* A new process satisfies the type invariant whatever the store holds.
LEMMA RestartType ==
    ASSUME TypeOK, Restart, UNCHANGED payload,
           hasSnapshot' \in BOOLEAN, snapshot' \in Records, deltas' \subseteq DeltaId,
           faults' \in FaultCounts
    PROVE  TypeOK'
BY BoundsAssumption, ConfigAssumption, UsizeAssumption
DEF TypeOK, Restart, Records, Empty, Update, NoUpdate, UpdaterPcs, MergerPcs,
    IdAfterRestart, history

\* A merge that gives up leaves the types as they are.
LEMMA GiveUpType ==
    ASSUME TypeOK, GiveUpMerge, UNCHANGED payload, mpc # "delete",
           hasSnapshot' \in BOOLEAN, snapshot' \in Records, deltas' \subseteq DeltaId,
           faults' \in FaultCounts
    PROVE  TypeOK'
<1>1. CASE Restart  BY <1>1, RestartType
<1>2. CASE phase = "running" /\ ~Restart
  BY <1>2 DEF GiveUpMerge, TypeOK, Records, Empty, MergerPcs, updaters, history
<1> QED  BY <1>1, <1>2 DEF GiveUpMerge

\* The steps of Manifest::update keep the types.
LEMMA UpdaterType ==
    ASSUME TypeOK, NEW u \in Updaters, AddFile(u) \/ Replace(u) \/ UpdateStep(u)
    PROVE  TypeOK'
<1> USE BoundsAssumption, ConfigAssumption, UsizeAssumption
        DEF store, merger, updaters, history
<1>1. ASSUME NEW dels \in SUBSET FileId, Call(u, {nextFile}, dels)  PROVE TypeOK'
  BY <1>1 DEF Call, TypeOK, Update, UpdaterPcs, FileId
<1>2. CASE AddFile(u)  BY <1>1, <1>2 DEF AddFile
<1>3. CASE Replace(u)
  <2>1. PICK dels \in SUBSET Ids(ssts) : Call(u, {nextFile}, dels)
    BY <1>3 DEF Replace
  <2> QED  BY <2>1, <1>1 DEF Ids
<1>4. CASE MaybeScheduleMerge(u)
  <2>1. channel' \in 0..ChannelSize
    BY <1>4 DEF MaybeScheduleMerge, ScheduleMerge, TypeOK
  <2>2. pc' \in [Updaters -> UpdaterPcs] /\ op' \in [Updaters -> Update]
    BY <1>4 DEF MaybeScheduleMerge, Return, TypeOK, Update, NoUpdate, UpdaterPcs
  <2> QED  BY <1>4, <2>1, <2>2 DEF MaybeScheduleMerge, TypeOK
<1>5. CASE IncDeltaNum(u)
  BY <1>5 DEF IncDeltaNum, Inc, TypeOK, UpdaterPcs
<1>6. CASE PutDelta(u)
  BY <1>6 DEF PutDelta, Persist, TypeOK, UpdaterPcs, DeltaId, Update
<1>7. CASE PutDeltaFails(u)
  <2>1. faults' \in FaultCounts
    BY <1>7, FaultType DEF PutDeltaFails
  <2>2. /\ deltas' \subseteq DeltaId /\ payload' \in [DeltaId -> Update]
        /\ nextDelta' \in 1..(MaxDeltas + 1) /\ removed' \subseteq FileId
    <3>1. CASE UNCHANGED <<deltas, payload, nextDelta, removed>>
      BY <3>1 DEF TypeOK
    <3>2. CASE Persist(u)
      BY <3>2 DEF Persist, TypeOK, DeltaId, Update
    <3> QED  BY <1>7, <3>1, <3>2 DEF PutDeltaFails
  <2>3. pc' \in [Updaters -> UpdaterPcs]
    BY <1>7 DEF PutDeltaFails, TypeOK, UpdaterPcs
  <2> QED  BY <1>7, <2>1, <2>2, <2>3 DEF PutDeltaFails, TypeOK
<1>8. CASE ApplyToCache(u)
  <2>1. Cached(u) \in Records
    BY DEF Cached, TypeOK, Records
  <2> QED
    BY <1>8, <2>1 DEF ApplyToCache, Return, TypeOK, UpdaterPcs, Update, NoUpdate
<1>9. CASE DecDeltaNum(u)
  BY <1>9 DEF DecDeltaNum, Dec, Return, TypeOK, UpdaterPcs, Update, NoUpdate
<1> QED
  BY <1>2, <1>3, <1>4, <1>5, <1>6, <1>7, <1>8, <1>9 DEF UpdateStep

\* The steps of the merger and of the startup keep the types.
LEMMA MergerType ==
    ASSUME TypeOK, Tick \/ Receive \/ MergeStep \/ Crash
    PROVE  TypeOK'
<1> USE BoundsAssumption, ConfigAssumption, UsizeAssumption
        DEF store, merger, updaters, history
<1>1. CASE Tick \/ Receive
  BY <1>1 DEF Tick, Receive, Wake, TypeOK, MergerPcs
<1>2. CASE ListDeltas
  <2>1. Cardinality(deltas) \in 0..UsizeMax
    BY DeltaSets DEF TypeOK
  <2> QED
    BY <1>2, <2>1 DEF ListDeltas, AfterMerge, TypeOK, MergerPcs
<1>3. CASE ReadAndMerge
  <2>1. MergedRecords(paths) \in Records
    BY MergedType DEF TypeOK
  <2> QED
    BY <1>3, <2>1 DEF ReadAndMerge, TypeOK, MergerPcs
<1>4. CASE PutSnapshot
  BY <1>4 DEF PutSnapshot, MergedPaths, TypeOK, MergerPcs, Records, Empty
<1>5. ASSUME NEW d \in DeltaId, DeleteDelta(d)  PROVE TypeOK'
  <2>1. faults' \in FaultCounts
    BY <1>5, FaultType DEF DeleteDelta, TypeOK
  <2> QED  BY <1>5, <2>1 DEF DeleteDelta, TypeOK
<1>6. ASSUME NEW d \in DeltaId, DecDeleted(d)  PROVE TypeOK'
  BY <1>6 DEF DecDeleted, Dec, TypeOK
<1>7. CASE MergeDone
  BY <1>7 DEF MergeDone, AfterMerge, TypeOK, MergerPcs
<1>8. CASE LoadSnapshot
  BY <1>8 DEF LoadSnapshot, TypeOK, MergerPcs
<1>9. CASE ReadFails
  BY <1>9, FaultType, GiveUpType DEF ReadFails, TypeOK
<1>10. CASE PutSnapshotFails
  <2>1. faults' \in FaultCounts
    BY <1>10, FaultType DEF PutSnapshotFails
  <2>2. hasSnapshot' \in BOOLEAN /\ snapshot' \in Records
    <3>1. CASE UNCHANGED <<hasSnapshot, snapshot>>  BY <3>1 DEF TypeOK
    <3>2. CASE hasSnapshot' = TRUE /\ snapshot' = merged  BY <3>2 DEF TypeOK
    <3> QED  BY <1>10, <3>1, <3>2 DEF PutSnapshotFails
  <2>3. deltas' \subseteq DeltaId /\ UNCHANGED payload /\ GiveUpMerge /\ mpc # "delete"
    BY <1>10 DEF PutSnapshotFails, TypeOK
  <2> QED  BY <2>1, <2>2, <2>3, GiveUpType
<1>11. CASE LoadFails
  BY <1>11, FaultType, RestartType DEF LoadFails, TypeOK
<1>12. CASE Crash
  BY <1>12, FaultType, RestartType DEF Crash, TypeOK
<1>13. CASE BeginListing
  BY <1>13, FaultType DEF BeginListing, TypeOK, MergerPcs
<1>14. CASE EndListing
  BY <1>14 DEF EndListing, AfterMerge, TypeOK, MergerPcs
<1> QED
  BY <1>1, <1>2, <1>3, <1>4, <1>5, <1>6, <1>7, <1>8, <1>9, <1>10, <1>11, <1>12, <1>13,
     <1>14
  DEF MergeStep

\* Every step keeps the types.
LEMMA TypeStep == TypeOK /\ [Next]_vars => TypeOK'
<1> SUFFICES ASSUME TypeOK, [Next]_vars  PROVE TypeOK'
  OBVIOUS
<1>1. CASE UNCHANGED vars
  BY <1>1 DEF vars, store, merger, updaters, history, TypeOK
<1>2. CASE Next
  BY <1>2, UpdaterType, MergerType DEF Next
<1> QED  BY <1>1, <1>2

\* The initial state has the types.
LEMMA TypeInit == Init => TypeOK
<1> SUFFICES ASSUME Init  PROVE TypeOK
  OBVIOUS
<1>1. Empty \in Records /\ NoUpdate \in Update
  BY DEF Empty, Records, NoUpdate, Update
<1>2. hasSnapshot \in BOOLEAN
  BY DEF Init
<1>3. /\ payload \in [DeltaId -> Update]
      /\ pc \in [Updaters -> UpdaterPcs] /\ op \in [Updaters -> Update]
  BY <1>1 DEF Init, UpdaterPcs
<1> QED
  BY <1>1, <1>2, <1>3, BoundsAssumption, ConfigAssumption, UsizeAssumption
  DEF Init, TypeOK, MergerPcs, FaultCounts

\* The state of the manifest and of its merger is well typed in every
\* reachable state; in particular the counter of deltas never leaves usize.
THEOREM TypeCorrect == Spec => []TypeOK
BY TypeInit, TypeStep, PTL DEF Spec
-----------------------------------------------------------------------------
(***************************************************************************)
(* Durability.  The inductive invariant says where a promised file is at   *)
(* each step of a merge: in the snapshot or in a delta on the store; while *)
(* the merged snapshot is in memory only, in that one too; and once it is  *)
(* put, in the snapshot for every delta that may now be deleted.           *)
(***************************************************************************)
Persisted == 1..(nextDelta - 1)

\* Only persisted ids are on the store or in a merger's list, and what they
\* delete is recorded as removed.
IdsPersisted ==
    /\ deltas \subseteq Persisted /\ paths \subseteq Persisted
    /\ \A d \in Persisted : payload[d].dels \subseteq removed

\* Files an update has promised or is about to promise.
Promised == {f \in FileId :
                f \in acked \/ \E u \in Updaters : pc[u] = "apply" /\ f \in op[u].adds}

OnStore(f) == snapshot[f] > 0 \/ \E d \in deltas : f \in payload[d].adds

Held == \A f \in Promised : f \notin removed => OnStore(f)

Folded ==
    mpc = "put" => \A f \in FileId :
        /\ f \notin removed
        /\ snapshot[f] > 0 \/ \E d \in paths : f \in payload[d].adds
        => merged[f] > 0

Covered ==
    mpc = "delete" => \A d \in paths : \A f \in payload[d].adds :
        f \notin removed => snapshot[f] > 0

DurableInv == IdsPersisted /\ Held /\ Folded /\ Covered

\* A step that leaves the store, the merger and the removals alone, and promises
\* no new file, keeps the invariant.
LEMMA DurableQuiet ==
    ASSUME TypeOK, DurableInv, Promised' \subseteq Promised,
           UNCHANGED <<snapshot, deltas, payload, removed, nextDelta>>,
           UNCHANGED <<mpc, paths, merged>>
    PROVE  DurableInv'
<1>1. IdsPersisted'
  BY DEF DurableInv, IdsPersisted, Persisted
<1>2. Held'
  BY DEF DurableInv, Held, OnStore
<1>3. Folded' /\ Covered'
  BY DEF DurableInv, Folded, Covered
<1> QED  BY <1>1, <1>2, <1>3 DEF DurableInv

\* So does the end of the process, or of a merge, with the store as it was or
\* with the merged snapshot put.
LEMMA DurableReset ==
    ASSUME TypeOK, DurableInv, Promised' \subseteq Promised,
           UNCHANGED <<deltas, payload, removed, nextDelta>>,
           UNCHANGED snapshot \/ (mpc = "put" /\ snapshot' = merged),
           mpc' \notin {"put", "delete"}, paths' \subseteq deltas \/ paths' = paths
    PROVE  DurableInv'
<1>1. IdsPersisted'
  BY DEF DurableInv, IdsPersisted, Persisted
<1>2. Held'
  <2> SUFFICES ASSUME NEW f \in Promised', f \notin removed'  PROVE OnStore(f)'
    BY DEF Held
  <2>1. f \in FileId /\ OnStore(f)
    BY DEF DurableInv, Held, Promised
  <2>2. CASE UNCHANGED snapshot  BY <2>1, <2>2 DEF OnStore
  <2>3. CASE mpc = "put" /\ snapshot' = merged
    BY <2>1, <2>3 DEF OnStore, DurableInv, Folded
  <2> QED  BY <2>2, <2>3
<1>3. Folded' /\ Covered'
  BY DEF Folded, Covered
<1> QED  BY <1>1, <1>2, <1>3 DEF DurableInv

\* A delta that reaches the store holds the files its update adds, whether or
\* not the caller learns of it.
LEMMA DurablePersist ==
    ASSUME TypeOK, DurableInv, NEW u \in Updaters, pc[u] = "put", Persist(u),
           NEW to \in {"apply", "dec"}, pc' = [pc EXCEPT ![u] = to],
           UNCHANGED <<snapshot, op, acked, merger>>
    PROVE  DurableInv'
<1> USE DEF merger
<1>1. IdsPersisted'
  <2>1. deltas' \subseteq Persisted' /\ paths' \subseteq Persisted'
    BY DEF DurableInv, IdsPersisted, Persisted, Persist, TypeOK, DeltaId
  <2>2. ASSUME NEW d \in Persisted'  PROVE payload'[d].dels \subseteq removed'
    <3>1. CASE d = nextDelta
      BY <3>1 DEF Persist, TypeOK, DeltaId
    <3>2. CASE d # nextDelta
      <4>1. d \in Persisted /\ payload'[d] = payload[d]
        BY <3>2 DEF Persist, Persisted, TypeOK, DeltaId
      <4> QED  BY <4>1 DEF DurableInv, IdsPersisted, Persist
    <3> QED  BY <3>1, <3>2
  <2> QED  BY <2>1, <2>2 DEF IdsPersisted
<1>2. \A d \in Persisted : payload'[d] = payload[d]
  BY DEF Persist, Persisted, TypeOK, DeltaId
<1>3. Held'
  <2> SUFFICES ASSUME NEW f \in Promised', f \notin removed'  PROVE OnStore(f)'
    BY DEF Held
  <2>1. CASE f \in Promised
    <3>1. OnStore(f)
      BY <2>1 DEF DurableInv, Held, Persist
    <3> QED
      BY <3>1, <1>2 DEF OnStore, Persist, DurableInv, IdsPersisted
  <2>2. CASE f \notin Promised
    <3>1. f \in op[u].adds
      BY <2>2 DEF Promised, TypeOK
    <3> QED
      BY <3>1 DEF OnStore, Persist, TypeOK, DeltaId
  <2> QED  BY <2>1, <2>2
<1>4. Folded' /\ Covered'
  BY <1>2 DEF DurableInv, Folded, Covered, IdsPersisted, Persist
<1> QED  BY <1>1, <1>3, <1>4 DEF DurableInv

\* The steps of Manifest::update keep the invariant.
LEMMA DurableUpdate ==
    ASSUME TypeOK, DurableInv, NEW u \in Updaters,
           AddFile(u) \/ Replace(u) \/ UpdateStep(u)
    PROVE  DurableInv'
<1> USE DEF store, merger, updaters, history
<1>1. CASE AddFile(u) \/ Replace(u)
  <2>1. PICK adds, dels : Call(u, adds, dels)
    BY <1>1 DEF AddFile, Replace
  <2>2. Promised' \subseteq Promised
    BY <2>1 DEF Call, Promised, TypeOK
  <2> QED  BY <2>1, <2>2, DurableQuiet DEF Call
<1>2. CASE MaybeScheduleMerge(u)
  <2>1. Promised' \subseteq Promised
    BY <1>2 DEF MaybeScheduleMerge, Return, Promised, TypeOK
  <2> QED  BY <1>2, <2>1, DurableQuiet DEF MaybeScheduleMerge
<1>3. CASE IncDeltaNum(u)
  <2>1. Promised' \subseteq Promised
    BY <1>3 DEF IncDeltaNum, Promised, TypeOK
  <2> QED  BY <1>3, <2>1, DurableQuiet DEF IncDeltaNum
<1>4. CASE PutDelta(u)
  BY <1>4, DurablePersist DEF PutDelta
<1>5. CASE PutDeltaFails(u)
  <2>1. CASE UNCHANGED <<deltas, payload, nextDelta, removed>>
    <3>1. Promised' \subseteq Promised
      BY <1>5 DEF PutDeltaFails, Promised, TypeOK
    <3> QED  BY <1>5, <2>1, <3>1, DurableQuiet DEF PutDeltaFails
  <2>2. CASE Persist(u)
    BY <1>5, <2>2, DurablePersist DEF PutDeltaFails
  <2> QED  BY <1>5, <2>1, <2>2 DEF PutDeltaFails
<1>6. CASE ApplyToCache(u)
  <2>1. Promised' \subseteq Promised
    BY <1>6 DEF ApplyToCache, Return, Promised, TypeOK
  <2> QED  BY <1>6, <2>1, DurableQuiet DEF ApplyToCache
<1>7. CASE DecDeltaNum(u)
  <2>1. Promised' \subseteq Promised
    BY <1>7 DEF DecDeltaNum, Return, Promised, TypeOK
  <2> QED  BY <1>7, <2>1, DurableQuiet DEF DecDeltaNum
<1> QED
  BY <1>1, <1>2, <1>3, <1>4, <1>5, <1>6, <1>7 DEF UpdateStep

\* A restart promises nothing new.
LEMMA DurableRestart ==
    ASSUME TypeOK, DurableInv, Restart, UNCHANGED <<deltas, payload>>,
           UNCHANGED snapshot \/ (mpc = "put" /\ snapshot' = merged)
    PROVE  DurableInv'
<1>1. Promised' \subseteq Promised
  BY DEF Restart, Promised, history
<1>2. UNCHANGED <<removed, nextDelta>> /\ mpc' = "list" /\ paths' = {}
  BY DEF Restart, IdAfterRestart, history
<1> QED  BY <1>1, <1>2, DurableReset

\* The steps of the merger and of the startup keep the invariant.
LEMMA DurableMerge ==
    ASSUME TypeOK, DurableInv, Tick \/ Receive \/ MergeStep \/ Crash
    PROVE  DurableInv'
<1> USE DEF store, merger, updaters, history
<1>1. UNCHANGED <<pc, op, acked>> => Promised' = Promised
  BY DEF Promised
<1>2. CASE Tick \/ Receive
  BY <1>2, <1>1, DurableReset DEF Tick, Receive, Wake
<1>3. CASE ListDeltas
  BY <1>3, <1>1, DurableReset DEF ListDeltas, AfterMerge
<1>4. CASE ReadAndMerge
  <2>1. IdsPersisted' /\ Held' /\ Covered'
    BY <1>4, <1>1 DEF ReadAndMerge, DurableInv, IdsPersisted, Persisted, Held,
                      OnStore, Covered
  <2>2. Folded'
    <3> SUFFICES ASSUME NEW f \in FileId, f \notin removed,
                        snapshot[f] > 0 \/ \E d \in paths : f \in payload[d].adds
                 PROVE  MergedRecords(paths)[f] > 0
      BY <1>4 DEF ReadAndMerge, Folded
    <3> DEFINE with == {d \in paths : f \in payload[d].adds}
    <3>1. f \notin Dels(paths)
      BY DEF Dels, DurableInv, IdsPersisted
    <3>2. IsFiniteSet(with) /\ Cardinality(with) \in Nat
      BY DeltaSets, BoundsAssumption DEF TypeOK
    <3>3. with # {} => Cardinality(with) > 0
      BY <3>2, FS_EmptySet
    <3>4. snapshot[f] \in Nat /\ snapshot[f] + Cardinality(with) > 0
      BY <3>2, <3>3 DEF TypeOK, Records
    <3> QED  BY <3>1, <3>4 DEF MergedRecords
  <2> QED  BY <2>1, <2>2 DEF DurableInv
<1>5. CASE PutSnapshot
  <2>1. IdsPersisted'
    BY <1>5 DEF PutSnapshot, DurableInv, IdsPersisted, Persisted
  <2>2. Held'
    <3> SUFFICES ASSUME NEW f \in Promised', f \notin removed'  PROVE OnStore(f)'
      BY DEF Held
    <3>1. f \in FileId /\ f \notin removed /\ OnStore(f)
      BY <1>5, <1>1 DEF PutSnapshot, DurableInv, Held, Promised
    <3> QED
      BY <1>5, <3>1 DEF PutSnapshot, DurableInv, Folded, OnStore
  <2>3. Folded' /\ Covered'
    <3>1. \A d \in paths : payload[d].adds \subseteq FileId
      BY DEF TypeOK, Update
    <3> QED  BY <1>5, <3>1 DEF PutSnapshot, DurableInv, Folded, Covered
  <2> QED  BY <2>1, <2>2, <2>3 DEF DurableInv
<1>6. ASSUME NEW d \in DeltaId, DeleteDelta(d)  PROVE DurableInv'
  <2>1. IdsPersisted' /\ Folded' /\ Covered'
    BY <1>6 DEF DeleteDelta, DurableInv, IdsPersisted, Persisted, Folded, Covered
  <2>2. Held'
    <3> SUFFICES ASSUME NEW f \in Promised', f \notin removed'  PROVE OnStore(f)'
      BY DEF Held
    <3>1. f \notin removed /\ OnStore(f) /\ d \in paths
      BY <1>6, <1>1 DEF DeleteDelta, DurableInv, Held, TypeOK
    <3> QED
      BY <1>6, <3>1 DEF DeleteDelta, DurableInv, Covered, OnStore
  <2> QED  BY <2>1, <2>2 DEF DurableInv
<1>7. ASSUME NEW d \in DeltaId, DecDeleted(d)  PROVE DurableInv'
  BY <1>7, <1>1, DurableQuiet DEF DecDeleted
<1>8. CASE MergeDone
  BY <1>8, <1>1, DurableReset DEF MergeDone, AfterMerge
<1>9. CASE LoadSnapshot
  BY <1>9, <1>1, DurableReset DEF LoadSnapshot
<1>10. ASSUME GiveUpMerge, UNCHANGED <<deltas, payload>>,
              UNCHANGED snapshot \/ (mpc = "put" /\ snapshot' = merged)
       PROVE  DurableInv'
  <2>1. CASE Restart  BY <1>10, <2>1, DurableRestart
  <2>2. CASE phase = "running" /\ ~Restart
    BY <1>10, <2>2, <1>1, DurableReset DEF GiveUpMerge
  <2> QED  BY <1>10, <2>1, <2>2 DEF GiveUpMerge
<1>11. CASE ReadFails
  BY <1>11, <1>10 DEF ReadFails
<1>12. CASE PutSnapshotFails
  BY <1>12, <1>10 DEF PutSnapshotFails
<1>13. CASE LoadFails \/ Crash
  BY <1>13, DurableRestart DEF LoadFails, Crash
<1>14. CASE BeginListing \/ EndListing
  BY <1>14, <1>1, DurableReset DEF BeginListing, EndListing, AfterMerge
<1> QED
  BY <1>2, <1>3, <1>4, <1>5, <1>6, <1>7, <1>8, <1>9, <1>11, <1>12, <1>13, <1>14
  DEF MergeStep

\* The invariant is inductive relative to the types.
LEMMA DurableStep == TypeOK /\ DurableInv /\ [Next]_vars => DurableInv'
<1> SUFFICES ASSUME TypeOK, DurableInv, [Next]_vars  PROVE DurableInv'
  OBVIOUS
<1>1. CASE UNCHANGED vars
  <2>1. Promised' = Promised
    BY <1>1 DEF vars, updaters, history, Promised
  <2> QED
    BY <1>1, <2>1, DurableQuiet DEF vars, store, merger, history
<1>2. CASE Next
  BY <1>2, DurableUpdate, DurableMerge DEF Next
<1> QED  BY <1>1, <1>2

\* It holds of the empty store.
LEMMA DurableInit == Init => DurableInv
BY DEF Init, DurableInv, IdsPersisted, Persisted, Held, Promised, Folded, Covered

\* It implies the property: nothing on the store deletes a promised file.
LEMMA DurableImplies == TypeOK /\ DurableInv => AckedDurable
<1> SUFFICES ASSUME TypeOK, DurableInv, NEW f \in acked, f \notin removed
             PROVE  f \in Recovered
  BY DEF AckedDurable
<1>1. f \in FileId /\ OnStore(f)
  BY DEF TypeOK, DurableInv, Held, Promised
<1>2. f \notin Dels(deltas)
  BY DEF Dels, DurableInv, IdsPersisted
<1>3. f \in Ids(snapshot) \cup Adds(deltas)
  BY <1>1 DEF OnStore, Ids, Adds
<1> QED  BY <1>2, <1>3 DEF Recovered

\* Manifest::update keeps its promise: once it returned Ok, the files it added
\* are in what any later start of the process loads, until another update
\* deletes them, whatever calls fail and wherever the process dies.
THEOREM Durability == Spec => []AckedDurable
<1>1. Init => TypeOK /\ DurableInv
  BY TypeInit, DurableInit
<1>2. TypeOK /\ DurableInv /\ [Next]_vars => TypeOK' /\ DurableInv'
  BY TypeStep, DurableStep
<1>3. TypeOK /\ DurableInv => AckedDurable
  BY DurableImplies
<1> QED  BY <1>1, <1>2, <1>3, PTL DEF Spec
-----------------------------------------------------------------------------
(***************************************************************************)
(* The counter of deltas that throttles the callers of Manifest::update.   *)
(*                                                                         *)
(* Two facts carry each other: the counter is exact, and it plus the       *)
(* callers that passed the check and have not raised it yet is at most     *)
(* HardMerge plus the number of callers.  The second keeps it from         *)
(* wrapping and bounds the deltas; the first makes a decrement safe.       *)
(***************************************************************************)

Limit == HardMerge + Cardinality(Updaters)

Checked == {u \in Updaters : pc[u] = "inc"}

Counting == ~(phase = "starting" /\ mpc = "list")

\* No caller is inside update before the startup is over.
StartupAlone == phase = "starting" => \A u \in Updaters : pc[u] = "idle"

\* The merger only deletes deltas that are there, once each.
MergerOwns ==
    /\ deltas \subseteq Persisted
    /\ mpc \in {"read", "put"} => paths \subseteq deltas
    /\ deleting \subseteq deltas
    /\ deleting \cap deleted = {}

Bounded ==
    /\ Counting => deltas_num + Cardinality(Checked) <= Limit
    /\ Cardinality(deltas) <= Limit
    /\ ~Counting => deltas_num = 0

AnswersKept == faults.lost = 0

CounterInv == StartupAlone /\ MergerOwns /\ Exact /\ Bounded

\* The sets that are counted are finite.
LEMMA Counted ==
    ASSUME TypeOK
    PROVE  /\ IsFiniteSet(deltas) /\ Cardinality(deltas) \in Nat
           /\ IsFiniteSet(deleted) /\ Cardinality(deleted) \in Nat
           /\ IsFiniteSet(InFlight) /\ Cardinality(InFlight) \in Nat
           /\ IsFiniteSet(Checked) /\ Cardinality(Checked) \in Nat
           /\ Cardinality(Checked) <= Cardinality(Updaters)
           /\ Cardinality(Updaters) \in Nat
           /\ Limit \in Nat /\ HardMerge <= Limit /\ Limit < UsizeMax
<1>1. IsFiniteSet(deltas) /\ IsFiniteSet(deleted)
  BY DeltaSets DEF TypeOK
<1>2. /\ IsFiniteSet(InFlight) /\ IsFiniteSet(Checked)
      /\ Cardinality(Checked) <= Cardinality(Updaters)
  <2>1. InFlight \in SUBSET Updaters /\ Checked \in SUBSET Updaters
    BY DEF InFlight, Checked
  <2> QED  BY <2>1, FS_Subset, UpdatersAssumption
<1>3. Cardinality(Updaters) \in Nat
  BY FS_CardinalityType, UpdatersAssumption
<1>4. Limit \in Nat /\ HardMerge <= Limit /\ Limit < UsizeMax
  BY <1>3, ConfigAssumption, UsizeAssumption DEF Limit
<1> QED  BY <1>1, <1>2, <1>3, <1>4, FS_CardinalityType

\* A step that moves no counted thing keeps the invariant.
LEMMA CounterQuiet ==
    ASSUME TypeOK, CounterInv, UNCHANGED <<deltas, deltas_num, deleted, deleting, nextDelta>>,
           InFlight' = InFlight, Cardinality(Checked') <= Cardinality(Checked),
           Cardinality(Checked') \in Nat,
           Counting, Counting', StartupAlone',
           mpc' \in {"read", "put"} => paths' \subseteq deltas
    PROVE  CounterInv'
<1>1. MergerOwns'
  BY DEF CounterInv, MergerOwns, Persisted
<1>2. Exact'
  BY DEF CounterInv, Exact, Counting
<1>3. Bounded'
  BY Counted DEF CounterInv, Bounded, Limit, TypeOK
<1> QED  BY <1>1, <1>2, <1>3 DEF CounterInv

\* A new process starts counting from nothing.
LEMMA CounterRestart ==
    ASSUME TypeOK, CounterInv, Restart, UNCHANGED deltas
    PROVE  CounterInv'
<1>1. StartupAlone'
  BY DEF Restart, StartupAlone
<1>2. MergerOwns'
  BY DEF Restart, IdAfterRestart, CounterInv, MergerOwns, Persisted
<1>3. Exact' /\ Bounded'
  BY DEF Restart, CounterInv, Exact, Bounded, Counting, Limit
<1> QED  BY <1>1, <1>2, <1>3 DEF CounterInv

\* A step that loses no answer did not meet that fault.
LEMMA KeptAnswer ==
    ASSUME TypeOK, AnswersKept'
    PROVE  ~Fault("lost_ack")
BY DEF TypeOK, FaultCounts, Fault, AnswersKept

\* The steps of Manifest::update keep the invariant as long as no answer is lost.
LEMMA CounterUpdate ==
    ASSUME TypeOK, CounterInv, AnswersKept', NEW u \in Updaters,
           AddFile(u) \/ Replace(u) \/ UpdateStep(u)
    PROVE  CounterInv'
<1> USE DEF store, merger, updaters, history
<1>1. pc[u] # "idle" => phase = "running" /\ Counting
  BY DEF CounterInv, StartupAlone, Counting, TypeOK
<1>2. CASE AddFile(u) \/ Replace(u)
  <2>1. PICK adds, dels : Call(u, adds, dels)
    BY <1>2 DEF AddFile, Replace
  <2>2. InFlight' = InFlight /\ Checked' = Checked
    BY <2>1 DEF Call, InFlight, Checked, TypeOK
  <2>3. Counting /\ Counting' /\ StartupAlone'
    BY <2>1 DEF Call, Counting, StartupAlone
  <2> QED
    BY <2>1, <2>2, <2>3, Counted, CounterQuiet DEF Call, CounterInv, MergerOwns
<1>3. CASE MaybeScheduleMerge(u) /\ OverHardLimit(deltas_num)
  <2>1. InFlight' = InFlight /\ Checked' = Checked
    BY <1>3 DEF MaybeScheduleMerge, Return, InFlight, Checked, TypeOK
  <2>2. Counting /\ Counting' /\ StartupAlone'
    BY <1>3, <1>1 DEF MaybeScheduleMerge, Counting, StartupAlone
  <2> QED
    BY <1>3, <2>1, <2>2, Counted, CounterQuiet DEF MaybeScheduleMerge, CounterInv, MergerOwns
<1>4. CASE MaybeScheduleMerge(u) /\ ~OverHardLimit(deltas_num)
  <2>1. InFlight' = InFlight /\ Checked' = Checked \cup {u}
    BY <1>4 DEF MaybeScheduleMerge, InFlight, Checked, TypeOK
  <2>2. Counting /\ Counting' /\ StartupAlone'
    BY <1>4, <1>1 DEF MaybeScheduleMerge, Counting, StartupAlone
  <2>3. MergerOwns' /\ Exact'
    BY <1>4, <2>1, <2>2
    DEF MaybeScheduleMerge, CounterInv, MergerOwns, Exact, Persisted, Counting
  <2>4. Cardinality(Checked') \in Nat /\ Cardinality(Checked') <= Cardinality(Updaters)
    <3>1. Checked' \in SUBSET Updaters
      BY DEF Checked
    <3> QED  BY <3>1, FS_Subset, FS_CardinalityType, UpdatersAssumption
  <2>5. Bounded'
    BY <1>4, <2>2, <2>4, Counted, ConfigAssumption
    DEF MaybeScheduleMerge, OverHardLimit, CounterInv, Bounded, Limit, TypeOK
  <2> QED  BY <2>2, <2>3, <2>5 DEF CounterInv
<1>5. CASE IncDeltaNum(u)
  <2>1. /\ InFlight' = InFlight \cup {u} /\ u \notin InFlight
        /\ Checked' = Checked \ {u} /\ u \in Checked
    BY <1>5 DEF IncDeltaNum, InFlight, Checked, TypeOK
  <2>2. Counting /\ Counting' /\ StartupAlone'
    BY <1>5, <1>1 DEF IncDeltaNum, Counting, StartupAlone
  <2>3. /\ Cardinality(InFlight') = Cardinality(InFlight) + 1
        /\ Cardinality(Checked') = Cardinality(Checked) - 1
    BY <2>1, Counted, FS_AddElement, FS_RemoveElement
  <2>4. Cardinality(Checked) # 0
    BY <2>1, Counted, FS_EmptySet
  <2>5. deltas_num' = deltas_num + 1
    BY <1>5, <2>2, <2>4, Counted
    DEF IncDeltaNum, Inc, CounterInv, Bounded, TypeOK
  <2>6. MergerOwns'
    BY <1>5 DEF IncDeltaNum, CounterInv, MergerOwns, Persisted
  <2>7. Exact' /\ Bounded'
    BY <1>5, <2>2, <2>3, <2>5, Counted
    DEF IncDeltaNum, CounterInv, Exact, Bounded, Counting, Limit, TypeOK
  <2> QED  BY <2>2, <2>6, <2>7 DEF CounterInv
<1>6. CASE PutDelta(u)
  <2>1. /\ InFlight' = InFlight \ {u} /\ u \in InFlight
        /\ Checked' = Checked
    BY <1>6 DEF PutDelta, InFlight, Checked, TypeOK
  <2>2. Counting /\ Counting' /\ StartupAlone'
    BY <1>6, <1>1 DEF PutDelta, Counting, StartupAlone
  <2>3. deltas' = deltas \cup {nextDelta} /\ nextDelta \notin deltas
    BY <1>6 DEF PutDelta, Persist, CounterInv, MergerOwns, Persisted, TypeOK
  <2>4. /\ Cardinality(InFlight') = Cardinality(InFlight) - 1
        /\ Cardinality(deltas') = Cardinality(deltas) + 1
    BY <2>1, <2>3, Counted, FS_AddElement, FS_RemoveElement
  <2>5. Cardinality(InFlight) # 0
    BY <2>1, Counted, FS_EmptySet
  <2>6. MergerOwns'
    <3>1. deltas' \subseteq Persisted'
      <4>1. nextDelta' = nextDelta + 1 /\ nextDelta \in Nat \ {0}
        BY <1>6, BoundsAssumption DEF PutDelta, Persist, TypeOK
      <4>2. deltas \subseteq 1..(nextDelta - 1)
        BY DEF CounterInv, MergerOwns, Persisted
      <4> QED  BY <2>3, <4>1, <4>2 DEF Persisted
    <3> QED  BY <1>6, <2>3, <3>1 DEF PutDelta, CounterInv, MergerOwns
  <2>7. Exact' /\ Bounded'
    BY <1>6, <2>1, <2>2, <2>4, <2>5, Counted
    DEF PutDelta, CounterInv, Exact, Bounded, Counting, Limit, TypeOK
  <2> QED  BY <2>2, <2>6, <2>7 DEF CounterInv
<1>7. CASE PutDeltaFails(u)
  <2>1. InFlight' = InFlight /\ Checked' = Checked
    BY <1>7 DEF PutDeltaFails, InFlight, Checked, TypeOK
  <2>2. Counting /\ Counting' /\ StartupAlone'
    BY <1>7, <1>1 DEF PutDeltaFails, Counting, StartupAlone
  <2>3. /\ UNCHANGED <<deltas, deltas_num, deleted, deleting, nextDelta>>
        /\ mpc' \in {"read", "put"} => paths' \subseteq deltas
    BY <1>7, KeptAnswer DEF PutDeltaFails, CounterInv, MergerOwns
  <2>4. Cardinality(Checked') <= Cardinality(Checked) /\ Cardinality(Checked') \in Nat
    BY <2>1, Counted
  <2> QED  BY <2>1, <2>2, <2>3, <2>4, CounterQuiet
<1>8. CASE ApplyToCache(u)
  <2>1. InFlight' = InFlight /\ Checked' = Checked
    BY <1>8 DEF ApplyToCache, Return, InFlight, Checked, TypeOK
  <2>2. Counting /\ Counting' /\ StartupAlone'
    BY <1>8, <1>1 DEF ApplyToCache, Counting, StartupAlone
  <2>3. /\ UNCHANGED <<deltas, deltas_num, deleted, deleting, nextDelta>>
        /\ mpc' \in {"read", "put"} => paths' \subseteq deltas
    BY <1>8 DEF ApplyToCache, CounterInv, MergerOwns
  <2>4. Cardinality(Checked') <= Cardinality(Checked) /\ Cardinality(Checked') \in Nat
    BY <2>1, Counted
  <2> QED  BY <2>1, <2>2, <2>3, <2>4, CounterQuiet
<1>9. CASE DecDeltaNum(u)
  <2>1. /\ InFlight' = InFlight \ {u} /\ u \in InFlight
        /\ Checked' = Checked
    BY <1>9 DEF DecDeltaNum, Return, InFlight, Checked, TypeOK
  <2>2. Counting /\ Counting' /\ StartupAlone'
    BY <1>9, <1>1 DEF DecDeltaNum, Counting, StartupAlone
  <2>3. Cardinality(InFlight') = Cardinality(InFlight) - 1 /\ Cardinality(InFlight) # 0
    BY <2>1, Counted, FS_RemoveElement, FS_EmptySet
  <2>4. deltas_num' = deltas_num - 1
    BY <1>9, <2>2, <2>3, Counted DEF DecDeltaNum, Dec, CounterInv, Exact, Counting, TypeOK
  <2>5. MergerOwns'
    BY <1>9 DEF DecDeltaNum, CounterInv, MergerOwns, Persisted
  <2>6. Exact' /\ Bounded'
    BY <1>9, <2>1, <2>2, <2>3, <2>4, Counted
    DEF DecDeltaNum, CounterInv, Exact, Bounded, Counting, Limit, TypeOK
  <2> QED  BY <2>2, <2>5, <2>6 DEF CounterInv
<1> QED
  BY <1>2, <1>3, <1>4, <1>5, <1>6, <1>7, <1>8, <1>9 DEF UpdateStep

\* The steps of the merger and of the startup keep the invariant as long
\* as no answer is lost.
LEMMA CounterMerge ==
    ASSUME TypeOK, CounterInv, AnswersKept',
           Tick \/ Receive \/ MergeStep \/ Crash
    PROVE  CounterInv'
<1> USE DEF store, merger, updaters, history
<1>1. UNCHANGED pc => InFlight' = InFlight /\ Checked' = Checked
  BY DEF InFlight, Checked
<1>2. UNCHANGED <<pc, phase>> => StartupAlone'
  BY DEF CounterInv, StartupAlone
<1>3. CASE Tick \/ Receive
  <2>1. Counting /\ Counting'
    BY <1>3 DEF Tick, Receive, Wake, Counting
  <2> QED
    BY <1>3, <1>1, <1>2, <2>1, Counted, CounterQuiet DEF Tick, Receive, Wake
<1>4. CASE ListDeltas
  <2>1. Counting'
    BY <1>4 DEF ListDeltas, AfterMerge, Counting
  <2>2. MergerOwns'
    BY <1>4 DEF ListDeltas, CounterInv, MergerOwns, Persisted
  <2>3. CASE Counting
    BY <1>4, <1>1, <1>2, <2>1, <2>3, Counted, CounterQuiet DEF ListDeltas, Counting
  <2>4. CASE ~Counting
    <3>1. InFlight' = {} /\ Checked' = {} /\ deleted' = {} /\ deltas' = deltas
      BY <1>4, <2>4
      DEF ListDeltas, Counting, CounterInv, StartupAlone, InFlight, Checked, TypeOK
    <3>2. deltas_num' = Cardinality(deltas)
      BY <1>4, <2>4, FS_EmptySet DEF ListDeltas, Counting, CounterInv, Bounded
    <3> QED
      BY <1>4, <1>2, <2>1, <2>2, <3>1, <3>2, FS_EmptySet, Counted
      DEF ListDeltas, CounterInv, Exact, Bounded, Counting, Limit
  <2> QED  BY <2>3, <2>4
<1>5. CASE ReadAndMerge
  <2>1. Counting /\ Counting'
    BY <1>5 DEF ReadAndMerge, Counting
  <2> QED
    BY <1>5, <1>1, <1>2, <2>1, Counted, CounterQuiet
    DEF ReadAndMerge, CounterInv, MergerOwns
<1>6. CASE PutSnapshot
  <2>1. Counting /\ Counting' /\ StartupAlone' /\ deleted = {} /\ deleted' = {}
    BY <1>6, <1>2 DEF PutSnapshot, Counting, TypeOK
  <2>2. MergerOwns'
    BY <1>6 DEF PutSnapshot, MergedPaths, CounterInv, MergerOwns, Persisted
  <2>3. Exact' /\ Bounded'
    BY <1>6, <1>1, <2>1
    DEF PutSnapshot, CounterInv, Exact, Bounded, Counting, Limit
  <2> QED  BY <2>1, <2>2, <2>3 DEF CounterInv
<1>7. ASSUME NEW d \in DeltaId, DeleteDelta(d)  PROVE CounterInv'
  <2>1. Counting /\ Counting' /\ StartupAlone'
    BY <1>7, <1>2 DEF DeleteDelta, Counting
  <2>2. d \in deltas /\ d \notin deleted
    BY <1>7 DEF DeleteDelta, CounterInv, MergerOwns
  <2>3. CASE deltas' = deltas \ {d} /\ deleted' = deleted \cup {d}
    <3>1. /\ Cardinality(deltas') = Cardinality(deltas) - 1
          /\ Cardinality(deleted') = Cardinality(deleted) + 1
      BY <2>2, <2>3, Counted, FS_AddElement, FS_RemoveElement
    <3>2. MergerOwns'
      BY <1>7, <2>3 DEF DeleteDelta, CounterInv, MergerOwns, Persisted
    <3>3. Exact' /\ Bounded'
      BY <1>7, <1>1, <2>1, <3>1, Counted
      DEF DeleteDelta, CounterInv, Exact, Bounded, Counting, Limit, TypeOK
    <3> QED  BY <2>1, <3>2, <3>3 DEF CounterInv
  <2>4. CASE UNCHANGED <<deltas, deleted>>
    <3>1. MergerOwns'
      BY <1>7, <2>4 DEF DeleteDelta, CounterInv, MergerOwns, Persisted
    <3>2. Exact' /\ Bounded'
      BY <1>7, <1>1, <2>1, <2>4
      DEF DeleteDelta, CounterInv, Exact, Bounded, Counting, Limit
    <3> QED  BY <2>1, <3>1, <3>2 DEF CounterInv
  <2> QED  BY <1>7, <2>3, <2>4, KeptAnswer DEF DeleteDelta
<1>8. ASSUME NEW d \in DeltaId, DecDeleted(d)  PROVE CounterInv'
  <2>1. Counting /\ Counting' /\ StartupAlone'
    BY <1>8, <1>2 DEF DecDeleted, Counting
  <2>2. Cardinality(deleted') = Cardinality(deleted) - 1 /\ Cardinality(deleted) # 0
    BY <1>8, Counted, FS_RemoveElement, FS_EmptySet DEF DecDeleted
  <2>3. deltas_num' = deltas_num - 1
    BY <1>8, <2>1, <2>2, Counted DEF DecDeleted, Dec, CounterInv, Exact, Counting, TypeOK
  <2>4. MergerOwns'
    BY <1>8 DEF DecDeleted, CounterInv, MergerOwns, Persisted
  <2>5. Exact' /\ Bounded'
    BY <1>8, <1>1, <2>1, <2>2, <2>3, Counted
    DEF DecDeleted, CounterInv, Exact, Bounded, Counting, Limit, TypeOK
  <2> QED  BY <2>1, <2>4, <2>5 DEF CounterInv
<1>9. CASE MergeDone
  <2>1. Counting /\ Counting'
    BY <1>9 DEF MergeDone, AfterMerge, Counting
  <2> QED
    BY <1>9, <1>1, <1>2, <2>1, Counted, CounterQuiet DEF MergeDone
<1>10. CASE LoadSnapshot
  <2>1. Counting /\ Counting' /\ StartupAlone'
    BY <1>10 DEF LoadSnapshot, Counting, StartupAlone
  <2> QED
    BY <1>10, <1>1, <2>1, Counted, CounterQuiet DEF LoadSnapshot
<1>11. ASSUME GiveUpMerge, UNCHANGED deltas  PROVE CounterInv'
  <2>1. CASE Restart  BY <1>11, <2>1, CounterRestart
  <2>2. CASE phase = "running" /\ ~Restart
    <3>1. Counting /\ Counting' /\ StartupAlone'
      BY <1>11, <2>2 DEF GiveUpMerge, Counting, StartupAlone
    <3> QED
      BY <1>11, <1>1, <2>2, <3>1, Counted, CounterQuiet DEF GiveUpMerge
  <2> QED  BY <1>11, <2>1, <2>2 DEF GiveUpMerge
<1>12. CASE ReadFails \/ PutSnapshotFails
  BY <1>11, <1>12 DEF ReadFails, PutSnapshotFails
<1>13. CASE LoadFails \/ Crash
  BY <1>13, CounterRestart DEF LoadFails, Crash
<1>14. CASE BeginListing \/ EndListing
  <2>1. Counting /\ Counting'
    <3>1. CASE BeginListing  BY <3>1 DEF BeginListing, Counting
    <3>2. CASE EndListing  BY <3>2 DEF EndListing, AfterMerge, Counting
    <3> QED  BY <1>14, <3>1, <3>2
  <2> QED
    BY <1>14, <1>1, <1>2, <2>1, Counted, CounterQuiet DEF BeginListing, EndListing
<1> QED
  BY <1>3, <1>4, <1>5, <1>6, <1>7, <1>8, <1>9, <1>10, <1>12, <1>13,
     <1>14
  DEF MergeStep

\* The count of lost answers never goes down.
LEMMA LostIsForever ==
    ASSUME TypeOK, [Next]_vars, AnswersKept'
    PROVE  AnswersKept
<1> USE DEF store, merger, updaters, history, AnswersKept
<1>1. CASE UNCHANGED faults  BY <1>1
<1>2. ASSUME NEW kind, Fault(kind)  PROVE AnswersKept
  BY <1>2 DEF Fault, TypeOK, FaultCounts
<1>3. CASE UNCHANGED vars  BY <1>1, <1>3 DEF vars
<1>4. ASSUME NEW u \in Updaters, AddFile(u) \/ Replace(u) \/ UpdateStep(u)
      PROVE  AnswersKept
  BY <1>1, <1>2, <1>4
  DEF AddFile, Replace, Call, UpdateStep, MaybeScheduleMerge, IncDeltaNum, PutDelta,
      PutDeltaFails, ApplyToCache, DecDeltaNum
<1>5. CASE Tick \/ Receive \/ Crash
  BY <1>1, <1>2, <1>5 DEF Tick, Receive, Wake, Crash
<1>6. CASE MergeStep
  BY <1>1, <1>2, <1>6
  DEF MergeStep, ListDeltas, BeginListing, EndListing, ReadAndMerge, PutSnapshot,
      DeleteDelta, DecDeleted, MergeDone, LoadSnapshot, ReadFails, PutSnapshotFails,
      LoadFails
<1> QED  BY <1>3, <1>4, <1>5, <1>6 DEF Next

\* The invariant holds in every reachable state before an answer is lost.
LEMMA CounterInvariant == Spec => [](TypeOK /\ (AnswersKept => CounterInv))
<1>1. ASSUME Init  PROVE TypeOK /\ CounterInv
  <2>1. TypeOK
    BY <1>1, TypeInit
  <2>2. StartupAlone /\ MergerOwns
    BY <1>1 DEF Init, StartupAlone, MergerOwns
  <2>3. Exact /\ Bounded
    BY <1>1, <2>1, FS_EmptySet, Counted DEF Init, Exact, Bounded, Counting
  <2> QED  BY <2>1, <2>2, <2>3 DEF CounterInv
<1>2. ASSUME TypeOK, AnswersKept => CounterInv, [Next]_vars
      PROVE  TypeOK' /\ (AnswersKept' => CounterInv')
  <2>1. TypeOK'
    BY <1>2, TypeStep
  <2>2. ASSUME AnswersKept'  PROVE CounterInv'
    <3>1. CounterInv
      BY <1>2, <2>2, LostIsForever
    <3>2. CASE UNCHANGED vars
      <4> USE <3>1, <3>2 DEF vars, store, merger, updaters
      <4>1. InFlight' = InFlight /\ Checked' = Checked /\ Counting' = Counting
        BY DEF InFlight, Checked, Counting
      <4>2. StartupAlone' /\ MergerOwns'
        BY DEF CounterInv, StartupAlone, MergerOwns, Persisted
      <4>3. Exact' /\ Bounded'
        BY <4>1 DEF CounterInv, Exact, Bounded, Limit
      <4> QED  BY <4>2, <4>3 DEF CounterInv
    <3>3. CASE \E u \in Updaters : AddFile(u) \/ Replace(u) \/ UpdateStep(u)
      BY <1>2, <2>2, <3>1, <3>3, CounterUpdate
    <3>4. CASE Tick \/ Receive \/ MergeStep \/ Crash
      BY <1>2, <2>2, <3>1, <3>4, CounterMerge
    <3> QED  BY <1>2, <3>2, <3>3, <3>4 DEF Next
  <2> QED  BY <2>1, <2>2
<1> QED  BY <1>1, <1>2, PTL DEF Spec

\* Until the store has an effect that it reports as a failure, the counter that
\* inc_delta_num and dec_delta_num maintain never drifts from the delta objects
\* it stands for, over any number of merges, failed deletions and restarts.
THEOREM CounterIsExact == Spec => []CounterExact
<1>1. TypeOK /\ (AnswersKept => CounterInv) => CounterExact
  BY DEF CounterInv, CounterExact, AnswersKept
<1> QED  BY <1>1, CounterInvariant, PTL

\* Until then the deltas on the store never exceed the hard threshold of
\* maybe_schedule_merge by more than the number of callers.
THEOREM DeltasAreBounded == Spec => []DeltaBound
<1>1. TypeOK /\ (AnswersKept => CounterInv) => DeltaBound
  BY DEF CounterInv, Bounded, Limit, DeltaBound, AnswersKept
<1> QED  BY <1>1, CounterInvariant, PTL
-----------------------------------------------------------------------------
(***************************************************************************)
(* Why the snapshot never becomes unreadable.  Snapshot::try_from refuses  *)
(* an object without records, and nothing in do_merge looks for one before *)
(* writing it.  It is never written because every update adds a file that  *)
(* is newer than the files it deletes: of the files a merge adds, the      *)
(* newest one is not among those it deletes.                               *)
(***************************************************************************)

\* A non-empty set of file ids has a newest member.
LEMMA Newest ==
    ASSUME NEW S \in SUBSET FileId, S # {}
    PROVE  \E g \in S : \A f \in S : f <= g
<1> DEFINE T == {MaxFiles - f : f \in S}
<1>1. \A f \in S : f \in Nat /\ MaxFiles - f \in Nat
  BY BoundsAssumption DEF FileId
<1>2. T \subseteq Nat
  BY <1>1
<1>3. T # {}
  OBVIOUS
<1> HIDE DEF T
<1>4. PICK x \in T : \A y \in T : ~(<<y, x>> \in OpToRel(<, Nat))
  BY <1>2, <1>3, NatLessThanWellFounded, WFMin
<1>5. \A y \in T : ~(y < x)
  BY <1>2, <1>4 DEF OpToRel
<1>6. PICK g \in S : x = MaxFiles - g
  BY DEF T
<1>7. \A f \in S : ~(MaxFiles - f < MaxFiles - g)
  BY <1>5, <1>6 DEF T
<1>8. \A f \in S : f <= g
  BY <1>1, <1>7, BoundsAssumption
<1> QED  BY <1>8
-----------------------------------------------------------------------------
\* An update adds a file, and only files newer than those it deletes.
Forward(up) == \A a \in up.adds, x \in up.dels : x < a

\* Every file id that occurs was handed out.
Allocated(records) == \A f \in FileId : records[f] > 0 => f < nextFile

CallsForward ==
    \A u \in Updaters :
        /\ Forward(op[u])
        /\ \A f \in op[u].adds : f < nextFile
        /\ pc[u] # "idle" => op[u].adds # {}

DeltasForward ==
    /\ deltas \subseteq Persisted /\ paths \subseteq Persisted
    /\ \A d \in Persisted :
        /\ Forward(payload[d])
        /\ \A f \in payload[d].adds : f < nextFile
        /\ payload[d].adds # {}

MergeNotEmpty ==
    /\ mpc = "read" => paths # {}
    /\ mpc = "put" => Ids(merged) # {}
    /\ SnapshotReadable

SnapshotInv ==
    /\ Allocated(snapshot) /\ Allocated(merged) /\ Allocated(ssts)
    /\ CallsForward /\ DeltasForward /\ MergeNotEmpty

\* A merge of at least one delta leaves at least one record, and only of files
\* that were handed out.
LEMMA MergeKeepsNewest ==
    ASSUME TypeOK, SnapshotInv, paths # {}
    PROVE  Ids(MergedRecords(paths)) # {} /\ Allocated(MergedRecords(paths))
<1> DEFINE with(f) == {d \in paths : f \in payload[d].adds}
<1>1. \A f \in FileId : IsFiniteSet(with(f)) /\ Cardinality(with(f)) \in Nat
  BY DeltaSets, BoundsAssumption DEF TypeOK
<1>2. \A f \in FileId : Cardinality(with(f)) = 0 <=> with(f) = {}
  BY <1>1, FS_EmptySet
<1>3. Adds(paths) \in SUBSET FileId
  BY DEF Adds, TypeOK, Update
<1>4. Adds(paths) # {}
  BY DEF Adds, SnapshotInv, DeltasForward
<1>5. PICK g \in Adds(paths) : \A f \in Adds(paths) : f <= g
  BY <1>3, <1>4, Newest
<1>6. g \notin Dels(paths)
  <2> SUFFICES ASSUME NEW d \in paths, g \in payload[d].dels  PROVE FALSE
    BY DEF Dels
  <2>1. d \in Persisted
    BY DEF SnapshotInv, DeltasForward
  <2>2. PICK a \in payload[d].adds : g < a
    BY <2>1 DEF SnapshotInv, DeltasForward, Forward
  <2>3. a \in Adds(paths)
    BY <2>2 DEF Adds
  <2>4. a \in Int /\ g \in Int
    BY <1>3, <1>5, <2>3 DEF FileId
  <2> QED  BY <1>5, <2>2, <2>3, <2>4
<1>7. g \in FileId /\ with(g) # {}
  BY <1>3, <1>5 DEF Adds
<1>8. MergedRecords(paths)[g] > 0
  <2>1. MergedRecords(paths)[g] = snapshot[g] + Cardinality(with(g))
    BY <1>6, <1>7 DEF MergedRecords
  <2>2. snapshot[g] \in Nat
    BY <1>7 DEF TypeOK, Records
  <2>3. Cardinality(with(g)) \in Nat /\ Cardinality(with(g)) # 0
    BY <1>1, <1>2, <1>7
  <2> QED  BY <2>1, <2>2, <2>3
<1>9. ASSUME NEW f \in FileId, MergedRecords(paths)[f] > 0  PROVE f < nextFile
  <2>1. MergedRecords(paths)[f] = snapshot[f] + Cardinality(with(f))
    BY <1>9 DEF MergedRecords
  <2>2. snapshot[f] > 0 \/ with(f) # {}
    BY <1>1, <1>2, <1>9, <2>1 DEF TypeOK, Records
  <2> QED  BY <2>2 DEF SnapshotInv, Allocated, DeltasForward
<1> QED  BY <1>7, <1>8, <1>9 DEF Ids, Allocated

\* The steps of Manifest::update keep the invariant.
LEMMA SnapshotUpdate ==
    ASSUME TypeOK, SnapshotInv, NEW u \in Updaters,
           AddFile(u) \/ Replace(u) \/ UpdateStep(u)
    PROVE  SnapshotInv'
<1> USE DEF store, merger, updaters, history
<1>1. CASE AddFile(u) \/ Replace(u)
  <2>1. PICK dels \in SUBSET Ids(ssts) : Call(u, {nextFile}, dels)
    BY <1>1 DEF AddFile, Replace
  <2>2. nextFile \in Nat /\ nextFile' = nextFile + 1
    BY <2>1, BoundsAssumption DEF Call, TypeOK
  <2>3. \A f \in FileId : f < nextFile => f < nextFile'
    BY <2>2 DEF FileId
  <2>4. Allocated(snapshot)' /\ Allocated(merged)' /\ Allocated(ssts)'
    BY <2>1, <2>3 DEF Call, SnapshotInv, Allocated
  <2>5. op' = [op EXCEPT ![u] = [adds |-> {nextFile}, dels |-> dels]]
    BY <2>1 DEF Call
  <2>6. \A x \in dels : x < nextFile
    BY <2>1 DEF Ids, SnapshotInv, Allocated
  <2>7. CallsForward'
    <3> SUFFICES ASSUME NEW w \in Updaters
                 PROVE  /\ Forward(op'[w])
                        /\ \A f \in op'[w].adds : f < nextFile'
                        /\ pc'[w] # "idle" => op'[w].adds # {}
      BY DEF CallsForward, Forward
    <3>1. CASE w = u
      BY <2>2, <2>5, <2>6, <3>1 DEF TypeOK, Forward
    <3>2. CASE w # u
      <4>1. op'[w] = op[w] /\ pc'[w] = pc[w] /\ op[w].adds \subseteq FileId
        BY <2>1, <2>5, <3>2 DEF Call, TypeOK, Update
      <4> QED  BY <2>3, <4>1 DEF SnapshotInv, CallsForward
    <3> QED  BY <3>1, <3>2
  <2>8. DeltasForward'
    <3>1. \A d \in Persisted : payload[d].adds \subseteq FileId
      <4>1. Persisted \subseteq DeltaId
        BY BoundsAssumption DEF Persisted, TypeOK, DeltaId
      <4> QED  BY <4>1 DEF TypeOK, Update
    <3> QED
      BY <2>1, <2>3, <3>1 DEF Call, SnapshotInv, DeltasForward, Persisted, Forward
  <2>9. MergeNotEmpty'
    BY <2>1 DEF Call, SnapshotInv, MergeNotEmpty, SnapshotReadable, CanReadSnapshot, Ids
  <2> QED  BY <2>4, <2>7, <2>8, <2>9 DEF SnapshotInv
<1>2. CASE MaybeScheduleMerge(u) \/ DecDeltaNum(u) \/ IncDeltaNum(u) \/ PutDeltaFails(u)
           \/ PutDelta(u) \/ ApplyToCache(u)
  <2>1. UNCHANGED <<snapshot, merged, nextFile, hasSnapshot, mpc, paths>>
    BY <1>2 DEF MaybeScheduleMerge, DecDeltaNum, IncDeltaNum, PutDeltaFails, PutDelta,
                ApplyToCache
  <2>2. Allocated(snapshot)' /\ Allocated(merged)' /\ MergeNotEmpty'
    BY <2>1 DEF SnapshotInv, Allocated, MergeNotEmpty, SnapshotReadable, CanReadSnapshot,
                Ids
  <2>3. Allocated(ssts)'
    <3>1. CASE UNCHANGED ssts
      BY <2>1, <3>1 DEF SnapshotInv, Allocated
    <3>2. CASE ssts' = Cached(u)
      BY <2>1, <3>2 DEF Cached, SnapshotInv, Allocated, CallsForward
    <3> QED
      BY <1>2, <3>1, <3>2
      DEF MaybeScheduleMerge, DecDeltaNum, IncDeltaNum, PutDeltaFails, PutDelta,
          ApplyToCache
  <2>4. CallsForward'
    <3>1. pc[u] # "idle" /\ (UNCHANGED op \/ Return(u))
      BY <1>2 DEF MaybeScheduleMerge, DecDeltaNum, IncDeltaNum, PutDeltaFails, PutDelta,
                  ApplyToCache
    <3>2. \A w \in Updaters : w # u => pc'[w] = pc[w] /\ op'[w] = op[w]
      BY <1>2 DEF MaybeScheduleMerge, DecDeltaNum, IncDeltaNum, PutDeltaFails, PutDelta,
                  ApplyToCache, Return, TypeOK
    <3>3. (UNCHANGED op /\ op[u].adds # {}) \/ (op'[u] = NoUpdate /\ pc'[u] = "idle")
      BY <3>1 DEF Return, TypeOK, SnapshotInv, CallsForward
    <3>4. \A w \in Updaters : op'[w] = op[w] \/ op'[w] = NoUpdate
      BY <3>2, <3>3
    <3>5. \A w \in Updaters : Forward(op'[w]) /\ \A f \in op'[w].adds : f < nextFile'
      <4>1. Forward(NoUpdate) /\ NoUpdate.adds = {}
        BY DEF Forward, NoUpdate
      <4>2. \A w \in Updaters : Forward(op[w]) /\ \A f \in op[w].adds : f < nextFile'
        BY <2>1 DEF SnapshotInv, CallsForward
      <4> QED  BY <3>4, <4>1, <4>2
    <3>6. \A w \in Updaters : pc'[w] # "idle" => op'[w].adds # {}
      BY <3>2, <3>3 DEF SnapshotInv, CallsForward
    <3> QED  BY <3>5, <3>6 DEF CallsForward, Forward
  <2>5. DeltasForward'
    <3>1. CASE UNCHANGED <<deltas, payload, nextDelta>>
      BY <2>1, <3>1 DEF SnapshotInv, DeltasForward, Persisted, Forward
    <3>2. CASE Persist(u) /\ pc[u] = "put"
      <4>1. deltas' \subseteq Persisted' /\ paths' \subseteq Persisted'
        <5>1. /\ nextDelta \in Nat \ {0} /\ nextDelta' = nextDelta + 1
              /\ deltas' = deltas \cup {nextDelta} /\ paths' = paths
          BY <2>1, <3>2, BoundsAssumption DEF Persist, DeltaId
        <5>2. deltas \subseteq 1..(nextDelta - 1) /\ paths \subseteq 1..(nextDelta - 1)
          BY DEF SnapshotInv, DeltasForward, Persisted
        <5> QED  BY <5>1, <5>2 DEF Persisted
      <4>2. ASSUME NEW d \in Persisted'
            PROVE  (d \in Persisted /\ payload'[d] = payload[d]) \/ payload'[d] = op[u]
        BY <3>2 DEF Persist, Persisted, TypeOK, DeltaId
      <4>3. ASSUME NEW d \in Persisted'
            PROVE  /\ Forward(payload'[d])
                   /\ \A f \in payload'[d].adds : f < nextFile'
                   /\ payload'[d].adds # {}
        BY <2>1, <3>2, <4>2 DEF SnapshotInv, DeltasForward, CallsForward
      <4> QED  BY <4>1, <4>3 DEF DeltasForward, Forward
    <3> QED
      BY <1>2, <3>1, <3>2
      DEF MaybeScheduleMerge, DecDeltaNum, IncDeltaNum, PutDeltaFails, PutDelta,
          ApplyToCache
  <2> QED  BY <2>2, <2>3, <2>4, <2>5 DEF SnapshotInv
<1> QED  BY <1>1, <1>2 DEF UpdateStep

\* Forgetting what is in memory keeps the invariant, with the snapshot as it was
\* or with the merged one put.
LEMMA SnapshotReset ==
    ASSUME TypeOK, SnapshotInv, UNCHANGED <<deltas, payload, nextDelta, nextFile>>,
           \/ UNCHANGED <<hasSnapshot, snapshot>>
           \/ mpc = "put" /\ hasSnapshot' = TRUE /\ snapshot' = merged,
           ssts' \in {ssts, Empty, snapshot},
           merged' \in {merged, Empty}, paths' \subseteq deltas \/ paths' = paths,
           mpc' = "read" => paths' # {}, mpc' # "put",
           \/ UNCHANGED <<pc, op>>
           \/ op' = [u \in Updaters |-> NoUpdate] /\ pc' = [u \in Updaters |-> "idle"]
    PROVE  SnapshotInv'
<1>1. Allocated(snapshot)' /\ Allocated(merged)' /\ Allocated(ssts)'
  BY DEF SnapshotInv, Allocated, Empty
<1>2. CallsForward'
  <2>1. CASE UNCHANGED <<pc, op>>
    BY <2>1 DEF SnapshotInv, CallsForward, Forward
  <2>2. CASE op' = [u \in Updaters |-> NoUpdate] /\ pc' = [u \in Updaters |-> "idle"]
    BY <2>2 DEF CallsForward, Forward, NoUpdate
  <2> QED  BY <2>1, <2>2
<1>3. DeltasForward'
  BY DEF SnapshotInv, DeltasForward, Persisted, Forward
<1>4. MergeNotEmpty'
  <2>1. CASE UNCHANGED <<hasSnapshot, snapshot>>
    BY <2>1 DEF SnapshotInv, MergeNotEmpty, SnapshotReadable, CanReadSnapshot, Ids
  <2>2. CASE mpc = "put" /\ hasSnapshot' = TRUE /\ snapshot' = merged
    BY <2>2 DEF SnapshotInv, MergeNotEmpty, SnapshotReadable, CanReadSnapshot, Ids
  <2> QED  BY <2>1, <2>2
<1> QED  BY <1>1, <1>2, <1>3, <1>4 DEF SnapshotInv

\* The steps of the merger and of the startup keep the invariant.
LEMMA SnapshotMerge ==
    ASSUME TypeOK, SnapshotInv, Tick \/ Receive \/ MergeStep \/ Crash
    PROVE  SnapshotInv'
<1> USE DEF store, merger, updaters, history
<1>1. CASE Tick \/ Receive
  BY <1>1, SnapshotReset DEF Tick, Receive, Wake
<1>2. CASE ListDeltas
  BY <1>2, SnapshotReset DEF ListDeltas, AfterMerge
<1>3. CASE ReadAndMerge
  <2>1. paths # {}
    BY <1>3 DEF ReadAndMerge, SnapshotInv, MergeNotEmpty
  <2>2. Ids(MergedRecords(paths)) # {} /\ Allocated(MergedRecords(paths))
    BY <2>1, MergeKeepsNewest
  <2>3. Allocated(snapshot)' /\ Allocated(merged)' /\ Allocated(ssts)'
    BY <1>3, <2>2 DEF ReadAndMerge, SnapshotInv, Allocated
  <2>4. CallsForward' /\ DeltasForward'
    BY <1>3 DEF ReadAndMerge, SnapshotInv, CallsForward, DeltasForward, Persisted, Forward
  <2>5. MergeNotEmpty'
    BY <1>3, <2>2 DEF ReadAndMerge, SnapshotInv, MergeNotEmpty, SnapshotReadable,
                      CanReadSnapshot, Ids
  <2> QED  BY <2>3, <2>4, <2>5 DEF SnapshotInv
<1>4. CASE PutSnapshot
  BY <1>4, SnapshotReset DEF PutSnapshot
<1>5. ASSUME NEW d \in DeltaId, DeleteDelta(d)  PROVE SnapshotInv'
  <2>1. Allocated(snapshot)' /\ Allocated(merged)' /\ Allocated(ssts)'
    BY <1>5 DEF DeleteDelta, SnapshotInv, Allocated
  <2>2. CallsForward' /\ DeltasForward'
    BY <1>5 DEF DeleteDelta, SnapshotInv, CallsForward, DeltasForward, Persisted, Forward
  <2>3. MergeNotEmpty'
    BY <1>5 DEF DeleteDelta, SnapshotInv, MergeNotEmpty, SnapshotReadable,
                CanReadSnapshot, Ids
  <2> QED  BY <2>1, <2>2, <2>3 DEF SnapshotInv
<1>6. ASSUME NEW d \in DeltaId, DecDeleted(d)  PROVE SnapshotInv'
  BY <1>6, SnapshotReset DEF DecDeleted
<1>7. CASE MergeDone
  BY <1>7, SnapshotReset DEF MergeDone, AfterMerge
<1>8. CASE LoadSnapshot
  BY <1>8, SnapshotReset DEF LoadSnapshot
<1>9. ASSUME Restart, UNCHANGED <<deltas, payload>>,
             \/ UNCHANGED <<hasSnapshot, snapshot>>
             \/ mpc = "put" /\ hasSnapshot' = TRUE /\ snapshot' = merged
      PROVE  SnapshotInv'
  BY <1>9, SnapshotReset DEF Restart, IdAfterRestart
<1>10. ASSUME GiveUpMerge, UNCHANGED <<deltas, payload>>,
              \/ UNCHANGED <<hasSnapshot, snapshot>>
              \/ mpc = "put" /\ hasSnapshot' = TRUE /\ snapshot' = merged
       PROVE  SnapshotInv'
  <2>1. CASE Restart  BY <1>9, <1>10, <2>1
  <2>2. CASE phase = "running" /\ ~Restart
    BY <1>10, <2>2, SnapshotReset DEF GiveUpMerge
  <2> QED  BY <1>10, <2>1, <2>2 DEF GiveUpMerge
<1>11. CASE ReadFails
  BY <1>10, <1>11 DEF ReadFails
<1>12. CASE PutSnapshotFails
  BY <1>10, <1>12 DEF PutSnapshotFails
<1>13. CASE LoadFails \/ Crash
  BY <1>9, <1>13 DEF LoadFails, Crash
<1>14. CASE BeginListing \/ EndListing
  BY <1>14, SnapshotReset DEF BeginListing, EndListing, AfterMerge
<1> QED
  BY <1>1, <1>2, <1>3, <1>4, <1>5, <1>6, <1>7, <1>8, <1>11, <1>12, <1>13, <1>14
  DEF MergeStep

\* No reachable store holds a snapshot that Snapshot::try_from would refuse for
\* want of records, so a merge or a startup never fails for that reason.
THEOREM SnapshotStaysReadable == Spec => []SnapshotReadable
<1>1. Init => TypeOK /\ SnapshotInv
  <2> SUFFICES ASSUME Init  PROVE SnapshotInv
    BY TypeInit
  <2>1. Allocated(snapshot) /\ Allocated(merged) /\ Allocated(ssts)
    BY DEF Init, Allocated, Empty
  <2>2. CallsForward /\ DeltasForward
    BY DEF Init, CallsForward, DeltasForward, Persisted, Forward, NoUpdate
  <2>3. MergeNotEmpty
    BY DEF Init, MergeNotEmpty, SnapshotReadable, CanReadSnapshot
  <2> QED  BY <2>1, <2>2, <2>3 DEF SnapshotInv
<1>2. TypeOK /\ SnapshotInv /\ [Next]_vars => TypeOK' /\ SnapshotInv'
  <2> SUFFICES ASSUME TypeOK, SnapshotInv, [Next]_vars  PROVE SnapshotInv'
    BY TypeStep
  <2>1. CASE UNCHANGED vars
    <3> USE <2>1 DEF vars, store, merger, updaters, SnapshotInv
    <3>1. Allocated(snapshot)' /\ Allocated(merged)' /\ Allocated(ssts)'
      BY DEF Allocated
    <3>2. CallsForward' /\ DeltasForward'
      BY DEF CallsForward, DeltasForward, Persisted, Forward
    <3>3. MergeNotEmpty'
      BY DEF MergeNotEmpty, SnapshotReadable, CanReadSnapshot, Ids
    <3> QED  BY <3>1, <3>2, <3>3
  <2>2. CASE Next
    BY <2>2, SnapshotUpdate, SnapshotMerge DEF Next
  <2> QED  BY <2>1, <2>2
<1>3. SnapshotInv => SnapshotReadable
  BY DEF SnapshotInv, MergeNotEmpty
<1> QED  BY <1>1, <1>2, <1>3, PTL DEF Spec
=============================================================================
