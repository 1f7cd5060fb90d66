---------------------- MODULE ManifestRefinementProofs ----------------------
(***************************************************************************)
(* Why the manifest implements LiveFiles.  The store holds the list of     *)
(* files as a snapshot and deltas that are folded into it in batches; what *)
(* it stands for changes only when a delta is written, because             *)
(*   - a file has one source, the snapshot or one delta, so that a merge   *)
(*     neither adds it twice nor adds it back;                             *)
(*   - what a delta deletes is in the snapshot or in an older delta, and   *)
(*     a merge folds the oldest deltas.                                    *)
(* This holds as long as the deltas of a merge go away with it.  A         *)
(* deletion that fails, a crash between two of them, an answer that is     *)
(* lost and a listing that is not atomic each leave a delta that was       *)
(* folded, or fold a delta before an older one, and TLC finds the          *)
(* properties below violated with each of them: they are the hypothesis.   *)
(***************************************************************************)
EXTENDS ManifestProofs

\* Most steps are first-order: Zenon is tried first, then SMT, then Zenon for longer.
USE ZenonT(3), SMTT(30), ZenonT(30)

CleanFaults == Faults \cap {"delete", "lost_ack", "merge_crash", "list"} = {}

\* The deltas that no merge has put into the snapshot.
Unfolded == IF mpc = "delete" THEN deltas \ paths ELSE deltas

\* The files with a record on the store, and those of them that are not deleted.
Known == {f \in FileId : snapshot[f] > 0 \/ \E d \in Unfolded : f \in payload[d].adds}
Live == Known \ removed

Applying == {u \in Updaters : pc[u] = "apply"}

\* Where a merge is: what it lists is what was there first, and all that was
\* there if the process is starting.
MergeInv ==
    /\ mpc # "listing"
    /\ mpc \in {"read", "put"} =>
        paths \subseteq deltas /\ \A p \in paths, d \in deltas \ paths : p < d
    /\ mpc = "put" => merged = MergedRecords(paths)
    /\ mpc = "delete" => deltas \cap paths = deleting
    /\ phase = "starting" => \A u \in Updaters : pc[u] = "idle"
    /\ phase = "starting" /\ mpc \in {"read", "put", "delete"} => deltas \subseteq paths
    /\ mpc = "load" => phase = "starting" /\ deltas = {}

\* A file has one source.
OneSource ==
    /\ \A f \in FileId : snapshot[f] <= 1
    /\ \A d \in Unfolded : \A f \in payload[d].adds :
        snapshot[f] = 0 /\ \A e \in Unfolded : f \in payload[e].adds => e = d

\* A file is deleted by one delta, which is newer than its source, and stays
\* known only until that delta is folded.
OneEnd ==
    /\ \A d \in Unfolded : \A f \in payload[d].dels :
        /\ snapshot[f] > 0 \/ \E e \in Unfolded : e < d /\ f \in payload[e].adds
        /\ \A e \in Unfolded : f \in payload[e].dels => e = d
    /\ \A f \in Known \cap removed : \E d \in Unfolded : f \in payload[d].dels

\* Every file that occurs was handed out.
Handed ==
    /\ \A f \in Known \cup removed : f < nextFile
    /\ \A u \in Updaters : \A f \in op[u].adds : f < nextFile

\* An update in flight adds what nobody knows and deletes live files, until its
\* delta is written; no two of them share a file.
CallsInv ==
    /\ \A u \in Updaters : pc[u] = "idle" => op[u] = NoUpdate
    /\ \A u \in Updaters \ Applying :
        op[u].adds \cap (Known \cup removed) = {} /\ op[u].dels \subseteq Live
    /\ \A u \in Applying : op[u].adds \subseteq Live /\ op[u].dels \subseteq removed
    /\ \A u, w \in Updaters : op[u].adds \cap op[w].dels = {}
    /\ \A u, w \in Updaters : u # w =>
        op[u].adds \cap op[w].adds = {} /\ op[u].dels \cap op[w].dels = {}

\* The cache is behind the store by the updates that are being applied.
CacheInv ==
    /\ \A f \in FileId : ssts[f] <= 1
    /\ phase = "running" => \A f \in FileId :
        ssts[f] > 0 <=>
            \/ f \in Live /\ \A u \in Applying : f \notin op[u].adds
            \/ \E u \in Applying : f \in op[u].dels

CleanInv ==
    IdsPersisted /\ MergeInv /\ OneSource /\ OneEnd /\ Handed /\ CallsInv /\ CacheInv
-----------------------------------------------------------------------------
\* A delta's files are files.
LEMMA PayloadFiles ==
    ASSUME TypeOK, IdsPersisted
    PROVE  /\ Unfolded \subseteq deltas /\ Unfolded \subseteq DeltaId
           /\ \A d \in DeltaId :
                 payload[d].adds \subseteq FileId /\ payload[d].dels \subseteq FileId
           /\ \A d \in Unfolded : payload[d].dels \subseteq removed
           /\ \A u \in Updaters : op[u].adds \subseteq FileId /\ op[u].dels \subseteq FileId
<1>1. Unfolded \subseteq deltas
  BY DEF Unfolded
<1>2. Unfolded \subseteq DeltaId
  BY <1>1 DEF TypeOK
<1>3. \A d \in DeltaId : payload[d].adds \subseteq FileId /\ payload[d].dels \subseteq FileId
  BY DEF TypeOK, Update
<1>4. \A d \in Unfolded : payload[d].dels \subseteq removed
  BY <1>1 DEF IdsPersisted
<1>5. \A u \in Updaters : op[u].adds \subseteq FileId /\ op[u].dels \subseteq FileId
  BY DEF TypeOK, Update
<1> QED  BY <1>1, <1>2, <1>3, <1>4, <1>5

\* What the store stands for is what it knows and no persisted update deletes.
LEMMA ViewIsLive ==
    ASSUME TypeOK, IdsPersisted, OneEnd
    PROVE  View = Live
<1>1. View = (Ids(snapshot) \cup Adds(Unfolded)) \ Dels(Unfolded)
  BY DEF View, Unfolded
<1>2. Ids(snapshot) \cup Adds(Unfolded) = Known
  BY PayloadFiles DEF Ids, Adds, Known
<1>3. \A f \in Known : f \in Dels(Unfolded) <=> f \in removed
  BY PayloadFiles DEF Dels, OneEnd
<1> QED  BY <1>1, <1>2, <1>3 DEF Live

\* A merge records a file once per source, unless it deletes it.
LEMMA MergedOnce ==
    ASSUME TypeOK, IdsPersisted, OneSource, mpc # "delete", NEW ds \in SUBSET deltas
    PROVE  \A f \in FileId :
            /\ MergedRecords(ds)[f] <= 1
            /\ MergedRecords(ds)[f] > 0 <=>
                /\ f \notin Dels(ds)
                /\ snapshot[f] > 0 \/ \E d \in ds : f \in payload[d].adds
<1> TAKE f \in FileId
<1> DEFINE adding == {d \in ds : f \in payload[d].adds}
<1>1. Unfolded = deltas /\ snapshot[f] \in Nat
  BY DEF Unfolded, TypeOK, Records
<1>2. adding \in SUBSET DeltaId
  BY DEF TypeOK
<1>3. IsFiniteSet(adding) /\ Cardinality(adding) \in Nat
  BY <1>2, DeltaSets, BoundsAssumption
<1>4. MergedRecords(ds)[f] = IF f \in Dels(ds) THEN 0 ELSE snapshot[f] + Cardinality(adding)
  BY DEF MergedRecords
<1>5. CASE adding = {}
  <2>1. Cardinality(adding) = 0
    BY <1>5, FS_EmptySet
  <2>2. snapshot[f] <= 1
    BY DEF OneSource
  <2>3. ~ \E d \in ds : f \in payload[d].adds
    BY <1>5
  <2> HIDE DEF adding
  <2> QED  BY <1>1, <1>4, <2>1, <2>2, <2>3
<1>6. CASE adding # {}
  <2>1. PICK d \in ds : f \in payload[d].adds
    BY <1>6
  <2>2. snapshot[f] = 0 /\ \A e \in deltas : f \in payload[e].adds => e = d
    BY <1>1, <2>1 DEF OneSource
  <2>3. adding = {d}
    BY <2>1, <2>2
  <2>4. Cardinality(adding) = 1
    BY <2>3, FS_Singleton
  <2> HIDE DEF adding
  <2> QED  BY <1>4, <2>1, <2>2, <2>4
<1> QED  BY <1>5, <1>6

\* delete_records finds every record: what a merge deletes is in the snapshot or
\* in an older delta, which the merge has listed too.
LEMMA DeletesExist ==
    ASSUME TypeOK, IdsPersisted, MergeInv, OneEnd
    PROVE  DeletedRecordsExist
<1> SUFFICES ASSUME mpc = "read", NEW p \in paths, NEW f \in payload[p].dels
             PROVE  f \in Ids(snapshot) \cup Adds(paths)
  BY DEF DeletedRecordsExist, Dels
<1>1. Unfolded = deltas /\ p \in deltas /\ p \in DeltaId
  BY DEF Unfolded, MergeInv, TypeOK
<1>2. f \in FileId
  BY <1>1, PayloadFiles
<1>3. snapshot[f] > 0 \/ \E e \in deltas : e < p /\ f \in payload[e].adds
  BY <1>1 DEF OneEnd
<1>4. \A e \in deltas : e < p => e \in paths
  <2> SUFFICES ASSUME NEW e \in deltas, e < p, e \notin paths  PROVE FALSE
    OBVIOUS
  <2>1. p < e
    BY DEF MergeInv
  <2> QED  BY <2>1, <1>1, BoundsAssumption DEF TypeOK, DeltaId
<1> QED  BY <1>2, <1>3, <1>4 DEF Ids, Adds

\* The invariant implies the three properties of the store and the cache.
LEMMA CleanImplies ==
    TypeOK /\ CleanInv => DeletedRecordsExist /\ NoDuplicateRecords /\ CacheMatchesStore
<1> SUFFICES ASSUME TypeOK, CleanInv
             PROVE  DeletedRecordsExist /\ NoDuplicateRecords /\ CacheMatchesStore
  OBVIOUS
<1>1. DeletedRecordsExist
  BY DeletesExist DEF CleanInv
<1>2. NoDuplicateRecords
  BY DEF CleanInv, OneSource, CacheInv, NoDuplicateRecords
<1>3. CacheMatchesStore
  <2> DEFINE adds == UNION {op[u].adds : u \in Applying}
             dels == UNION {op[u].dels : u \in Applying}
  <2>1. View = Live
    BY ViewIsLive DEF CleanInv
  <2>2. dels \subseteq FileId /\ Live \subseteq FileId
    BY PayloadFiles DEF CleanInv, Live, Known, Applying
  <2>3. ASSUME phase = "running"  PROVE Ids(ssts) = (Live \ adds) \cup dels
    BY <2>2, <2>3 DEF CleanInv, CacheInv, Ids
  <2> QED  BY <2>1, <2>3 DEF CacheMatchesStore, Applying
<1> QED  BY <1>1, <1>2, <1>3
-----------------------------------------------------------------------------
(***************************************************************************)
(* The steps that write neither a delta nor a snapshot.                    *)
(***************************************************************************)
\* What is on the store, and what it stands for.
LEMMA StoreKept ==
    ASSUME OneSource, OneEnd, UNCHANGED <<snapshot, payload, removed>>, Unfolded' = Unfolded
    PROVE  Known' = Known /\ Live' = Live /\ OneSource' /\ OneEnd'
<1>1. Known' = Known
  BY DEF Known
<1>2. Live' = Live
  BY <1>1 DEF Live
<1>3. OneSource'
  BY DEF OneSource
<1>4. OneEnd'
  BY <1>1 DEF OneEnd
<1> QED  BY <1>1, <1>2, <1>3, <1>4

\* The calls in flight, when none of them is persisted or applied and some
\* return.
LEMMA CallsKept ==
    ASSUME CallsInv, Handed, Known' = Known, UNCHANGED <<removed, nextFile>>,
           Applying' = Applying, \A u \in Applying : op'[u] = op[u],
           \A u \in Updaters : op'[u] = op[u] \/ op'[u] = NoUpdate,
           \A u \in Updaters : pc'[u] = "idle" => op'[u] = NoUpdate
    PROVE  CallsInv' /\ Handed'
<1>1. NoUpdate.adds = {} /\ NoUpdate.dels = {}
  BY DEF NoUpdate
<1>2. Live' = Live
  BY DEF Live
<1>3. \A u \in Updaters : op'[u].adds \subseteq op[u].adds /\ op'[u].dels \subseteq op[u].dels
  BY <1>1
<1>4. \A u \in Updaters \ Applying :
        op'[u].adds \cap (Known \cup removed) = {} /\ op'[u].dels \subseteq Live
  BY <1>3 DEF CallsInv
<1>5. \A u \in Applying : op'[u].adds \subseteq Live /\ op'[u].dels \subseteq removed
  BY DEF CallsInv
<1>6. \A u, w \in Updaters : op'[u].adds \cap op'[w].dels = {}
  BY <1>3 DEF CallsInv
<1>7. \A u, w \in Updaters : u # w =>
        op'[u].adds \cap op'[w].adds = {} /\ op'[u].dels \cap op'[w].dels = {}
  BY <1>3 DEF CallsInv
<1>8. CallsInv'
  BY <1>2, <1>4, <1>5, <1>6, <1>7 DEF CallsInv
<1>9. Handed'
  BY <1>3 DEF Handed
<1> QED  BY <1>8, <1>9

\* The cache.
LEMMA CacheKept ==
    ASSUME CacheInv, Live' = Live, UNCHANGED <<ssts, phase>>,
           Applying' = Applying, \A u \in Applying : op'[u] = op[u]
    PROVE  CacheInv'
BY DEF CacheInv

\* The merger.
LEMMA MergeKept ==
    ASSUME TypeOK, IdsPersisted, MergeInv,
           UNCHANGED <<mpc, paths, merged, deleting, snapshot, phase>>,
           \A d \in Persisted : payload'[d] = payload[d],
           \/ deltas' = deltas
           \/ deltas' = deltas \cup {nextDelta} /\ phase = "running",
           phase = "starting" => UNCHANGED pc
    PROVE  MergeInv'
<1>1. paths \subseteq Persisted /\ deltas \subseteq Persisted /\ nextDelta \in Nat
  BY BoundsAssumption DEF IdsPersisted, TypeOK
<1>2. nextDelta \notin paths
  BY <1>1 DEF Persisted
<1>3. \A p \in paths : p < nextDelta
  BY <1>1 DEF Persisted
<1>4. MergedRecords(paths)' = MergedRecords(paths)
  <2>1. \A d \in paths : payload'[d] = payload[d]
    BY <1>1
  <2>2. Dels(paths)' = Dels(paths)
    BY <2>1 DEF Dels
  <2>3. ASSUME NEW f \in FileId
        PROVE  {d \in paths : f \in payload'[d].adds} = {d \in paths : f \in payload[d].adds}
    BY <2>1
  <2> QED  BY <2>2, <2>3 DEF MergedRecords
<1>5. mpc \in {"read", "put"} =>
        paths \subseteq deltas' /\ \A p \in paths, d \in deltas' \ paths : p < d
  BY <1>3 DEF MergeInv
<1>6. mpc = "put" => merged' = MergedRecords(paths)'
  BY <1>4 DEF MergeInv
<1>7. mpc = "delete" => deltas' \cap paths = deleting
  BY <1>2 DEF MergeInv
<1>8. phase = "starting" => deltas' = deltas /\ \A u \in Updaters : pc'[u] = "idle"
  BY DEF MergeInv
<1>9. mpc = "load" => phase = "starting" /\ deltas' = {}
  BY <1>8 DEF MergeInv
<1> QED  BY <1>5, <1>6, <1>7, <1>8, <1>9 DEF MergeInv
-----------------------------------------------------------------------------
(***************************************************************************)
(* The steps of Manifest::update.                                          *)
(***************************************************************************)
\* Unless they write a delta they leave the store as it is.
LEMMA UpdateStore ==
    ASSUME UNCHANGED <<deltas, mpc, paths>>
    PROVE  Unfolded' = Unfolded
BY DEF Unfolded

\* A call names live files that no other call names, and a new one.
LEMMA CleanCall ==
    ASSUME TypeOK, CleanInv, NEW u \in Updaters,
           NEW dels \in SUBSET (Ids(ssts) \ Claimed), Call(u, {nextFile}, dels)
    PROVE  CleanInv' /\ Live' = Live /\ UNCHANGED removed
<1> USE DEF store, merger, history
<1>1. /\ UNCHANGED <<hasSnapshot, snapshot, deltas, payload, phase, ssts>>
      /\ UNCHANGED <<mpc, paths, merged, deleting, deleted>>
      /\ UNCHANGED <<nextDelta, removed>>
      /\ phase = "running" /\ pc[u] = "idle" /\ nextFile \in FileId
      /\ nextFile' = nextFile + 1
      /\ op' = [op EXCEPT ![u] = [adds |-> {nextFile}, dels |-> dels]]
      /\ pc' = [pc EXCEPT ![u] = "check"]
  BY DEF Call
<1>2. Known' = Known /\ Live' = Live /\ OneSource' /\ OneEnd'
  BY <1>1, UpdateStore, StoreKept DEF CleanInv
<1>3. /\ op'[u].adds = {nextFile} /\ op'[u].dels = dels
      /\ \A w \in Updaters : w # u => op'[w] = op[w] /\ pc'[w] = pc[w]
      /\ pc'[u] = "check"
  BY <1>1 DEF TypeOK
<1>4. Applying' = Applying /\ u \notin Applying
  BY <1>1, <1>3 DEF Applying
<1>5. \A f \in Known \cup removed : f # nextFile
  BY <1>1 DEF CleanInv, Handed, FileId
<1>6. \A w \in Updaters : op[w].dels \subseteq Known \cup removed
  BY DEF CleanInv, CallsInv, Live
<1>7. \A w \in Updaters : nextFile \notin op[w].adds
  BY <1>1 DEF CleanInv, Handed, FileId
<1>8. \A w \in Updaters : op[w].dels \cap dels = {}
  <2> SUFFICES ASSUME NEW w \in Updaters, NEW f \in dels, f \in op[w].dels  PROVE FALSE
    OBVIOUS
  <2>1. pc[w] = "idle"
    BY DEF Claimed
  <2> QED  BY <2>1 DEF CleanInv, CallsInv, NoUpdate
<1>9. \A f \in dels : f \in Live /\ \A w \in Applying : f \notin op[w].adds
  BY <1>1, <1>8 DEF CleanInv, CacheInv, Applying, Ids
<1>10. \A w \in Updaters : op[w].adds \cap dels = {}
  BY <1>9 DEF CleanInv, CallsInv, Live
<1>11. CallsInv'
  <2>1. \A w \in Updaters : pc'[w] = "idle" => op'[w] = NoUpdate
    BY <1>3 DEF CleanInv, CallsInv
  <2>2. \A w \in Updaters \ Applying :
          op'[w].adds \cap (Known \cup removed) = {} /\ op'[w].dels \subseteq Live
    BY <1>3, <1>5, <1>9 DEF CleanInv, CallsInv
  <2>3. \A w \in Applying : op'[w].adds \subseteq Live /\ op'[w].dels \subseteq removed
    BY <1>3, <1>4 DEF CleanInv, CallsInv, Applying
  <2>4. \A v, w \in Updaters : op'[v].adds \cap op'[w].dels = {}
    <3> TAKE v, w \in Updaters
    <3>1. nextFile \notin dels /\ nextFile \notin op[w].dels
      BY <1>5, <1>6, <1>9 DEF Live
    <3>2. op[v].adds \cap op[w].dels = {} /\ op[v].adds \cap dels = {}
      BY <1>10 DEF CleanInv, CallsInv
    <3> QED  BY <1>3, <3>1, <3>2
  <2>5. \A v, w \in Updaters : v # w =>
          op'[v].adds \cap op'[w].adds = {} /\ op'[v].dels \cap op'[w].dels = {}
    BY <1>3, <1>7, <1>8 DEF CleanInv, CallsInv
  <2> QED  BY <1>1, <1>2, <1>4, <2>1, <2>2, <2>3, <2>4, <2>5 DEF CallsInv
<1>12. Handed'
  <2>1. \A f \in Known \cup removed : f < nextFile + 1
    BY <1>1 DEF CleanInv, Handed, Known, TypeOK, FileId
  <2>2. \A w \in Updaters : \A f \in op'[w].adds : f < nextFile + 1
    <3> TAKE w \in Updaters
    <3> TAKE f \in op'[w].adds
    <3>1. CASE w = u  BY <1>1, <1>3, <3>1 DEF FileId
    <3>2. CASE w # u
      <4>1. f \in op[w].adds /\ f \in FileId /\ f < nextFile
        BY <1>3, <3>2, PayloadFiles DEF CleanInv, Handed
      <4> QED  BY <4>1, <1>1 DEF FileId
    <3> QED  BY <3>1, <3>2
  <2> QED  BY <1>1, <1>2, <2>1, <2>2 DEF Handed
<1>13. CacheInv'
  BY <1>1, <1>2, <1>3, <1>4, CacheKept DEF CleanInv, Applying
<1>14. MergeInv'
  BY <1>1, MergeKept DEF CleanInv
<1>15. IdsPersisted'
  BY <1>1 DEF CleanInv, IdsPersisted, Persisted
<1> QED  BY <1>1, <1>2, <1>11, <1>12, <1>13, <1>14, <1>15 DEF CleanInv

\* The counter, the channel and a refused or failed update.
LEMMA CleanBookkeeping ==
    ASSUME TypeOK, CleanInv, NEW u \in Updaters, pc[u] \notin {"idle", "apply"},
           UNCHANGED <<snapshot, deltas, payload, phase, ssts>>,
           UNCHANGED <<mpc, paths, merged, deleting, nextFile, nextDelta, removed>>,
           \/ Return(u)
           \/ UNCHANGED op /\ \E p \in {"inc", "put", "dec"} : pc' = [pc EXCEPT ![u] = p]
    PROVE  CleanInv' /\ Live' = Live
<1>1. Known' = Known /\ Live' = Live /\ OneSource' /\ OneEnd'
  BY UpdateStore, StoreKept DEF CleanInv
<1>2. \A w \in Updaters : w # u => op'[w] = op[w] /\ pc'[w] = pc[w]
  BY DEF Return, TypeOK
<1>3. /\ op'[u] = op[u] \/ op'[u] = NoUpdate
      /\ pc'[u] = "idle" => op'[u] = NoUpdate
      /\ pc'[u] # "apply"
  BY DEF Return, TypeOK
<1>4. Applying' = Applying /\ u \notin Applying
  BY <1>2, <1>3 DEF Applying
<1>5. \A w \in Applying : op'[w] = op[w]
  BY <1>2, <1>4 DEF Applying
<1>6. CallsInv' /\ Handed'
  <2>1. \A w \in Updaters : op'[w] = op[w] \/ op'[w] = NoUpdate
    BY <1>2, <1>3
  <2>2. \A w \in Updaters : pc'[w] = "idle" => op'[w] = NoUpdate
    BY <1>2, <1>3 DEF CleanInv, CallsInv
  <2> QED  BY <1>1, <1>4, <1>5, <2>1, <2>2, CallsKept DEF CleanInv
<1>7. CacheInv'
  BY <1>1, <1>4, <1>5, CacheKept DEF CleanInv
<1>8. phase # "starting"
  BY DEF CleanInv, MergeInv
<1>9. MergeInv'
  BY <1>8, MergeKept DEF CleanInv
<1>10. IdsPersisted'
  BY DEF CleanInv, IdsPersisted, Persisted
<1> QED  BY <1>1, <1>6, <1>7, <1>9, <1>10 DEF CleanInv

\* The cache catches up by one update.
LEMMA CleanApply ==
    ASSUME TypeOK, CleanInv, NEW u \in Updaters, ApplyToCache(u)
    PROVE  CleanInv' /\ Live' = Live /\ UNCHANGED removed
<1> USE DEF store, merger, history
<1>1. /\ UNCHANGED <<hasSnapshot, snapshot, deltas, payload, phase>>
      /\ UNCHANGED <<mpc, paths, merged, deleting, deleted>>
      /\ UNCHANGED <<nextFile, nextDelta, removed>>
      /\ ssts' = Cached(u)
  BY DEF ApplyToCache
<1>2. Known' = Known /\ Live' = Live /\ OneSource' /\ OneEnd'
  BY <1>1, UpdateStore, StoreKept DEF CleanInv
<1>3. /\ u \in Applying /\ op'[u] = NoUpdate /\ pc'[u] = "idle"
      /\ \A w \in Updaters : w # u => op'[w] = op[w] /\ pc'[w] = pc[w]
  BY DEF ApplyToCache, Return, TypeOK, Applying
<1>4. Applying' = Applying \ {u}
  BY <1>3 DEF Applying
<1>5. NoUpdate.adds = {} /\ NoUpdate.dels = {}
  BY DEF NoUpdate
<1>6. CallsInv'
  <2>1. \A w \in Updaters : pc'[w] = "idle" => op'[w] = NoUpdate
    BY <1>3 DEF CleanInv, CallsInv
  <2>2. \A w \in Updaters \ Applying' :
          op'[w].adds \cap (Known \cup removed) = {} /\ op'[w].dels \subseteq Live
    BY <1>3, <1>4, <1>5 DEF CleanInv, CallsInv
  <2>3. \A w \in Applying' : op'[w].adds \subseteq Live /\ op'[w].dels \subseteq removed
    BY <1>3, <1>4 DEF CleanInv, CallsInv, Applying
  <2>4. \A v, w \in Updaters : op'[v].adds \cap op'[w].dels = {}
    BY <1>3, <1>5 DEF CleanInv, CallsInv
  <2>5. \A v, w \in Updaters : v # w =>
          op'[v].adds \cap op'[w].adds = {} /\ op'[v].dels \cap op'[w].dels = {}
    BY <1>3, <1>5 DEF CleanInv, CallsInv
  <2> QED  BY <1>1, <1>2, <2>1, <2>2, <2>3, <2>4, <2>5 DEF CallsInv
<1>7. Handed'
  BY <1>1, <1>2, <1>3, <1>5 DEF CleanInv, Handed
<1>8. phase = "running"
  BY <1>3 DEF CleanInv, MergeInv, TypeOK, Applying
<1>9. CacheInv'
  <2>1. ASSUME NEW f \in FileId
        PROVE  /\ ssts'[f] <= 1
               /\ ssts'[f] > 0 <=>
                    \/ f \in Live /\ \A w \in Applying' : f \notin op'[w].adds
                    \/ \E w \in Applying' : f \in op'[w].dels
    <3>1. /\ ssts'[f] = IF f \in op[u].dels THEN 0
                        ELSE IF f \in op[u].adds THEN ssts[f] + 1 ELSE ssts[f]
          /\ ssts[f] \in Nat /\ ssts[f] <= 1
      BY <1>1 DEF Cached, TypeOK, Records, CleanInv, CacheInv
    <3>2. ssts[f] > 0 <=>
            \/ f \in Live /\ \A w \in Applying : f \notin op[w].adds
            \/ \E w \in Applying : f \in op[w].dels
      BY <1>8 DEF CleanInv, CacheInv
    <3>3. \A w \in Applying' : w \in Applying /\ w # u /\ op'[w] = op[w]
      BY <1>3, <1>4 DEF Applying
    <3>4. \A w \in Applying : w # u => w \in Applying'
      BY <1>4
    <3>5. CASE f \in op[u].dels
      <4>1. f \notin Live
        BY <1>3, <3>5 DEF CleanInv, CallsInv, Live
      <4>2. \A w \in Applying' : f \notin op'[w].dels
        BY <3>3, <3>5 DEF CleanInv, CallsInv, Applying
      <4> QED  BY <3>1, <3>5, <4>1, <4>2
    <3>6. CASE f \in op[u].adds
      <4>1. f \in Live /\ \A w \in Updaters : f \notin op[w].dels
        BY <1>3, <3>6 DEF CleanInv, CallsInv
      <4>2. \A w \in Applying' : f \notin op'[w].adds
        BY <3>3, <3>6 DEF CleanInv, CallsInv, Applying
      <4>3. ~(ssts[f] > 0)
        BY <1>3, <3>2, <3>6, <4>1 DEF Applying
      <4> QED  BY <3>1, <3>6, <4>1, <4>2, <4>3
    <3>7. CASE f \notin op[u].dels /\ f \notin op[u].adds
      <4>1. ssts'[f] = ssts[f]
        BY <3>1, <3>7
      <4>2. /\ (\A w \in Applying : f \notin op[w].adds) <=>
                  (\A w \in Applying' : f \notin op'[w].adds)
            /\ (\E w \in Applying : f \in op[w].dels) <=> \E w \in Applying' : f \in op'[w].dels
        BY <3>3, <3>4, <3>7
      <4> QED  BY <3>1, <3>2, <4>1, <4>2
    <3> QED  BY <3>5, <3>6, <3>7
  <2> QED  BY <1>2, <2>1 DEF CacheInv
<1>10. MergeInv'
  BY <1>1, <1>8, MergeKept DEF CleanInv
<1>11. IdsPersisted'
  BY <1>1 DEF CleanInv, IdsPersisted, Persisted
<1> QED  BY <1>1, <1>2, <1>6, <1>7, <1>9, <1>10, <1>11 DEF CleanInv

\* The delta is written: the one step that changes the list.
LEMMA CleanPut ==
    ASSUME TypeOK, CleanInv, NEW u \in Updaters, PutDelta(u)
    PROVE  /\ CleanInv'
           /\ op[u].adds \cap (Live \cup removed) = {} /\ op[u].dels \subseteq Live
           /\ Live' = (Live \cup op[u].adds) \ op[u].dels
           /\ removed' = removed \cup op[u].dels
<1> USE DEF merger
<1> DEFINE d == nextDelta
<1>1. /\ UNCHANGED <<snapshot, phase, ssts, op, nextFile>>
      /\ UNCHANGED <<mpc, paths, merged, deleting>>
      /\ d \in DeltaId /\ nextDelta' = d + 1 /\ deltas' = deltas \cup {d}
      /\ payload' = [payload EXCEPT ![d] = op[u]]
      /\ removed' = removed \cup op[u].dels
      /\ pc[u] = "put" /\ pc' = [pc EXCEPT ![u] = "apply"]
  BY DEF PutDelta, Persist
<1>2. /\ \A e \in deltas \cup paths : e \in DeltaId /\ e < d /\ e # d /\ e \in Persisted
      /\ d \notin Persisted
  BY <1>1 DEF CleanInv, IdsPersisted, Persisted, DeltaId, TypeOK
<1>3. payload'[d] = op[u] /\ \A e \in DeltaId : e # d => payload'[e] = payload[e]
  BY <1>1 DEF TypeOK
<1>4. Unfolded' = Unfolded \cup {d}
  BY <1>1, <1>2 DEF Unfolded
<1>5. \A e \in Unfolded : e \in DeltaId /\ e < d /\ e # d /\ payload'[e] = payload[e]
  BY <1>2, <1>3 DEF Unfolded
<1>6. u \in Updaters \ Applying /\ Applying' = Applying \cup {u}
  BY <1>1 DEF Applying, TypeOK
<1>7. op[u].adds \subseteq FileId /\ op[u].dels \subseteq FileId
  BY PayloadFiles DEF CleanInv
<1>8. /\ op[u].adds \cap (Known \cup removed) = {} /\ op[u].dels \subseteq Live
      /\ op[u].adds \cap op[u].dels = {}
  BY <1>6 DEF CleanInv, CallsInv
<1> HIDE DEF d
<1>9. Known' = Known \cup op[u].adds
  BY <1>1, <1>3, <1>4, <1>5, <1>7 DEF Known
<1>10. Live' = (Live \cup op[u].adds) \ op[u].dels
  BY <1>1, <1>8, <1>9 DEF Live
<1>11. OneSource'
  <2>1. \A e \in Unfolded : payload[e].adds \cap op[u].adds = {}
    BY <1>7, <1>8 DEF Known
  <2>2. \A f \in op[u].adds : snapshot[f] = 0
    BY <1>7, <1>8 DEF Known, TypeOK, Records
  <2>3. ASSUME NEW e \in Unfolded', NEW f \in payload'[e].adds
        PROVE  snapshot'[f] = 0 /\ \A g \in Unfolded' : f \in payload'[g].adds => g = e
    <3>1. CASE e = d
      BY <3>1, <2>3, <1>1, <1>3, <1>4, <1>5, <2>1, <2>2
    <3>2. CASE e \in Unfolded
      BY <3>2, <2>3, <1>1, <1>3, <1>4, <1>5, <2>1 DEF CleanInv, OneSource
    <3> QED  BY <3>1, <3>2, <1>4
  <2> QED  BY <1>1, <2>3 DEF CleanInv, OneSource
<1>12. OneEnd'
  <2>1. \A e \in Unfolded : payload[e].dels \cap op[u].dels = {}
    BY <1>8, PayloadFiles DEF CleanInv, Live
  <2>2. ASSUME NEW e \in Unfolded', NEW f \in payload'[e].dels
        PROVE  snapshot'[f] > 0 \/ \E g \in Unfolded' : g < e /\ f \in payload'[g].adds
    <3>1. CASE e = d
      <4>1. snapshot[f] > 0 \/ \E g \in Unfolded : f \in payload[g].adds
        BY <2>2, <3>1, <1>3, <1>8 DEF Live, Known
      <4> QED  BY <3>1, <4>1, <1>1, <1>4, <1>5
    <3>2. CASE e \in Unfolded
      <4>1. f \in payload[e].dels
        BY <2>2, <3>2, <1>5
      <4>2. snapshot[f] > 0 \/ \E g \in Unfolded : g < e /\ f \in payload[g].adds
        BY <3>2, <4>1 DEF CleanInv, OneEnd
      <4> QED  BY <4>2, <1>1, <1>4, <1>5
    <3> QED  BY <3>1, <3>2, <1>4
  <2>3. ASSUME NEW e \in Unfolded', NEW f \in payload'[e].dels,
               NEW g \in Unfolded', f \in payload'[g].dels
        PROVE  g = e
    BY <2>3, <2>1, <1>3, <1>4, <1>5 DEF CleanInv, OneEnd
  <2>4. ASSUME NEW f \in Known' \cap removed'
        PROVE  \E e \in Unfolded' : f \in payload'[e].dels
    <3>1. CASE f \in op[u].dels  BY <3>1, <1>3, <1>4
    <3>2. CASE f \notin op[u].dels
      <4>1. f \in Known \cap removed
        BY <2>4, <3>2, <1>1, <1>8, <1>9
      <4>2. PICK e \in Unfolded : f \in payload[e].dels
        BY <4>1 DEF CleanInv, OneEnd
      <4> QED  BY <4>2, <1>4, <1>5
    <3> QED  BY <3>1, <3>2
  <2> QED  BY <2>2, <2>3, <2>4 DEF OneEnd
<1>13. Handed'
  <2>1. \A f \in op[u].adds \cup op[u].dels : f < nextFile
    BY <1>8 DEF CleanInv, Handed, Live
  <2> QED  BY <1>1, <1>9, <2>1 DEF CleanInv, Handed
<1>14. CallsInv'
  <2>1. \A w \in Updaters : pc'[w] = "idle" => op[w] = NoUpdate
    BY <1>1 DEF CleanInv, CallsInv, TypeOK
  <2>2. \A w \in Updaters : w # u =>
          /\ op[w].adds \cap (op[u].adds \cup op[u].dels) = {}
          /\ op[w].dels \cap (op[u].adds \cup op[u].dels) = {}
    BY DEF CleanInv, CallsInv
  <2>3. \A w \in Updaters \ Applying' :
          op[w].adds \cap (Known' \cup removed') = {} /\ op[w].dels \subseteq Live'
    <3> TAKE w \in Updaters \ Applying'
    <3>1. w # u /\ op[w].adds \cap (Known \cup removed) = {} /\ op[w].dels \subseteq Live
      BY <1>6 DEF CleanInv, CallsInv
    <3>2. op[w].adds \cap (Known' \cup removed') = {}
      BY <3>1, <2>2, <1>1, <1>9
    <3>3. op[w].dels \subseteq Live'
      BY <3>1, <2>2, <1>10
    <3> QED  BY <3>2, <3>3
  <2>4. \A w \in Applying' : op[w].adds \subseteq Live' /\ op[w].dels \subseteq removed'
    <3> TAKE w \in Applying'
    <3>1. CASE w = u  BY <3>1, <1>1, <1>8, <1>10
    <3>2. CASE w # u
      <4>1. w \in Applying /\ op[w].adds \subseteq Live /\ op[w].dels \subseteq removed
        BY <3>2, <1>6 DEF CleanInv, CallsInv
      <4> QED  BY <3>2, <4>1, <2>2, <1>1, <1>10 DEF Applying
    <3> QED  BY <3>1, <3>2
  <2> QED  BY <1>1, <2>1, <2>3, <2>4 DEF CleanInv, CallsInv
<1>15. phase = "running"
  BY <1>1 DEF CleanInv, MergeInv, TypeOK
<1>16. CacheInv'
  <2>1. ASSUME NEW f \in FileId
        PROVE  ssts[f] > 0 <=>
                    \/ f \in Live' /\ \A w \in Applying' : f \notin op[w].adds
                    \/ \E w \in Applying' : f \in op[w].dels
    <3>1. ssts[f] > 0 <=>
            \/ f \in Live /\ \A w \in Applying : f \notin op[w].adds
            \/ \E w \in Applying : f \in op[w].dels
      BY <1>15 DEF CleanInv, CacheInv
    <3>2. CASE f \in op[u].dels
      <4>1. f \in Live /\ \A w \in Applying : f \notin op[w].adds
        BY <3>2, <1>8 DEF CleanInv, CallsInv, Applying
      <4> QED  BY <3>1, <3>2, <4>1, <1>6
    <3>3. CASE f \in op[u].adds
      <4>1. f \notin Live /\ \A w \in Updaters : f \notin op[w].dels
        BY <3>3, <1>8 DEF CleanInv, CallsInv, Live
      <4> QED  BY <3>1, <3>3, <4>1, <1>6 DEF Applying
    <3>4. CASE f \notin op[u].dels /\ f \notin op[u].adds
      <4>1. f \in Live' <=> f \in Live
        BY <3>4, <1>10
      <4> QED  BY <3>1, <3>4, <4>1, <1>6
    <3> QED  BY <3>2, <3>3, <3>4
  <2> QED  BY <1>1, <2>1 DEF CleanInv, CacheInv
<1>17. MergeInv'
  <2>1. \A e \in Persisted : payload'[e] = payload[e]
    BY <1>1, <1>2 DEF TypeOK
  <2> QED  BY <1>1, <1>15, <2>1, MergeKept DEF CleanInv, d
<1>18. IdsPersisted'
  <2>1. Persisted' = Persisted \cup {d}
    BY <1>1 DEF Persisted, DeltaId, d
  <2>2. \A e \in Persisted : payload'[e] = payload[e]
    BY <1>1, <1>2 DEF TypeOK
  <2> QED  BY <1>1, <1>3, <2>1, <2>2 DEF CleanInv, IdsPersisted
<1> QED
  BY <1>1, <1>8, <1>10, <1>11, <1>12, <1>13, <1>14, <1>16, <1>17, <1>18 DEF CleanInv, Live

\* Every step of Manifest::update, by what it does to the list.
LEMMA CleanUpdate ==
    ASSUME CleanFaults, TypeOK, CleanInv, NEW u \in Updaters,
           AddFile(u) \/ Replace(u) \/ UpdateStep(u)
    PROVE  CleanInv' /\ (PutDelta(u) \/ (Live' = Live /\ UNCHANGED removed))
<1> USE DEF store, merger, history
<1>1. CASE AddFile(u)
  <2>1. {} \in SUBSET (Ids(ssts) \ Claimed)
    OBVIOUS
  <2> QED  BY <1>1, <2>1, CleanCall DEF AddFile
<1>2. CASE Replace(u)
  <2>1. PICK dels \in SUBSET (Ids(ssts) \ Claimed) : Call(u, {nextFile}, dels)
    BY <1>2 DEF Replace
  <2> QED  BY <2>1, CleanCall
<1>3. CASE MaybeScheduleMerge(u)
  <2>1. /\ UNCHANGED <<snapshot, deltas, payload, phase, ssts>>
        /\ UNCHANGED <<mpc, paths, merged, deleting, nextFile, nextDelta, removed>>
        /\ pc[u] = "check"
        /\ \/ Return(u)
           \/ UNCHANGED op /\ pc' = [pc EXCEPT ![u] = "inc"]
    BY <1>3 DEF MaybeScheduleMerge
  <2> QED  BY <2>1, CleanBookkeeping
<1>4. CASE IncDeltaNum(u)
  BY <1>4, CleanBookkeeping DEF IncDeltaNum
<1>5. CASE PutDelta(u)
  BY <1>5, CleanPut
<1>6. CASE PutDeltaFails(u)
  <2>1. ~Fault("lost_ack")
    BY DEF CleanFaults, Fault
  <2> QED  BY <1>6, <2>1, CleanBookkeeping DEF PutDeltaFails
<1>7. CASE ApplyToCache(u)
  BY <1>7, CleanApply
<1>8. CASE DecDeltaNum(u)
  BY <1>8, CleanBookkeeping DEF DecDeltaNum
<1> QED  BY <1>1, <1>2, <1>3, <1>4, <1>5, <1>6, <1>7, <1>8 DEF UpdateStep
-----------------------------------------------------------------------------
(***************************************************************************)
(* The steps of the merger, and the end of the process.                    *)
(***************************************************************************)
\* A new process finds the store as it was left, and knows of no call.
LEMMA CleanRestart ==
    ASSUME TypeOK, CleanInv, mpc # "delete", Restart, UNCHANGED <<snapshot, deltas, payload>>
    PROVE  CleanInv' /\ Live' = Live /\ UNCHANGED removed
<1> USE DEF history
<1>1. /\ phase' = "starting" /\ ssts' = Empty /\ mpc' = "list" /\ paths' = {}
      /\ pc' = [u \in Updaters |-> "idle"] /\ op' = [u \in Updaters |-> NoUpdate]
      /\ UNCHANGED <<nextFile, nextDelta, removed>>
  BY DEF Restart, IdAfterRestart
<1>2. Unfolded' = Unfolded
  BY <1>1 DEF Unfolded
<1>3. Known' = Known /\ Live' = Live /\ OneSource' /\ OneEnd'
  BY <1>1, <1>2, StoreKept DEF CleanInv
<1>4. IdsPersisted'
  BY <1>1 DEF CleanInv, IdsPersisted, Persisted
<1>5. MergeInv'
  BY <1>1 DEF MergeInv
<1>6. Handed' /\ CallsInv'
  BY <1>1, <1>3 DEF CleanInv, Handed, CallsInv, NoUpdate, Applying
<1>7. CacheInv'
  BY <1>1 DEF CacheInv, Empty
<1> QED  BY <1>1, <1>3, <1>4, <1>5, <1>6, <1>7 DEF CleanInv

\* A step of the merger that folds nothing.
LEMMA CleanMerger ==
    ASSUME TypeOK, CleanInv, MergeInv', Unfolded' = Unfolded,
           UNCHANGED <<snapshot, payload, pc, op, nextFile, nextDelta, removed>>,
           deltas' \subseteq deltas, paths' \subseteq deltas \cup paths,
           UNCHANGED <<phase, ssts>> \/ CacheInv'
    PROVE  CleanInv' /\ Live' = Live
<1>1. Known' = Known /\ Live' = Live /\ OneSource' /\ OneEnd'
  BY StoreKept DEF CleanInv
<1>2. Applying' = Applying
  BY DEF Applying
<1>3. CallsInv' /\ Handed'
  BY <1>1, <1>2, CallsKept DEF CleanInv, CallsInv
<1>4. CacheInv'
  BY <1>1, <1>2, CacheKept DEF CleanInv
<1>5. IdsPersisted'
  BY DEF CleanInv, IdsPersisted, Persisted
<1> QED  BY <1>1, <1>3, <1>4, <1>5 DEF CleanInv

\* do_merge gave up: nothing was folded.
LEMMA CleanGiveUp ==
    ASSUME TypeOK, CleanInv, mpc \in {"list", "read", "put"}, GiveUpMerge,
           UNCHANGED <<snapshot, deltas, payload>>
    PROVE  CleanInv' /\ Live' = Live /\ UNCHANGED removed
<1>1. CASE Restart  BY <1>1, CleanRestart
<1>2. CASE phase = "running" /\ ~Restart
  <2>1. /\ mpc' = "idle" /\ paths' = {}
        /\ UNCHANGED <<phase, ssts, pc, op, nextFile, nextDelta, removed>>
    BY <1>2 DEF GiveUpMerge, updaters, history
  <2>2. Unfolded' = Unfolded
    BY <2>1 DEF Unfolded
  <2>3. MergeInv'
    BY <1>2, <2>1 DEF MergeInv
  <2> QED  BY <2>1, <2>2, <2>3, CleanMerger
<1> QED  BY <1>1, <1>2 DEF GiveUpMerge

\* The merged snapshot is put: the deltas it was made from stop counting, and
\* the list stays what it was.
LEMMA CleanFold ==
    ASSUME TypeOK, CleanInv, PutSnapshot
    PROVE  CleanInv' /\ Live' = Live /\ UNCHANGED removed
<1> USE DEF updaters, history
<1>1. /\ mpc = "put" /\ mpc' = "delete" /\ snapshot' = merged /\ deleting' = paths
      /\ UNCHANGED <<deltas, payload, phase, ssts, pc, op, paths, nextFile, nextDelta, removed>>
  BY DEF PutSnapshot, MergedPaths
<1>2. Unfolded = deltas /\ Unfolded' = deltas \ paths
  BY <1>1 DEF Unfolded
<1>3. /\ paths \subseteq deltas /\ merged = MergedRecords(paths)
      /\ \A p \in paths, d \in deltas \ paths : p < d
  BY <1>1 DEF CleanInv, MergeInv
<1>4. \A f \in FileId :
        /\ snapshot'[f] <= 1
        /\ snapshot'[f] > 0 <=>
            /\ f \notin Dels(paths)
            /\ snapshot[f] > 0 \/ \E d \in paths : f \in payload[d].adds
  BY <1>1, <1>3, MergedOnce DEF CleanInv
<1>5. \A d \in deltas : payload[d].adds \subseteq FileId /\ payload[d].dels \subseteq FileId
  BY <1>2, PayloadFiles DEF CleanInv
<1>6. Dels(paths) \subseteq removed
  BY <1>2, <1>3, PayloadFiles DEF CleanInv, Dels
<1>7. Known' \subseteq Known
  BY <1>1, <1>2, <1>3, <1>4 DEF Known
<1>8. Live' = Live
  <2>1. ASSUME NEW f \in Live  PROVE f \in Known'
    <3>1. f \in FileId /\ f \notin Dels(paths)
      BY <1>6, <2>1 DEF Live, Known
    <3>2. snapshot[f] > 0 \/ \E d \in deltas : f \in payload[d].adds
      BY <1>2, <2>1 DEF Live, Known
    <3> QED  BY <3>1, <3>2, <1>1, <1>2, <1>4 DEF Known
  <2> QED  BY <1>1, <1>7, <2>1 DEF Live
<1>9. OneSource'
  <2>1. ASSUME NEW d \in deltas \ paths, NEW f \in payload[d].adds
        PROVE  snapshot'[f] = 0 /\ \A e \in deltas \ paths : f \in payload[e].adds => e = d
    <3>1. /\ f \in FileId /\ snapshot[f] = 0
          /\ \A e \in deltas : f \in payload[e].adds => e = d
      BY <1>2, <1>5, <2>1 DEF CleanInv, OneSource
    <3>2. ~(snapshot'[f] > 0)
      BY <3>1, <1>3, <1>4
    <3>3. snapshot'[f] \in Nat
      BY <1>1, <3>1 DEF TypeOK, Records
    <3> QED  BY <3>1, <3>2, <3>3
  <2> QED  BY <1>1, <1>2, <1>4, <2>1 DEF OneSource
<1>10. OneEnd'
  <2>1. ASSUME NEW d \in deltas \ paths, NEW f \in payload[d].dels
        PROVE  snapshot'[f] > 0 \/ \E e \in deltas \ paths : e < d /\ f \in payload[e].adds
    <3>1. /\ f \in FileId
          /\ snapshot[f] > 0 \/ \E e \in deltas : e < d /\ f \in payload[e].adds
      BY <1>2, <1>5, <2>1 DEF CleanInv, OneEnd
    <3>2. f \notin Dels(paths)
      BY <1>2, <1>3, <2>1 DEF CleanInv, OneEnd, Dels
    <3> QED  BY <3>1, <3>2, <1>4
  <2>2. ASSUME NEW d \in deltas \ paths, NEW f \in payload[d].dels,
               NEW e \in deltas \ paths, f \in payload[e].dels
        PROVE  e = d
    BY <1>2, <2>2 DEF CleanInv, OneEnd
  <2>3. ASSUME NEW f \in Known' \cap removed
        PROVE  \E d \in deltas \ paths : f \in payload[d].dels
    <3>1. PICK d \in deltas : f \in payload[d].dels
      BY <1>2, <1>7, <2>3 DEF CleanInv, OneEnd
    <3>2. CASE d \in paths
      <4>1. f \in FileId /\ ~(snapshot'[f] > 0)
        BY <3>1, <3>2, <1>4, <1>5 DEF Dels
      <4>2. PICK e \in deltas \ paths : f \in payload[e].adds
        BY <2>3, <4>1, <1>1, <1>2 DEF Known
      <4>3. snapshot[f] = 0 /\ \A g \in deltas : f \in payload[g].adds => g = e
        BY <1>2, <4>2 DEF CleanInv, OneSource
      <4>4. e < d
        BY <1>2, <3>1, <4>3 DEF CleanInv, OneEnd
      <4>5. d < e
        BY <1>3, <3>2
      <4> QED  BY <4>4, <4>5, BoundsAssumption DEF TypeOK, DeltaId
    <3> QED  BY <3>1, <3>2
  <2> QED  BY <1>1, <1>2, <2>1, <2>2, <2>3 DEF OneEnd
<1>11. Handed'
  BY <1>1, <1>7 DEF CleanInv, Handed
<1>12. Applying' = Applying
  BY <1>1 DEF Applying
<1>13. CallsInv'
  <2>1. \A u \in Updaters \ Applying :
          op[u].adds \cap (Known' \cup removed) = {} /\ op[u].dels \subseteq Live
    BY <1>7 DEF CleanInv, CallsInv
  <2> QED  BY <1>1, <1>8, <1>12, <2>1 DEF CleanInv, CallsInv
<1>14. CacheInv'
  BY <1>1, <1>8, <1>12, CacheKept DEF CleanInv
<1>15. MergeInv'
  BY <1>1, <1>3 DEF CleanInv, MergeInv
<1>16. IdsPersisted'
  BY <1>1 DEF CleanInv, IdsPersisted, Persisted
<1> QED  BY <1>1, <1>8, <1>9, <1>10, <1>11, <1>13, <1>14, <1>15, <1>16 DEF CleanInv

\* Every step of the merger keeps the invariant and the list.
LEMMA CleanMergeStep ==
    ASSUME CleanFaults, TypeOK, CleanInv, Tick \/ Receive \/ MergeStep \/ Crash
    PROVE  CleanInv' /\ Live' = Live /\ UNCHANGED removed
<1> USE DEF store, updaters, history
<1>1. ~Fault("list") /\ ~Fault("lost_ack") /\ ~Fault("delete") /\ ~Fault("merge_crash")
  BY DEF CleanFaults, Fault
<1>2. CASE Tick \/ Receive
  <2>1. /\ mpc = "idle" /\ mpc' \in {"idle", "list"}
        /\ UNCHANGED <<snapshot, deltas, payload, phase, ssts, pc, op, paths>>
        /\ UNCHANGED <<nextFile, nextDelta, removed>>
    BY <1>2 DEF Tick, Receive, Wake
  <2>2. Unfolded' = Unfolded /\ MergeInv'
    BY <2>1 DEF Unfolded, CleanInv, MergeInv
  <2> QED  BY <2>1, <2>2, CleanMerger
<1>3. CASE ListDeltas
  <2>1. /\ mpc = "list" /\ paths' = deltas
        /\ mpc' = IF deltas = {} THEN AfterMerge ELSE "read"
        /\ UNCHANGED <<snapshot, deltas, payload, phase, ssts, pc, op>>
        /\ UNCHANGED <<nextFile, nextDelta, removed>>
    BY <1>3 DEF ListDeltas
  <2>2. Unfolded' = Unfolded
    BY <2>1 DEF Unfolded, AfterMerge
  <2>3. MergeInv'
    <3>1. mpc' \in {"idle", "load", "read"}
      BY <2>1 DEF AfterMerge
    <3>2. mpc' = "load" => phase = "starting" /\ deltas = {}
      BY <2>1 DEF AfterMerge
    <3> QED  BY <2>1, <3>1, <3>2 DEF CleanInv, MergeInv
  <2> QED  BY <2>1, <2>2, <2>3, CleanMerger
<1>4. CASE BeginListing \/ EndListing
  BY <1>1, <1>4 DEF BeginListing, EndListing, CleanInv, MergeInv
<1>5. CASE ReadAndMerge
  <2>1. /\ mpc = "read" /\ mpc' = "put" /\ merged' = MergedRecords(paths)
        /\ UNCHANGED <<snapshot, deltas, payload, phase, ssts, pc, op, paths>>
        /\ UNCHANGED <<nextFile, nextDelta, removed>>
    BY <1>5 DEF ReadAndMerge
  <2>2. Unfolded' = Unfolded
    BY <2>1 DEF Unfolded
  <2>3. MergedRecords(paths)' = MergedRecords(paths)
    BY <2>1 DEF MergedRecords, Dels
  <2>4. MergeInv'
    BY <2>1, <2>3 DEF CleanInv, MergeInv
  <2> QED  BY <2>1, <2>2, <2>4, CleanMerger
<1>6. CASE PutSnapshot
  BY <1>6, CleanFold
<1>7. ASSUME NEW d \in DeltaId, DeleteDelta(d)
      PROVE  CleanInv' /\ Live' = Live /\ UNCHANGED removed
  <2>1. /\ mpc = "delete" /\ d \in deleting /\ deltas' = deltas \ {d}
        /\ deleting' = deleting \ {d}
        /\ UNCHANGED <<snapshot, payload, phase, ssts, pc, op, mpc, paths>>
        /\ UNCHANGED <<nextFile, nextDelta, removed>>
    BY <1>1, <1>7 DEF DeleteDelta
  <2>2. d \in paths
    BY <2>1 DEF TypeOK
  <2>3. Unfolded' = Unfolded
    BY <2>1, <2>2 DEF Unfolded
  <2>4. MergeInv'
    BY <2>1 DEF CleanInv, MergeInv
  <2> QED  BY <2>1, <2>3, <2>4, CleanMerger
<1>8. ASSUME NEW d \in DeltaId, DecDeleted(d)
      PROVE  CleanInv' /\ Live' = Live /\ UNCHANGED removed
  <2>1. /\ mpc = "delete"
        /\ UNCHANGED <<snapshot, deltas, payload, phase, ssts, pc, op>>
        /\ UNCHANGED <<mpc, paths, deleting, nextFile, nextDelta, removed>>
    BY <1>8 DEF DecDeleted
  <2>2. Unfolded' = Unfolded /\ MergeInv'
    BY <2>1 DEF Unfolded, CleanInv, MergeInv
  <2> QED  BY <2>1, <2>2, CleanMerger
<1>9. CASE MergeDone
  <2>1. /\ mpc = "delete" /\ deleting = {} /\ mpc' = AfterMerge /\ paths' = {}
        /\ UNCHANGED <<snapshot, deltas, payload, phase, ssts, pc, op>>
        /\ UNCHANGED <<nextFile, nextDelta, removed>>
    BY <1>9 DEF MergeDone
  <2>2. deltas \cap paths = {} /\ (phase = "starting" => deltas = {})
    BY <2>1 DEF CleanInv, MergeInv
  <2>3. Unfolded' = Unfolded
    BY <2>1, <2>2 DEF Unfolded, AfterMerge
  <2>4. MergeInv'
    BY <2>1, <2>2 DEF CleanInv, MergeInv, AfterMerge
  <2> QED  BY <2>1, <2>3, <2>4, CleanMerger
<1>10. CASE LoadSnapshot
  <2>1. /\ mpc = "load" /\ ssts' = snapshot /\ phase' = "running" /\ mpc' = "idle"
        /\ UNCHANGED <<snapshot, deltas, payload, pc, op, paths>>
        /\ UNCHANGED <<nextFile, nextDelta, removed>>
    BY <1>10 DEF LoadSnapshot
  <2>2. deltas = {} /\ \A u \in Updaters : pc[u] = "idle"
    BY <2>1 DEF CleanInv, MergeInv
  <2>3. Unfolded = {} /\ Unfolded' = {} /\ Applying' = {}
    BY <2>1, <2>2 DEF Unfolded, Applying
  <2>4. Live' = {f \in FileId : snapshot[f] > 0}
    BY <2>1, <2>3 DEF Live, Known, CleanInv, OneEnd
  <2>5. CacheInv'
    BY <2>1, <2>3, <2>4 DEF CleanInv, OneSource, CacheInv
  <2>6. MergeInv'
    BY <2>1 DEF MergeInv
  <2> QED  BY <2>1, <2>3, <2>5, <2>6, CleanMerger
<1>11. CASE ReadFails
  <2>1. mpc \in {"list", "read"}
    BY <1>11 DEF ReadFails, CleanInv, MergeInv
  <2> QED  BY <1>11, <2>1, CleanGiveUp DEF ReadFails
<1>12. CASE PutSnapshotFails
  BY <1>1, <1>12, CleanGiveUp DEF PutSnapshotFails
<1>13. CASE LoadFails
  BY <1>13, CleanRestart DEF LoadFails
<1>14. CASE Crash
  <2>1. mpc # "delete"
    BY <1>1, <1>14 DEF Crash
  <2> QED  BY <1>14, <2>1, CleanRestart DEF Crash
<1> QED
  BY <1>2, <1>3, <1>4, <1>5, <1>6, <1>7, <1>8, <1>9, <1>10, <1>11, <1>12, <1>13, <1>14
  DEF MergeStep
-----------------------------------------------------------------------------
\* The invariant holds of the empty store.
LEMMA CleanInit == Init => CleanInv /\ Live = {} /\ removed = {}
<1> SUFFICES ASSUME Init  PROVE CleanInv /\ Live = {} /\ removed = {}
  OBVIOUS
<1>1. /\ snapshot = Empty /\ deltas = {} /\ payload = [d \in DeltaId |-> NoUpdate]
      /\ phase = "starting" /\ ssts = Empty
      /\ pc = [u \in Updaters |-> "idle"] /\ op = [u \in Updaters |-> NoUpdate]
      /\ mpc = "list" /\ paths = {} /\ nextDelta = 1 /\ removed = {}
  BY DEF Init
<1>2. Unfolded = {} /\ Known = {} /\ Live = {} /\ Applying = {} /\ Persisted = {}
  BY <1>1 DEF Unfolded, Known, Live, Empty, Applying, Persisted
<1>3. IdsPersisted /\ MergeInv
  BY <1>1, <1>2 DEF IdsPersisted, MergeInv
<1>4. OneSource /\ OneEnd /\ CacheInv
  BY <1>1, <1>2 DEF OneSource, OneEnd, CacheInv, Empty
<1>5. Handed /\ CallsInv
  BY <1>1, <1>2 DEF Handed, CallsInv, NoUpdate
<1> QED  BY <1>1, <1>2, <1>3, <1>4, <1>5 DEF CleanInv

\* Every step keeps it; it changes the list as a step of LiveFiles does.
LEMMA CleanStep ==
    CleanFaults /\ TypeOK /\ CleanInv /\ [Next]_vars
        => CleanInv' /\ [\E adds, dels \in SUBSET FileId :
                            /\ adds \cap (Live \cup removed) = {} /\ dels \subseteq Live
                            /\ Live' = (Live \cup adds) \ dels
                            /\ removed' = removed \cup dels]_<<Live, removed>>
<1> DEFINE Committed == \E adds, dels \in SUBSET FileId :
                            /\ adds \cap (Live \cup removed) = {} /\ dels \subseteq Live
                            /\ Live' = (Live \cup adds) \ dels
                            /\ removed' = removed \cup dels
           Kept == Live' = Live /\ UNCHANGED removed
<1> SUFFICES ASSUME CleanFaults, TypeOK, CleanInv, [Next]_vars
             PROVE  CleanInv' /\ (Committed \/ Kept)
  OBVIOUS
<1>1. CASE UNCHANGED vars
  <2> USE DEF vars, store, merger, updaters, history
  <2>1. Unfolded' = Unfolded
    BY <1>1 DEF Unfolded
  <2>2. MergeInv'
    BY <1>1, MergeKept DEF CleanInv
  <2> QED  BY <1>1, <2>1, <2>2, CleanMerger
<1>2. ASSUME NEW u \in Updaters, PutDelta(u)  PROVE CleanInv' /\ Committed
  <2>1. op[u].adds \in SUBSET FileId /\ op[u].dels \in SUBSET FileId
    BY PayloadFiles DEF CleanInv
  <2> QED  BY <1>2, <2>1, CleanPut
<1>3. ASSUME NEW u \in Updaters, AddFile(u) \/ Replace(u) \/ UpdateStep(u), ~PutDelta(u)
      PROVE  CleanInv' /\ Kept
  BY <1>3, CleanUpdate
<1>4. CASE Tick \/ Receive \/ MergeStep \/ Crash
  BY <1>4, CleanMergeStep
<1> QED  BY <1>1, <1>2, <1>3, <1>4 DEF Next

\* Without the faults that separate a merge from the deletion of its deltas,
\* CleanInv holds: for any number of callers, any thresholds, failed reads and
\* puts, and crashes outside the deletions.
LEMMA CleanInvariant ==
    ASSUME CleanFaults
    PROVE  Spec => [](TypeOK /\ CleanInv)
<1>1. Init => TypeOK /\ CleanInv
  BY TypeInit, CleanInit
<1>2. TypeOK /\ CleanInv /\ [Next]_vars => TypeOK' /\ CleanInv'
  BY TypeStep, CleanStep
<1> QED  BY <1>1, <1>2, PTL DEF Spec

\* The debug assertion of delete_records holds in every merge: each record that
\* a merge deletes is in the snapshot or in a delta it folds.
THEOREM NoRecordIsMissing ==
    ASSUME CleanFaults
    PROVE  Spec => []DeletedRecordsExist
<1>1. TypeOK /\ CleanInv => DeletedRecordsExist
  BY CleanImplies
<1> QED  BY <1>1, CleanInvariant, PTL

\* Neither the snapshot nor the cache ever has a record twice.
THEOREM NoRecordIsDoubled ==
    ASSUME CleanFaults
    PROVE  Spec => []NoDuplicateRecords
<1>1. TypeOK /\ CleanInv => NoDuplicateRecords
  BY CleanImplies
<1> QED  BY <1>1, CleanInvariant, PTL

\* The cache is the list that a restart would read from the store, but for the
\* updates whose delta is written and not yet applied.
THEOREM CacheIsTheStore ==
    ASSUME CleanFaults
    PROVE  Spec => []CacheMatchesStore
<1>1. TypeOK /\ CleanInv => CacheMatchesStore
  BY CleanImplies
<1> QED  BY <1>1, CleanInvariant, PTL

\* The manifest implements LiveFiles: merges, failures and restarts leave the
\* list of files alone, an update replaces files by new ones in one step, the
\* write of its delta, and a file that was replaced never comes back.
THEOREM Refinement ==
    ASSUME CleanFaults
    PROVE  Spec => ImplementsLiveFiles
<1>1. Init => TypeOK /\ CleanInv /\ Files!Init
  BY TypeInit, CleanInit, ViewIsLive DEF CleanInv, Files!Init
<1>2. TypeOK /\ CleanInv => View = Live
  BY ViewIsLive DEF CleanInv
<1>3. (TypeOK /\ CleanInv)' => (View = Live)'
  BY <1>2, PTL
<1>4. TypeOK /\ CleanInv /\ [Next]_vars
        => TypeOK' /\ CleanInv' /\ [Files!Next]_<<View, removed>>
  <2> SUFFICES ASSUME TypeOK, CleanInv, [Next]_vars
               PROVE  TypeOK' /\ CleanInv' /\ [Files!Next]_<<View, removed>>
    OBVIOUS
  <2>1. TypeOK' /\ CleanInv'
    BY TypeStep, CleanStep
  <2>2. View = Live /\ View' = Live'
    BY <2>1, <1>2, <1>3
  <2> QED  BY <2>1, <2>2, CleanStep DEF Files!Next, Files!Commit
<1> QED  BY <1>1, <1>4, PTL DEF Spec, ImplementsLiveFiles, Files!Spec
=============================================================================
