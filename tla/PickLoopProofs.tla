--------------------------- MODULE PickLoopProofs ---------------------------
(***************************************************************************)
(* Theorems about the greedy choice of the picker, for any set of files    *)
(* and any configuration: it misses no files that fit, and no choice has   *)
(* more of them.                                                           *)
(***************************************************************************)
EXTENDS PickLoop, PickerProofs

\* Most steps are first-order: Zenon is tried first, then SMT, then Zenon for longer.
USE ZenonT(3), SMTT(30), ZenonT(30)

\* The last task was picked when all but its own files had the marks they have.
PickInv ==
    /\ meta \in [FileId -> Metas]
    /\ \/ task = NoTask
       \/ \E mk : /\ task \in PickCandidate(meta, FileId, mk, now)
                  /\ marked = mk \cup task.inputs \cup task.expireds

\* The invariant holds in every reachable state.
LEMMA PickInvariant == Spec => []PickInv
<1>1. Init => PickInv
  BY DEF Init, PickInv
<1>2. PickInv /\ [Pick]_vars => PickInv'
  <2> SUFFICES ASSUME PickInv, [Pick]_vars  PROVE PickInv'
    OBVIOUS
  <2>1. CASE Pick
    <3>1. PICK t \in PickCandidate(meta, FileId, marked, now) :
             /\ task' = t /\ marked' = marked \cup t.inputs \cup t.expireds
             /\ UNCHANGED <<meta, now>>
      BY <2>1 DEF Pick
    <3> QED  BY <3>1 DEF PickInv
  <2>2. CASE UNCHANGED vars
    BY <2>2 DEF PickInv, vars
  <2> QED  BY <2>1, <2>2
<1> QED  BY <1>1, <1>2, PTL DEF Spec

\* The files have sizes and times.
LEMMA FileMetas ==
    ASSUME PickInv
    PROVE  Sized(meta, FileId) /\ Dated(meta, FileId)
<1>1. \A f \in FileId : meta[f].size \in Nat /\ meta[f].start \in Int
  <2> SUFFICES ASSUME NEW f \in FileId  PROVE meta[f].size \in Nat /\ meta[f].start \in Int
    OBVIOUS
  <2>1. PICK r \in Ranges, n \in Sizes : meta[f] = [start |-> r[1], end |-> r[2], size |-> n]
    BY DEF PickInv, Metas
  <2> QED  BY <2>1, PickLoopAssumption
<1> QED  BY <1>1, PickLoopAssumption DEF Sized, Dated

\* The greedy choice misses nothing: if input_sst_min_num is not zero, then when
\* the picker returns None, no files of one segment that have not expired are
\* within the limits of number and size (pick_compaction_files).
THEOREM NothingIsLeftBehind ==
    ASSUME InputMinNum > 0
    PROVE  Spec => []NoneLeftBehind
<1>1. PickInv => NoneLeftBehind
  <2> DEFINE files == Candidates(meta, FileId, marked, now)
  <2> SUFFICES ASSUME PickInv, NEW S \in SUBSET {f \in Unmarked : ~IsExpired(meta[f], now)},
                      S # {}, Fit(S)
               PROVE  PickCandidate(meta, FileId, marked, now) # {}
    BY DEF NoneLeftBehind
  <2>1. S \in SUBSET files
    BY DEF Candidates, Uncompacted, Unmarked
  <2>2. PICK f \in S : TRUE
    OBVIOUS
  <2> DEFINE segment == FilesOfSegment(meta, files, SegmentOf(meta[f]))
  <2>3. S \in SUBSET segment
    BY <2>1 DEF Fit, FilesOfSegment
  <2>4. Sized(meta, FileId) /\ Dated(meta, FileId)
    BY FileMetas
  <2>5. segment \in SUBSET FileId
    BY DEF FilesOfSegment, Candidates, Uncompacted
  <2>6. Sized(meta, segment)
    <3> HIDE DEF segment
    <3> QED  BY <2>4, <2>5, FS_Subset DEF Sized
  <2>7. Within(meta, S) /\ Cardinality(S) >= InputMinNum
    BY PickerAssumption DEF Fit, Within
  <2>8. HasEnough(meta, segment)
    <3> HIDE DEF segment
    <3> QED  BY <2>3, <2>6, <2>7, FitHasEnough
  <2>9. f \in files
    BY <2>1, <2>2
  <2> HIDE DEF files
  <2> QED  BY <2>4, <2>8, <2>9, PicksIfReady DEF files
<1> QED  BY <1>1, PickInvariant, PTL

\* ... and of the files the task had to choose from, no larger set of its segment
\* is within the limits (take, take_while).
THEOREM NoChoiceTakesMore == Spec => []TakesAsManyAsFit
<1>1. PickInv => TakesAsManyAsFit
  <2> SUFFICES ASSUME PickInv,
                      NEW S \in SUBSET {f \in Unmarked \cup task.inputs : ~IsExpired(meta[f], now)},
                      task.inputs # {}, Fit(S),
                      {SegmentOf(meta[f]) : f \in S} = {SegmentOf(meta[f]) : f \in task.inputs}
               PROVE  Cardinality(S) <= Cardinality(task.inputs)
    BY DEF TakesAsManyAsFit
  <2>1. task # NoTask
    BY DEF NoTask
  <2>2. PICK mk : /\ task \in PickCandidate(meta, FileId, mk, now)
                  /\ marked = mk \cup task.inputs \cup task.expireds
    BY <2>1 DEF PickInv
  <2> DEFINE files == Candidates(meta, FileId, mk, now)
  <2>3. Sized(meta, FileId) /\ Dated(meta, FileId)
    BY FileMetas
  <2>4. PICK s : task.inputs \in Taken(meta, FilesOfSegment(meta, files, s))
    <3> HIDE DEF files
    <3> QED  BY <2>2, <2>3, PickedFromSegment DEF Sized, files
  <2> DEFINE segment == FilesOfSegment(meta, files, s)
  <2>5. task.inputs \in SUBSET segment
    BY <2>4, TakenMeans DEF SmallestFirst
  <2>6. S \in SUBSET files
    BY <2>2, <2>5 DEF Candidates, Uncompacted, Unmarked, FilesOfSegment
  <2>7. \A f \in S : SegmentOf(meta[f]) = s
    <3>1. \A f \in task.inputs : SegmentOf(meta[f]) = s
      BY <2>5 DEF FilesOfSegment
    <3> QED  BY <3>1
  <2>8. S \in SUBSET segment
    BY <2>6, <2>7 DEF FilesOfSegment
  <2>9. Sized(meta, segment)
    <3>1. segment \in SUBSET FileId
      BY DEF FilesOfSegment, Candidates, Uncompacted
    <3> HIDE DEF segment
    <3> QED  BY <2>3, <3>1, FS_Subset DEF Sized
  <2>10. Within(meta, S)
    BY PickerAssumption DEF Fit, Within
  <2> HIDE DEF segment
  <2> QED  BY <2>4, <2>8, <2>9, <2>10, TakenIsLargest DEF segment
<1> QED  BY <1>1, PickInvariant, PTL
=============================================================================
