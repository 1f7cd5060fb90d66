------------------------------- MODULE Picker -------------------------------
(***************************************************************************)
(* Which files one compaction takes (src/storage/src/compaction/picker.rs):*)
(* all files past their time to live, and the smallest files of the newest *)
(* segment that has enough of them.                                        *)
(*                                                                         *)
(* A file is an id; meta[f] is its FileMeta.  sort_unstable_by_key leaves  *)
(* files of one size in any order, so an operator that depends on that     *)
(* order gives the set of results the code may return.                     *)
(***************************************************************************)
EXTENDS Integers, FiniteSets, FiniteSetsExt

CONSTANTS
    SegmentDuration,   \* in milliseconds
    NewSstMaxSize,     \* SchedulerConfig.new_sst_max_size
    InputMaxNum,       \* SchedulerConfig.input_sst_max_num
    InputMinNum,       \* SchedulerConfig.input_sst_min_num
    Ttl                \* SchedulerConfig.ttl in milliseconds, or NoTtl

NoTtl == -1

ASSUME PickerAssumption ==
    /\ SegmentDuration \in Nat \ {0}
    /\ NewSstMaxSize \in Nat /\ InputMaxNum \in Nat /\ InputMinNum \in Nat
    /\ Ttl \in Nat \cup {NoTtl}

\* Timestamp::truncate_by; division rounds towards zero.
TruncateBy(ts) ==
    IF ts >= 0 THEN (ts \div SegmentDuration) * SegmentDuration
    ELSE -(((-ts) \div SegmentDuration) * SegmentDuration)

\* Task::input_size.
InputSize(meta, files) == MapThenSumSet(LAMBDA f : meta[f].size, files)

\* now() counts milliseconds, and the time to live is subtracted in
\* microseconds (Picker::pick_candidate).
ExpireTime(now) == now - Ttl * 1000

\* SstFile::is_expired.
IsExpired(m, now) == Ttl # NoTtl /\ m.end < ExpireTime(now)

\* files_by_segment.
SegmentOf(m) == TruncateBy(m.start)

FilesOfSegment(meta, files, segment) == {f \in files : SegmentOf(meta[f]) = segment}

\* What compacting is supposed to gain, a tenth, is allowed on top.
MemoryLimit == (NewSstMaxSize * 11) \div 10

\* What an order by size may begin with.  (Mutant: the largest first.)
LargestFirst(meta, files) ==
    {S \in SUBSET files : \A f \in S, g \in files \ S : meta[f].size >= meta[g].size}

SmallestFirst(meta, files) ==
    {S \in SUBSET files : \A f \in S, g \in files \ S : meta[f].size <= meta[g].size}

\* take(input_sst_max_num), then take_while the sum is within the limit.
Taken(meta, files) ==
    {S \in SmallestFirst(meta, files) :
        /\ Cardinality(S) <= InputMaxNum
        /\ LET size == InputSize(meta, S)
           IN  /\ size <= MemoryLimit
               /\ \/ Cardinality(S) = InputMaxNum
                  \/ \A f \in files \ S : size + meta[f].size > MemoryLimit}

\* The segment's files are enough, and those that are taken are still enough.
HasEnough(meta, files) ==
    /\ Cardinality(files) >= InputMinNum
    /\ \A S \in Taken(meta, files) : Cardinality(S) >= InputMinNum

\* The newest segment that has enough; no result is the code's None.
PickCompactionFiles(meta, files) ==
    LET ready == {s \in {SegmentOf(meta[f]) : f \in files} :
                     HasEnough(meta, FilesOfSegment(meta, files, s))}
    IN  IF ready = {} THEN {} ELSE Taken(meta, FilesOfSegment(meta, files, Max(ready)))

\* find_uncompacted_and_expired_files.  (Mutant: marked files are not skipped.)
SkipNothing(ssts, marked) == ssts

Uncompacted(ssts, marked) == ssts \ marked

\* TimeWindowCompactionStrategy::pick_candidate: the tasks it may return.
PickCandidate(meta, ssts, marked, now) ==
    LET free == Uncompacted(ssts, marked)
        expired == {f \in free : IsExpired(meta[f], now)}
    IN  {[inputs |-> S, expireds |-> expired] :
            S \in {S \in PickCompactionFiles(meta, free \ expired) : S # {} \/ expired # {}}}
=============================================================================
