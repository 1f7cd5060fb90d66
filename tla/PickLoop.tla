------------------------------ MODULE PickLoop ------------------------------
(***************************************************************************)
(* The picker called again and again on one list of files while nothing    *)
(* else happens, as the schedule loop does between two changes of the      *)
(* manifest: every pick marks what it takes.                               *)
(***************************************************************************)
EXTENDS Picker

CONSTANTS
    FileId,    \* the files of the table
    Ranges,    \* their time ranges, <<start, end>>
    Sizes,     \* their sizes
    Clock      \* the times at which the picker may run

ASSUME PickLoopAssumption ==
    /\ IsFiniteSet(FileId)
    /\ Ranges \subseteq Int \X Int /\ Sizes \subseteq Nat

VARIABLES meta, marked, now, task

vars == <<meta, marked, now, task>>

NoTask == [inputs |-> {}, expireds |-> {}]
Metas == {[start |-> r[1], end |-> r[2], size |-> n] : r \in Ranges, n \in Sizes}

Init ==
    /\ meta \in [FileId -> Metas]
    /\ marked = {} /\ task = NoTask
    /\ now \in Clock

Pick ==
    \E t \in PickCandidate(meta, FileId, marked, now) :
        /\ task' = t
        /\ marked' = marked \cup t.inputs \cup t.expireds
        /\ UNCHANGED <<meta, now>>

Spec == Init /\ [][Pick]_vars

Unmarked == FileId \ marked
Fit(S) ==
    /\ \A f, g \in S : SegmentOf(meta[f]) = SegmentOf(meta[g])
    /\ Cardinality(S) \in InputMinNum..InputMaxNum
    /\ InputSize(meta, S) <= MemoryLimit

\* The greedy choice of pick_compaction_files misses nothing: when the picker
\* returns None, no files of one segment that have not expired are within the
\* limits of number and size.
NoneLeftBehind ==
    PickCandidate(meta, FileId, marked, now) = {} =>
        \A S \in SUBSET {f \in Unmarked : ~IsExpired(meta[f], now)} : S # {} => ~Fit(S)

\* ... and it takes as many files as any choice within the limits could: of the
\* files the task had to choose from, no larger set of its segment fits.
TakesAsManyAsFit ==
    LET segment == {SegmentOf(meta[f]) : f \in task.inputs}
    IN  \A S \in SUBSET {f \in Unmarked \cup task.inputs : ~IsExpired(meta[f], now)} :
            task.inputs # {} /\ Fit(S) /\ {SegmentOf(meta[f]) : f \in S} = segment
                => Cardinality(S) <= Cardinality(task.inputs)

\* A file whose last row is older than the time to live counts as expired: the
\* clock and the time to live are compared in one unit (now(): "Current time
\* in milliseconds.").
ExpiresAfterTtl ==
    \A f \in FileId : Ttl # NoTtl /\ meta[f].end < now - Ttl => IsExpired(meta[f], now)
=============================================================================
