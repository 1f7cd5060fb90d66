-------------------------------- MODULE Scan --------------------------------
(***************************************************************************)
(* Reading a table while it is written and compacted: the scan of          *)
(* CloudObjectStorage (src/storage/src/storage.rs) over the plans that     *)
(* ParquetReader::build_df_plan makes (src/storage/src/read.rs), and the   *)
(* deletion of the objects a compaction has replaced.                      *)
(*                                                                         *)
(* A row is [pk, seq, val]: its key, the id of the write it came from, and *)
(* its value, a sequence of bytes.  The key includes the time of the row;  *)
(* here it is the time.  A file is [id, start, end, rows]: the time range  *)
(* it was written with and its rows, sorted.  The table is the manifest's  *)
(* list of files, in its order.  Merging is what module MergeStream shows  *)
(* the stream to compute.                                                  *)
(***************************************************************************)
EXTENDS Integers, Sequences, FiniteSets, FiniteSetsExt

CONSTANTS
    Keys,
    Batches,      \* the batches of writes: sets of keys
    SegmentDuration,
    ScanRanges,   \* the time ranges of scans, <<start, end>>
    Predicates,   \* the predicates of scans, [keys, bytes]
    ExpireTimes,  \* the values of the clock less the ttl when files are picked
    MaxWrites,    \* bound: writes
    MaxCompacts   \* bound: compactions

VARIABLES
    mode,         \* the table's update mode
    ssts,         \* Manifest.ssts
    used,         \* ids of the files written, the sequences of their rows
    compacts,
    expire_time,  \* the latest expire time that files were picked with
    to_deletes,   \* ids of replaced files whose objects are still to be deleted
    gone,         \* ids of deleted objects
    scanned,      \* history: the manifest's list when the scan began
    range,        \* the scan's time range
    predicate,
    parts,        \* the scan's plans, [files, state], one for each group of files
    output,       \* what the scan has returned
    failed        \* the scan has returned an error

table == <<mode, ssts, used, compacts, expire_time, to_deletes, gone>>
scan == <<scanned, range, predicate, parts, output, failed>>
vars == <<table, scan>>

Modes == {"Overwrite", "Append"}

ASSUME ScanAssumption ==
    /\ Keys \subseteq Int
    /\ \A b \in Batches : b \subseteq Keys /\ b # {} /\ IsFiniteSet(b)
    /\ SegmentDuration \in Nat \ {0}
    /\ ScanRanges \subseteq Int \X Int
    /\ \A p \in Predicates : p.keys \subseteq Keys /\ p.bytes \subseteq Nat
    /\ ExpireTimes \subseteq Int
    /\ MaxWrites \in Nat /\ MaxCompacts \in Nat

NoRange == <<>>
NoPredicate == [keys |-> {}, bytes |-> {}]

Init ==
    /\ mode \in Modes /\ expire_time = Min(ExpireTimes)
    /\ ssts = <<>> /\ used = {} /\ compacts = 0 /\ to_deletes = {} /\ gone = {}
    /\ scanned = <<>> /\ range = NoRange /\ predicate = NoPredicate
    /\ parts = <<>> /\ output = <<>> /\ failed = FALSE
-----------------------------------------------------------------------------
\* The members of a finite set in a strict total order: before[x] has those that
\* come before x, and the i-th has i - 1 before it.
InOrder(before) ==
    LET ranks == {<<x, Cardinality(before[x])>> : x \in DOMAIN before}
    IN  [i \in 1..Cardinality(ranks) |-> (CHOOSE r \in ranks : r[2] = i - 1)[1]]

Ascending(S) == InOrder([x \in S |-> {y \in S : y < x}])

\* The elements of a sequence at some of its places.
At(s, places) == LET order == Ascending(places) IN [i \in DOMAIN order |-> s[order[i]]]

\* A sequence cut into runs of neighbours with the same key.
Runs(s, key) ==
    LET starts == Ascending({i \in DOMAIN s : i = 1 \/ key[i] # key[i - 1]})
        ends == [k \in DOMAIN starts |-> IF k = Len(starts) THEN Len(s) ELSE starts[k + 1] - 1]
    IN  [k \in DOMAIN starts |-> SubSeq(s, starts[k], ends[k])]

\* The order of the sort expressions: primary key, then sequence.
NotAfter(r, s) == r.pk < s.pk \/ (r.pk = s.pk /\ r.seq <= s.seq)

LastValue(rows) == rows[Len(rows)]

\* Sequences joined into one.
Joined(s) ==
    LET upTo[i \in 1..Len(s)] == IF i = 1 THEN s[i] ELSE upTo[i - 1] \o s[i]
    IN  IF Len(s) = 0 THEN <<>> ELSE upTo[Len(s)]

Bytes(rows) == Joined([i \in DOMAIN rows |-> rows[i].val])

\* The columns that are not values come from the first row.
BytesMerge(rows) == [pk |-> rows[1].pk, seq |-> rows[1].seq, val |-> Bytes(rows)]

Merge(rows) == IF mode = "Overwrite" THEN LastValue(rows) ELSE BytesMerge(rows)

\* Sorted rows, those of each key merged.
MergedByKey(rows) ==
    LET groups == Runs(rows, [i \in DOMAIN rows |-> rows[i].pk])
    IN  [k \in DOMAIN groups |-> Merge(groups[k])]

\* The segment of a file, by the start of its range; the division rounds
\* towards zero.
SegmentOf(f) ==
    IF f.start >= 0 THEN f.start \div SegmentDuration ELSE -((-f.start) \div SegmentDuration)

\* The rows of several files: the place of a row is its file and where it is in
\* that.
Places(files) == UNION {{i} \X DOMAIN files[i].rows : i \in DOMAIN files}
RowAt(files, p) == files[p[1]].rows[p[2]]

\* By key and sequence, rows that are equal in both by their places
\* (SortPreservingMergeExec).
SortsBefore(files, p, q) ==
    LET r == RowAt(files, p) s == RowAt(files, q)
    IN  \/ ~NotAfter(s, r)
        \/ NotAfter(r, s) /\ (p[1] < q[1] \/ (p[1] = q[1] /\ p[2] < q[2]))

AllRows(files) ==
    LET places == Places(files)
        order == InOrder([p \in places |-> {q \in places : SortsBefore(files, q, p)}])
    IN  [k \in DOMAIN order |-> RowAt(files, order[k])]

\* The rows of a batch by key.  A batch has a key once.
SortBatch(keys) == Ascending(keys)

\* Every row of a batch gets the file's id for its sequence.  The bytes of a
\* value are told apart by the write they are from.
FillBuiltinColumns(keys, seq) ==
    [i \in DOMAIN keys |-> [pk |-> keys[i], seq |-> seq, val |-> <<seq>>]]

\* write: one file, with the time range of its rows.  Writes that overlap reach
\* the manifest in any order of their ids.  Without enable_check the range may
\* cross segments; with it such a write is refused and changes nothing.
Write(seq) ==
    /\ seq \notin used /\ used' = used \cup {seq}
    /\ \E ks \in Batches :
          LET keys == SortBatch(ks)
          IN  ssts' = Append(ssts, [id |-> seq, start |-> keys[1], end |-> keys[Len(keys)] + 1,
                                    rows |-> FillBuiltinColumns(keys, seq)])
    /\ UNCHANGED <<mode, compacts, expire_time, to_deletes, gone, scan>>

\* do_compaction keeps the sequence column (keep_builtin).  (Mutant: the rows
\* get the sequence of the new file.)
Restamped(rows) == [i \in DOMAIN rows |-> [rows[i] EXCEPT !.seq = MaxWrites + 1]]

CompactedRows(rows) == rows

FilesAt(places) == At(ssts, places)

\* TimeRange::merge over the inputs.
Start(files) == Min({files[i].start : i \in DOMAIN files})
End(files) == Max({files[i].end : i \in DOMAIN files})

\* SstFile::is_expired.  (Mutant: a file has expired when its first row has.)
HasExpiredRow(f, expire) == f.start < expire

IsExpired(f, expire) == f.end < expire

\* do_compaction of files of one segment, and of files that had expired when it
\* was picked, unless other tasks have them.  The expired files are not read; an
\* input may have expired since it was picked.
\* The manifest drops both and has the output at the end of its list, in one
\* update; the objects of both are deleted after that.
Compact ==
    /\ compacts < MaxCompacts
    /\ compacts' = compacts + 1
    /\ expire_time' \in ExpireTimes /\ expire_time <= expire_time'
    /\ \E picked \in SUBSET DOMAIN ssts :
       \E expireds \in SUBSET {i \in DOMAIN ssts \ picked : IsExpired(ssts[i], expire_time')} :
          LET inputs == FilesAt(picked)
              dropped == picked \cup expireds
          IN  /\ Cardinality(picked) > 1
              /\ \A i, j \in picked : SegmentOf(ssts[i]) = SegmentOf(ssts[j])
              /\ ssts' = Append(FilesAt(DOMAIN ssts \ dropped),
                           [id |-> MaxWrites + compacts', start |-> Start(inputs), end |-> End(inputs),
                            rows |-> CompactedRows(MergedByKey(AllRows(inputs)))])
              /\ to_deletes' = to_deletes \cup {ssts[i].id : i \in dropped}
    /\ UNCHANGED <<mode, used, gone, scan>>

\* delete_ssts: the objects are deleted side by side.
DeleteSst(id) ==
    /\ id \in to_deletes
    /\ to_deletes' = to_deletes \ {id} /\ gone' = gone \cup {id}
    /\ UNCHANGED <<mode, ssts, used, compacts, expire_time, scan>>

\* TimeRange::overlaps.  (Mutant: only files inside the range are found.)
Within(f, r) == r[1] <= f.start /\ f.end <= r[2]

Overlaps(f, r) == f.start < r[2] /\ r[1] < f.end

\* Manifest::find_ssts.
FindSsts(r) == FilesAt({i \in DOMAIN ssts : Overlaps(ssts[i], r)})

\* group_by joins files of one segment only where they are neighbours in the
\* list; the groups are then ordered by segment, those of one segment as they
\* are in the list.
GroupBySegment(files) ==
    LET groups == Runs(files, [i \in DOMAIN files |-> SegmentOf(files[i])])
        segment == [k \in DOMAIN groups |-> SegmentOf(groups[k][1])]
        order == InOrder([k \in DOMAIN groups |->
                             {h \in DOMAIN groups : \/ segment[h] < segment[k]
                                                    \/ segment[h] = segment[k] /\ h < k}])
    IN  [k \in DOMAIN order |-> groups[order[k]]]

\* Whether a predicate lets a row through: one on the key and one on the first
\* byte of the value.
Satisfies(r) == r.pk \in predicate.keys /\ r.val[1] \in predicate.bytes

Satisfying(rows) == At(rows, {i \in DOMAIN rows : Satisfies(rows[i])})

\* build_df_plan: the files' rows are read, filtered, sorted and then merged.  A
\* filter keeps the order of what it lets through, so it may be after the sort.
\* (Mutant: it is after the merge.)
MergedThenFiltered(files) == Satisfying(MergedByKey(AllRows(files)))

PlanRows(files) == MergedByKey(Satisfying(AllRows(files)))

\* The scan copies the list and plans; nothing is read.  A scan of no file
\* returns an empty stream.
StartScan ==
    /\ range = NoRange
    /\ \E r \in ScanRanges :
          LET groups == GroupBySegment(FindSsts(r))
          IN  /\ range' = r
              /\ parts' = [k \in DOMAIN groups |-> [files |-> groups[k], state |-> "planned"]]
    /\ predicate' \in Predicates
    /\ scanned' = ssts
    /\ UNCHANGED <<table, output, failed>>

Missing(k) == \E i \in DOMAIN parts[k].files : parts[k].files[i].id \in gone

\* The plan of a group opens its objects when it is first polled.
CanOpen(k) == parts[k].state = "planned" /\ ~Missing(k)

\* UnionExec has one partition per plan; they run side by side.
OpenPart(k) ==
    /\ k \in DOMAIN parts /\ ~failed /\ CanOpen(k)
    /\ parts' = [parts EXCEPT ![k].state = "open"]
    /\ UNCHANGED <<table, scanned, range, predicate, output, failed>>

\* The rows are returned.  What an open plan has buffered may be enough to
\* finish it after an object is gone.
PollPart(k) ==
    /\ k \in DOMAIN parts /\ ~failed /\ parts[k].state = "open"
    /\ output' = output \o PlanRows(parts[k].files)
    /\ parts' = [parts EXCEPT ![k].state = "done"]
    /\ UNCHANGED <<table, scanned, range, predicate, failed>>

\* An object is not found: the scan ends with the error.
PartFails(k) ==
    /\ k \in DOMAIN parts /\ ~failed /\ parts[k].state # "done" /\ Missing(k)
    /\ failed' = TRUE
    /\ UNCHANGED <<table, scanned, range, predicate, parts, output>>

Next ==
    \/ \E seq \in 1..MaxWrites : Write(seq)
    \/ Compact \/ \E id \in to_deletes : DeleteSst(id)
    \/ StartScan
    \/ \E k \in 1..MaxWrites : OpenPart(k) \/ PollPart(k) \/ PartFails(k)

Spec == Init /\ [][Next]_vars
-----------------------------------------------------------------------------
ScanDone == range # NoRange /\ ~failed /\ \A k \in DOMAIN parts : parts[k].state = "done"

\* What a scan asks for, of the rows in its time range.
Asked(r) == Satisfies(r) /\ range[1] <= r.pk /\ r.pk < range[2]

\* What a reader sees of a table in Overwrite mode: of each key, the row with the
\* highest sequence.
RowSet(files) == UNION {Range(files[i].rows) : i \in DOMAIN files}
Newest(files) ==
    {r \in RowSet(files) : \A q \in RowSet(files) : q.pk = r.pk => q.seq <= r.seq}

\* Compaction is invisible: whichever files of a segment are compacted, in
\* whichever order, whatever overlapping writes add in between and whatever
\* expired files are dropped with them, no key of a table in Overwrite mode
\* changes its value before its time has expired (the merged rows keep their
\* sequences).  After that an older value of the key may come back, from a file
\* that has later rows, too.
Unexpired(rows) == {r \in rows : expire_time' <= r.pk}
CompactionInvisible ==
    [][mode = "Overwrite" /\ compacts' # compacts =>
        Unexpired(Newest(ssts')) = Unexpired(Newest(ssts))]_vars

\* The bytes of a key, each told apart by its write.  Their order is not part of
\* what follows.
BytesOf(rows, k) == Bytes(At(rows, {i \in DOMAIN rows : rows[i].pk = k}))
BytesIn(rows, k) ==
    LET bytes == BytesOf(rows, k) IN [number |-> Len(bytes), all |-> Range(bytes)]

\* Compaction loses and repeats no byte of a table in Append mode before its time
\* has expired.
CompactionKeepsBytes ==
    [][mode = "Append" /\ compacts' # compacts =>
        \A new \in {AllRows(ssts')}, old \in {AllRows(ssts)}, k \in Keys :
           expire_time' <= k => BytesIn(new, k) = BytesIn(old, k)]_vars

\* A scan in Overwrite mode that ends without an error misses nothing: it returns
\* the newest row of every key whose newest row it asks for, as of the moment it
\* began, although compactions replace its files and delete their objects while
\* it reads, files are chosen by their ranges, writes may cross segments, and
\* each group of files is filtered and merged by itself.  What it returns beside
\* that are rows of the table that satisfy its predicate.
ScanReturnsNewest ==
    mode = "Overwrite" /\ ScanDone =>
        /\ \A r \in Newest(scanned) : Asked(r) => r \in Range(output)
        /\ \A r \in Range(output) : r \in RowSet(scanned) /\ Satisfies(r)

\* A scan in Append mode that ends without an error returns every byte of the
\* rows it asks for once, in however many groups the files of a segment are
\* merged, whatever is deleted meanwhile, and no byte of another row.
ScanReturnsBytes ==
    mode = "Append" /\ ScanDone =>
        /\ LET rows == Satisfying(AllRows(scanned))
           IN  \A k \in Keys : range[1] <= k /\ k < range[2] => BytesIn(output, k) = BytesIn(rows, k)
        /\ \A r \in Range(output) : Satisfies(r)
=============================================================================
