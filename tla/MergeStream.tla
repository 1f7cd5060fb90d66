---------------------------- MODULE MergeStream -----------------------------
(***************************************************************************)
(* MergeStream and MergeExec (src/storage/src/read.rs) with the merge      *)
(* operators (operator.rs): the rows of a segment, sorted by key and       *)
(* sequence, projected on the columns asked for, arrive in batches cut     *)
(* anywhere; the rows of one key are merged into one, and the builtin      *)
(* columns are removed.  The last key of a batch is kept back, for the     *)
(* next batch may continue it.                                             *)
(***************************************************************************)
EXTENDS StorageSchema

CONSTANTS
    Keys,      \* key values, tuples of the key columns
    Seqs,
    Values,    \* what a value column may hold: sequences of bytes
    Requests,  \* projections of scans, sequences of none or one
    MaxRows    \* bound: rows of the stream

VARIABLES
    mode,          \* UpdateMode of the table
    keep_builtin,  \* TRUE in a compaction
    columns,       \* the columns of stream.schema()
    input,         \* all rows of the stream, with all columns
    arrived,       \* how many of them have arrived
    pending,       \* pending_batch; empty for None
    output,        \* the rows returned so far
    state          \* "open", then "ended", "failed", "panicked", or "broken" input

plan == <<mode, keep_builtin, columns, input>>
vars == <<plan, arrived, pending, output, state>>

Modes == {"Overwrite", "Append"}

\* ParquetExec reads every column when there is no projection.
Columns(projection) ==
    IF projection = <<>> THEN ArrowSchema ELSE FillRequiredProjections(projection)[1]

\* The sort expressions and the merge operators name places in the full schema.
\* Only projections that leave keys, values and sequence in those places are
\* modelled.
ASSUME RequestsInPlace ==
    \A p \in Requests : LET c == Columns(p) IN
        /\ Len(c) >= SeqIdx /\ c[SeqIdx] = SeqIdx
        /\ \A i \in 1..NumPrimaryKeys : c[i] = i
        /\ \A i \in ValueIdxes : c[i] \in ValueIdxes

Row == {FillBuiltinColumns(k \o v, seq) : k \in Keys, v \in [1..NumValues -> Values], seq \in Seqs}

\* The order of keys, by the first column in which they differ.
KeyBefore(r, s) ==
    \E i \in 1..NumPrimaryKeys : r[i] < s[i] /\ \A j \in 1..(i - 1) : r[j] = s[j]
SameKey(r, s) == \A i \in 1..NumPrimaryKeys : r[i] = s[i]

\* build_sort_exprs: keys, then sequence; rows equal in both come in any order.
NotAfter(r, s) == KeyBefore(r, s) \/ (SameKey(r, s) /\ r[SeqIdx] <= s[SeqIdx])

\* A scan removes the builtin columns; a compaction reads and keeps all.
Init ==
    /\ mode \in Modes
    /\ \/ keep_builtin = TRUE /\ columns = ArrowSchema
       \/ keep_builtin = FALSE /\ columns \in {Columns(p) : p \in Requests}
    /\ input \in {rows \in BoundedSeq(Row, MaxRows) : IsSorted(rows, NotAfter)}
    /\ arrived = 0 /\ pending = <<>> /\ output = <<>> /\ state = "open"

\* The schema that the stream reports: builtin columns removed by name.
ReportedSchema ==
    IF keep_builtin THEN columns ELSE SelectSeq(columns, LAMBDA c : ~IsBuiltinField(c))

Project(row, cols) == [i \in DOMAIN cols |-> row[cols[i]]]

MaybeRemoveBuiltinColumns(row) ==
    IF keep_builtin THEN row ELSE SubSeq(row, 1, Len(row) - BuiltinColumnNum)

\* Keys are compared by their places in the batch.  Their columns are of the types
\* the code compares.
PrimaryKeyEq(r, s) == \A k \in 1..NumPrimaryKeys : r[k] = s[k]
-----------------------------------------------------------------------------
LastValue(rows) == rows[Len(rows)]

Bytes(rows, i) == FlattenSeq([k \in DOMAIN rows |-> rows[k][i]])

\* The columns that are not values come from the first row.
BytesMerge(rows) ==
    [i \in DOMAIN rows[1] |-> IF i \in ValueIdxes THEN Bytes(rows, i) ELSE rows[1][i]]

MergeOperator(rows) == IF mode = "Overwrite" THEN LastValue(rows) ELSE BytesMerge(rows)

\* A value column without a byte keeps all its rows, and columns of different
\* lengths do not make a batch.
MergeFails(rows) ==
    mode = "Append" /\ Len(rows) > 1 /\ \E i \in ValueIdxes : Bytes(rows, i) = <<>>

\* A place of a value that the batch does not have.
MergePanics(rows) == mode = "Append" /\ \E i \in ValueIdxes : i \notin DOMAIN rows[1]
-----------------------------------------------------------------------------
\* Runs of rows with equal keys.
GroupByPk(rows) ==
    LET starts == SetToSortSeq({i \in DOMAIN rows : i = 1 \/ ~PrimaryKeyEq(rows[i - 1], rows[i])}, <)
        ends == [k \in DOMAIN starts |-> IF k = Len(starts) THEN Len(rows) ELSE starts[k + 1] - 1]
    IN  [k \in DOMAIN starts |-> SubSeq(rows, starts[k], ends[k])]

\* (Mutant: what is kept back is never continued.)
NeverContinues(rows) == FALSE

Continues(rows) == pending # <<>> /\ PrimaryKeyEq(Last(pending), Head(rows))

\* The groups that are complete with this batch, and the one that is kept.
Groups(batch) ==
    IF Continues(batch) \/ pending = <<>>
    THEN GroupByPk(pending \o batch)
    ELSE <<pending>> \o GroupByPk(batch)

\* Complete groups are merged, then the builtin columns are removed.
MergeBatch(n) ==
    /\ state = "open" /\ n \in 1..(Len(input) - arrived)
    /\ arrived' = arrived + n
    /\ LET batch == [i \in 1..n |-> Project(input[arrived + i], columns)]
           groups == Groups(batch)
           complete == Front(groups)
           fails == \E k \in DOMAIN complete : MergeFails(complete[k])
       IN  \/ fails /\ state' = "failed" /\ UNCHANGED <<pending, output>>
           \/ /\ ~fails
              /\ output' = output \o [k \in DOMAIN complete |->
                                         MaybeRemoveBuiltinColumns(MergeOperator(complete[k]))]
              /\ pending' = Last(groups)
              /\ UNCHANGED state
    /\ UNCHANGED plan

\* The stream ends: what was kept back loses its builtin columns, is merged and
\* returned.
PollEnd ==
    /\ state = "open" /\ arrived = Len(input)
    /\ LET last == [k \in DOMAIN pending |-> MaybeRemoveBuiltinColumns(pending[k])]
       IN  \/ pending = <<>> /\ state' = "ended" /\ UNCHANGED output
           \/ /\ pending # <<>> /\ (MergePanics(last) \/ MergeFails(last))
              /\ state' = IF MergePanics(last) THEN "panicked" ELSE "failed"
              /\ UNCHANGED output
           \/ /\ pending # <<>> /\ ~MergePanics(last) /\ ~MergeFails(last)
              /\ state' = "ended" /\ output' = Append(output, MergeOperator(last))
    /\ pending' = <<>>
    /\ UNCHANGED <<plan, arrived>>

\* The input stream returns an error, which is passed on.
InputFails ==
    /\ state = "open"
    /\ state' = "broken"
    /\ UNCHANGED <<plan, arrived, pending, output>>

Next == PollEnd \/ InputFails \/ \E n \in 1..MaxRows : MergeBatch(n)

Spec == Init /\ [][Next]_vars
-----------------------------------------------------------------------------
\* What merging is meant to be: the rows of each key, from the whole stream,
\* merged, in the order of the keys.
Merged(rows) ==
    LET firsts == SetToSortSeq({i \in DOMAIN rows : \A j \in 1..(i - 1) : ~SameKey(rows[j], rows[i])}, <)
    IN  [k \in DOMAIN firsts |->
            MergeOperator(SelectSeq(rows, LAMBDA r : SameKey(r, rows[firsts[k]])))]
Expected ==
    LET merged == Merged(input)
    IN  [k \in DOMAIN merged |-> Project(merged[k], ReportedSchema)]

\* However the rows are cut into batches, what has been returned is a prefix of
\* the rows merged by key, in the columns that the stream reports; no key is
\* returned before all of its rows have arrived, and at the end everything has
\* been returned (merge_batch, poll_next).  This is for requests that read the
\* builtin columns, kept or removed, and leave the others in their places.
OutputIsMerge ==
    LET expected == Expected
    IN  /\ IsPrefix(output, expected)
        /\ state = "ended" => output = expected

\* A batch has the columns of the schema the stream reports: removing the last
\* two columns removes the builtin ones and nothing else, "builtin columns are
\* always at the end" (maybe_remove_builtin_columns).
OnlyBuiltinRemoved ==
    \A i \in DOMAIN output : Len(output[i]) = Len(ReportedSchema)
=============================================================================
