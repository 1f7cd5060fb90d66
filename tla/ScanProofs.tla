---------------------------- MODULE ScanProofs -----------------------------
(***************************************************************************)
(* Theorems about module Scan, for any keys, batches, segment duration,    *)
(* time ranges and predicates and any number of writes and compactions: a  *)
(* compaction changes no row a reader would get before the row expires,    *)
(* and a scan returns what the table held when it began.                   *)
(*                                                                         *)
(* The inductive invariant relates the table to the writes (TableOk), and  *)
(* the scan to the files it planned over (ScanOk): its plans have every    *)
(* row of the range, share none, and its output is what the finished ones  *)
(* return.                                                                 *)
(***************************************************************************)
EXTENDS ScanRowsProofs

\* Most steps are first-order: Zenon is tried first, then SMT, then Zenon for longer.
USE ZenonT(3), SMTT(30), ZenonT(30)
-----------------------------------------------------------------------------
\* The plans of a scan share no row, and have every row that may be asked for.
PartsOk ==
    /\ parts \in Seq([files : Seq(File), state : {"planned", "open", "done"}])
    /\ \A k \in DOMAIN parts : FilesOk(mode, parts[k].files) /\ RowSet(parts[k].files) \subseteq RowSet(scanned)
    /\ range # NoRange =>
          \A r \in RowSet(scanned) :
             range[1] <= r.pk /\ r.pk < range[2] => \E k \in DOMAIN parts : r \in RowSet(parts[k].files)
    /\ mode = "Append" =>
          \A k, l \in DOMAIN parts : k # l => RowsApart(RowSet(parts[k].files), RowSet(parts[l].files))

\* The scan has returned the rows of the plans that are done.
OutputOk ==
    /\ output \in Seq(Row)
    /\ \A r : r \in Range(output) <=>
          \E k \in DOMAIN parts : parts[k].state = "done" /\ r \in Range(PlanRows(parts[k].files))
    /\ mode = "Append" => Apart(output)

\* The inductive invariant.  Every byte of the table is of a write that is done.
TableOk ==
    /\ mode \in Modes /\ compacts \in Nat /\ used \subseteq Int
    /\ FilesOk(mode, ssts) /\ \A r \in RowSet(ssts) : Range(r.val) \subseteq used
ScanOk ==
    /\ FilesOk(mode, scanned)
    /\ range \in {NoRange} \cup Int \X Int /\ (range = NoRange => parts = <<>>)
    /\ PartsOk /\ OutputOk
ScanInv == TableOk /\ ScanOk
-----------------------------------------------------------------------------
\* An empty table.
LEMMA EmptyFiles ==
    ASSUME NEW m
    PROVE  FilesOk(m, <<>>) /\ RowSet(<<>>) = {} /\ Range(<<>>) = {} /\ DOMAIN <<>> = {}
<1>1. <<>> \in Seq(File) /\ Len(<<>>) = 0 /\ DOMAIN <<>> = 1..Len(<<>>)
  BY EmptySeq, LenProperties
<1>2. DOMAIN <<>> = {}
  BY <1>1
<1>3. RowSet(<<>>) = {} /\ Range(<<>>) = {}
  BY <1>2 DEF RowSet, Range
<1> QED  BY <1>1, <1>2, <1>3 DEF FilesOk, ApartFiles

\* The invariant holds at first.
LEMMA ScanInit ==
    Init => ScanInv
<1> SUFFICES ASSUME Init  PROVE ScanInv
  OBVIOUS
<1>1. /\ ssts = <<>> /\ scanned = <<>> /\ parts = <<>> /\ output = <<>> /\ used = {} /\ compacts = 0
      /\ mode \in Modes /\ range = NoRange
  BY DEF Init
<1>2. FilesOk(mode, <<>>) /\ RowSet(<<>>) = {} /\ Range(<<>>) = {} /\ DOMAIN <<>> = {}
  BY EmptyFiles
<1>3. TableOk
  BY <1>1, <1>2 DEF TableOk
<1>4. PartsOk
  <2>1. <<>> \in Seq([files : Seq(File), state : {"planned", "open", "done"}])
    BY EmptySeq
  <2> QED  BY <1>1, <1>2, <2>1 DEF PartsOk
<1>5. OutputOk
  <2>1. <<>> \in Seq(Row)
    BY EmptySeq
  <2> QED  BY <1>1, <1>2, <2>1 DEF OutputOk, Apart
<1>6. ScanOk
  BY <1>1, <1>2, <1>4, <1>5 DEF ScanOk
<1> QED  BY <1>3, <1>6 DEF ScanInv

\* The rows of a plan depend on its files, the mode and the predicate.
LEMMA PlanFrame ==
    ASSUME mode' = mode, predicate' = predicate, NEW files
    PROVE  PlanRows(files)' = PlanRows(files)
BY DEF PlanRows, MergedByKey, Satisfying, Satisfies, Merge

\* What a step that changes nothing of the scan leaves of it.
LEMMA ScanFrame ==
    ASSUME ScanOk, mode' = mode, scanned' = scanned, range' = range, predicate' = predicate,
           parts' = parts, output' = output
    PROVE  ScanOk'
<1>1. FilesOk(mode, scanned)' /\ range' \in {NoRange} \cup Int \X Int /\ (range' = NoRange => parts' = <<>>)
  BY DEF ScanOk
<1>2. PartsOk'
  BY DEF ScanOk, PartsOk
<1>3. OutputOk'
  <2>1. \A files : PlanRows(files)' = PlanRows(files)
    BY PlanFrame
  <2> QED  BY <2>1 DEF ScanOk, OutputOk
<1> QED  BY <1>1, <1>2, <1>3 DEF ScanOk

\* The file that a write makes of a batch.
LEMMA WrittenFile ==
    ASSUME NEW ks \in Batches, NEW seq \in Int
    PROVE  LET keys == SortBatch(ks)
               rows == FillBuiltinColumns(keys, seq)
               file == [id |-> seq, start |-> keys[1], end |-> keys[Len(keys)] + 1, rows |-> rows]
           IN  /\ file \in File /\ Apart(file.rows)
               /\ \A r \in Range(file.rows) :
                     /\ file.start <= r.pk /\ r.pk < file.end
                     /\ r.seq = seq /\ r.val = <<seq>> /\ Range(r.val) = {seq}
<1> DEFINE keys == SortBatch(ks)
           n == Cardinality(ks)
           rows == FillBuiltinColumns(keys, seq)
           file == [id |-> seq, start |-> keys[1], end |-> keys[Len(keys)] + 1, rows |-> rows]
<1>1. IsFiniteSet(ks) /\ ks \subseteq Int /\ ks # {}
  BY ScanAssumption
<1>2. /\ n \in Nat /\ keys \in [1..n -> ks]
      /\ \A x \in ks : \E i \in 1..n : keys[i] = x
      /\ \A i, j \in 1..n : i < j => keys[i] < keys[j]
  BY <1>1, AscendingOrder DEF SortBatch
<1> HIDE DEF keys, n
<1>3. 1 \in 1..n /\ n \in 1..n
  <2>1. PICK i \in 1..n : TRUE
    BY <1>1, <1>2
  <2> QED  BY <1>2, <2>1
<1>4. \A i \in 1..n : keys[i] \in Int
  BY <1>1, <1>2
<1>5. DOMAIN keys = 1..n /\ Len(keys) = n
  BY <1>2, FunctionIsSeq
<1>6. keys[Len(keys)] = keys[n]
  BY <1>5
<1>7. \A i \in 1..n : keys[1] <= keys[i] /\ keys[i] < keys[Len(keys)] + 1
  <2> SUFFICES ASSUME NEW i \in 1..n  PROVE keys[1] <= keys[i] /\ keys[i] < keys[Len(keys)] + 1
    OBVIOUS
  <2>1. keys[1] \in Int /\ keys[i] \in Int /\ keys[n] \in Int
    BY <1>3, <1>4
  <2>2. (1 < i => keys[1] < keys[i]) /\ (i < n => keys[i] < keys[n])
    BY <1>2, <1>3
  <2>3. (i = 1 \/ 1 < i) /\ (i = n \/ i < n)
    BY <1>2
  <2> QED  BY <1>6, <2>1, <2>2, <2>3
<1>8. DOMAIN rows = 1..n /\ \A i \in 1..n : rows[i] = [pk |-> keys[i], seq |-> seq, val |-> <<seq>>]
  BY <1>5 DEF FillBuiltinColumns
<1>9. rows \in [1..n -> Row]
  <2>1. <<seq>> \in Seq(Int)
    OBVIOUS
  <2>2. ASSUME NEW i \in 1..n  PROVE rows[i] \in Row
    <3> DEFINE k == keys[i]
               v == <<seq>>
    <3>1. k \in Int /\ v \in Seq(Int) /\ rows[i] = [pk |-> k, seq |-> seq, val |-> v]
      BY <1>4, <1>8, <2>1
    <3> HIDE DEF k, v, rows
    <3> QED  BY <3>1 DEF Row
  <2>3. rows = [i \in 1..n |-> rows[i]]
    BY <1>5 DEF FillBuiltinColumns
  <2> HIDE DEF rows
  <2> QED  BY <2>2, <2>3
<1>10. rows \in Seq(Row)
  BY <1>2, <1>9, FunctionIsSeq
<1>11. DOMAIN <<seq>> = {1} /\ <<seq>>[1] = seq
  <2>1. Len(<<seq>>) = 1 /\ DOMAIN <<seq>> = 1..1
    OBVIOUS
  <2> QED  BY <2>1
<1>12. IsInjective(<<seq>>) /\ Range(<<seq>>) = {seq}
  BY <1>11 DEF IsInjective, Range
<1> HIDE DEF rows
<1>13. \A i \in 1..n : rows[i].pk = keys[i] /\ rows[i].seq = seq /\ rows[i].val = <<seq>>
  BY <1>8
<1>14. Apart(rows)
  <2>1. \A i, j \in 1..n : i # j => keys[i] # keys[j]
    <3> SUFFICES ASSUME NEW i \in 1..n, NEW j \in 1..n, i < j  PROVE keys[i] # keys[j]
      OBVIOUS
    <3> QED  BY <1>2, <1>4
  <2> QED  BY <1>8, <1>12, <1>13, <2>1 DEF Apart, RowsApart
<1>15. /\ file.start = keys[1] /\ file.end = keys[Len(keys)] + 1 /\ file.rows = rows
  OBVIOUS
<1>16. file \in File
  <2>1. keys[1] \in Int /\ keys[Len(keys)] + 1 \in Int
    BY <1>3, <1>4, <1>6
  <2> QED  BY <1>10, <2>1 DEF File
<1>17. ASSUME NEW r \in Range(file.rows)
       PROVE  /\ file.start <= r.pk /\ r.pk < file.end
              /\ r.seq = seq /\ r.val = <<seq>> /\ Range(r.val) = {seq}
  <2> HIDE DEF file
  <2>1. PICK i \in 1..n : r = rows[i]
    BY <1>8, <1>15 DEF Range
  <2> QED  BY <1>7, <1>12, <1>13, <1>15, <2>1
<1> HIDE DEF file
<1>18. LET f == file
       IN  /\ f \in File /\ Apart(f.rows)
           /\ \A r \in Range(f.rows) :
                 /\ f.start <= r.pk /\ r.pk < f.end
                 /\ r.seq = seq /\ r.val = <<seq>> /\ Range(r.val) = {seq}
  BY <1>14, <1>15, <1>16, <1>17
<1> QED  BY <1>18 DEF file, rows, keys

\* A write keeps the invariant.
LEMMA WriteKeeps ==
    ASSUME ScanInv, NEW seq \in 1..MaxWrites, Write(seq)
    PROVE  ScanInv'
<1> USE DEF ScanInv
<1>1. PICK ks \in Batches :
         LET keys == SortBatch(ks)
         IN  ssts' = Append(ssts, [id |-> seq, start |-> keys[1], end |-> keys[Len(keys)] + 1,
                                   rows |-> FillBuiltinColumns(keys, seq)])
  BY DEF Write
<1> DEFINE keys == SortBatch(ks)
           file == [id |-> seq, start |-> keys[1], end |-> keys[Len(keys)] + 1,
                    rows |-> FillBuiltinColumns(keys, seq)]
<1>2. ssts' = Append(ssts, file)
  BY <1>1
<1>3. seq \in Int /\ seq \notin used /\ used' = used \cup {seq} /\ mode' = mode /\ compacts' = compacts
  BY DEF Write
<1>4. /\ file \in File /\ Apart(file.rows)
      /\ \A r \in Range(file.rows) :
            /\ file.start <= r.pk /\ r.pk < file.end
            /\ r.seq = seq /\ r.val = <<seq>> /\ Range(r.val) = {seq}
  BY <1>3, WrittenFile
<1> HIDE DEF file
<1>5. FilesOk(mode, ssts) /\ \A r \in RowSet(ssts) : Range(r.val) \subseteq used
  BY DEF TableOk
<1>6. RowsApart(RowSet(ssts), Range(file.rows))
  BY <1>3, <1>4, <1>5 DEF RowsApart
<1>7. \A r \in Range(file.rows) : file.start <= r.pk /\ r.pk < file.end /\ r.val # <<>> /\ r.val = <<r.seq>>
  <2>1. <<seq>> # <<>>
    OBVIOUS
  <2> QED  BY <1>4, <2>1
<1>8. FilesOk(mode, Append(ssts, file)) /\ RowSet(Append(ssts, file)) = RowSet(ssts) \cup Range(file.rows)
  BY <1>4, <1>5, <1>6, <1>7, AddedFile
<1>9. TableOk'
  <2>1. \A r \in RowSet(ssts') : Range(r.val) \subseteq used'
    BY <1>2, <1>3, <1>4, <1>5, <1>8
  <2>2. used' \subseteq Int /\ mode' \in Modes /\ compacts' \in Nat
    BY <1>3 DEF TableOk
  <2> QED  BY <1>2, <1>3, <1>8, <2>1, <2>2 DEF TableOk
<1>10. ScanOk'
  BY <1>3, ScanFrame DEF Write, scan
<1> QED  BY <1>9, <1>10

\* TimeRange::merge covers the ranges it merges.
LEMMA MergedRange ==
    ASSUME NEW files \in Seq(File), files # <<>>
    PROVE  /\ Start(files) \in Int /\ End(files) \in Int
           /\ \A i \in DOMAIN files : Start(files) <= files[i].start /\ files[i].end <= End(files)
<1> DEFINE starts == {files[i].start : i \in DOMAIN files}
           ends == {files[i].end : i \in DOMAIN files}
<1>1. Len(files) \in Nat /\ Len(files) # 0 /\ DOMAIN files = 1..Len(files)
  BY EmptySeq, LenProperties
<1>2. 1 \in DOMAIN files /\ IsFiniteSet(DOMAIN files)
  BY <1>1, FS_Interval
<1>3. \A i \in DOMAIN files : files[i].start \in Int /\ files[i].end \in Int
  BY RowsOfFiles DEF File
<1>4. IsFiniteSet(starts) /\ starts \subseteq Int /\ starts # {}
  <2> DEFINE f == [i \in DOMAIN files |-> files[i].start]
  <2>1. f \in Surjection(DOMAIN files, starts)
    BY DEF Surjection
  <2> QED  BY <1>2, <1>3, <2>1, FS_Surjection
<1>5. IsFiniteSet(ends) /\ ends \subseteq Int /\ ends # {}
  <2> DEFINE f == [i \in DOMAIN files |-> files[i].end]
  <2>1. f \in Surjection(DOMAIN files, ends)
    BY DEF Surjection
  <2> QED  BY <1>2, <1>3, <2>1, FS_Surjection
<1>6. Start(files) = Min(starts) /\ End(files) = Max(ends)
  BY DEF Start, End
<1>7. \A i \in DOMAIN files : files[i].start \in starts /\ files[i].end \in ends
  OBVIOUS
<1> HIDE DEF starts, ends
<1>8. Min(starts) \in starts /\ \A x \in starts : Min(starts) <= x
  <2>1. \E x \in starts : \A y \in starts : x <= y
    BY <1>4, LeastAndGreatest
  <2> QED  BY <2>1 DEF Min
<1>9. Max(ends) \in ends /\ \A x \in ends : x <= Max(ends)
  <2>1. \E x \in ends : \A y \in ends : y <= x
    BY <1>5, LeastAndGreatest
  <2>2. \E x \in ends : \A y \in ends : x >= y
    BY <1>5, <2>1
  <2>3. Max(ends) \in ends /\ \A y \in ends : Max(ends) >= y
    BY <2>2 DEF Max
  <2> QED  BY <1>5, <2>3
<1> QED  BY <1>4, <1>5, <1>6, <1>7, <1>8, <1>9

\* What a compaction does to the rows of the table: those of its inputs are replaced
\* by what they are merged to, and rows that have expired are dropped.
Replaces(rest, inputs, expired, merged) ==
    /\ RowSet(ssts) = inputs \cup rest \cup expired /\ RowSet(ssts') = rest \cup merged
    /\ \A r \in expired : r.pk \in Int /\ r.pk < expire_time'
    /\ expire_time' \in Int
    /\ mode = "Overwrite" =>
          /\ merged \subseteq inputs
          /\ \A r \in inputs : \E q \in merged : q.pk = r.pk /\ r.seq <= q.seq
    /\ mode = "Append" => \A k : BytesAt(merged, k) = BytesAt(inputs, k)

\* Compact does that.
LEMMA Compacted ==
    ASSUME TableOk, Compact
    PROVE  /\ FilesOk(mode, ssts')
           /\ \E rest, inputs, expired, merged : Replaces(rest, inputs, expired, merged)
<1>1. PICK picked \in SUBSET DOMAIN ssts :
      \E expireds \in SUBSET {i \in DOMAIN ssts \ picked : IsExpired(ssts[i], expire_time')} :
         LET inputs == FilesAt(picked)
         IN  /\ Cardinality(picked) > 1
             /\ ssts' = Append(FilesAt(DOMAIN ssts \ (picked \cup expireds)),
                          [id |-> MaxWrites + compacts', start |-> Start(inputs), end |-> End(inputs),
                           rows |-> CompactedRows(MergedByKey(AllRows(inputs)))])
  BY DEF Compact
<1>2. PICK expireds \in SUBSET {i \in DOMAIN ssts \ picked : IsExpired(ssts[i], expire_time')} :
         LET inputs == FilesAt(picked)
         IN  /\ Cardinality(picked) > 1
             /\ ssts' = Append(FilesAt(DOMAIN ssts \ (picked \cup expireds)),
                          [id |-> MaxWrites + compacts', start |-> Start(inputs), end |-> End(inputs),
                           rows |-> CompactedRows(MergedByKey(AllRows(inputs)))])
  BY <1>1
<1> DEFINE kept == DOMAIN ssts \ (picked \cup expireds)
           in == At(ssts, picked)
           out == At(ssts, kept)
           rows == MergedByKey(AllRows(in))
           file == [id |-> MaxWrites + compacts', start |-> Start(in), end |-> End(in), rows |-> rows]
           expired == RowSet(ssts) \ (RowSet(in) \cup RowSet(out))
<1>3. ssts' = Append(out, file)
  BY <1>2 DEF FilesAt, CompactedRows
<1>4. FilesOk(mode, ssts) /\ mode \in Modes
  BY DEF TableOk
<1>5. MaxWrites + compacts' \in Int
  <2>1. compacts' = compacts + 1 /\ compacts \in Nat
    BY DEF Compact, TableOk
  <2> QED  BY <2>1, ScanAssumption
<1>6. ssts \in Seq(File)
  BY <1>4 DEF FilesOk
<1>7. /\ FilesOk(mode, in) /\ FilesOk(mode, out)
      /\ RowSet(in) \subseteq RowSet(ssts) /\ RowSet(out) \subseteq RowSet(ssts)
      /\ \A p \in picked : Range(ssts[p].rows) \subseteq RowSet(in)
      /\ \A p \in kept : Range(ssts[p].rows) \subseteq RowSet(out)
      /\ mode = "Append" => RowsApart(RowSet(out), RowSet(in))
  <2>1. kept \in SUBSET (DOMAIN ssts \ picked)
    OBVIOUS
  <2> HIDE DEF kept
  <2> QED  BY <1>4, <2>1, SplitFiles
<1>8. in # <<>>
  <2>1. PICK p \in picked : TRUE
    <3>1. Cardinality(picked) > 1
      BY <1>2
    <3>2. Cardinality({}) = 0
      BY FS_EmptySet
    <3> QED  BY <3>1, <3>2
  <2>2. PICK f : /\ IsPick(in, ssts, f)
                 /\ \A q \in DOMAIN ssts : q \in picked <=> \E i \in DOMAIN in : f[i] = q
    BY <1>6, AtIsPick
  <2>3. DOMAIN in # {}
    BY <2>1, <2>2
  <2>4. DOMAIN <<>> = {}
    BY EmptyFiles
  <2> QED  BY <2>3, <2>4
<1> HIDE DEF in, out
<1>9. in \in Seq(File)
  BY <1>7 DEF FilesOk
<1>10. /\ rows \in Seq(Row)
       /\ \A r \in Range(rows) : r.val # <<>> /\ \E q \in RowSet(in) : q.pk = r.pk
       /\ mode = "Overwrite" =>
             /\ Range(rows) \subseteq RowSet(in)
             /\ \A r \in RowSet(in) : \E q \in Range(rows) : q.pk = r.pk /\ r.seq <= q.seq
       /\ mode = "Append" => Apart(rows) /\ \A k : BytesAt(Range(rows), k) = BytesAt(RowSet(in), k)
  BY <1>4, <1>7, MergedFiles
<1> HIDE DEF rows
<1>11. /\ Start(in) \in Int /\ End(in) \in Int
       /\ \A i \in DOMAIN in : Start(in) <= in[i].start /\ in[i].end <= End(in)
  BY <1>8, <1>9, MergedRange
<1>12. file \in File /\ file.start = Start(in) /\ file.end = End(in) /\ file.rows = rows
  <2> DEFINE id == MaxWrites + compacts'
  <2>1. id \in Int
    BY <1>5
  <2> HIDE DEF id
  <2>2. [id |-> id, start |-> Start(in), end |-> End(in), rows |-> rows] \in File
    BY <1>10, <1>11, <2>1 DEF File
  <2> QED  BY <2>2 DEF id
<1> HIDE DEF file
<1>13. ASSUME NEW r \in Range(rows)  PROVE file.start <= r.pk /\ r.pk < file.end /\ r.val # <<>>
  <2>1. PICK q \in RowSet(in) : q.pk = r.pk
    BY <1>10
  <2>2. PICK i \in DOMAIN in : q \in Range(in[i].rows)
    BY <1>9, RowsOfFiles
  <2>3. in[i].start <= r.pk /\ r.pk < in[i].end
    BY <1>7, <2>1, <2>2 DEF FilesOk
  <2>4. in[i].start \in Int /\ in[i].end \in Int /\ r.pk \in Int
    <3>1. q \in Row /\ in[i] \in File
      BY <1>9, RowsOfFiles
    <3> QED  BY <2>1, <3>1 DEF Row, File
  <2>5. Start(in) <= r.pk /\ r.pk < End(in)
    <3>1. Start(in) <= in[i].start /\ in[i].end <= End(in) /\ Start(in) \in Int /\ End(in) \in Int
      BY <1>11
    <3> QED  BY <2>3, <2>4, <3>1
  <2> QED  BY <1>10, <1>12, <2>5
<1>14. ASSUME mode = "Append"  PROVE RowsApart(RowSet(out), Range(rows))
  <2> SUFFICES ASSUME NEW r \in RowSet(out), NEW q \in Range(rows), r.pk = q.pk,
                      NEW x, x \in Range(r.val), x \in Range(q.val)
               PROVE  FALSE
    BY DEF RowsApart
  <2>1. x \in BytesAt(Range(rows), q.pk)
    BY BytesAtKey
  <2>2. x \in BytesAt(RowSet(in), q.pk)
    BY <1>10, <1>14, <2>1
  <2>3. PICK p \in RowSet(in) : p.pk = q.pk /\ x \in Range(p.val)
    BY <2>2, BytesAtKey
  <2> QED  BY <1>7, <1>14, <2>3 DEF RowsApart
<1>15. mode = "Overwrite" => \A r \in Range(rows) : r.val = <<r.seq>>
  BY <1>7, <1>10 DEF FilesOk
<1>16. FilesOk(mode, Append(out, file)) /\ RowSet(Append(out, file)) = RowSet(out) \cup Range(rows)
  <2>1. /\ \A r \in Range(file.rows) : file.start <= r.pk /\ r.pk < file.end /\ r.val # <<>>
        /\ mode = "Overwrite" => \A r \in Range(file.rows) : r.val = <<r.seq>>
        /\ mode = "Append" => Apart(file.rows) /\ RowsApart(RowSet(out), Range(file.rows))
    BY <1>10, <1>12, <1>13, <1>14, <1>15
  <2>2. FilesOk(mode, Append(out, file)) /\ RowSet(Append(out, file)) = RowSet(out) \cup Range(file.rows)
    BY <1>7, <1>12, <2>1, AddedFile
  <2> QED  BY <1>12, <2>2
<1>17. /\ RowSet(ssts) = RowSet(in) \cup RowSet(out) \cup expired
       /\ RowSet(ssts') = RowSet(out) \cup Range(rows) /\ FilesOk(mode, ssts')
  BY <1>3, <1>7, <1>16
<1>18. expire_time' \in Int
  BY ScanAssumption DEF Compact
<1>19. ASSUME NEW r \in expired  PROVE r.pk \in Int /\ r.pk < expire_time'
  <2>1. PICK p \in DOMAIN ssts : r \in Range(ssts[p].rows)
    BY <1>6, RowsOfFiles
  <2>2. p \in expireds
    BY <1>7, <2>1
  <2>3. ssts[p].end < expire_time' /\ r.pk < ssts[p].end
    BY <1>4, <2>1, <2>2 DEF IsExpired, FilesOk
  <2>4. ssts[p].end \in Int /\ r.pk \in Int
    BY <1>6, <2>1, RowsOfFiles DEF Row, File
  <2> QED  BY <1>18, <2>3, <2>4
<1> HIDE DEF expired
<1>20. Replaces(RowSet(out), RowSet(in), expired, Range(rows))
  BY <1>10, <1>17, <1>18, <1>19 DEF Replaces
<1> QED  BY <1>17, <1>20

\* A compaction keeps the invariant.
LEMMA CompactKeeps ==
    ASSUME ScanInv, Compact
    PROVE  ScanInv'
<1>1. TableOk /\ ScanOk /\ mode' = mode /\ used' = used /\ compacts' = compacts + 1
  BY DEF ScanInv, Compact
<1>2. PICK rest, inputs, expired, merged : Replaces(rest, inputs, expired, merged)
  BY <1>1, Compacted
<1>3. mode \in Modes /\ compacts \in Nat /\ used \subseteq Int /\ \A r \in RowSet(ssts) : Range(r.val) \subseteq used
  BY <1>1 DEF TableOk
<1>4. ASSUME NEW r \in merged, NEW x \in Range(r.val)  PROVE x \in used
  <2>1. CASE mode = "Overwrite"
    BY <1>2, <1>3, <2>1 DEF Replaces
  <2>2. CASE mode = "Append"
    <3>1. x \in BytesAt(merged, r.pk)
      BY BytesAtKey
    <3>2. x \in BytesAt(inputs, r.pk)
      BY <1>2, <2>2, <3>1 DEF Replaces
    <3>3. PICK q \in inputs : x \in Range(q.val)
      BY <3>2, BytesAtKey
    <3> QED  BY <1>2, <1>3, <3>3 DEF Replaces
  <2> QED  BY <1>3, <2>1, <2>2 DEF Modes
<1>5. \A r \in RowSet(ssts') : Range(r.val) \subseteq used
  BY <1>2, <1>3, <1>4 DEF Replaces
<1>6. TableOk'
  <2>1. compacts' \in Nat
    BY <1>1, <1>3
  <2>2. FilesOk(mode, ssts')
    BY <1>1, Compacted
  <2> QED  BY <1>1, <1>3, <1>5, <2>1, <2>2 DEF TableOk
<1>7. ScanOk'
  BY <1>1, ScanFrame DEF Compact, scan
<1> QED  BY <1>6, <1>7 DEF ScanInv

\* A scan that begins: its plans have the files it has found.
LEMMA StartScanKeeps ==
    ASSUME ScanInv, StartScan
    PROVE  ScanInv'
<1>1. TableOk /\ ScanOk /\ range = NoRange /\ scanned' = ssts /\ output' = output
  BY DEF ScanInv, StartScan
<1>2. mode' = mode /\ ssts' = ssts /\ used' = used /\ compacts' = compacts
  BY DEF StartScan, table
<1>3. PICK r \in ScanRanges :
         LET groups == GroupBySegment(FindSsts(r))
         IN  /\ range' = r
             /\ parts' = [k \in DOMAIN groups |-> [files |-> groups[k], state |-> "planned"]]
  BY DEF StartScan
<1> DEFINE places == {i \in DOMAIN ssts : Overlaps(ssts[i], r)}
           found == At(ssts, places)
           groups == GroupBySegment(found)
           P == [files : Seq(File), state : {"planned", "open", "done"}]
<1>4. range' = r /\ parts' = [k \in DOMAIN groups |-> [files |-> groups[k], state |-> "planned"]]
  BY <1>3 DEF FindSsts, FilesAt
<1>5. FilesOk(mode, ssts) /\ ssts \in Seq(File)
  BY <1>1 DEF TableOk, FilesOk
<1>6. places \in SUBSET DOMAIN ssts /\ \A i \in DOMAIN ssts : Overlaps(ssts[i], r) => i \in places
  OBVIOUS
<1> HIDE DEF places
<1>7. FilesOk(mode, found)
  BY <1>5, <1>6, SplitFiles
<1>8. PICK f : /\ IsPick(found, ssts, f)
               /\ \A p \in DOMAIN ssts : p \in places <=> \E i \in DOMAIN found : f[i] = p
  BY <1>5, <1>6, AtIsPick
<1> HIDE DEF found
<1>9. found \in Seq(File) /\ RowSet(found) \subseteq RowSet(ssts)
  <2>1. found \in Seq(File)
    BY <1>7 DEF FilesOk
  <2> QED  BY <1>5, <1>8, <2>1, PickedFiles
<1>10. /\ groups \in Seq(Seq(File))
       /\ \A k \in DOMAIN groups : FilesOk(mode, groups[k]) /\ RowSet(groups[k]) \subseteq RowSet(found)
       /\ \A q \in RowSet(found) : \E k \in DOMAIN groups : q \in RowSet(groups[k])
       /\ mode = "Append" =>
             \A k, l \in DOMAIN groups : k # l => RowsApart(RowSet(groups[k]), RowSet(groups[l]))
  BY <1>7, GroupsPartFiles
<1> HIDE DEF groups
<1>11. r \in Int \X Int
  BY ScanAssumption
<1>12. range' # NoRange
  BY <1>4, <1>11 DEF NoRange
<1>13. DOMAIN parts' = DOMAIN groups
       /\ \A k \in DOMAIN groups : parts'[k].files = groups[k] /\ parts'[k].state = "planned"
  BY <1>4
<1>14. parts' \in Seq(P)
  <2> DEFINE n == Len(groups)
  <2>1. n \in Nat /\ DOMAIN groups = 1..n /\ \A k \in 1..n : groups[k] \in Seq(File)
    BY <1>10, LenProperties
  <2>2. \A k \in 1..n : [files |-> groups[k], state |-> "planned"] \in P
    BY <2>1
  <2> HIDE DEF n, P
  <2>3. parts' \in [1..n -> P]
    BY <1>4, <2>1, <2>2
  <2> QED  BY <2>1, <2>3, FunctionIsSeq
<1>15. ASSUME NEW q \in RowSet(ssts), r[1] <= q.pk, q.pk < r[2]
       PROVE  \E k \in DOMAIN groups : q \in RowSet(groups[k])
  <2>1. PICK p \in DOMAIN ssts : q \in Range(ssts[p].rows)
    BY <1>5, RowsOfFiles
  <2>2. ssts[p].start <= q.pk /\ q.pk < ssts[p].end
    BY <1>5, <2>1 DEF FilesOk
  <2>3. ssts[p].start \in Int /\ ssts[p].end \in Int /\ q.pk \in Int
    <3>1. q \in Row /\ ssts[p] \in File
      BY <1>5, RowsOfFiles
    <3> QED  BY <3>1 DEF Row, File
  <2>4. r[1] \in Int /\ r[2] \in Int
    BY <1>11
  <2>5. ssts[p].start < r[2] /\ r[1] < ssts[p].end
    BY <1>15, <2>2, <2>3, <2>4
  <2>6. PICK i \in DOMAIN found : f[i] = p
    BY <1>6, <1>8, <2>5 DEF Overlaps
  <2>7. found[i] = ssts[p]
    BY <1>8, <2>6 DEF IsPick
  <2>8. q \in RowSet(found)
    BY <1>9, <2>1, <2>7, RowsOfFiles
  <2> QED  BY <1>10, <2>8
<1>16. PartsOk'
  <2>1. \A k \in DOMAIN parts' : FilesOk(mode', parts'[k].files) /\ RowSet(parts'[k].files) \subseteq RowSet(scanned')
    BY <1>1, <1>2, <1>9, <1>10, <1>13
  <2>2. \A q \in RowSet(scanned') :
           range'[1] <= q.pk /\ q.pk < range'[2] => \E k \in DOMAIN parts' : q \in RowSet(parts'[k].files)
    BY <1>1, <1>4, <1>13, <1>15
  <2>3. mode' = "Append" =>
           \A k, l \in DOMAIN parts' : k # l => RowsApart(RowSet(parts'[k].files), RowSet(parts'[l].files))
    BY <1>2, <1>10, <1>13
  <2> QED  BY <1>14, <2>1, <2>2, <2>3 DEF PartsOk
<1>17. OutputOk'
  <2>1. parts = <<>> /\ OutputOk
    BY <1>1 DEF ScanOk
  <2>2. DOMAIN <<>> = {}
    BY EmptyFiles
  <2>3. output \in Seq(Row) /\ (\A q : q \notin Range(output)) /\ (mode = "Append" => Apart(output))
    BY <2>1, <2>2 DEF OutputOk
  <2>4. \A k \in DOMAIN parts' : parts'[k].state # "done"
    BY <1>13
  <2> QED  BY <1>1, <1>2, <2>3, <2>4 DEF OutputOk
<1>18. ScanOk'
  BY <1>1, <1>2, <1>4, <1>5, <1>11, <1>12, <1>16, <1>17 DEF ScanOk
<1>19. TableOk'
  BY <1>1, <1>2 DEF TableOk
<1> QED  BY <1>18, <1>19 DEF ScanInv

\* The table is as it was in a step of the scan.
LEMMA TableFrame ==
    ASSUME TableOk, UNCHANGED table
    PROVE  TableOk'
BY DEF TableOk, table

\* Plans only change their states.
LEMMA PartsFrame ==
    ASSUME ScanOk, mode' = mode, scanned' = scanned, range' = range,
           NEW k \in DOMAIN parts, NEW s \in {"planned", "open", "done"},
           parts' = [parts EXCEPT ![k].state = s]
    PROVE  /\ PartsOk' /\ (range' = NoRange => parts' = <<>>)
           /\ DOMAIN parts' = DOMAIN parts
           /\ \A j \in DOMAIN parts : /\ parts'[j].files = parts[j].files
                                      /\ parts'[j].state = IF j = k THEN s ELSE parts[j].state
<1> DEFINE P == [files : Seq(File), state : {"planned", "open", "done"}]
           n == Len(parts)
<1>1. parts \in Seq(P) /\ PartsOk
  BY DEF ScanOk, PartsOk
<1> HIDE DEF P
<1>2. n \in Nat /\ DOMAIN parts = 1..n /\ \A j \in 1..n : parts[j] \in P
  BY <1>1, LenProperties
<1> HIDE DEF n
<1>3. DOMAIN parts' = 1..n
  BY <1>2
<1>4. ASSUME NEW j \in 1..n
      PROVE  /\ parts'[j] \in P /\ parts'[j].files = parts[j].files
             /\ parts'[j].state = IF j = k THEN s ELSE parts[j].state
  <2>1. CASE j # k
    BY <1>2, <2>1
  <2>2. CASE j = k
    <3>1. parts'[j] = [parts[j] EXCEPT !.state = s] /\ parts[j] \in P
      BY <1>2, <2>2
    <3> QED  BY <2>2, <3>1 DEF P
  <2> QED  BY <2>1, <2>2
<1>5. parts' \in Seq(P)
  <2>1. parts' = [j \in 1..n |-> parts'[j]]
    BY <1>2
  <2>2. parts' \in [1..n -> P]
    BY <1>4, <2>1
  <2> QED  BY <1>2, <2>2, FunctionIsSeq
<1>6. PartsOk'
  <2>1. \A j \in DOMAIN parts' : FilesOk(mode', parts'[j].files) /\ RowSet(parts'[j].files) \subseteq RowSet(scanned')
    BY <1>1, <1>2, <1>3, <1>4 DEF PartsOk
  <2>2. range' # NoRange =>
           \A r \in RowSet(scanned') :
              range'[1] <= r.pk /\ r.pk < range'[2] => \E j \in DOMAIN parts' : r \in RowSet(parts'[j].files)
    BY <1>1, <1>2, <1>3, <1>4 DEF PartsOk
  <2>3. mode' = "Append" =>
           \A i, j \in DOMAIN parts' : i # j => RowsApart(RowSet(parts'[i].files), RowSet(parts'[j].files))
    BY <1>1, <1>2, <1>3, <1>4 DEF PartsOk
  <2> QED  BY <1>5, <2>1, <2>2, <2>3 DEF PartsOk, P
<1>7. range' # NoRange
  <2>1. range = NoRange => parts = <<>>
    BY DEF ScanOk
  <2>2. DOMAIN <<>> = {}
    BY EmptyFiles
  <2> QED  BY <2>1, <2>2
<1> QED  BY <1>2, <1>3, <1>4, <1>6, <1>7

\* Opening a plan keeps the invariant.
LEMMA OpenPartKeeps ==
    ASSUME ScanInv, NEW k, OpenPart(k)
    PROVE  ScanInv'
<1>1. /\ TableOk /\ ScanOk /\ k \in DOMAIN parts /\ parts[k].state = "planned"
      /\ parts' = [parts EXCEPT ![k].state = "open"] /\ UNCHANGED table
      /\ scanned' = scanned /\ range' = range /\ predicate' = predicate /\ output' = output
  BY DEF ScanInv, OpenPart, CanOpen
<1>2. mode' = mode
  BY <1>1 DEF table
<1>3. /\ PartsOk' /\ (range' = NoRange => parts' = <<>>)
      /\ DOMAIN parts' = DOMAIN parts
      /\ \A j \in DOMAIN parts : /\ parts'[j].files = parts[j].files
                                 /\ parts'[j].state = IF j = k THEN "open" ELSE parts[j].state
  BY <1>1, <1>2, PartsFrame
<1>4. \A files : PlanRows(files)' = PlanRows(files)
  BY <1>1, <1>2, PlanFrame
<1>5. \A j \in DOMAIN parts : parts'[j].state = "done" <=> parts[j].state = "done"
  BY <1>1, <1>3
<1>6. OutputOk'
  <2>1. /\ output \in Seq(Row) /\ (mode = "Append" => Apart(output))
        /\ \A r : r \in Range(output) <=>
              \E j \in DOMAIN parts : parts[j].state = "done" /\ r \in Range(PlanRows(parts[j].files))
    BY <1>1 DEF ScanOk, OutputOk
  <2> QED  BY <1>1, <1>2, <1>3, <1>4, <1>5, <2>1 DEF OutputOk
<1>7. ScanOk'
  BY <1>1, <1>2, <1>3, <1>6 DEF ScanOk
<1> QED  BY <1>1, <1>7, TableFrame DEF ScanInv

\* Rows that are apart, and apart from each other, put one after the other.
LEMMA JoinedApart ==
    ASSUME NEW s \in Seq(Row), NEW t \in Seq(Row), Apart(s), Apart(t), RowsApart(Range(s), Range(t))
    PROVE  Apart(s \o t)
<1> DEFINE j == s \o t
           m == Len(s)
           n == Len(t)
<1>1. m \in Nat /\ n \in Nat /\ DOMAIN s = 1..m /\ DOMAIN t = 1..n
  BY LenProperties
<1>2. j \in Seq(Row) /\ Len(j) = m + n
  BY ConcatProperties
<1>3. \A i \in 1..(m + n) : j[i] = IF i <= m THEN s[i] ELSE t[i - m]
  BY ConcatProperties
<1>4. DOMAIN j = 1..(m + n)
  BY <1>2, LenProperties
<1> HIDE DEF j, m, n
<1>5. ASSUME NEW i \in 1..(m + n)
      PROVE  (i \in 1..m /\ j[i] = s[i]) \/ (i - m \in 1..n /\ i > m /\ j[i] = t[i - m])
  BY <1>1, <1>3
<1>6. \A i \in 1..(m + n) : IsInjective(j[i].val)
  BY <1>1, <1>5 DEF Apart
<1>7. ASSUME NEW a \in 1..(m + n), NEW b \in 1..(m + n), a # b  PROVE RowsApart({j[a]}, {j[b]})
  <2>1. CASE a \in 1..m /\ j[a] = s[a] /\ b \in 1..m /\ j[b] = s[b]
    BY <1>1, <1>7, <2>1 DEF Apart
  <2>2. CASE a \in 1..m /\ j[a] = s[a] /\ b - m \in 1..n /\ j[b] = t[b - m]
    <3>1. s[a] \in Range(s) /\ t[b - m] \in Range(t)
      BY <1>1, <2>2 DEF Range
    <3> QED  BY <2>2, <3>1 DEF RowsApart
  <2>3. CASE a - m \in 1..n /\ j[a] = t[a - m] /\ b \in 1..m /\ j[b] = s[b]
    <3>1. s[b] \in Range(s) /\ t[a - m] \in Range(t)
      BY <1>1, <2>3 DEF Range
    <3> QED  BY <2>3, <3>1 DEF RowsApart
  <2>4. CASE a - m \in 1..n /\ j[a] = t[a - m] /\ b - m \in 1..n /\ j[b] = t[b - m]
    <3>1. a - m # b - m
      BY <1>1, <1>7
    <3> QED  BY <1>1, <2>4, <3>1 DEF Apart
  <2> QED  BY <1>5, <2>1, <2>2, <2>3, <2>4
<1>8. Apart(j)
  BY <1>4, <1>6, <1>7 DEF Apart
<1> QED  BY <1>8 DEF j

\* The rows of two plans are apart if those of their files are.
LEMMA PlansApart ==
    ASSUME mode = "Append", NEW s, FilesOk(mode, s), NEW t, FilesOk(mode, t), RowsApart(RowSet(s), RowSet(t))
    PROVE  RowsApart(Range(PlanRows(s)), Range(PlanRows(t)))
<1> SUFFICES ASSUME NEW r \in Range(PlanRows(s)), NEW q \in Range(PlanRows(t)), r.pk = q.pk,
                    NEW x, x \in Range(r.val), x \in Range(q.val)
             PROVE  FALSE
  BY DEF RowsApart
<1>1. mode \in Modes
  BY DEF Modes
<1>2. PICK a \in RowSet(s) : a.pk = r.pk /\ x \in Range(a.val)
  <2> DEFINE asked == {w \in RowSet(s) : Satisfies(w)}
  <2>1. BytesAt(Range(PlanRows(s)), r.pk) = BytesAt(asked, r.pk)
    BY <1>1, Planned
  <2>2. asked \subseteq RowSet(s)
    OBVIOUS
  <2> HIDE DEF asked
  <2>3. x \in BytesAt(Range(PlanRows(s)), r.pk)
    BY BytesAtKey
  <2>4. PICK a \in asked : a.pk = r.pk /\ x \in Range(a.val)
    BY <2>1, <2>3, BytesAtKey
  <2> QED  BY <2>2, <2>4
<1>3. PICK b \in RowSet(t) : b.pk = q.pk /\ x \in Range(b.val)
  <2> DEFINE asked == {w \in RowSet(t) : Satisfies(w)}
  <2>1. BytesAt(Range(PlanRows(t)), q.pk) = BytesAt(asked, q.pk)
    BY <1>1, Planned
  <2>2. asked \subseteq RowSet(t)
    OBVIOUS
  <2> HIDE DEF asked
  <2>3. x \in BytesAt(Range(PlanRows(t)), q.pk)
    BY BytesAtKey
  <2>4. PICK b \in asked : b.pk = q.pk /\ x \in Range(b.val)
    BY <2>1, <2>3, BytesAtKey
  <2> QED  BY <2>2, <2>4
<1> QED  BY <1>2, <1>3 DEF RowsApart

\* Returning the rows of a plan keeps the invariant.
LEMMA PollPartKeeps ==
    ASSUME ScanInv, NEW k, PollPart(k)
    PROVE  ScanInv'
<1> DEFINE plan == PlanRows(parts[k].files)
<1>1. /\ TableOk /\ ScanOk /\ k \in DOMAIN parts /\ parts[k].state = "open"
      /\ parts' = [parts EXCEPT ![k].state = "done"] /\ UNCHANGED table
      /\ scanned' = scanned /\ range' = range /\ predicate' = predicate /\ output' = output \o plan
  BY DEF ScanInv, PollPart
<1>2. mode' = mode /\ mode \in Modes
  BY <1>1 DEF table, TableOk
<1>3. /\ PartsOk' /\ (range' = NoRange => parts' = <<>>)
      /\ DOMAIN parts' = DOMAIN parts
      /\ \A j \in DOMAIN parts : /\ parts'[j].files = parts[j].files
                                 /\ parts'[j].state = IF j = k THEN "done" ELSE parts[j].state
  BY <1>1, <1>2, PartsFrame
<1>4. \A files : PlanRows(files)' = PlanRows(files)
  BY <1>1, <1>2, PlanFrame
<1>5. \A j \in DOMAIN parts : parts'[j].state = "done" <=> parts[j].state = "done" \/ j = k
  BY <1>1, <1>3
<1>6. /\ output \in Seq(Row) /\ (mode = "Append" => Apart(output))
      /\ \A r : r \in Range(output) <=>
            \E j \in DOMAIN parts : parts[j].state = "done" /\ r \in Range(PlanRows(parts[j].files))
  BY <1>1 DEF ScanOk, OutputOk
<1>7. \A j \in DOMAIN parts : FilesOk(mode, parts[j].files)
  BY <1>1 DEF ScanOk, PartsOk
<1>8. plan \in Seq(Row) /\ (mode = "Append" => Apart(plan))
  <2>1. FilesOk(mode, parts[k].files)
    BY <1>1, <1>7
  <2> QED  BY <1>2, <2>1, Planned
<1>9. output \o plan \in Seq(Row) /\ Range(output \o plan) = Range(output) \cup Range(plan)
  <2> HIDE DEF plan
  <2> QED  BY <1>6, <1>8, JoinOne
<1>10. ASSUME mode = "Append"  PROVE Apart(output \o plan)
  <2>1. ASSUME NEW r \in Range(output)  PROVE RowsApart({r}, Range(plan))
    <3>1. PICK j \in DOMAIN parts : parts[j].state = "done" /\ r \in Range(PlanRows(parts[j].files))
      BY <1>6
    <3>2. j # k
      BY <1>1, <3>1
    <3>3. RowsApart(RowSet(parts[j].files), RowSet(parts[k].files))
      BY <1>1, <1>10, <3>2 DEF ScanOk, PartsOk
    <3>4. RowsApart(Range(PlanRows(parts[j].files)), Range(plan))
      BY <1>1, <1>7, <1>10, <3>3, PlansApart
    <3> QED  BY <3>1, <3>4 DEF RowsApart
  <2>2. RowsApart(Range(output), Range(plan))
    <3> HIDE DEF plan
    <3> QED  BY <2>1 DEF RowsApart
  <2> HIDE DEF plan
  <2> QED  BY <1>6, <1>8, <1>10, <2>2, JoinedApart
<1>11. ASSUME NEW r
       PROVE  r \in Range(output') <=>
                 \E j \in DOMAIN parts : parts'[j].state = "done" /\ r \in Range(PlanRows(parts[j].files))
  BY <1>1, <1>5, <1>6, <1>9
<1>12. OutputOk'
  <2> HIDE DEF plan
  <2> QED  BY <1>1, <1>2, <1>3, <1>4, <1>9, <1>10, <1>11 DEF OutputOk
<1>13. ScanOk'
  BY <1>1, <1>2, <1>3, <1>12 DEF ScanOk
<1> QED  BY <1>1, <1>13, TableFrame DEF ScanInv

\* Every step keeps the invariant.
LEMMA ScanStep ==
    ASSUME ScanInv, [Next]_vars
    PROVE  ScanInv'
<1>1. CASE \E seq \in 1..MaxWrites : Write(seq)
  BY <1>1, WriteKeeps
<1>2. CASE Compact
  BY <1>2, CompactKeeps
<1>3. CASE \E id \in to_deletes : DeleteSst(id)
  <2>1. /\ mode' = mode /\ ssts' = ssts /\ used' = used /\ compacts' = compacts
        /\ scanned' = scanned /\ range' = range /\ predicate' = predicate /\ parts' = parts /\ output' = output
    BY <1>3 DEF DeleteSst, scan
  <2>2. TableOk'
    BY <2>1 DEF ScanInv, TableOk
  <2> QED  BY <2>1, <2>2, ScanFrame DEF ScanInv
<1>4. CASE StartScan
  BY <1>4, StartScanKeeps
<1>5. CASE \E k \in 1..MaxWrites : OpenPart(k)
  BY <1>5, OpenPartKeeps
<1>6. CASE \E k \in 1..MaxWrites : PollPart(k)
  BY <1>6, PollPartKeeps
<1>7. CASE \E k \in 1..MaxWrites : PartFails(k)
  <2>1. /\ UNCHANGED table /\ mode' = mode
        /\ scanned' = scanned /\ range' = range /\ predicate' = predicate /\ parts' = parts /\ output' = output
    BY <1>7 DEF PartFails, table
  <2> QED  BY <2>1, TableFrame, ScanFrame DEF ScanInv
<1>8. CASE UNCHANGED vars
  <2>1. /\ UNCHANGED table /\ mode' = mode
        /\ scanned' = scanned /\ range' = range /\ predicate' = predicate /\ parts' = parts /\ output' = output
    BY <1>8 DEF vars, table, scan
  <2> QED  BY <2>1, TableFrame, ScanFrame DEF ScanInv
<1> QED  BY <1>1, <1>2, <1>3, <1>4, <1>5, <1>6, <1>7, <1>8 DEF Next

\* The invariant of the table and of its scan.
THEOREM ScanInvariant ==
    Spec => []ScanInv
<1>1. Init => ScanInv
  BY ScanInit
<1>2. ScanInv /\ [Next]_vars => ScanInv'
  BY ScanStep
<1> QED  BY <1>1, <1>2, PTL DEF Spec
-----------------------------------------------------------------------------
\* Only a compaction counts one.
LEMMA OnlyCompact ==
    ASSUME [Next]_vars, compacts' # compacts
    PROVE  Compact
BY DEF Next, vars, table, Write, DeleteSst, StartScan, OpenPart, PollPart, PartFails

\* Rows of an Overwrite table that agree on key and sequence are the same.
LEMMA SameRow ==
    ASSUME NEW files, FilesOk("Overwrite", files), NEW r \in RowSet(files), NEW q \in RowSet(files),
           q.pk = r.pk, q.seq <= r.seq, r.seq <= q.seq
    PROVE  q = r
<1>1. r \in Row /\ q \in Row
  BY RowsOfFiles DEF FilesOk
<1>2. q.seq = r.seq
  BY <1>1 DEF Row
<1>3. q.val = r.val
  BY <1>2 DEF FilesOk
<1>4. q = [pk |-> q.pk, seq |-> q.seq, val |-> q.val] /\ r = [pk |-> r.pk, seq |-> r.seq, val |-> r.val]
  BY <1>1 DEF Row
<1> QED  BY <1>2, <1>3, <1>4

\* A compaction changes no key's newest row before it has expired.
LEMMA NewestKept ==
    ASSUME TableOk, Compact, mode = "Overwrite"
    PROVE  {r \in Newest(ssts') : expire_time' <= r.pk} = {r \in Newest(ssts) : expire_time' <= r.pk}
<1>1. PICK rest, inputs, expired, merged : Replaces(rest, inputs, expired, merged)
  BY Compacted
<1>2. /\ RowSet(ssts) = inputs \cup rest \cup expired /\ RowSet(ssts') = rest \cup merged
      /\ merged \subseteq inputs
      /\ \A r \in inputs : \E q \in merged : q.pk = r.pk /\ r.seq <= q.seq
  BY <1>1 DEF Replaces
<1>3. FilesOk("Overwrite", ssts)
  BY DEF TableOk
<1>4. \A r \in RowSet(ssts) : r.seq \in Int
  BY <1>3, RowsOfFiles DEF FilesOk, Row
<1>5. \A r \in expired : ~(expire_time' <= r.pk)
  BY <1>1 DEF Replaces
<1>6. ASSUME NEW r \in Newest(ssts), expire_time' <= r.pk  PROVE r \in Newest(ssts')
  <2>1. r \in RowSet(ssts) /\ \A q \in RowSet(ssts) : q.pk = r.pk => q.seq <= r.seq
    BY DEF Newest
  <2>2. CASE r \in rest
    BY <1>2, <2>1, <2>2 DEF Newest
  <2>3. CASE r \in inputs
    <3>1. PICK q \in merged : q.pk = r.pk /\ r.seq <= q.seq
      BY <1>2, <2>3
    <3>2. q \in RowSet(ssts) /\ q.seq <= r.seq
      BY <1>2, <2>1, <3>1
    <3>3. q = r
      BY <1>3, <2>1, <3>1, <3>2, SameRow
    <3> QED  BY <1>2, <2>1, <3>3 DEF Newest
  <2> QED  BY <1>2, <1>5, <1>6, <2>1, <2>2, <2>3
<1>7. ASSUME NEW r \in Newest(ssts'), expire_time' <= r.pk  PROVE r \in Newest(ssts)
  <2>1. r \in rest \cup merged /\ \A q \in rest \cup merged : q.pk = r.pk => q.seq <= r.seq
    BY <1>2 DEF Newest
  <2>2. r \in RowSet(ssts)
    BY <1>2, <2>1
  <2>3. ASSUME NEW q \in inputs, q.pk = r.pk  PROVE q.seq <= r.seq
    <3>1. PICK p \in merged : p.pk = q.pk /\ q.seq <= p.seq
      BY <1>2
    <3>2. p.seq <= r.seq
      BY <2>1, <2>3, <3>1
    <3>3. p.seq \in Int /\ q.seq \in Int /\ r.seq \in Int
      BY <1>2, <1>4, <2>2
    <3> QED  BY <3>1, <3>2, <3>3
  <2>4. \A q \in expired : q.pk # r.pk
    BY <1>5, <1>7
  <2> QED  BY <1>2, <2>1, <2>2, <2>3, <2>4 DEF Newest
<1> QED  BY <1>6, <1>7

\* For any table, any writes and any choice of inputs and of expired files: a
\* compaction of a table in Overwrite mode changes no key's value before the time
\* of the key has expired (do_compaction, LastValueOperator).
THEOREM CompactionIsInvisible ==
    Spec => CompactionInvisible
<1>1. ScanInv /\ [Next]_vars =>
        [mode = "Overwrite" /\ compacts' # compacts =>
           {r \in Newest(ssts') : expire_time' <= r.pk} = {r \in Newest(ssts) : expire_time' <= r.pk}]_vars
  BY OnlyCompact, NewestKept DEF ScanInv
<1> QED  BY <1>1, ScanInvariant, PTL DEF Spec, CompactionInvisible, Unexpired

\* The bytes of a key, as BytesIn has them, of a table in Append mode.
LEMMA BytesOfTable ==
    ASSUME NEW files, FilesOk("Append", files), NEW k
    PROVE  BytesIn(AllRows(files), k) =
             [number |-> Cardinality(BytesAt(RowSet(files), k)), all |-> BytesAt(RowSet(files), k)]
<1> DEFINE all == AllRows(files)
<1>1. files \in Seq(File) /\ ApartFiles(files)
  BY DEF FilesOk
<1>2. all \in Seq(Row) /\ Range(all) = RowSet(files)
  BY <1>1, AllRowsSorted
<1>3. Apart(all)
  BY <1>1, AllRowsApart
<1> HIDE DEF all
<1>4. BytesIn(all, k) = [number |-> Cardinality(BytesAt(Range(all), k)), all |-> BytesAt(Range(all), k)]
  BY <1>2, <1>3, BytesCounted
<1> QED  BY <1>2, <1>4 DEF all

\* A compaction keeps the bytes of every key that has not expired.
LEMMA BytesKept ==
    ASSUME TableOk, Compact, mode = "Append", NEW k, expire_time' <= k
    PROVE  BytesIn(AllRows(ssts'), k) = BytesIn(AllRows(ssts), k)
<1>1. PICK rest, inputs, expired, merged : Replaces(rest, inputs, expired, merged)
  BY Compacted
<1>2. /\ RowSet(ssts) = (inputs \cup rest) \cup expired /\ RowSet(ssts') = rest \cup merged
      /\ BytesAt(merged, k) = BytesAt(inputs, k)
  BY <1>1 DEF Replaces
<1>3. FilesOk("Append", ssts) /\ FilesOk("Append", ssts')
  BY Compacted DEF TableOk
<1>4. BytesAt(RowSet(ssts'), k) = BytesAt(RowSet(ssts), k)
  <2>1. ASSUME NEW R, NEW Q  PROVE BytesAt(R \cup Q, k) = BytesAt(R, k) \cup BytesAt(Q, k)
    BY DEF BytesAt
  <2>2. BytesAt(expired, k) = {}
    <3>1. \A r \in expired : ~(expire_time' <= r.pk)
      BY <1>1 DEF Replaces
    <3>2. \A r \in expired : r.pk # k
      BY <3>1
    <3> QED  BY <3>2, BytesAtKey
  <2>3. BytesAt(RowSet(ssts), k) = BytesAt(inputs, k) \cup BytesAt(rest, k)
    <3> DEFINE live == inputs \cup rest
    <3>1. BytesAt(live, k) = BytesAt(inputs, k) \cup BytesAt(rest, k)
      BY <2>1
    <3>2. RowSet(ssts) = live \cup expired
      BY <1>2
    <3> HIDE DEF live
    <3>3. BytesAt(live \cup expired, k) = BytesAt(live, k) \cup BytesAt(expired, k)
      BY <2>1
    <3> QED  BY <2>2, <3>1, <3>2, <3>3
  <2>4. BytesAt(RowSet(ssts'), k) = BytesAt(rest, k) \cup BytesAt(merged, k)
    BY <1>2, <2>1
  <2> QED  BY <1>2, <2>3, <2>4
<1>5. BytesIn(AllRows(ssts), k) =
        [number |-> Cardinality(BytesAt(RowSet(ssts), k)), all |-> BytesAt(RowSet(ssts), k)]
  BY <1>3, BytesOfTable
<1> DEFINE new == ssts'
<1>6. FilesOk("Append", new)
  BY <1>3
<1> HIDE DEF new
<1>7. BytesIn(AllRows(new), k) =
        [number |-> Cardinality(BytesAt(RowSet(new), k)), all |-> BytesAt(RowSet(new), k)]
  BY <1>6, BytesOfTable
<1> QED  BY <1>4, <1>5, <1>7 DEF new

\* For any table, any writes and any choice of inputs and of expired files: a
\* compaction of a table in Append mode loses and repeats no byte before its time
\* has expired (do_compaction, BytesMergeOperator).
THEOREM CompactionKeepsEveryByte ==
    Spec => CompactionKeepsBytes
<1>1. ScanInv /\ [Next]_vars =>
        [mode = "Append" /\ compacts' # compacts =>
           \A new \in {AllRows(ssts')}, old \in {AllRows(ssts)}, k \in Keys :
              expire_time' <= k => BytesIn(new, k) = BytesIn(old, k)]_vars
  BY OnlyCompact, BytesKept DEF ScanInv
<1> QED  BY <1>1, ScanInvariant, PTL DEF Spec, CompactionKeepsBytes

\* For any table, range and predicate, whatever is written, compacted and deleted
\* meanwhile: a scan of a table in Overwrite mode that ends without an error
\* returns the newest rows it asks for (scan, build_df_plan).
THEOREM ScanMissesNothing ==
    Spec => []ScanReturnsNewest
<1>1. ASSUME ScanInv  PROVE ScanReturnsNewest
  <2> SUFFICES ASSUME mode = "Overwrite", ScanDone
               PROVE  /\ \A r \in Newest(scanned) : Asked(r) => r \in Range(output)
                      /\ \A r \in Range(output) : r \in RowSet(scanned) /\ Satisfies(r)
    BY DEF ScanReturnsNewest
  <2>1. range # NoRange /\ \A k \in DOMAIN parts : parts[k].state = "done"
    BY DEF ScanDone
  <2>2. FilesOk("Overwrite", scanned) /\ PartsOk /\ OutputOk /\ mode \in Modes
    BY <1>1 DEF ScanInv, TableOk, ScanOk
  <2>3. ASSUME NEW k \in DOMAIN parts
        PROVE  LET files == parts[k].files rows == PlanRows(files)
               IN  /\ RowSet(files) \subseteq RowSet(scanned) /\ Range(rows) \subseteq RowSet(files)
                   /\ \A r \in Range(rows) : Satisfies(r)
                   /\ \A r \in RowSet(files) :
                         Satisfies(r) => \E q \in Range(rows) : q.pk = r.pk /\ r.seq <= q.seq
    <3>1. FilesOk(mode, parts[k].files) /\ RowSet(parts[k].files) \subseteq RowSet(scanned)
      BY <2>2 DEF PartsOk
    <3> QED  BY <2>2, <3>1, Planned
  <2>4. ASSUME NEW r \in Newest(scanned), Asked(r)  PROVE r \in Range(output)
    <3>1. r \in RowSet(scanned) /\ \A q \in RowSet(scanned) : q.pk = r.pk => q.seq <= r.seq
      BY DEF Newest
    <3>2. PICK k \in DOMAIN parts : r \in RowSet(parts[k].files)
      BY <2>1, <2>2, <2>4, <3>1 DEF Asked, PartsOk
    <3>3. PICK q \in Range(PlanRows(parts[k].files)) : q.pk = r.pk /\ r.seq <= q.seq
      BY <2>3, <2>4, <3>2 DEF Asked
    <3>4. q \in RowSet(scanned)
      BY <2>3, <3>3
    <3>5. q = r
      BY <2>2, <3>1, <3>3, <3>4, SameRow
    <3> QED  BY <2>1, <2>2, <3>3, <3>5 DEF OutputOk
  <2>5. ASSUME NEW r \in Range(output)  PROVE r \in RowSet(scanned) /\ Satisfies(r)
    <3>1. PICK k \in DOMAIN parts : r \in Range(PlanRows(parts[k].files))
      BY <2>2 DEF OutputOk
    <3> QED  BY <2>3, <3>1
  <2> QED  BY <2>4, <2>5
<1> QED  BY <1>1, ScanInvariant, PTL

\* For any table, range and predicate, whatever is written, compacted and deleted
\* meanwhile: a scan of a table in Append mode that ends without an error returns
\* every byte of the rows it asks for once, and no other (scan, build_df_plan).
THEOREM ScanReturnsEveryByte ==
    Spec => []ScanReturnsBytes
<1>1. ASSUME ScanInv  PROVE ScanReturnsBytes
  <2> DEFINE rows == Satisfying(AllRows(scanned))
  <2> SUFFICES ASSUME mode = "Append", ScanDone
               PROVE  /\ \A k \in Keys : range[1] <= k /\ k < range[2] => BytesIn(output, k) = BytesIn(rows, k)
                      /\ \A r \in Range(output) : Satisfies(r)
    BY DEF ScanReturnsBytes
  <2>1. range # NoRange /\ \A k \in DOMAIN parts : parts[k].state = "done"
    BY DEF ScanDone
  <2>2. FilesOk("Append", scanned) /\ PartsOk /\ OutputOk /\ mode \in Modes
    BY <1>1 DEF ScanInv, TableOk, ScanOk
  <2>3. ASSUME NEW j \in DOMAIN parts
        PROVE  /\ RowSet(parts[j].files) \subseteq RowSet(scanned)
               /\ \A r \in Range(PlanRows(parts[j].files)) : Satisfies(r)
               /\ \A k : BytesAt(Range(PlanRows(parts[j].files)), k) =
                           BytesAt({r \in RowSet(parts[j].files) : Satisfies(r)}, k)
    <3>1. FilesOk(mode, parts[j].files) /\ RowSet(parts[j].files) \subseteq RowSet(scanned)
      BY <2>2 DEF PartsOk
    <3> QED  BY <2>2, <3>1, Planned
  <2>4. rows \in Seq(Row) /\ Apart(rows) /\ \A r : r \in Range(rows) <=> r \in RowSet(scanned) /\ Satisfies(r)
    <3> DEFINE all == AllRows(scanned)
    <3>1. scanned \in Seq(File) /\ ApartFiles(scanned)
      BY <2>2 DEF FilesOk
    <3>2. all \in Seq(Row) /\ Sorted(all) /\ Range(all) = RowSet(scanned)
      BY <3>1, AllRowsSorted
    <3>3. Apart(all)
      BY <3>1, AllRowsApart
    <3> HIDE DEF all
    <3>4. Satisfying(all) \in Seq(Row) /\ Range(Satisfying(all)) = {r \in Range(all) : Satisfies(r)}
      BY <3>2, FilteredRows
    <3>5. Apart(Satisfying(all))
      BY <3>2, <3>3, FilteredApart
    <3> QED  BY <3>2, <3>4, <3>5 DEF all
  <2> HIDE DEF rows
  <2>5. output \in Seq(Row) /\ Apart(output)
    BY <2>2 DEF OutputOk
  <2>6. \A r : r \in Range(output) <=> \E j \in DOMAIN parts : r \in Range(PlanRows(parts[j].files))
    BY <2>1, <2>2 DEF OutputOk
  <2>7. ASSUME NEW k, range[1] <= k, k < range[2]  PROVE BytesIn(output, k) = BytesIn(rows, k)
    <3>1. ASSUME NEW x \in BytesAt(Range(output), k)  PROVE x \in BytesAt(Range(rows), k)
      <4>1. PICK r \in Range(output) : r.pk = k /\ x \in Range(r.val)
        BY <3>1, BytesAtKey
      <4>2. PICK j \in DOMAIN parts : r \in Range(PlanRows(parts[j].files))
        BY <2>6
      <4> DEFINE asked == {q \in RowSet(parts[j].files) : Satisfies(q)}
      <4>3. x \in BytesAt(Range(PlanRows(parts[j].files)), k)
        BY <4>1, <4>2, BytesAtKey
      <4>4. x \in BytesAt(asked, k)
        BY <2>3, <4>3
      <4>5. \A q \in asked : q \in Range(rows)
        BY <2>3, <2>4
      <4> HIDE DEF asked
      <4>6. PICK q \in asked : q.pk = k /\ x \in Range(q.val)
        BY <4>4, BytesAtKey
      <4> QED  BY <4>5, <4>6, BytesAtKey
    <3>2. ASSUME NEW x \in BytesAt(Range(rows), k)  PROVE x \in BytesAt(Range(output), k)
      <4>1. PICK q \in Range(rows) : q.pk = k /\ x \in Range(q.val)
        BY <3>2, BytesAtKey
      <4>2. PICK j \in DOMAIN parts : q \in RowSet(parts[j].files)
        BY <2>1, <2>2, <2>4, <2>7, <4>1 DEF PartsOk
      <4> DEFINE asked == {r \in RowSet(parts[j].files) : Satisfies(r)}
      <4>3. q \in asked
        BY <2>4, <4>2
      <4>4. BytesAt(Range(PlanRows(parts[j].files)), k) = BytesAt(asked, k)
        BY <2>3
      <4> HIDE DEF asked
      <4>5. x \in BytesAt(asked, k)
        BY <4>1, <4>3, BytesAtKey
      <4>6. PICK r \in Range(PlanRows(parts[j].files)) : r.pk = k /\ x \in Range(r.val)
        BY <4>4, <4>5, BytesAtKey
      <4>7. r \in Range(output)
        BY <2>6, <4>6
      <4> QED  BY <4>6, <4>7, BytesAtKey
    <3>3. BytesAt(Range(output), k) = BytesAt(Range(rows), k)
      BY <3>1, <3>2
    <3>4. BytesIn(output, k) = [number |-> Cardinality(BytesAt(Range(output), k)), all |-> BytesAt(Range(output), k)]
      BY <2>5, BytesCounted
    <3>5. BytesIn(rows, k) = [number |-> Cardinality(BytesAt(Range(rows), k)), all |-> BytesAt(Range(rows), k)]
      BY <2>4, BytesCounted
    <3> QED  BY <3>3, <3>4, <3>5
  <2>8. \A r \in Range(output) : Satisfies(r)
    BY <2>3, <2>6
  <2> QED  BY <2>7, <2>8
<1> QED  BY <1>1, ScanInvariant, PTL
=============================================================================
