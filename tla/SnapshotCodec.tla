---------------------------- MODULE SnapshotCodec ----------------------------
(***************************************************************************)
(* The bytes of the manifest's snapshot (manifest/encoding.rs): a header   *)
(* and records of a fixed size, written by one merge and read by the next. *)
(*                                                                         *)
(* An SST is a record of the fields of SstFile and FileMeta.  An optional  *)
(* value, or the result of a conversion that can fail, is a sequence of    *)
(* none or one.  Numbers are those below 2^31 that TLC has.                *)
(***************************************************************************)
EXTENDS Integers, Sequences, SequencesExt, TLC

CONSTANT Files  \* the SSTs that are written over time

\* Both places that write an SST give it its own id as the largest sequence.
ASSUME FilesAsWritten ==
    \A f \in Files : f.max_sequence = f.id /\ f.start <= f.end

VARIABLES
    object,  \* the snapshot object; <<>> when there is none
    listed   \* history: the SSTs that the merges so far have left

codec == <<object, listed>>

HeaderLength == 4 + 1 + 1 + 8
RecordLength == 8 + 16 + 4 + 4
Magic == <<52, 18, 254, 202>>  \* 0xCAFE_1234, lowest byte first
Version == 1
-----------------------------------------------------------------------------
\* The bytes of an integer, lowest first.  Division rounds down, which makes
\* them the two's complement of a negative one.
LittleEndian(n, width) ==
    LET shifted[k \in 0..width] == IF k = 0 THEN n ELSE shifted[k - 1] \div 256
    IN  [k \in 1..width |-> shifted[k - 1] % 256]

Unsigned(bytes) == FoldRight(LAMBDA b, n : 256 * n + b, bytes, 0)

Signed(bytes) ==
    FoldRight(LAMBDA b, n : 256 * n + b, bytes, IF Last(bytes) >= 128 THEN -1 ELSE 0)

\* The bytes of a field that starts behind the first `at` bytes.
Field(bytes, at, width) == SubSeq(bytes, at + 1, at + width)
-----------------------------------------------------------------------------
NewHeader == [magic |-> Magic, version |-> Version, flag |-> 0, length |-> 0]

\* Neither the version nor the flag is looked at.
TryNewHeader(bytes) ==
    IF Len(bytes) < HeaderLength \/ Field(bytes, 0, 4) # Magic
    THEN <<>>
    ELSE << [magic |-> Field(bytes, 0, 4), version |-> bytes[5], flag |-> bytes[6],
             length |-> Unsigned(Field(bytes, 6, 8))] >>

WriteHeader(h) == h.magic \o <<h.version, h.flag>> \o LittleEndian(h.length, 8)

\* A record has no sequence; it is the id again when the record is read.
RecordFrom(sst) ==
    [id |-> sst.id, start |-> sst.start, end |-> sst.end, size |-> sst.size,
     num_rows |-> sst.num_rows]

IntoSst(r) ==
    [id |-> r.id, max_sequence |-> r.id, num_rows |-> r.num_rows, size |-> r.size,
     start |-> r.start, end |-> r.end]

WriteRecord(r) ==
    LittleEndian(r.id, 8) \o LittleEndian(r.start, 8) \o LittleEndian(r.end, 8)
      \o LittleEndian(r.size, 4) \o LittleEndian(r.num_rows, 4)

TryNewRecord(bytes) ==
    [id |-> Unsigned(Field(bytes, 0, 8)),
     start |-> Signed(Field(bytes, 8, 8)), end |-> Signed(Field(bytes, 16, 8)),
     size |-> Unsigned(Field(bytes, 24, 4)), num_rows |-> Unsigned(Field(bytes, 28, 4))]
-----------------------------------------------------------------------------
DefaultSnapshot == [header |-> NewHeader, records |-> <<>>]

\* (Mutant: the length is not compared with what was read.)
LengthDivides(header, total) == header.length > 0 /\ header.length % RecordLength = 0

LengthFits(header, total) ==
    /\ header.length > 0
    /\ header.length % RecordLength = 0
    /\ header.length + HeaderLength = total

\* Snapshot::try_from.  No bytes are an empty snapshot.  Records are read as
\* long as bytes remain, and the last must be complete.
TryFrom(bytes) ==
    LET header == TryNewHeader(bytes)
        rest == Len(bytes) - HeaderLength
    IN  IF bytes = <<>> THEN <<DefaultSnapshot>>
        ELSE IF header = <<>> \/ ~LengthFits(header[1], Len(bytes))
                \/ rest % RecordLength # 0
        THEN <<>>
        ELSE << [header |-> header[1],
                 records |-> [i \in 1..(rest \div RecordLength) |->
                    TryNewRecord(Field(bytes, HeaderLength + (i - 1) * RecordLength,
                                       RecordLength))]] >>

WithLength(s) == [s EXCEPT !.header.length = Len(s.records) * RecordLength]

AddRecords(s, ssts) ==
    WithLength([s EXCEPT !.records = @ \o [i \in DOMAIN ssts |-> RecordFrom(ssts[i])]])

\* (Mutant: the header keeps the length from before.)
DeleteWithoutLength(s, ids) ==
    [s EXCEPT !.records = SelectSeq(@, LAMBDA r : r.id \notin ids)]

DeleteRecords(s, ids) ==
    WithLength([s EXCEPT !.records = SelectSeq(@, LAMBDA r : r.id \notin ids)])

IntoBytes(s) ==
    WriteHeader(s.header) \o FlattenSeq([i \in DOMAIN s.records |-> WriteRecord(s.records[i])])

IntoSsts(s) ==
    IF s.header.length = 0 THEN <<>>
    ELSE [i \in DOMAIN s.records |-> IntoSst(s.records[i])]
-----------------------------------------------------------------------------
\* A delta holds its files as protobuf messages, whose parts are optional.
MetaIntoPb(sst) ==
    [max_sequence |-> sst.max_sequence, num_rows |-> sst.num_rows, size |-> sst.size,
     time_range |-> <<[start |-> sst.start, end |-> sst.end]>>]

SstIntoPb(sst) == [id |-> sst.id, meta |-> <<MetaIntoPb(sst)>>]

MetaTryFrom(pb) ==
    IF pb.time_range = <<>> THEN <<>>
    ELSE << [max_sequence |-> pb.max_sequence, num_rows |-> pb.num_rows, size |-> pb.size,
             start |-> pb.time_range[1].start, end |-> pb.time_range[1].end] >>

SstTryFrom(pb) ==
    LET meta == IF pb.meta = <<>> THEN <<>> ELSE MetaTryFrom(pb.meta[1])
    IN  [i \in DOMAIN meta |-> meta[i] @@ [id |-> pb.id]]

\* The files that the deltas of one merge add, as they come from the store.
ReadDeltas(adds) == FlattenSeq([i \in DOMAIN adds |-> SstTryFrom(SstIntoPb(adds[i]))])

CodecInit == object = <<>> /\ listed = <<>>

\* do_merge of deltas that add some files and delete others, from the bytes of
\* the snapshot it got.  When they are refused it gives up.
MergeFrom(bytes, adds, ids) ==
    LET read == TryFrom(bytes)
        ssts == ReadDeltas(adds)
    IN  IF read = <<>> THEN UNCHANGED codec
        ELSE /\ object' = IntoBytes(DeleteRecords(AddRecords(read[1], ssts), ids))
             /\ listed' = SelectSeq(listed \o adds, LAMBDA f : f.id \notin ids)

\* The deltas add one file or two that are new, and delete older ones.  The
\* store may hand out a snapshot whose end is missing.
Merge ==
    \E first, second \in Files, got \in 1..Len(object) \cup {Len(object)} :
        LET adds == IF first = second THEN <<first>> ELSE <<first, second>>
            all == ToSet(listed \o adds)
        IN  /\ \A f \in ToSet(listed) : f.id < first.id /\ f.id < second.id
            /\ \E gone \in SUBSET {f.id : f \in all} :
                 /\ \A id \in gone : id < first.id \/ id < second.id
                 /\ MergeFrom(SubSeq(object, 1, got), adds, gone)
=============================================================================
