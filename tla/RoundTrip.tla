------------------------------ MODULE RoundTrip ------------------------------
(***************************************************************************)
(* What the program writes as bytes or text, it reads back.                *)
(*                                                                         *)
(* The snapshot goes through merge after merge; a size or a duration of    *)
(* the configuration is loaded and saved again and again.  The three have  *)
(* nothing in common, so a behaviour follows one of them.                  *)
(***************************************************************************)
EXTENDS SnapshotCodec, ReadableSize, ReadableDuration

CONSTANT Texts  \* what users write as a duration

VARIABLES
    kind,   \* what the behaviour is about
    text,   \* the setting in the configuration file, <<>> before it is saved
    value,  \* the setting in memory, <<>> before it is loaded
    first   \* history: the first value in memory

setting == <<text, value, first>>
vars == <<codec, kind, setting>>

Init ==
    /\ CodecInit
    /\ \/ kind = "snapshot" /\ text = <<>> /\ value = <<>> /\ first = <<>>
       \/ kind = "size" /\ text = <<>> /\ value \in {<<size>> : size \in Sizes} /\ first = value
       \/ kind = "duration" /\ text \in {<<t>> : t \in Texts} /\ value = <<>> /\ first = <<>>

Save ==
    /\ kind # "snapshot" /\ value # <<>>
    /\ text' = IF kind = "size" THEN <<SerializeSize(value[1])>> ELSE <<Display(value[1])>>
    /\ value' = <<>>
    /\ UNCHANGED <<codec, kind, first>>

\* A text that is refused is an error of the start, and stays in the file.
Load ==
    /\ kind # "snapshot" /\ text # <<>>
    /\ value' = IF kind = "size" THEN <<DeserializeSize(text[1])>>
                ELSE DurationFromStr(text[1])
    /\ text' = IF value' = <<>> THEN text ELSE <<>>
    /\ first' = IF first = <<>> THEN value' ELSE first
    /\ UNCHANGED <<codec, kind>>

Next ==
    \/ kind = "snapshot" /\ Merge /\ UNCHANGED <<kind, setting>>
    \/ Save
    \/ Load

Spec == Init /\ [][Next]_vars
-----------------------------------------------------------------------------
\* However often do_merge reads the snapshot, changes and writes it, and even if
\* it was handed a part of it once, the object lists what the deltas left, with
\* every field of every file (Snapshot::try_from, add_records, delete_records,
\* into_bytes).
SnapshotReadsBack ==
    LET read == TryFrom(object) IN read # <<>> /\ IntoSsts(read[1]) = listed

\* A size survives any number of saves and loads (Serialize and Deserialize of
\* ReadableSize), although a size with a unit goes through a float.  It holds
\* below Magnitude * 2^Mantissa: 2^63 bytes.
SizeReadsBack ==
    kind = "size" /\ value # <<>> /\ first[1] < Magnitude * 2^Mantissa => value = first

\* A duration that was accepted once is accepted again as it was saved, and is
\* the same (FromStr and Display of ReadableDuration).
DurationReadsBack ==
    kind = "duration" /\ first # <<>> =>
        /\ value # <<>> => value = first
        /\ text # <<>> => DurationFromStr(text[1]) = first
=============================================================================
