------------------------------- MODULE MCScan -------------------------------
(* Scan on small instances. *)
EXTENDS Scan

\* Two keys of the segment around zero and one of the next.
MCKeys == {-2, 3, 12}
\* Rows on both sides of zero, in both segments, and in the second.
MCBatches == {{-2, 3}, {3, 12}, {12}}
\* All rows, those of two keys, and those with a value of the first write.
MCPredicates ==
    {[keys |-> MCKeys, bytes |-> 1..MaxWrites],
     [keys |-> {3, 12}, bytes |-> 1..MaxWrites],
     [keys |-> MCKeys, bytes |-> {1}]}
\* Everything, and a range that begins inside files and ends inside others.
MCScanRanges == {<<-5, 20>>, <<3, 12>>}
\* Nothing has expired; the files inside the segment around zero have, and those
\* that cross it have not.
MCExpireTimes == {-9, 5}
=============================================================================
