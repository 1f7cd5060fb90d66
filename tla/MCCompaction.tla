---------------------------- MODULE MCCompaction ----------------------------
(* Compaction on small instances. *)
EXTENDS Compaction, TLC

\* Two ranges of one segment, the first of which expires before the second.
MCRanges == {<<1, 3>>, <<4, 8>>}
\* One range.
MCRange == {<<1, 3>>}
MCSymmetry == Permutations(Tasks)
=============================================================================
