----------------------------- MODULE MCPickLoop -----------------------------
(* PickLoop on small instances. *)
EXTENDS PickLoop, TLC

\* Around a segment border, before the epoch, and across two segments.
MCRanges == {<<-4, -1>>, <<1, 5>>, <<11, 15>>}
MCSymmetry == Permutations(FileId)
=============================================================================
