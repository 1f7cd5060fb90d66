-------------------------- MODULE ReadableDuration --------------------------
(***************************************************************************)
(* Durations in a configuration file (common/src/time_ext.rs).             *)
(*                                                                         *)
(* A text is a sequence of parts, each a number of halves and a unit; a    *)
(* duration is its milliseconds.  Blanks and what is no number are left    *)
(* out.  The result of a conversion is a sequence of none or one.          *)
(***************************************************************************)
EXTENDS Integers, Sequences, SequencesExt

MS == 1
SECOND == 1000 * MS
MINUTE == 60 * SECOND
HOUR == 60 * MINUTE
DAY == 24 * HOUR
UnitsDown == <<DAY, HOUR, MINUTE, SECOND, MS>>

\* Each unit is smaller than the one before, so none occurs twice.
InOrder(text) == \A i \in 2..Len(text) : text[i].unit < text[i - 1].unit

\* FromStr.  A part may be negative, the sum may not.  What is below a
\* millisecond is cut off.
DurationFromStr(text) ==
    LET halves == FoldLeft(LAMBDA n, part : n + part.halves * part.unit, 0, text)
    IN  IF InOrder(text) /\ halves >= 0 THEN <<halves \div 2>> ELSE <<>>

\* (Mutant: what is written is not taken off the duration.)
NothingTakenOff(ms, i) == ms

\* What is left of a duration when the units above the i-th are written.
LeftFor(ms, i) == IF i = 1 THEN ms ELSE ms % UnitsDown[i - 1]

\* Display: the parts that are not zero, or "0s".
Display(ms) ==
    LET parts == [i \in 1..5 |-> [unit |-> UnitsDown[i],
                                  halves |-> 2 * (LeftFor(ms, i) \div UnitsDown[i])]]
        written == SelectSeq(parts, LAMBDA part : part.halves > 0)
    IN  IF written = <<>> THEN << [unit |-> SECOND, halves |-> 0] >> ELSE written
=============================================================================
