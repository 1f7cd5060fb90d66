---------------------------- MODULE ReadableSize ----------------------------
(***************************************************************************)
(* Sizes in a configuration file (common/src/size_ext.rs).                 *)
(*                                                                         *)
(* The code has Magnitude 1024, sizes of 64 bits and f64 numbers of 53.    *)
(* A text is a number and the index of its unit (0 for bytes, then KiB,    *)
(* MiB, ...); the spellings of a unit, blanks and fractions are left out.  *)
(***************************************************************************)
EXTENDS Integers, FiniteSetsExt

CONSTANTS
    Magnitude,  \* a unit over the one below it
    SizeBits,   \* the width of a size
    Mantissa    \* the bits of a floating point number that count

ASSUME SizeAssumption ==
    /\ Magnitude \in Nat \ {0, 1} /\ SizeBits \in Nat \ {0} /\ Mantissa \in Nat \ {0}

Sizes == 0..(2^SizeBits - 1)
Units == 0..5
UnitSize(u) == Magnitude^u

\* The nearest floating point number to a natural number; of two, the even one.
F64(n) ==
    LET fits == {e \in 0..SizeBits : n \div 2^e < 2^Mantissa}
        scale == 2^Min(fits)
        q == n \div scale
        r == 2 * (n % scale)
    IN  (IF r > scale \/ (r = scale /\ q % 2 = 1) THEN q + 1 ELSE q) * scale

\* `as u64` of a floating point number saturates.
AsU64(n) == Min({n, 2^SizeBits - 1})

\* (Mutant: the largest unit that is not larger than the size.)
LargestUnitBelow(size) == Max({0} \cup {u \in Units : UnitSize(u) <= size})

\* The largest unit of which the size is a multiple.
UnitFor(size) == IF size = 0 THEN 1 ELSE Max({u \in Units : size % UnitSize(u) = 0})

\* Serialize: a string with a unit, or a plain integer.
SerializeSize(size) ==
    [unit |-> UnitFor(size), number |-> size \div UnitSize(UnitFor(size))]

\* FromStr: the number is a float, so is the product.
SizeFromStr(text) == AsU64(F64(F64(text.number) * UnitSize(text.unit)))

\* Deserialize: an integer is taken as it is.
DeserializeSize(text) == IF text.unit = 0 THEN text.number ELSE SizeFromStr(text)
=============================================================================
