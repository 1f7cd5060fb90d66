--------------------------- MODULE StorageSchema ----------------------------
(***************************************************************************)
(* The columns of a table (StorageSchema in src/storage/src/types.rs): the *)
(* primary keys, the values, then the builtin columns seq and reserved.  A *)
(* column is its place in this order, from 1; a row is the sequence of its *)
(* columns' values.  An optional projection is a sequence of none or one.  *)
(***************************************************************************)
EXTENDS Integers, Sequences, SequencesExt

CONSTANTS
    NumPrimaryKeys,
    NumValues

\* What try_new demands.
ASSUME SchemaAssumption == NumPrimaryKeys \in Nat \ {0} /\ NumValues \in Nat \ {0}

BuiltinColumnNum == 2
SeqIdx == NumPrimaryKeys + NumValues + 1
ReservedIdx == NumPrimaryKeys + NumValues + 2
ArrowSchema == [i \in 1..ReservedIdx |-> i]
ValueIdxes == (NumPrimaryKeys + 1)..(NumPrimaryKeys + NumValues)

\* By its name.
IsBuiltinField(c) == c \in {SeqIdx, ReservedIdx}

\* The keys that a projection lacks and the sequence are added at its end; the
\* reserved column is not.
FillRequiredProjections(projection) ==
    LET AddMissing(p, c) == IF Contains(p, c) THEN p ELSE Append(p, c)
        required == SubSeq(ArrowSchema, 1, NumPrimaryKeys) \o <<SeqIdx>>
    IN  [i \in DOMAIN projection |-> FoldLeft(AddMissing, projection[i], required)]

\* A row of the user's columns, with the builtin ones.  Null is written 0.
FillBuiltinColumns(row, sequence) == row \o <<sequence, 0>>
=============================================================================
