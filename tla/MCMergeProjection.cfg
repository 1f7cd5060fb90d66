SPECIFICATION Spec
CONSTANTS
    NumPrimaryKeys = 2
    NumValues = 2
    Keys <- MCKeys
    Seqs = {1, 2}
    Values <- MCValues
    Requests <- MCUserColumns
    MaxRows = 3
INVARIANTS OnlyBuiltinRemoved
CHECK_DEADLOCK FALSE
