SPECIFICATION Spec
CONSTANTS
    NumPrimaryKeys = 2
    NumValues = 2
    Keys <- MCKeys
    Seqs = {1, 2}
    Values <- MCValues
    Requests <- MCRequests
    MaxRows = 3
INVARIANTS OutputIsMerge
CHECK_DEADLOCK FALSE
