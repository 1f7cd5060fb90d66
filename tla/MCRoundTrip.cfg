SPECIFICATION Spec
CONSTANTS
    Files <- MCFiles
    Magnitude = 4
    SizeBits = 13
    Mantissa = 10
    Texts <- MCTexts
INVARIANTS SnapshotReadsBack SizeReadsBack DurationReadsBack
CHECK_DEADLOCK FALSE
