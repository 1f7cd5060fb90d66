SPECIFICATION Spec
CONSTANTS
    FileId = {f1, f2, f3, f4, f5}
    Ranges <- MCRanges
    Sizes = {1, 2, 4}
    Clock = {0, 1002}
    SegmentDuration = 10
    NewSstMaxSize = 5
    InputMaxNum = 3
    InputMinNum = 2
    Ttl = 1
SYMMETRY MCSymmetry
INVARIANTS NoneLeftBehind TakesAsManyAsFit
CHECK_DEADLOCK FALSE
