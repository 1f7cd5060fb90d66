SPECIFICATION Spec
CONSTANTS
    FileId = {f1, f2}
    Ranges <- MCRanges
    Sizes = {1}
    Clock = {0, 8}
    SegmentDuration = 10
    NewSstMaxSize = 5
    InputMaxNum = 3
    InputMinNum = 2
    Ttl = 1
INVARIANTS ExpiresAfterTtl
CHECK_DEADLOCK FALSE
