SPECIFICATION Spec
CONSTANTS
    Tasks = {t1, t2}
    MaxFiles = 5
    MaxWrites = 3
    MaxFaults = 0
    MaxReturned = 0
    Faults = {}
    Ranges <- MCRange
    Sizes = {1, 2}
    Clock = {0}
    MaxPending = 2
    MemLimit = 2
    U64Max = 15
    SegmentDuration = 10
    NewSstMaxSize = 2
    InputMaxNum = 2
    InputMinNum = 1
    Ttl = 1
SYMMETRY MCSymmetry
INVARIANTS RefusalIsTrue
CHECK_DEADLOCK FALSE
