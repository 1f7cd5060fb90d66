SPECIFICATION Spec
CONSTANTS
    Tasks = {t1, t2}
    MaxFiles = 4
    MaxWrites = 2
    MaxFaults = 1
    MaxReturned = 1
    Faults = {"update", "delete", "crash"}
    Ranges <- MCRanges
    Sizes = {1}
    Clock = {0, 1005}
    MaxPending = 1
    MemLimit = 7
    U64Max = 15
    SegmentDuration = 10
    NewSstMaxSize = 2
    InputMaxNum = 2
    InputMinNum = 1
    Ttl = 1
SYMMETRY MCSymmetry
INVARIANTS ListedFilesExist InputsExist NoOrphans NothingLost RangeCoversRows RowsListedOnce
PROPERTIES MarksAreReleased
CHECK_DEADLOCK FALSE
