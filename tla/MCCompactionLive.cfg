SPECIFICATION FairSpec
CONSTANTS
    Tasks = {t1, t2}
    MaxFiles = 6
    MaxWrites = 3
    MaxFaults = 1
    MaxReturned = 0
    Faults = {"sst", "update", "lost_ack"}
    Ranges <- MCRange
    Sizes = {1}
    Clock = {0}
    MaxPending = 1
    MemLimit = 3
    U64Max = 15
    SegmentDuration = 10
    NewSstMaxSize = 2
    InputMaxNum = 2
    InputMinNum = 2
    Ttl = 1
INVARIANTS TypeOK NoSharedFile PreCheckAsserts
PROPERTIES MarksAreReleased MemoryFollowsTasks TasksFinish ListIsCompacted
CHECK_DEADLOCK FALSE
