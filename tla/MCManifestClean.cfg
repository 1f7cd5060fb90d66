SPECIFICATION Spec
CONSTANTS
    Updaters = {u1, u2}
    MaxFiles = 4
    MaxDeltas = 4
    MaxFaults = 2
    Faults = {"get", "put", "crash"}
    ChannelSize = 1
    MinMerge = 0
    SoftMerge = 1
    HardMerge = 1
    UsizeMax = 9
SYMMETRY UpdaterSymmetry
INVARIANTS DeletedRecordsExist NoDuplicateRecords CacheMatchesStore DeltaBound
PROPERTIES ImplementsLiveFiles
CHECK_DEADLOCK FALSE
