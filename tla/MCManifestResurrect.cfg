SPECIFICATION Spec
CONSTANTS
    Updaters = {u1, u2}
    MaxFiles = 3
    MaxDeltas = 3
    MaxFaults = 1
    Faults = {"delete"}
    ChannelSize = 1
    MinMerge = 0
    SoftMerge = 1
    HardMerge = 2
    UsizeMax = 9
SYMMETRY UpdaterSymmetry
INVARIANTS MergedSnapshotMatchesCache
CHECK_DEADLOCK FALSE
