SPECIFICATION FairSpec
CONSTANTS
    Updaters = {u1, u2}
    MaxFiles = 3
    MaxDeltas = 3
    MaxFaults = 2
    Faults = {"get", "put", "delete", "lost_ack", "crash", "merge_crash", "list"}
    ChannelSize = 1
    MinMerge = 0
    SoftMerge = 1
    HardMerge = 1
    UsizeMax = 9
INVARIANTS TypeOK AckedDurable SnapshotReadable CounterExact
PROPERTIES WritersUnblocked
CHECK_DEADLOCK FALSE
