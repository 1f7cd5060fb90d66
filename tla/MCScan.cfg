SPECIFICATION Spec
CONSTANTS
    Keys <- MCKeys
    Batches <- MCBatches
    SegmentDuration = 10
    ScanRanges <- MCScanRanges
    Predicates <- MCPredicates
    ExpireTimes <- MCExpireTimes
    MaxWrites = 3
    MaxCompacts = 2
INVARIANTS ScanReturnsNewest ScanReturnsBytes
PROPERTIES CompactionInvisible CompactionKeepsBytes
CHECK_DEADLOCK FALSE
