CONSTANTS
    Which = {"sort", "compact", "partition", "shuffle", "distribute", "shuffle_soda"}
    SortN = 6
    CompactN = 8
    PartitionN = 5
    ShuffleN = 4
    DistributeN = 8
    Keys = {1, 2}
    MaxBuckets = 3
    MaxU = 2
    Requests <- MCRequests
SPECIFICATION Spec
INVARIANTS SortCorrect CompactCorrect PartitionCorrect DistributeCorrect
CHECK_DEADLOCK FALSE
