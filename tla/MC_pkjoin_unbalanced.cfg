\* R partitions of 2 and 1 rows: the shuffle back by column uses the size of partition 0.
CONSTANTS
    P = 2
    NoFile = NoFile
    NoVal = NoVal
    Keys = {1, 2}
    MaxRows = 2
    RSizes <- UnbalancedSizes
    SSize = 1
    InitR <- MCInitR
    InitS <- MCInitS
SPECIFICATION Spec
INVARIANT PkJoinCorrect
CHECK_DEADLOCK FALSE
