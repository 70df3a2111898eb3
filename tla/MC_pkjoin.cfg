\* Two partitions of two R rows each and one S row each, every key, dummy and hash.
CONSTANTS
    P = 2
    NoFile = NoFile
    NoVal = NoVal
    Keys = {1, 2}
    MaxRows = 2
    RSizes <- BalancedSizes
    SSize = 1
    InitR <- MCInitR
    InitS <- MCInitS
SPECIFICATION Spec
INVARIANTS TypeOK PkJoinCorrect NoStall
CHECK_DEADLOCK FALSE
