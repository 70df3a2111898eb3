CONSTANTS
    P = 2
    N = 2
    Keys = {1, 2}
    NoFile = NoFile
    InitTables <- AnyTables
    InitFiles <- FreshFiles
SPECIFICATION Spec
INVARIANT SortCorrect
CHECK_DEADLOCK FALSE
