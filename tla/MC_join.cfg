\* Two partitions of two rows, keys 1 .. 3 (a key may match nothing on the
\* other side), at most six pairs: m up to 3, a key of 2 R and 3 S rows, groups spanning partitions.
CONSTANTS
    P = 2
    N = 2
    Keys = {1, 2, 3}
    MaxM = 6
    NoFile = NoFile
    InitRS <- MCInitRS
SPECIFICATION Spec
INVARIANTS TypeOK JoinCorrect NoStall
CHECK_DEADLOCK FALSE
