\* Three partitions of one row, multiplicities up to 3: a row's copies can
\* span every partition, and m = 1 or 2.
CONSTANTS
    P = 3
    N = 1
    MaxD = 3
    NoFile = NoFile
    InitT <- MCInitT
SPECIFICATION Spec
INVARIANTS TypeOK ExpansionCorrect NoStall
CHECK_DEADLOCK FALSE
