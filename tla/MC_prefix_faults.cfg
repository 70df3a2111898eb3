CONSTANTS
    P = 3
    N = 2
    Keys = {1, 2}
    Vals = {1, 2}
    StaleKey = 1
    NoFile = NoFile
    Setups <- FaultySetups
SPECIFICATION Spec
INVARIANT PrefixCorrect
CHECK_DEADLOCK FALSE
