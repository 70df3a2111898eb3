\* The three calls the joins make: expansion's ADD, computeDegrees' ADD and reverse MAX.
CONSTANTS
    P = 3
    N = 2
    Keys = {1, 2}
    Vals = {1, 2}
    StaleKey = 1
    NoFile = NoFile
    Setups <- PassSetups
SPECIFICATION Spec
INVARIANTS TypeOK PrefixCorrect
PROPERTIES Termination ImplementsPrefixAggregateSpec
CHECK_DEADLOCK FALSE
