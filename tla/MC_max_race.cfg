\* GlobalTable::max in distributed mode: the tasks' threads interleave.
CONSTANTS
    P = 2
    Distributed = TRUE
    Vals = {1, 2}
    MaxRows = 1
SPECIFICATION Spec
INVARIANT MaxCorrect
CHECK_DEADLOCK FALSE
