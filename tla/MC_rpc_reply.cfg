\* The same calls, no faults; TLC reports the shortest call that gives the
\* caller something else than the worker meant.
CONSTANTS
    Scripts <- MCScripts
    MaxChunks = 2
    Faults = FALSE
SPECIFICATION Spec
INVARIANT Delivered
CHECK_DEADLOCK FALSE
