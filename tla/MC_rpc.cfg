\* Every script, replies in up to two onBody chunks, refused and reset
\* connections.  The driver stops after the last call or an exception.
CONSTANTS
    Scripts <- MCScripts
    MaxChunks = 2
    Faults = TRUE
SPECIFICATION Spec
INVARIANT TypeOK
PROPERTY StoredOnReturn
PROPERTY CallsReturn
CHECK_DEADLOCK FALSE
