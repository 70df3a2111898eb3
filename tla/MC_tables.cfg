\* Two partitions, up to three ids from TOTAL (a read, a copy, and one more),
\* objects for every partition of three tables, both modes.
CONSTANTS
    P = 2
    f1 = f1
    f2 = f2
    Files <- MCFiles
    MaxTables = 3
    MaxObjs = 6
SPECIFICATION Spec
INVARIANT TypeOK
INVARIANT Resident
INVARIANT NoLeak
CHECK_DEADLOCK FALSE
