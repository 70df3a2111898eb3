CONSTANTS
    MaxW <- MCMaxW
    MaxK <- MCMaxK

SPECIFICATION Spec

INVARIANT TypeOK
INVARIANT ReadsRight
INVARIANT ResultLayout

\* both joins end: the driver prints r_table and returns
CHECK_DEADLOCK FALSE
