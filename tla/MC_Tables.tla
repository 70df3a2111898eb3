------------------------------ MODULE MC_Tables ------------------------------
EXTENDS Tables

\* two table files of the driver, as model values
CONSTANTS f1, f2

MCFiles == {f1, f2}

=============================================================================
