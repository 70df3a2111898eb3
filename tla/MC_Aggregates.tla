---------------------------- MODULE MC_Aggregates ----------------------------
(***************************************************************************)
(* One call of GlobalTable::sum or GlobalTable::max on a table of two     *)
(* partitions of up to two tuples, values Vals, any of them dummies.      *)
(***************************************************************************)
EXTENDS Aggregates

CONSTANTS Vals, MaxRows

Tuple == [v : Vals, dummy : BOOLEAN]

LocalTables == UNION {[0 .. n - 1 -> Tuple] : n \in 0 .. MaxRows}

Init ==
    /\ table \in [Parts -> LocalTables]
    /\ agg = NoCall

Next ==
    \/ \E op \in {"sum", "max"} : Call(op, "v")
    \/ \E i \in Parts : TaskStep(i)

Spec == Init /\ [][Next]_<<table, agg>>

=============================================================================
