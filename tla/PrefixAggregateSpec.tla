------------------------ MODULE PrefixAggregateSpec ------------------------
(***************************************************************************)
(* What a call of GlobalTable::groupByPrefixAggregate(op, reverse)         *)
(* promises its caller (expansion, computeDegrees), stated without         *)
(* partitions' tasks, boundary files or phases: one atomic step turns the  *)
(* table into its prefix aggregate.                                        *)
(*                                                                         *)
(* The caller sees the table through view: every tuple keeps its place,   *)
(* its group-by key and its dummy flag; a real tuple holds the fold of op  *)
(* over the real tuples of its group up to it (from it, when reverse) in   *)
(* partition order.  The value of a dummy tuple is not promised and the    *)
(* view shows it as 0.                                                     *)
(***************************************************************************)
EXTENDS Integers, Sequences, Folds

CONSTANTS
    P,          \* utils::num_partitions
    Keys,       \* values of the group-by column
    Setups      \* the calls: [call, tables, files] records

Parts == 0 .. P - 1

VARIABLES
    view,       \* the table as the caller may rely on it
    done,       \* groupByPrefixAggregate has returned
    call        \* the arguments of the call

avars == <<view, done, call>>

Positions(T) == UNION {{<<p, k>> : k \in DOMAIN T[p]} : p \in DOMAIN T}

At(T, pos) == T[pos[1]][pos[2]]

\* the global order: partition by partition, then the order within one
Before(pos1, pos2) ==
    \/ pos1[1] < pos2[1]
    \/ pos1[1] = pos2[1] /\ pos1[2] < pos2[2]

SameGroup(a, b) == ~call.groupBy \/ a.key = b.key

Fold(x, y) ==
    CASE call.op = "ADD" -> x + y
      [] call.op = "MUL" -> x * y
      [] call.op = "MAX" -> IF x > y THEN x ELSE y
      [] call.op = "MIN" -> IF x < y THEN x ELSE y

\* the real tuples of pos's group that its running aggregate covers
Covered(T, pos) ==
    {q \in Positions(T) \ {pos} :
        /\ ~At(T, q).dummy
        /\ SameGroup(At(T, q), At(T, pos))
        /\ IF call.reverse THEN Before(pos, q) ELSE Before(q, pos)}

RunningAggregate(T, pos) ==
    MapThenFoldSet(Fold, At(T, pos).val, LAMBDA q : At(T, q).val,
                   LAMBDA S : CHOOSE q \in S : TRUE, Covered(T, pos))

PrefixTable(T) ==
    [p \in DOMAIN T |->
        [k \in DOMAIN T[p] |->
            IF T[p][k].dummy THEN T[p][k]
            ELSE [T[p][k] EXCEPT !.val = RunningAggregate(T, <<p, k>>)]]]

Tuple == [key : Keys, val : Int, dummy : BOOLEAN]

\* Any table of the call's shape, dummies' values hidden.
Init ==
    /\ call \in {s.call : s \in Setups}
    /\ view \in [Parts -> Seq(Tuple)]
    /\ \A pos \in Positions(view) : At(view, pos).dummy => At(view, pos).val = 0
    /\ done = FALSE

\* groupByPrefixAggregate returns with the prefix aggregate in place.
Return ==
    /\ ~done
    /\ done' = TRUE
    /\ view' = PrefixTable(view)
    /\ UNCHANGED call

\* The steps of a call: at most one, and it returns the prefix aggregate.
SafetySpec == Init /\ [][Return]_avars

\* Every call returns.
Spec == SafetySpec /\ WF_avars(Return)

=============================================================================
