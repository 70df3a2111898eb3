------------------------------ MODULE Aggregates ------------------------------
(***************************************************************************)
(* GlobalTable::sum and GlobalTable::max (App/src/GlobalTable.cpp:812-839) *)
(* over the partitions of one table.  Each partition's task asks its local *)
(* table (LocalTable::sum / max: an ecall, or in distributed mode a        *)
(* request to the worker, which runs the same ecall) and folds the answer  *)
(* into the shared ret.  parallel_for_each runs the tasks one after the    *)
(* other on one machine and as concurrent threads in distributed mode.    *)
(*                                                                         *)
(* sum adds its answer under the mutex in one step.  max compares its      *)
(* answer with ret before it takes the mutex (cond = cur > ret) and then  *)
(* sets ret by that comparison (ret ^= (-cond) & (ret ^ cur)): the read    *)
(* and the write are two steps another thread can run between.  The read  *)
(* of ret outside the mutex is a data race; it returns the value before or *)
(* after the concurrent write, which the interleavings cover.             *)
(***************************************************************************)
EXTENDS Integers, FiniteSets, FiniteSetsExt

CONSTANTS
    P,              \* utils::num_partitions
    Distributed     \* utils::is_distributed: the tasks run as threads

VARIABLES
    table,          \* the local tables, partition -> array of tuples
    agg             \* the call in progress: its operator, column, ret, tasks

Parts == 0 .. P - 1

IntMin == -2147483647 - 1

\* the real values of column c of one local table
RealVals(t, c) == {t[k][c] : k \in {k \in DOMAIN t : ~t[k].dummy}}

\* LocalTable::sum: a dummy's value is moved to 0 before it is added
LocalSum(t, c) == MapThenSumSet(LAMBDA k : IF t[k].dummy THEN 0 ELSE t[k][c], DOMAIN t)

\* LocalTable::max: from INT_MIN, each real value larger than ret replaces it
LocalMax(t, c) == IF RealVals(t, c) = {} THEN IntMin ELSE Max(RealVals(t, c))

\* the task steps: ask the local table, then fold (sum) or compare and set (max)
TaskSteps == {"idle", "local", "add", "compare", "update", "done"}

NoCall == [op |-> "none", col |-> "none", ret |-> 0,
           cur |-> [i \in Parts |-> 0], cond |-> [i \in Parts |-> FALSE],
           pc |-> [i \in Parts |-> "idle"]]

\* every task has returned: parallel_for_each returns ret
Returned == agg.op # "none" /\ \A i \in Parts : agg.pc[i] = "done"

\* GlobalTable::sum(column) / max(column) is called: ret = 0, one task per partition
Call(op, c) ==
    /\ agg.op = "none"
    /\ agg' = [NoCall EXCEPT !.op = op, !.col = c, !.pc = [i \in Parts |-> "local"]]
    /\ UNCHANGED table

\* the task of partition i runs now: any time in distributed mode, otherwise
\* once the tasks of the partitions before it have returned
Turn(i) == Distributed \/ \A j \in Parts : j < i => agg.pc[j] = "done"

\* ecall_sum / ecall_max: getLocalTable(global_id, local_id)->sum / max(column)
EcallSum(i) == LocalSum(table[i], agg.col)

EcallMax(i) == LocalMax(table[i], agg.col)

\* cur_sum = table.sum(column): the ecall, or in distributed mode the request
\* "sum" that the worker answers with the same ecall on its partition
AskSum(i) ==
    /\ agg.pc[i] = "local"
    /\ agg.op = "sum"
    /\ Turn(i)
    /\ agg' = [agg EXCEPT !.cur[i] = EcallSum(i), !.pc[i] = "add"]
    /\ UNCHANGED table

\* cur = table.max(column), the same way
AskMax(i) ==
    /\ agg.pc[i] = "local"
    /\ agg.op = "max"
    /\ Turn(i)
    /\ agg' = [agg EXCEPT !.cur[i] = EcallMax(i), !.pc[i] = "compare"]
    /\ UNCHANGED table

\* sum: lock_guard; ret += cur_sum
Add(i) ==
    /\ agg.pc[i] = "add"
    /\ Turn(i)
    /\ agg' = [agg EXCEPT !.ret = agg.ret + agg.cur[i], !.pc[i] = "done"]
    /\ UNCHANGED table

\* max: int cond = cur > ret, before the mutex is taken
Compare(i) ==
    /\ agg.pc[i] = "compare"
    /\ Turn(i)
    /\ agg' = [agg EXCEPT !.cond[i] = agg.cur[i] > agg.ret, !.pc[i] = "update"]
    /\ UNCHANGED table

\* max: lock_guard; ret ^= (-cond) & (ret ^ cur), i.e. ret = cond ? cur : ret
Update(i) ==
    /\ agg.pc[i] = "update"
    /\ Turn(i)
    /\ agg' = [agg EXCEPT !.ret = IF agg.cond[i] THEN agg.cur[i] ELSE agg.ret,
                          !.pc[i] = "done"]
    /\ UNCHANGED table

TaskStep(i) == AskSum(i) \/ AskMax(i) \/ Add(i) \/ Compare(i) \/ Update(i)

-----------------------------------------------------------------------------
TypeOK ==
    /\ agg.op \in {"none", "sum", "max"}
    /\ agg.pc \in [Parts -> TaskSteps]
    /\ agg.cond \in [Parts -> BOOLEAN]

\* the whole table's real values of the call's column
AllVals == UNION {RealVals(table[i], agg.col) : i \in Parts}

(***************************************************************************)
(* max returns the largest value of the column: once every task of         *)
(* GlobalTable::max has returned, ret is the largest real value over all   *)
(* partitions.  Another thread's update between a task's comparison and    *)
(* its update would let a smaller local maximum overwrite a larger one.    *)
(***************************************************************************)
MaxCorrect ==
    Returned /\ agg.op = "max" /\ AllVals # {} => agg.ret = Max(AllVals)

=============================================================================
