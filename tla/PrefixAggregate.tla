-------------------------- MODULE PrefixAggregate --------------------------
(***************************************************************************)
(* The cross-partition prefix-aggregate protocol of GlobalTable::          *)
(* groupByPrefixAggregate (App/src/GlobalTable.cpp) and the enclave side   *)
(* LocalTable::groupByAggregateBase / _addValueByKey / aggCore             *)
(* (Enclave/LocalTable.cpp), with the fold operators of                    *)
(* Enclave/Operators.h.                                                    *)
(*                                                                         *)
(* A tuple is abstracted to its group-by key, its aggregate column and its *)
(* dummy flag.  The boundary tuples exchanged between partitions live in   *)
(* the file slots gid_lid<src>_tlid<dst>; only the slots this protocol     *)
(* uses are modelled: <<i, 0>> (phase 1, partition i to partition 0) and   *)
(* <<0, i>> (phase 2, partition 0 to partition i).                         *)
(*                                                                         *)
(* The orchestrator runs one task per partition per phase and joins them   *)
(* all before the next phase (parallel_for_each); in distributed mode the  *)
(* tasks are threads that interleave, which the model allows in any order. *)
(***************************************************************************)
EXTENDS Integers, Sequences, FiniteSets, Folds

CONSTANTS
    P,              \* utils::num_partitions
    Keys,           \* values of the group-by column
    Setups,         \* the calls to check: [call, tables, files] records
    NoFile          \* a slot that holds no file

Parts == 0 .. P - 1

Slots == {<<i, 0>> : i \in Parts} \cup {<<0, i>> : i \in Parts}

VARIABLES
    tuples,     \* tuples[i]: m_tuples of local table i
    file,       \* file[<<src, dst>>]: the one-tuple file gid_lid<src>_tlid<dst>
    stage,      \* the orchestrator's position in groupByPrefixAggregate
    pending,    \* partitions whose task of the current phase has not returned
    input,      \* history variable: the tables as the call received them
    call        \* the arguments of the call, fixed for the whole behaviour

vars == <<tuples, file, stage, pending, input, call>>

(***************************************************************************)
(* The arguments of groupByPrefixAggregate(op, reverse) and the build      *)
(* mode: op.op_id ("ADD", "MUL", "MAX", "MIN" or "COPY"), whether          *)
(* op.group_by_columns names the key or is empty, the reverse flag, and    *)
(* utils::is_distributed (partitions are remote workers).                  *)
(***************************************************************************)
Op          == call.op
GroupByKey  == call.groupBy
Reverse     == call.reverse
Distributed == call.distributed

(***************************************************************************)
(* AssociateOperator::apply(a, b): fold a into b when they share the       *)
(* group-by key.  equal_in_cols ignores the dummy flag, and so does every  *)
(* operator but COPY.                                                      *)
(***************************************************************************)
EqualInCols(a, b) == ~GroupByKey \/ a.key = b.key

Apply(a, b) ==
    CASE Op = "ADD"  -> IF EqualInCols(a, b) THEN [b EXCEPT !.val = b.val + a.val] ELSE b
      [] Op = "MUL"  -> IF EqualInCols(a, b) THEN [b EXCEPT !.val = b.val * a.val] ELSE b
      [] Op = "MAX"  -> IF EqualInCols(a, b) /\ a.val > b.val THEN [b EXCEPT !.val = a.val] ELSE b
      [] Op = "MIN"  -> IF EqualInCols(a, b) /\ a.val < b.val THEN [b EXCEPT !.val = a.val] ELSE b
      [] Op = "COPY" -> IF b.dummy THEN a ELSE b

(***************************************************************************)
(* aggCore(tuples, op, doPrefix = true, reverse): fold every tuple into    *)
(* its successor (predecessor when reverse) and return the updated tuples  *)
(* with the last non-dummy tuple reached.  last_tuple starts as a dummy    *)
(* copy of the first tuple and is only ever replaced by a tuple at         *)
(* i + step.  With doPrefix the dummy-marking line is a no-op.             *)
(***************************************************************************)
\* Fault variant: last_tuple also follows dummy tuples.
RECURSIVE AggLoopDummyLast(_, _, _, _, _)
AggLoopDummyLast(ts, i, end, step, last) ==
    IF i = end THEN <<ts, last>>
    ELSE LET b == Apply(ts[i], ts[i + step])
         IN  AggLoopDummyLast([ts EXCEPT ![i + step] = b], i + step, end, step, b)

\* Fault variant: the dummy-marking line runs without its !doPrefix guard.
RECURSIVE AggLoopMarkDummy(_, _, _, _, _)
AggLoopMarkDummy(ts, i, end, step, last) ==
    IF i = end THEN <<ts, last>>
    ELSE LET b == Apply(ts[i], ts[i + step])
             a == [ts[i] EXCEPT !.dummy = @ \/ (EqualInCols(ts[i], ts[i + step]) /\ ~b.dummy)]
         IN  AggLoopMarkDummy([ts EXCEPT ![i] = a, ![i + step] = b], i + step, end, step,
                              IF b.dummy THEN last ELSE b)

RECURSIVE AggLoop(_, _, _, _, _)
AggLoop(ts, i, end, step, last) ==
    IF i = end THEN <<ts, last>>
    ELSE LET b == Apply(ts[i], ts[i + step])
         IN  AggLoop([ts EXCEPT ![i + step] = b], i + step, end, step,
                     IF b.dummy THEN last ELSE b)

AggCore(ts, reverse) ==
    LET start == IF reverse THEN Len(ts) ELSE 1
        end   == IF reverse THEN 1 ELSE Len(ts)
        step  == IF reverse THEN -1 ELSE 1
    IN  AggLoop(ts, start, end, step, [ts[start] EXCEPT !.dummy = TRUE])

(***************************************************************************)
(* The reverse flag a remote worker runs a task with.  The request carries *)
(* it and EchoHandler parses it, but then calls                           *)
(* groupByPrefixAggregate(op, phase) without it: the default reverse =    *)
(* false.                                                                  *)
(***************************************************************************)
HandleReverse == FALSE

\* LocalTable::groupByPrefixAggregate: a request to the worker, or the ecall.
TaskReverse == IF Distributed THEN HandleReverse ELSE Reverse

\* Fault variant of the phase-3 loop: one past the last partition.
Phase3PartsLoopBound ==
    {i \in 0 .. P : (~Reverse /\ i > 0) \/ (Reverse /\ i < P - 1)}

\* The partitions GlobalTable::groupByPrefixAggregate sends to _addValueByKey.
Phase3Parts ==
    {i \in Parts : (~Reverse /\ i > 0) \/ (Reverse /\ i < P - 1)}

\* Fault variant of the phase-2 target: two behind when reverse.
Phase2TargetReverseSkip(i) == IF TaskReverse THEN i - 2 ELSE i + 1

\* Phase 2 writes tups[i] to partition i+1, or to i-1 when reverse.
Phase2Target(i) == IF TaskReverse THEN i - 1 ELSE i + 1

Phase2Sources == IF TaskReverse THEN 1 .. P - 1 ELSE 0 .. P - 2

-----------------------------------------------------------------------------

Init ==
    /\ \E s \in Setups :
          /\ call = s.call
          /\ tuples \in s.tables
          /\ file \in s.files
    /\ stage = "phase1"
    /\ pending = Parts
    /\ input = tuples

(***************************************************************************)
(* Phase 1, groupByAggregateBase(phase = 1) on partition i: aggCore over   *)
(* the local tuples, then write the boundary tuple to slot <<i, 0>>.       *)
(***************************************************************************)
Phase1(i) ==
    /\ stage = "phase1"
    /\ i \in pending
    /\ LET r == AggCore(tuples[i], TaskReverse)
       IN  /\ tuples' = [tuples EXCEPT ![i] = r[1]]
           /\ file' = [file EXCEPT ![<<i, 0>>] = r[2]]
    /\ pending' = pending \ {i}
    /\ UNCHANGED <<stage, input, call>>

(***************************************************************************)
(* Phase 2, groupByAggregateBase(phase = 2) on partition 0 after every     *)
(* phase-1 task has joined: read the P boundary tuples, fold them with     *)
(* aggCore, write one corrected tuple per receiving partition.  A missing  *)
(* slot makes read_file throw: the step is then never taken.  The local    *)
(* tuples of partition 0 are not changed.  Then the orchestrator starts    *)
(* the phase-3 tasks.                                                      *)
(***************************************************************************)
\* Fault variant: partition 0 starts phase 2 without joining the phase-1 tasks.
Phase2NoBarrier ==
    /\ stage = "phase1"
    /\ \A i \in Parts : file[<<i, 0>>] # NoFile
    /\ LET tups == [k \in 1 .. P |-> file[<<k - 1, 0>>]]
           out  == AggCore(tups, TaskReverse)[1]
           written == {Phase2Target(i) : i \in Phase2Sources}
       IN  file' = [s \in Slots |->
                      IF s[1] = 0 /\ s[2] \in written
                      THEN out[1 + CHOOSE i \in Phase2Sources : Phase2Target(i) = s[2]]
                      ELSE file[s]]
    /\ stage' = "phase3"
    /\ pending' = Phase3Parts
    /\ UNCHANGED <<tuples, input, call>>

Phase2 ==
    /\ stage = "phase1"
    /\ pending = {}
    /\ \A i \in Parts : file[<<i, 0>>] # NoFile
    /\ LET tups == [k \in 1 .. P |-> file[<<k - 1, 0>>]]
           out  == AggCore(tups, TaskReverse)[1]
           written == {Phase2Target(i) : i \in Phase2Sources}
       IN  file' = [s \in Slots |->
                      IF s[1] = 0 /\ s[2] \in written
                      THEN out[1 + CHOOSE i \in Phase2Sources : Phase2Target(i) = s[2]]
                      ELSE file[s]]
    /\ stage' = "phase3"
    /\ pending' = Phase3Parts
    /\ UNCHANGED <<tuples, input, call>>

(***************************************************************************)
(* Phase 3, _addValueByKey on partition i: read the one tuple of slot      *)
(* <<0, i>> and apply it to every local tuple.                             *)
(***************************************************************************)
Phase3(i) ==
    /\ stage = "phase3"
    /\ i \in pending
    /\ file[<<0, i>>] # NoFile
    /\ tuples' = [tuples EXCEPT ![i] =
                    [k \in DOMAIN tuples[i] |-> Apply(file[<<0, i>>], tuples[i][k])]]
    /\ pending' = pending \ {i}
    /\ UNCHANGED <<file, stage, input, call>>

\* The last phase-3 task has joined: groupByPrefixAggregate returns.
Return ==
    /\ stage = "phase3"
    /\ pending = {}
    /\ stage' = "done"
    /\ UNCHANGED <<tuples, file, pending, input, call>>

Next ==
    \/ \E i \in Parts : Phase1(i)
    \/ Phase2
    \/ \E i \in Parts : Phase3(i)
    \/ Return

\* Every partition task and the orchestrator keep running until they return.
Spec == Init /\ [][Next]_vars /\ WF_vars(Next)

-----------------------------------------------------------------------------
(***************************************************************************)
(* The reference: the prefix (suffix, when reverse) aggregate of the       *)
(* table read in partition order, over its non-dummy tuples.               *)
(***************************************************************************)
Positions == UNION {{<<p, k>> : k \in 1 .. Len(input[p])} : p \in Parts}

Row(pos) == input[pos[1]][pos[2]]

\* pos1 comes before pos2 in the global order of the table
Precedes(pos1, pos2) ==
    \/ pos1[1] < pos2[1]
    \/ pos1[1] = pos2[1] /\ pos1[2] < pos2[2]

Combine(x, y) ==
    CASE Op = "ADD" -> x + y
      [] Op = "MUL" -> x * y
      [] Op = "MAX" -> IF x > y THEN x ELSE y
      [] Op = "MIN" -> IF x < y THEN x ELSE y

\* The real tuples whose value the prefix aggregate of pos takes in
Contributors(pos) ==
    {q \in Positions \ {pos} :
        /\ ~Row(q).dummy
        /\ EqualInCols(Row(q), Row(pos))
        /\ IF Reverse THEN Precedes(pos, q) ELSE Precedes(q, pos)}

Expected(pos) ==
    MapThenFoldSet(Combine, Row(pos).val, LAMBDA q : Row(q).val,
                   LAMBDA S : CHOOSE q \in S : TRUE, Contributors(pos))

-----------------------------------------------------------------------------
Tuple == [key : Keys, val : Int, dummy : BOOLEAN]

TypeOK ==
    /\ tuples \in [Parts -> Seq(Tuple)]
    /\ file \in [Slots -> Tuple \cup {NoFile}]
    /\ stage \in {"phase1", "phase3", "done"}
    /\ pending \subseteq Parts

(***************************************************************************)
(* When groupByPrefixAggregate returns, every non-dummy tuple holds the    *)
(* aggregate of its group over itself and every non-dummy tuple before it  *)
(* (after it, when reverse) in the partition order: the carry of phase 2   *)
(* and 3 joins up the per-partition folds of phase 1.                      *)
(***************************************************************************)
PrefixCorrect ==
    stage = "done" =>
        \A pos \in Positions :
            ~Row(pos).dummy => tuples[pos[1]][pos[2]].val = Expected(pos)

(***************************************************************************)
(* Every call of groupByPrefixAggregate returns: no task waits forever on  *)
(* a slot that the protocol never writes.                                  *)
(***************************************************************************)
Termination == <>(stage = "done")

-----------------------------------------------------------------------------
(***************************************************************************)
(* Refinement: the protocol implements the one-step call of                *)
(* PrefixAggregateSpec.  Until the last phase-3 task has joined, the       *)
(* caller's table is the one it passed in; Return is the abstract step.    *)
(***************************************************************************)
CallerTable == IF stage = "done" THEN tuples ELSE input

Abs == INSTANCE PrefixAggregateSpec
           WITH view <- [p \in Parts |->
                           [k \in DOMAIN CallerTable[p] |->
                              IF CallerTable[p][k].dummy
                              THEN [CallerTable[p][k] EXCEPT !.val = 0]
                              ELSE CallerTable[p][k]]],
                done <- stage = "done"

(***************************************************************************)
(* Every behaviour of the three-phase protocol is a behaviour of the       *)
(* atomic call: on return each tuple has kept its partition, place, key    *)
(* and dummy flag, the real tuples hold their running aggregate, and the   *)
(* call does return.  Phase 1 rewrites the tuples in place through aggCore *)
(* and phase 3 through _addValueByKey, so a fold that also touched a key  *)
(* or a dummy flag would break it where PrefixCorrect would not.  The     *)
(* fairness of Abs!Spec, WF(Return), follows from this and Termination:   *)
(* Return is the only abstract step that sets done, so a behaviour that   *)
(* reaches stage = "done" takes it, and after it Return is disabled.      *)
(***************************************************************************)
ImplementsPrefixAggregateSpec == Abs!SafetySpec

=============================================================================
