----------------------------- MODULE SampleSort -----------------------------
(***************************************************************************)
(* GlobalTable::sort (App/src/GlobalTable.cpp:769-790): a random shuffle,  *)
(* pivots taken from the quantiles of partition 0, a partition of every    *)
(* table by those pivots into P runs of a size bound, and a merge with a   *)
(* local oblivious sort.  Each parallel_for_each is a phase whose tasks    *)
(* run in any order (threads in distributed mode) and are joined before    *)
(* the next phase; stage is the orchestrator's place and pending the tasks *)
(* of the current phase that have not returned.                            *)
(***************************************************************************)
EXTENDS Shuffle

CONSTANTS
    Keys,       \* sort-column values
    InitTables, \* the tables a call may receive
    InitFiles   \* the slot and pivot files before the call

VARIABLES
    stage,      \* "shuffle_write", "shuffle_read", "pivots", "partition", "merge", "done", "failed"
    pending,    \* partitions whose task of the current phase has not returned
    pfile,      \* pfile[t]: the pivot file gid_lid0_tlid<t>_pivots
    n0,         \* m_localTables[0].size() after the random shuffle
    input,      \* history: the table as the call received it
    skipped     \* history: the partitions whose partitionByPivots found no tuple

vars == <<tuples, file, stage, pending, pfile, n0, input, skipped>>

ParallelStages == {"shuffle_write", "shuffle_read", "partition", "merge"}

NextStage == [shuffle_write |-> "shuffle_read", shuffle_read |-> "pivots",
              partition |-> "merge", merge |-> "done"]

(***************************************************************************)
(* size_bound_for_sorting(N, p, n0, ni) is min(U, ni) for a Chernoff bound *)
(* U >= (1 + c1) * ni / p with c1 > 2 * (KAPPA + 1) * p / n0; with KAPPA   *)
(* = 40 ln 2 it exceeds ni whenever n0 < 50 p, as in every table here, so  *)
(* the bound is ni.  With n0 = 0 the division yields infinity and the cast *)
(* to int is undefined.                                                    *)
(***************************************************************************)
SizeBoundForSorting(ni) == ni

\* computeQuatileIndex(n, p)[k]: the first position of the k-th of p near-equal runs
QuantileIndex(n, k) ==
    LET q == n \div P
        r == n % P
    IN  IF k <= r THEN k * (q + 1) ELSE r * (q + 1) + (k - r) * q

\* a tuple read past the end of m_tuples: any value the memory may hold
GarbageTuples == [key : Keys, dummy : BOOLEAN, tgt : {0}, id : {-1}]

\* m_tuples[index[k]], which reads past the end when index[k] >= n
PivotChoices(S, k) ==
    IF QuantileIndex(Size(S), k) < Size(S) THEN {S[QuantileIndex(Size(S), k)]} ELSE GarbageTuples

\* fault variant: the pivot loop runs to i <= num_partitions
PivotSetsInclusive(S) == [j \in 0 .. P - 1 |-> PivotChoices(S, j + 1)]

\* for (i = 1; i < num_partitions; i++) pivots.push_back(m_tuples[index[i]])
PivotSets(S) == [j \in 0 .. P - 2 |-> PivotChoices(S, j + 1)]

Init ==
    /\ tuples \in InitTables
    /\ file \in InitFiles
    /\ pfile = [t \in Parts |-> NoFile]
    /\ stage = "shuffle_write"
    /\ pending = Parts
    /\ n0 = 0
    /\ input = tuples
    /\ skipped = {}

\* parallel_for_each returns once every task has: the next phase starts
Join ==
    /\ stage \in ParallelStages
    /\ pending = {}
    /\ stage' = NextStage[stage]
    /\ pending' = IF NextStage[stage] \in ParallelStages THEN Parts ELSE {}
    /\ n0' = IF stage = "shuffle_read" THEN Size(tuples[0]) ELSE n0
    /\ UNCHANGED <<tuples, file, pfile, input, skipped>>

\* randomShuffle, write phase: LocalTable::randomShuffle on partition i
RandomShuffleTask(i) ==
    /\ stage = "shuffle_write" /\ i \in pending
    /\ RandomShuffleWrite(i)
    /\ pending' = pending \ {i}
    /\ UNCHANGED <<stage, pfile, n0, input, skipped>>

\* randomShuffle, read phase: shuffleMerge on partition i
ShuffleMergeTask(i) ==
    /\ stage = "shuffle_read" /\ i \in pending
    /\ ShuffleMerge(i)
    /\ pending' = pending \ {i}
    /\ UNCHANGED <<stage, pfile, n0, input, skipped>>

(***************************************************************************)
(* getPivots on partition 0: sort m_tuples in place, take the tuples at    *)
(* the quantile positions 1 .. P-1 and write them to every pivot file.     *)
(***************************************************************************)
GetPivots ==
    /\ stage = "pivots"
    /\ LET S == Sort(tuples[0], ByCols, TRUE)
           C == PivotSets(S)
       IN  /\ \E pv \in {f \in [DOMAIN C -> UNION {C[j] : j \in DOMAIN C}] : \A j \in DOMAIN C : f[j] \in C[j]} :
                 pfile' = [t \in Parts |-> pv]
           /\ tuples' = [tuples EXCEPT ![0] = S]
    /\ stage' = "partition"
    /\ pending' = Parts
    /\ UNCHANGED <<file, n0, input, skipped>>

(***************************************************************************)
(* partitionByPivots on partition i: read the pivot file; an empty table   *)
(* returns without writing its slots; otherwise partition into P runs of   *)
(* the size bound, padded with a dummy copy of the first tuple, and write  *)
(* run t to slot (i, t).  With n0 = 0 the size bound is undefined and the  *)
(* padding count passed to vector::insert is negative: the task throws and *)
(* the job fails.                                                          *)
(***************************************************************************)
PartitionByPivotsTask(i) ==
    /\ stage = "partition" /\ i \in pending
    /\ pfile[i] # NoFile
    /\ \/ /\ Size(tuples[i]) = 0
          /\ pending' = pending \ {i}
          /\ skipped' = skipped \cup {i}
          /\ UNCHANGED <<tuples, file, stage>>
       \/ /\ Size(tuples[i]) > 0 /\ n0 = 0
          /\ stage' = "failed"
          /\ UNCHANGED <<tuples, file, pending, skipped>>
       \/ /\ Size(tuples[i]) > 0 /\ n0 > 0
          /\ LET U == SizeBoundForSorting(Size(tuples[i]))
                 Y == Partition(tuples[i], P - 1, U, PadTuple(tuples[i]), [by |-> ByCols, pv |-> pfile[i]])
             IN  /\ tuples' = [tuples EXCEPT ![i] = Y]
                 /\ ShuffleWrite(i, [t \in Parts |-> Run(Y, U, t)])
          /\ pending' = pending \ {i}
          /\ UNCHANGED <<stage, skipped>>
    /\ UNCHANGED <<pfile, n0, input>>

\* fault variant: the merge without the local sort (shuffleMerge)
SortMergeNoSort(i) ==
    /\ stage = "merge" /\ i \in pending
    /\ Readable(i)
    /\ tuples' = [tuples EXCEPT ![i] = RefreshAndMerge(i)]
    /\ pending' = pending \ {i}
    /\ UNCHANGED <<file, stage, pfile, n0, input, skipped>>

\* sortMerge on partition i: refreshAndMerge, then the local oblivious sort
SortMergeTask(i) ==
    /\ stage = "merge" /\ i \in pending
    /\ Readable(i)
    /\ tuples' = [tuples EXCEPT ![i] = Sort(RefreshAndMerge(i), ByCols, TRUE)]
    /\ pending' = pending \ {i}
    /\ UNCHANGED <<file, stage, pfile, n0, input, skipped>>

Next ==
    \/ Join
    \/ GetPivots
    \/ \E i \in Parts :
          \/ RandomShuffleTask(i)
          \/ ShuffleMergeTask(i)
          \/ PartitionByPivotsTask(i)
          \/ SortMergeTask(i)

Spec == Init /\ [][Next]_vars /\ WF_vars(Next)

-----------------------------------------------------------------------------
Stages == {"shuffle_write", "shuffle_read", "pivots", "partition", "merge", "done", "failed"}

TypeOK ==
    /\ stage \in Stages
    /\ pending \subseteq Parts
    /\ skipped \subseteq Parts
    /\ n0 \in Nat
    /\ \A s \in Slots : file[s] = NoFile \/ DOMAIN file[s] = 0 .. Size(file[s]) - 1
    /\ \A t \in Parts : pfile[t] = NoFile \/ DOMAIN pfile[t] = 0 .. P - 2

\* the positions <<i, k>> of table T that hold a tuple equal to e
Holding(T, e) == UNION {{<<i, k>> : k \in {k2 \in DOMAIN T[i] : T[i][k2] = e}} : i \in Parts}

\* the tuples of table T, dummies included
AllTuples(T) == UNION {{T[i][k] : k \in DOMAIN T[i]} : i \in Parts}

\* the real tuples of table T
RealTuples(T) == UNION {{T[i][k] : k \in Reals(T[i])} : i \in Parts}

\* T holds the real tuples of the input, each exactly once, and no other
SameRealTuples(T) ==
    /\ RealTuples(T) = RealTuples(input)
    /\ \A e \in RealTuples(input) : Cardinality(Holding(T, e)) = 1

\* every real tuple of a partition precedes, in key order, those of later partitions and later positions
GloballyOrdered(T) ==
    \A i, j \in Parts : \A k \in Reals(T[i]) : \A l \in Reals(T[j]) :
        (i < j \/ (i = j /\ k < l)) => T[i][k].key <= T[j][l].key

(***************************************************************************)
(* The random shuffle of sort loses and repeats nothing: when the read     *)
(* phase has joined, the partitions hold exactly the tuples of the input,  *)
(* dummies included, each as often as before, whatever targets the tasks   *)
(* drew and in whatever order they wrote and merged.                       *)
(***************************************************************************)
ShuffleKeepsTable ==
    stage = "pivots" =>
        /\ AllTuples(tuples) = AllTuples(input)
        /\ \A e \in AllTuples(input) : Cardinality(Holding(tuples, e)) = Cardinality(Holding(input, e))

(***************************************************************************)
(* GlobalTable::sort returns a sorted table: when it returns, the real     *)
(* tuples are those of the input, each once, in key order across the       *)
(* partitions in order.                                                    *)
(***************************************************************************)
SortCorrect ==
    stage = "done" => SameRealTuples(tuples) /\ GloballyOrdered(tuples)

(***************************************************************************)
(* The same, for the runs in which every partition still held a tuple when *)
(* partitionByPivots ran, so that every partition rewrote its slots.       *)
(***************************************************************************)
SortCorrectUnlessSkipped ==
    stage = "done" /\ skipped = {} => SameRealTuples(tuples) /\ GloballyOrdered(tuples)

=============================================================================
