------------------------------ MODULE Expansion ------------------------------
(***************************************************************************)
(* GlobalTable::expansion(d_index, M) (App/src/GlobalTable.cpp:702-767)   *)
(* and its enclave side (Enclave/LocalTable.cpp: expansion_prepare,        *)
(* copyCol, add_and_calculate_col_t_p, expansion_distribute_and_clear,     *)
(* expansion_suffix_sum): every real row with multiplicity D > 0 becomes D *)
(* copies, laid out in input order over P partitions of m = ceil(M / P)    *)
(* rows each.                                                              *)
(*                                                                         *)
(* Column L is the running sum of D in partition order; a row goes to      *)
(* partition T = (L - 1) / m at place P = (L - 1) % m, the place of its    *)
(* last copy.  After a random shuffle and a shuffle by T, each partition   *)
(* compacts, sorts and distributes its rows to their places; the suffix    *)
(* sum then fills every gap with the next real row, inside a partition     *)
(* (phase 1) and across partitions through partition 0 (phase 2).          *)
(*                                                                         *)
(* A tuple is an ObliviousOps element with the columns the call reads: d   *)
(* (column D), l, t and p; id names the input row.  key holds the sort     *)
(* column of the current sort and tgt the target of a shuffle or of       *)
(* distribute.  Each parallel_for_each is a phase whose tasks run in any   *)
(* order and are joined before the next.                                   *)
(***************************************************************************)
EXTENDS ObliviousOps

CONSTANTS
    P,          \* utils::num_partitions
    NoFile,     \* the content of a slot nobody has written
    InitT       \* the calls: <<table, M>> pairs

VARIABLES
    tuples,     \* tuples[i]: m_tuples of partition i
    file,       \* the slot files of the table's global id
    stage,      \* the orchestrator's place in expansion
    pending,    \* partitions whose task of the current phase has not returned
    M,          \* the argument M
    tin         \* history: the table as the call received it

vars == <<tuples, file, stage, pending, M, tin>>

ES == INSTANCE Shuffle

Parts == ES!Parts

\* the phases of expansion in program order
Phases == <<"prepare", "prefix", "tp", "rand_write", "rand_read", "col_write",
            "col_read", "distribute", "suffix1", "suffix2_0", "suffix2", "done">>

PhaseIndex(s) == CHOOSE k \in DOMAIN Phases : Phases[k] = s

\* the partitions that run a task of phase s
Runners(s) ==
    CASE s = "suffix2_0" -> {0}
      [] s = "suffix2"   -> Parts \ {0}
      [] s \in {"prefix", "done"} -> {}
      [] OTHER -> Parts

\* m = M / P + (M % P != 0)
RowsPerPart == M \div P + (IF M % P # 0 THEN 1 ELSE 0)

\* C's / and % on int, which truncate toward zero
CDiv(a, b) == IF a < 0 THEN -((-a) \div b) ELSE a \div b
CMod(a, b) == a - b * CDiv(a, b)

(***************************************************************************)
(* getSizeBound(n, p) = ceil((1 + x) n / p) with x above                   *)
(* (KAPPA + 2 ln p) p / n, so it exceeds KAPPA = 40 ln 2 > 27 for every    *)
(* n; shuffleByCol clamps it to the table's size.                          *)
(***************************************************************************)
ColSizeBound == 28

-----------------------------------------------------------------------------
(* The local computations of the enclave LocalTable. *)

\* expansion_prepare (D := 0 on dummies), then copyCol (L := D)
Prepare(X) ==
    [k \in DOMAIN X |-> LET d == IF X[k].dummy THEN 0 ELSE X[k].d
                        IN  [X[k] EXCEPT !.d = d, !.l = d]]

\* the places up to <<i, k>> in partition order
UpTo(T, i, k) ==
    UNION {{<<j, q>> : q \in {q \in DOMAIN T[j] : j < i \/ q <= k}} : j \in 0 .. i}

(***************************************************************************)
(* groupByPrefixAggregate(ADD over L, no group-by column): L becomes the   *)
(* running sum of L in partition order.  This is the step of              *)
(* PrefixAggregateSpec, which the protocol refines for this very call      *)
(* (ExpansionSetup of the prefix_aggregate run).  Dummies hold D = 0 and   *)
(* aggCore folds them like real rows, so they get the same running sum.    *)
(***************************************************************************)
PrefixSumL(T) ==
    [i \in Parts |-> [k \in DOMAIN T[i] |->
        [T[i][k] EXCEPT !.l = MapThenSumSet(LAMBDA pos : T[pos[1]][pos[2]].l, UpTo(T, i, k))]]]

\* Fault variant: T and P from L instead of L - 1.
CalcColTPFromL(X, m) ==
    [k \in DOMAIN X |->
        [X[k] EXCEPT !.dummy = @ \/ X[k].d = 0,
                     !.t = CDiv(X[k].l, m),
                     !.p = CMod(X[k].l, m)]]

\* add_and_calculate_col_t_p(d_index, m): a row with D = 0 becomes a dummy
CalcColTP(X, m) ==
    [k \in DOMAIN X |->
        [X[k] EXCEPT !.dummy = @ \/ X[k].d = 0,
                     !.t = CDiv(X[k].l - 1, m),
                     !.p = CMod(X[k].l - 1, m)]]

\* Fault variant: no sort by P before distribute.
DistributeAndClearNoSort(X, m) ==
    LET Mk == [k \in DOMAIN X |-> IF X[k].dummy THEN 0 ELSE 1]
        C  == Compact(X, Mk, 0, Size(X))
        R  == [k \in 0 .. m - 1 |-> IF k < Size(C) THEN C[k] ELSE ES!PadTuple(C)]
    IN  Distribute([k \in DOMAIN R |-> [R[k] EXCEPT !.tgt = R[k].p]])

(***************************************************************************)
(* expansion_distribute_and_clear(m): compact the real rows to the front,  *)
(* sort by P, cut or pad (with a dummy copy of the first row) to m rows,   *)
(* distributeByCol(P), drop P, T and L.                                    *)
(***************************************************************************)
DistributeAndClear(X, m) ==
    LET Mk == [k \in DOMAIN X |-> IF X[k].dummy THEN 0 ELSE 1]
        C  == Compact(X, Mk, 0, Size(X))
        S  == Sort([k \in DOMAIN C |-> [C[k] EXCEPT !.key = C[k].p]], ByCols, TRUE)
        R  == [k \in 0 .. m - 1 |-> IF k < Size(S) THEN S[k] ELSE ES!PadTuple(S)]
    IN  Distribute([k \in DOMAIN R |-> [R[k] EXCEPT !.tgt = R[k].p]])

\* for (i = n - 1; i > 0; i--) cmove(X[i-1], X[i], X[i-1].is_dummy)
RECURSIVE SuffixFill(_, _)
SuffixFill(X, i) ==
    IF LoopDone(X, 0, i) THEN X
    ELSE SuffixFill(IF X[i - 1].dummy THEN [X EXCEPT ![i - 1] = X[i]] ELSE X, i - 1)

\* cmove(t, next, t.is_dummy) for every row t
FillDummies(X, next) == [k \in DOMAIN X |-> IF X[k].dummy THEN next ELSE X[k]]

\* a one-row slot file
OneRow(e) == [k \in {0} |-> e]

-----------------------------------------------------------------------------
Init ==
    /\ \E t \in InitT : tuples = t[1] /\ M = t[2]
    /\ file = [s \in ES!Slots |-> NoFile]
    /\ stage = "prepare"
    /\ pending = Parts
    /\ tin = tuples

\* parallel_for_each returns once every task has: the next phase starts
Join ==
    /\ stage \notin {"prefix", "done"}
    /\ pending = {}
    /\ LET next == Phases[PhaseIndex(stage) + 1]
       IN  /\ stage' = next
           /\ pending' = Runners(next)
    /\ UNCHANGED <<tuples, file, M, tin>>

\* a task of the current phase on partition i
Task(s, i) == stage = s /\ i \in pending /\ pending' = pending \ {i}

\* expansion_prepare(d_index); copyCol()
PrepareTask(i) ==
    /\ Task("prepare", i)
    /\ tuples' = [tuples EXCEPT ![i] = Prepare(tuples[i])]
    /\ UNCHANGED <<file, stage, M, tin>>

\* groupByPrefixAggregate(op_add), as one step of PrefixAggregateSpec
PrefixStep ==
    /\ stage = "prefix"
    /\ tuples' = PrefixSumL(tuples)
    /\ stage' = "tp"
    /\ pending' = Runners("tp")
    /\ UNCHANGED <<file, M, tin>>

\* add_and_calculate_col_t_p: an empty table returns at once
TPTask(i) ==
    /\ Task("tp", i)
    /\ tuples' = [tuples EXCEPT ![i] = CalcColTP(tuples[i], RowsPerPart)]
    /\ UNCHANGED <<file, stage, M, tin>>

\* randomShuffle(): the write and the read phase of GlobalTable::shuffle
RandWrite(i) ==
    /\ Task("rand_write", i)
    /\ ES!RandomShuffleWrite(i)
    /\ UNCHANGED <<stage, M, tin>>

RandRead(i) ==
    /\ Task("rand_read", i)
    /\ ES!ShuffleMerge(i)
    /\ UNCHANGED <<stage, M, tin>>

\* shuffle(SHUFFLE_BY_COL, {T}, -1, getSizeBound(m, P))
ColWrite(i) ==
    /\ Task("col_write", i)
    /\ ES!ShuffleByCol(i, "t", ColSizeBound)
    /\ UNCHANGED <<stage, M, tin>>

ColRead(i) ==
    /\ Task("col_read", i)
    /\ ES!ShuffleMerge(i)
    /\ UNCHANGED <<stage, M, tin>>

\* expansion_distribute_and_clear(m)
DistributeTask(i) ==
    /\ Task("distribute", i)
    /\ tuples' = [tuples EXCEPT ![i] = DistributeAndClear(tuples[i], RowsPerPart)]
    /\ UNCHANGED <<file, stage, M, tin>>

\* expansion_suffix_sum(1): fill inside the partition, write the first row to slot (i, 0)
Suffix1(i) ==
    /\ Task("suffix1", i)
    /\ LET X == SuffixFill(tuples[i], Size(tuples[i]) - 1)
       IN  /\ tuples' = [tuples EXCEPT ![i] = X]
           /\ file' = [file EXCEPT ![<<i, 0>>] = OneRow(X[0])]
    /\ UNCHANGED <<stage, M, tin>>

(***************************************************************************)
(* expansion_suffix_sum(2) on partition 0: read the first rows of every    *)
(* partition from slots (j, 0), fill them from the right, write row j to   *)
(* slot (0, j - 1) for j = 1 .. P-1; then, as every partition but the      *)
(* last, fill its dummies with the row of slot (0, id).                    *)
(***************************************************************************)
\* Fault variant: the write loop stops one row early.
Suffix2ZeroSkipLast ==
    /\ Task("suffix2_0", 0)
    /\ \A j \in Parts : file[<<j, 0>>] # NoFile
    /\ LET tups == SuffixFill([j \in Parts |-> file[<<j, 0>>][0]], P - 1)
           f1   == [s \in ES!Slots |->
                      IF s[1] = 0 /\ s[2] < P - 2 THEN OneRow(tups[s[2] + 1]) ELSE file[s]]
       IN  /\ file' = f1
           /\ tuples' = [tuples EXCEPT ![0] = FillDummies(tuples[0], f1[<<0, 0>>][0])]
    /\ UNCHANGED <<stage, M, tin>>

Suffix2Zero ==
    /\ Task("suffix2_0", 0)
    /\ \A j \in Parts : file[<<j, 0>>] # NoFile
    /\ LET tups == SuffixFill([j \in Parts |-> file[<<j, 0>>][0]], P - 1)
           f1   == [s \in ES!Slots |->
                      IF s[1] = 0 /\ s[2] < P - 1 THEN OneRow(tups[s[2] + 1]) ELSE file[s]]
       IN  /\ file' = f1
           /\ tuples' = [tuples EXCEPT ![0] = FillDummies(tuples[0], f1[<<0, 0>>][0])]
    /\ UNCHANGED <<stage, M, tin>>

\* expansion_suffix_sum(2) on partition i > 0: the last returns; the others
\* fill their dummies with the row of slot (0, i)
Suffix2(i) ==
    /\ Task("suffix2", i)
    /\ i < P - 1 => Size(file[<<0, i>>]) = 1
    /\ tuples' = IF i = P - 1 THEN tuples
                 ELSE [tuples EXCEPT ![i] = FillDummies(tuples[i], file[<<0, i>>][0])]
    /\ UNCHANGED <<file, stage, M, tin>>

Next ==
    \/ Join
    \/ PrefixStep
    \/ Suffix2Zero
    \/ \E i \in Parts :
          \/ PrepareTask(i) \/ TPTask(i) \/ RandWrite(i) \/ RandRead(i)
          \/ ColWrite(i) \/ ColRead(i) \/ DistributeTask(i) \/ Suffix1(i) \/ Suffix2(i)

Spec == Init /\ [][Next]_vars /\ WF_vars(Next)

-----------------------------------------------------------------------------
Stages == {Phases[k] : k \in DOMAIN Phases}

(***************************************************************************)
(* Every row keeps L in 0 .. M, T in -1 .. P-1 and P in -1 .. m-1: L - 1 = *)
(* -1 (a dummy before the first real row) gives T = 0 and P = -1 under     *)
(* C's truncation, or T = -1 when m = 1; the masked compare of            *)
(* _partition_rec ignores a dummy's target.                                *)
(***************************************************************************)
Row == [key : Int, dummy : BOOLEAN, tgt : Int, id : Int, d : Nat,
        l : 0 .. M, t : -1 .. P - 1, p : -1 .. RowsPerPart - 1]

TypeOK ==
    /\ stage \in Stages
    /\ pending \subseteq Parts
    /\ \A i \in Parts : \A k \in DOMAIN tuples[i] : tuples[i][k] \in Row

\* the real input rows with D > 0, as <<partition, position>>, and their copies
Expanded == UNION {{<<i, k>> : k \in {k \in Reals(tin[i]) : tin[i][k].d > 0}} : i \in Parts}

\* the number of copies before the first copy of row <<i, k>>
Offset(i, k) == MapThenSumSet(LAMBDA pos : tin[pos[1]][pos[2]].d,
                              {pos \in Expanded : pos \in UpTo(tin, i, k) /\ pos # <<i, k>>})

Total == MapThenSumSet(LAMBDA pos : tin[pos[1]][pos[2]].d, Expanded)

\* the input row whose copies cover output place g
Owner(g) == CHOOSE pos \in Expanded : Offset(pos[1], pos[2]) <= g
                                      /\ g < Offset(pos[1], pos[2]) + tin[pos[1]][pos[2]].d

(***************************************************************************)
(* expansion expands: when it returns, every partition holds m rows, and   *)
(* output place g = i * m + k holds a copy of the input row whose D copies *)
(* cover g in input order when g < sum of D, and a dummy after.  A row's   *)
(* copies are written by three separate mechanisms: its last copy moves   *)
(* to its place through two shuffles and distribute, the others are       *)
(* filled from the right inside a partition and across partitions.        *)
(***************************************************************************)
ExpansionCorrect ==
    stage = "done" =>
        \A i \in Parts :
            /\ Size(tuples[i]) = RowsPerPart
            /\ \A k \in DOMAIN tuples[i] :
                  LET g == i * RowsPerPart + k
                  IN  IF g < Total
                      THEN /\ ~tuples[i][k].dummy
                           /\ tuples[i][k].id = tin[Owner(g)[1]][Owner(g)[2]].id
                      ELSE tuples[i][k].dummy


\* a task of the current phase can run: a merge once every partition has
\* written its slot, phase 2 once its slots hold one row
CanRun(i) ==
    /\ i \in pending
    /\ stage \in {"rand_read", "col_read"} => ES!Readable(i)
    /\ stage = "suffix2_0" => \A j \in Parts : file[<<j, 0>>] # NoFile
    /\ stage = "suffix2" /\ i < P - 1 => Size(file[<<0, i>>]) = 1

(***************************************************************************)
(* expansion never stalls: until it returns, the prefix step or the join   *)
(* of the phase can be taken, or one of its tasks can run.  Every step     *)
(* takes a task out of pending or moves to a later phase, so a call that  *)
(* never stalls returns.  Phase 2 of the suffix sum reads slot (0, i),     *)
(* which the shuffle by T left holding a run of partition 0's table; a     *)
(* read that finds anything but the one row partition 0 wrote in phase 2  *)
(* logs an error and throws.                                               *)
(***************************************************************************)
NoStall ==
    stage # "done" => stage = "prefix" \/ pending = {} \/ \E i \in pending : CanRun(i)

=============================================================================
