------------------------------- MODULE PkJoin -------------------------------
(***************************************************************************)
(* GlobalTable::pkjoin (App/src/GlobalTable.cpp:612-700), called on the   *)
(* table S whose join key is unique, with the table R whose rows receive   *)
(* the non-join columns of the matching S row.  R is locally sorted and    *)
(* tagged with its partition I and with Z = 0 on the first row of each key *)
(* (the representative) and Z = position on the others; S is tagged        *)
(* I = -1, Z = 0.  Both are shuffled by hash(key, Z), which brings every   *)
(* representative to the partition of its S row; pkJoinCombine copies the  *)
(* S columns into the representatives there, R is shuffled back by column *)
(* I, and finalizePkjoinResult copies them from each representative into   *)
(* the other rows of its key.                                              *)
(*                                                                         *)
(* A tuple is an ObliviousOps element with the columns the protocol reads: *)
(* jk (the join key), z, src (column I) and sval (the S columns in the R   *)
(* layout, NoVal until copied).  key holds the sort columns of the current *)
(* sort as one number with their lexicographic order.  R and S are separate*)
(* GlobalTables with their own global id, hence their own slot files.      *)
(* Each parallel_for_each is a phase whose partition tasks run in any      *)
(* order and are joined before the next.  The column alignment and         *)
(* deletion phases (addCol(DUMMY_VAL), deleteCol) change only the layout   *)
(* and are left out.                                                       *)
(***************************************************************************)
EXTENDS ObliviousOps

CONSTANTS
    P,          \* utils::num_partitions
    NoFile,     \* the content of a slot nobody has written
    Keys,       \* join-key values
    MaxRows,    \* the largest local table of R: Z ranges over 0 .. MaxRows - 1
    NoVal,      \* utils::DUMMY_VAL in the S columns of an R row
    InitR,      \* the tables R the call may receive
    InitS       \* the tables S the call may receive (unique real keys)

VARIABLES
    rt, rfile,  \* R: m_tuples per partition, slot files of R's global id
    st, sfile,  \* S: the same for S
    stage,      \* the orchestrator's place in pkjoin
    pending,    \* partitions whose task of the current phase has not returned
    bound,      \* the size bound of the shuffle in progress
    hash,       \* Tuple::hash over (join key, Z) with the call's seed, mod P
    rin, sin    \* history: R and S as the call received them

vars == <<rt, rfile, st, sfile, stage, pending, bound, hash, rin, sin>>

RS == INSTANCE Shuffle WITH tuples <- rt, file <- rfile
SS == INSTANCE Shuffle WITH tuples <- st, file <- sfile

Parts == RS!Parts

Zs == 0 .. MaxRows - 1

\* the phases of pkjoin in program order
Phases == <<"r_prepare", "r_key_write", "r_key_read", "s_prepare", "s_key_write",
            "s_key_read", "combine", "r_col_write", "r_col_read", "finalize", "done">>

PhaseIndex(s) == CHOOSE k \in DOMAIN Phases : Phases[k] = s

-----------------------------------------------------------------------------
(* The local computations of the enclave LocalTable. *)

\* a radix above every column value plus one (src is -1 for S's rows)
ColBase == MaxRows + P + 2 + Max(Keys)

\* the columns cols of e as one number with their lexicographic order
ColsKey(e, cols) == FoldLeft(LAMBDA acc, c : acc * ColBase + e[c] + 1, 0, cols)

\* obliv::sort(m_tuples, columns): less_in_cols over the columns cols
SortByCols(X, cols) == Sort([k \in DOMAIN X |-> [X[k] EXCEPT !.key = ColsKey(X[k], cols)]], ByCols, TRUE)

\* new_join_cols; combine_sort_cols (join cols, Z, I); r_shuffle_cols and
\* result_sort_cols (join cols, Z)
JoinCols        == <<"jk">>
CombineSortCols == <<"jk", "z", "src">>
KeyZCols        == <<"jk", "z">>

\* Fault variant: Z := i + 1, counting positions from one.
ModifyColZFromOne(X) ==
    [k \in DOMAIN X |-> IF k >= 1 /\ X[k].jk = X[k - 1].jk THEN [X[k] EXCEPT !.z = k + 1] ELSE X[k]]

\* foreignTableModifyColZ: Z := i when row i has the key of row i-1
ModifyColZ(X) ==
    [k \in DOMAIN X |-> IF k >= 1 /\ X[k].jk = X[k - 1].jk THEN [X[k] EXCEPT !.z = k] ELSE X[k]]

(***************************************************************************)
(* pkJoinCombine, the loop over the rows sorted by (key, Z, I): a          *)
(* representative of R copies the S columns of the row before it when that *)
(* row is real and has its key, and becomes a dummy when it is not.        *)
(***************************************************************************)
RECURSIVE CombineLoop(_, _)
CombineLoop(X, k) ==
    IF k >= Size(X) THEN X
    ELSE LET prev == X[k - 1]
             next == X[k]
             eq   == next.jk = prev.jk
             cond == ~prev.dummy /\ eq /\ next.z = 0
             n1   == IF cond THEN [next EXCEPT !.sval = prev.sval] ELSE next
             n2   == [n1 EXCEPT !.dummy = @ \/ ((prev.dummy \/ ~eq) /\ next.z = 0 /\ next.src # -1)]
         IN  CombineLoop([X EXCEPT ![k] = n2], k + 1)

\* Fault variant: the rows of S are kept by the compaction.
PkJoinCombineKeepS(Rx, Sx) ==
    LET X == RS!Cat(Rx, Sx)
        Y == SortByCols(X, CombineSortCols)
        Y0 == [Y EXCEPT ![0].dummy = @ \/ (Y[0].z = 0 /\ Y[0].src # -1)]
        Y1 == CombineLoop(Y0, 1)
    IN  IF Size(X) = 0 THEN X ELSE [k \in 0 .. Size(Rx) - 1 |-> Y1[k]]

\* append S's local rows, sort, copy, compact the R rows to the front, cut to R's size
PkJoinCombine(Rx, Sx) ==
    LET X == RS!Cat(Rx, Sx)
        Y == SortByCols(X, CombineSortCols)
        Y0 == [Y EXCEPT ![0].dummy = @ \/ (Y[0].z = 0 /\ Y[0].src # -1)]
        Y1 == CombineLoop(Y0, 1)
        M  == [k \in DOMAIN Y1 |-> IF Y1[k].src # -1 THEN 1 ELSE 0]
        C  == Compact(Y1, M, 0, Size(Y1))
    IN  IF Size(X) = 0 THEN X ELSE [k \in 0 .. Size(Rx) - 1 |-> C[k]]

(***************************************************************************)
(* finalizePkjoinResult, the loop over R's rows sorted by (key, Z): a row  *)
(* copies the S columns of the row before it when that row is real and    *)
(* has its key; a non-representative becomes a dummy when it is not.       *)
(***************************************************************************)
RECURSIVE FinalizeLoop(_, _)
FinalizeLoop(X, k) ==
    IF k >= Size(X) THEN X
    ELSE LET prev == X[k - 1]
             next == X[k]
             eq   == next.jk = prev.jk
             n1   == IF ~prev.dummy /\ eq THEN [next EXCEPT !.sval = prev.sval] ELSE next
             n2   == [n1 EXCEPT !.dummy = @ \/ ((prev.dummy \/ ~eq) /\ next.z # 0)]
         IN  FinalizeLoop([X EXCEPT ![k] = n2], k + 1)

FinalizePkjoinResult(X) ==
    LET Y == SortByCols(X, KeyZCols)
    IN  FinalizeLoop([Y EXCEPT ![0].dummy = @ \/ Y[0].z # 0], 1)

-----------------------------------------------------------------------------
Init ==
    /\ rt \in InitR
    /\ st \in InitS
    /\ rfile = [s \in RS!Slots |-> NoFile]
    /\ sfile = [s \in SS!Slots |-> NoFile]
    /\ hash \in [Keys \X Zs -> Parts]
    /\ stage = "r_prepare"
    /\ pending = Parts
    /\ bound = 0
    /\ rin = rt
    /\ sin = st

\* the largest local table (GlobalTable::shuffle's max_n)
MaxSize(T) == Max({Size(T[i]) : i \in Parts})

(***************************************************************************)
(* getSizeBound(max_n, P) exceeds max_n for every table under ~27 rows per *)
(* partition (KAPPA = 40 ln 2), so GlobalTable::shuffle clamps it to       *)
(* max_n.                                                                  *)
(***************************************************************************)
SizeBoundByKey(T) == MaxSize(T)

(***************************************************************************)
(* parallel_for_each returns once every task has: the next phase starts.  *)
(* A shuffle by key first takes the size bound from every table (the      *)
(* max_n loop); the shuffle back by column uses loc_size / num_partitions, *)
(* loc_size being the size of R's partition 0.                             *)
(***************************************************************************)
Join ==
    /\ stage \notin {"done", "failed"}
    /\ pending = {}
    /\ LET next == Phases[PhaseIndex(stage) + 1]
       IN  /\ stage' = next
           /\ pending' = IF next = "done" THEN {} ELSE Parts
           /\ bound' = CASE next = "r_key_write" -> SizeBoundByKey(rt)
                         [] next = "s_key_write" -> SizeBoundByKey(st)
                         [] next = "r_col_write" -> Size(rt[0]) \div P
                         [] OTHER -> bound
    /\ UNCHANGED <<rt, rfile, st, sfile, hash, rin, sin>>

\* a task of the current phase on partition i
Task(s, i) == stage = s /\ i \in pending /\ pending' = pending \ {i}

\* localSort(join cols); addCol(id) (column I); addCol(0) (column Z); foreignTableModifyColZ
RPrepare(i) ==
    /\ Task("r_prepare", i)
    /\ rt' = [rt EXCEPT ![i] =
                ModifyColZ([k \in DOMAIN rt[i] |->
                              [SortByCols(rt[i], JoinCols)[k] EXCEPT !.src = i, !.z = 0]])]
    /\ UNCHANGED <<rfile, st, sfile, stage, bound, hash, rin, sin>>

\* r_table.shuffle(SHUFFLE_BY_KEY, join cols + Z): the write and the read phase
RKeyWrite(i) ==
    /\ Task("r_key_write", i)
    /\ RS!ShuffleByKey(i, KeyZCols, hash, bound)
    /\ UNCHANGED <<st, sfile, stage, bound, hash, rin, sin>>

RKeyRead(i) ==
    /\ Task("r_key_read", i)
    /\ RS!ShuffleMerge(i)
    /\ UNCHANGED <<st, sfile, stage, bound, hash, rin, sin>>

\* addCol(-1) (column I); addCol(0) (column Z)
SPrepare(i) ==
    /\ Task("s_prepare", i)
    /\ st' = [st EXCEPT ![i] = [k \in DOMAIN st[i] |-> [st[i][k] EXCEPT !.src = -1, !.z = 0]]]
    /\ UNCHANGED <<rt, rfile, sfile, stage, bound, hash, rin, sin>>

\* shuffle(SHUFFLE_BY_KEY, join cols + Z) of S with the same seed
SKeyWrite(i) ==
    /\ Task("s_key_write", i)
    /\ SS!ShuffleByKey(i, KeyZCols, hash, bound)
    /\ UNCHANGED <<rt, rfile, stage, bound, hash, rin, sin>>

SKeyRead(i) ==
    /\ Task("s_key_read", i)
    /\ SS!ShuffleMerge(i)
    /\ UNCHANGED <<rt, rfile, stage, bound, hash, rin, sin>>

\* r_table.getLocalTables()[i].pkJoinCombine(..., S's local table i)
Combine(i) ==
    /\ Task("combine", i)
    /\ rt' = [rt EXCEPT ![i] = PkJoinCombine(rt[i], st[i])]
    /\ UNCHANGED <<rfile, st, sfile, stage, bound, hash, rin, sin>>

\* r_table.shuffle(SHUFFLE_BY_COL, column I, loc_size / P)
RColWrite(i) ==
    /\ Task("r_col_write", i)
    /\ RS!ShuffleByCol(i, "src", bound)
    /\ UNCHANGED <<st, sfile, stage, bound, hash, rin, sin>>

RColRead(i) ==
    /\ Task("r_col_read", i)
    /\ RS!ShuffleMerge(i)
    /\ UNCHANGED <<st, sfile, stage, bound, hash, rin, sin>>

\* finalizePkjoinResult(join cols + Z): an empty table logs an error and
\* writes m_tuples[0], past the end: the job fails
Finalize(i) ==
    /\ Task("finalize", i)
    /\ \/ /\ Size(rt[i]) > 0
          /\ rt' = [rt EXCEPT ![i] = FinalizePkjoinResult(rt[i])]
          /\ UNCHANGED stage
       \/ /\ Size(rt[i]) = 0
          /\ stage' = "failed"
          /\ UNCHANGED rt
    /\ UNCHANGED <<rfile, st, sfile, bound, hash, rin, sin>>

Next ==
    \/ Join
    \/ \E i \in Parts :
          \/ RPrepare(i) \/ RKeyWrite(i) \/ RKeyRead(i)
          \/ SPrepare(i) \/ SKeyWrite(i) \/ SKeyRead(i)
          \/ Combine(i) \/ RColWrite(i) \/ RColRead(i) \/ Finalize(i)

Spec == Init /\ [][Next]_vars /\ WF_vars(Next)

-----------------------------------------------------------------------------
Stages == {Phases[k] : k \in DOMAIN Phases} \cup {"failed"}

Row == [key : Int, dummy : BOOLEAN, tgt : Int, id : Int, jk : Keys, z : Zs, src : -1 .. P - 1, sval : Int \cup {NoVal}]

TypeOK ==
    /\ stage \in Stages
    /\ pending \subseteq Parts
    /\ \A i \in Parts : \A k \in DOMAIN rt[i] : rt[i][k] \in Row
    /\ \A s \in RS!Slots : rfile[s] = NoFile \/ DOMAIN rfile[s] = 0 .. Size(rfile[s]) - 1

\* the real rows of a table, as <<partition, position>>
RealRows(T) == UNION {{<<i, k>> : k \in Reals(T[i])} : i \in Parts}

\* the real rows of S, and the real rows of R whose key has one
RealS == {sin[p[1]][p[2]] : p \in RealRows(sin)}
MatchedR == {rin[p[1]][p[2]] : p \in {q \in RealRows(rin) : \E s \in RealS : s.jk = rin[q[1]][q[2]].jk}}

(***************************************************************************)
(* pkjoin joins: when it returns, R's real rows are exactly its input rows *)
(* whose key S holds, each once, each carrying the S columns of the S row  *)
(* with its key (spec.md: Join correctness, PK mode).  The representative  *)
(* meets its S row only after two hash shuffles, and the other rows of its *)
(* key get the S columns only after the shuffle back and the finalize.    *)
(***************************************************************************)
PkJoinCorrect ==
    stage = "done" =>
        /\ \A r \in MatchedR : Cardinality({p \in RealRows(rt) : rt[p[1]][p[2]].id = r.id}) = 1
        /\ \A p \in RealRows(rt) :
              \E r \in MatchedR, s \in RealS :
                  /\ rt[p[1]][p[2]].id = r.id /\ rt[p[1]][p[2]].jk = r.jk
                  /\ s.jk = r.jk /\ rt[p[1]][p[2]].sval = s.sval
\* a task of the current phase can run: a merge only once every partition
\* has written its slot
CanRun(i) ==
    /\ i \in pending
    /\ stage \in {"r_key_read", "r_col_read"} => RS!Readable(i)
    /\ stage = "s_key_read" => SS!Readable(i)

(***************************************************************************)
(* pkjoin never stalls: until it has returned, the phase can end or one    *)
(* of its tasks can run.  Every step takes a task out of pending or moves  *)
(* to a later phase, so the state graph has no cycle and a call that never *)
(* stalls returns.  A merge whose slot no partition writes (shuffleByKey   *)
(* of an empty table returns before shuffleWrite) waits forever, and a     *)
(* finalize on an empty table fails the job.                               *)
(***************************************************************************)
NoStall ==
    stage # "done" =>
        /\ stage # "failed"
        /\ pending = {} \/ \E i \in pending : CanRun(i)

=============================================================================
