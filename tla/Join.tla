-------------------------------- MODULE Join --------------------------------
(***************************************************************************)
(* GlobalTable::join (App/src/GlobalTable.cpp:561-611), called on S with R *)
(* after both are sorted by the join key (step 1).  computeDegrees gives   *)
(* every R row its self degree rr and S degree rs, and every S row ss and *)
(* sr; an R row without a matching S row (and the other way round) leaves *)
(* pkjoin as a dummy.  Step 2 expands R by rs and S by sr to M rows, m per *)
(* partition; step 3 numbers S's rows within their key (i) and gives each *)
(* the global number of its key's first row (j); step 4 computes where the *)
(* S row must go to stand beside its R partner, sends it there through a   *)
(* random shuffle and a shuffle by column T, and joinFinalCombine sorts    *)
(* each partition of S by column P and copies row k into R's row k.        *)
(*                                                                         *)
(* The calls whose protocol other modules check (groupByPrefixAggregate in *)
(* PrefixAggregate, pkjoin in PkJoin, expansion in Expansion) are one step *)
(* each here, giving the result those modules show them to give: the      *)
(* prefix aggregate of the real rows (PrefixAggregateSpec), pkjoin's       *)
(* placement of the matched rows, expansion's layout (ExpansionCorrect).   *)
(* Step 4 is modelled task by task over S's slot files.  A row is an       *)
(* ObliviousOps element with the join key jk, its id and the columns the   *)
(* join appends; the columns are present from the start (appendCol and     *)
(* deleteCol change only the layout).                                      *)
(***************************************************************************)
EXTENDS ObliviousOps

CONSTANTS
    P,          \* utils::num_partitions
    NoFile,     \* the content of a slot nobody has written
    InitRS      \* the <<R, S>> the call may receive, both sorted by jk

VARIABLES
    rt,         \* R: m_tuples per partition
    st, file,   \* S: m_tuples per partition, slot files of S's global id
    stage,      \* the orchestrator's place in join
    pending,    \* partitions whose task of the current phase has not returned
    M,          \* the output size r_table.sum(rs_col)
    rin, sin,   \* history: R and S as the call received them
    agg         \* the call r_table.sum(rs_col) and its tasks

vars == <<rt, st, file, stage, pending, M, rin, sin, agg>>

SS == INSTANCE Shuffle WITH tuples <- st

\* r_table.sum runs its tasks as threads in distributed mode; with TRUE the
\* tasks interleave in every order, the one-machine order among them
Sum == INSTANCE Aggregates WITH table <- rt, Distributed <- TRUE

Parts == SS!Parts

\* the phases of join in program order
Phases == <<"degrees", "expand_r", "expand_s", "step3", "align", "rand_write",
            "rand_read", "col_write", "col_read", "combine", "done">>

PhaseIndex(s) == CHOOSE k \in DOMAIN Phases : Phases[k] = s

\* the phases whose partitions run a task; the others are one step
TaskPhases == {"align", "rand_write", "rand_read", "col_write", "col_read", "combine"}

\* m = M / P + (M % P != 0), as expansion returns it
RowsPerPart == M \div P + (IF M % P # 0 THEN 1 ELSE 0)

\* Fault variant: the bound of an even split, m / P.
SizeBoundEvenSplit == RowsPerPart \div P

(***************************************************************************)
(* getSizeBound(m, P) exceeds every local table below ~27 rows (KAPPA =    *)
(* 40 ln 2), so shuffleByCol clamps it to the table's size.               *)
(***************************************************************************)
SizeBound == 28

-----------------------------------------------------------------------------
(* Tables as the caller sees them: places <<partition, position>>. *)

Pos(T) == UNION {{<<i, k>> : k \in DOMAIN T[i]} : i \in DOMAIN T}

At(T, p) == T[p[1]][p[2]]

RealPos(T) == {p \in Pos(T) : ~At(T, p).dummy}

\* the places before p in partition order
Earlier(T, p) == {q \in Pos(T) : q[1] < p[1] \/ (q[1] = p[1] /\ q[2] < p[2])}

\* the real places up to p whose key is jk
UpToKey(T, p, jk) == {q \in RealPos(T) : q \in Earlier(T, p) \cup {p} /\ At(T, q).jk = jk}

GroupSize(T, jk) == Cardinality({q \in RealPos(T) : At(T, q).jk = jk})

(***************************************************************************)
(* appendCol(1), groupByPrefixAggregate(ADD), then (MAX, reverse): the    *)
(* running count within the key, then its largest value over the key,    *)
(* i.e. the key's number of real rows, in column f of every real row.     *)
(***************************************************************************)
SelfDegree(T, f) ==
    [i \in DOMAIN T |-> [k \in DOMAIN T[i] |->
        IF T[i][k].dummy THEN T[i][k]
        ELSE [T[i][k] EXCEPT ![f] = GroupSize(T, T[i][k].jk)]]]

\* remove_dup_after_prefix: a row followed by a real row of its key becomes a dummy
RemoveDupAfterPrefix(X) ==
    [k \in DOMAIN X |->
        IF k + 1 < Size(X) /\ ~X[k + 1].dummy /\ X[k].jk = X[k + 1].jk
        THEN [X[k] EXCEPT !.dummy = TRUE] ELSE X[k]]

(***************************************************************************)
(* U.pkjoin(T): a real row of T whose key a real row u of U has receives   *)
(* u's column g in its column f; the others become dummies, and the final *)
(* sort by (key, Z) puts them after the matched rows of their partition.  *)
(***************************************************************************)
AttachDegree(T, U, f, g) ==
    LET Us == {At(U, q) : q \in RealPos(U)}
        Matched(e) == ~e.dummy /\ \E u \in Us : u.jk = e.jk
        Joined(e) == IF Matched(e) THEN [e EXCEPT ![f] = (CHOOSE u \in Us : u.jk = e.jk)[g]]
                     ELSE [e EXCEPT !.dummy = TRUE]
        Part(X) == LET Y == [k \in DOMAIN X |-> Joined(X[k])]
                       flag == [k \in DOMAIN X |-> IF Matched(X[k]) THEN 1 ELSE 0]
                   IN  SS!Cat(SS!Select(Y, flag, 1), SS!Select(Y, flag, 0))
    IN  [i \in DOMAIN T |-> Part(T[i])]

\* the sum of column f over the real rows of T
ColSum(T, f) == MapThenSumSet(LAMBDA q : At(T, q)[f], RealPos(T))

(***************************************************************************)
(* expansion(f, M): partition i holds m rows; place g = i * m + k holds   *)
(* the real row whose f copies cover g in input order, a dummy copy of the *)
(* first row after the sum of f.                                           *)
(***************************************************************************)
ExpandBy(T, f, m) ==
    LET Off(p) == MapThenSumSet(LAMBDA q : At(T, q)[f], Earlier(T, p) \cap RealPos(T))
        Own(g) == CHOOSE p \in RealPos(T) : Off(p) <= g /\ g < Off(p) + At(T, p)[f]
        pad == [At(T, Own(0)) EXCEPT !.dummy = TRUE]
    IN  [i \in Parts |-> [k \in 0 .. m - 1 |->
            IF i * m + k < ColSum(T, f) THEN At(T, Own(i * m + k)) ELSE pad]]

(***************************************************************************)
(* Step 3: appendCol(1) and ADD by key give i, the row's number within its *)
(* key; appendCol(1), ADD over the table and MIN by key give j, the        *)
(* running count of the key's first row.  The aggregates promise nothing   *)
(* of dummies, which keep appendCol's 1.                                   *)
(***************************************************************************)
Number(T) ==
    LET Run(q) == Cardinality({r \in RealPos(T) : r \in Earlier(T, q) \cup {q}})
        First(p) == {Run(q) : q \in UpToKey(T, p, At(T, p).jk)}
    IN  [i \in DOMAIN T |-> [k \in DOMAIN T[i] |->
            IF T[i][k].dummy THEN [T[i][k] EXCEPT !.i = 1, !.j = 1]
            ELSE [T[i][k] EXCEPT !.i = Cardinality(UpToKey(T, <<i, k>>, T[i][k].jk)),
                                 !.j = Min(First(<<i, k>>))]]]

-----------------------------------------------------------------------------
(* The local computations of step 4. *)

\* Fault variant: l counts from j, not from j - 1.
AlignFromJ(X, m) ==
    [k \in DOMAIN X |->
        LET e == X[k]
            degR == IF e.dummy THEN 1 ELSE e.sr
            l == (e.i - 1) \div degR + ((e.i - 1) % degR) * e.ss + e.j
        IN  [e EXCEPT !.p = l % m, !.t = l \div m]]

\* Fault variant: deg_r and deg_s read from each other's column.
AlignSwapDegrees(X, m) ==
    [k \in DOMAIN X |->
        LET e == X[k]
            degR == IF e.dummy THEN 1 ELSE e.ss
            l == (e.i - 1) \div degR + ((e.i - 1) % degR) * e.sr + e.j - 1
        IN  [e EXCEPT !.p = l % m, !.t = l \div m]]

(***************************************************************************)
(* joinComputeAlignment(m): with q = i - 1, deg_r = sr (set to 1 on a      *)
(* dummy) and deg_s = ss, l = q / deg_r + (q % deg_r) * deg_s + j - 1,     *)
(* P = l % m and T = l / m.  For a real row q, deg_r and j are positive    *)
(* and l < M, so the uint32 arithmetic of the code does not wrap.          *)
(***************************************************************************)
Alignment(X, m) ==
    [k \in DOMAIN X |->
        LET e == X[k]
            degR == IF e.dummy THEN 1 ELSE e.sr
            l == (e.i - 1) \div degR + ((e.i - 1) % degR) * e.ss + e.j - 1
        IN  [e EXCEPT !.p = l % m, !.t = l \div m]]

(***************************************************************************)
(* joinFinalCombine: sort S's rows by column P (real rows first), then R's *)
(* row k receives the non-join columns of S's row k, here its id.          *)
(***************************************************************************)
SortByP(X) == Sort([k \in DOMAIN X |-> [X[k] EXCEPT !.key = X[k].p]], ByCols, TRUE)

FinalCombine(Rx, Sy) == [k \in DOMAIN Rx |-> [Rx[k] EXCEPT !.sid = Sy[k].id]]

-----------------------------------------------------------------------------
Init ==
    /\ \E rs \in InitRS : rt = rs[1] /\ st = rs[2]
    /\ file = [s \in SS!Slots |-> NoFile]
    /\ stage = "degrees"
    /\ pending = {}
    /\ M = 0
    /\ rin = rt
    /\ sin = st
    /\ agg = Sum!NoCall

\* parallel_for_each returns once every task has: the next phase starts
Join ==
    /\ stage \in TaskPhases
    /\ pending = {}
    /\ LET next == Phases[PhaseIndex(stage) + 1]
       IN  /\ stage' = next
           /\ pending' = IF next = "done" THEN {} ELSE Parts
    /\ UNCHANGED <<rt, st, file, M, rin, sin, agg>>

\* a task of the current phase on partition i
Task(s, i) == stage = s /\ i \in pending /\ pending' = pending \ {i}

(***************************************************************************)
(* computeDegrees: self degrees of R and S; copies of S and R projected on *)
(* the key and the self degree, deduplicated within each partition, are   *)
(* pkjoined into R (rs) and into S (sr).                                   *)
(***************************************************************************)
Degrees ==
    /\ stage = "degrees"
    /\ LET R1 == SelfDegree(rt, "rr")
           S1 == SelfDegree(st, "ss")
           Dedup(T) == [i \in DOMAIN T |-> RemoveDupAfterPrefix(T[i])]
       IN  /\ rt' = AttachDegree(R1, Dedup(S1), "rs", "ss")
           /\ st' = AttachDegree(S1, Dedup(R1), "sr", "rr")
    /\ stage' = "expand_r"
    /\ UNCHANGED <<file, pending, M, rin, sin, agg>>

\* M = r_table.sum(rs_col): the call and the tasks of its partitions
SumCall ==
    /\ stage = "expand_r"
    /\ Sum!Call("sum", "rs")
    /\ UNCHANGED <<st, file, stage, pending, M, rin, sin>>

SumTask(i) ==
    /\ stage = "expand_r"
    /\ Sum!TaskStep(i)
    /\ UNCHANGED <<st, file, stage, pending, M, rin, sin>>

\* sum returns M; m = r_table.expansion(rs_col, M); deleteCol(rr_col)
ExpandR ==
    /\ stage = "expand_r"
    /\ Sum!Returned
    /\ M' = agg.ret
    /\ rt' = ExpandBy(rt, "rs", M' \div P + (IF M' % P # 0 THEN 1 ELSE 0))
    /\ stage' = "expand_s"
    /\ UNCHANGED <<st, file, pending, rin, sin, agg>>

\* expansion(sr_col, M, false)
ExpandS ==
    /\ stage = "expand_s"
    /\ st' = ExpandBy(st, "sr", RowsPerPart)
    /\ stage' = "step3"
    /\ UNCHANGED <<rt, file, pending, M, rin, sin, agg>>

\* step 3: the columns i and j
Step3 ==
    /\ stage = "step3"
    /\ st' = Number(st)
    /\ stage' = "align"
    /\ pending' = Parts
    /\ UNCHANGED <<rt, file, M, rin, sin, agg>>

AlignTask(i) ==
    /\ Task("align", i)
    /\ st' = [st EXCEPT ![i] = Alignment(st[i], RowsPerPart)]
    /\ UNCHANGED <<rt, file, stage, M, rin, sin, agg>>

\* randomShuffle()
RandWrite(i) ==
    /\ Task("rand_write", i)
    /\ SS!RandomShuffleWrite(i)
    /\ UNCHANGED <<rt, stage, M, rin, sin, agg>>

RandRead(i) ==
    /\ Task("rand_read", i)
    /\ SS!ShuffleMerge(i)
    /\ UNCHANGED <<rt, stage, M, rin, sin, agg>>

\* shuffle(SHUFFLE_BY_COL, {T}, -1, getSizeBound(m, P))
ColWrite(i) ==
    /\ Task("col_write", i)
    /\ SS!ShuffleByCol(i, "t", SizeBound)
    /\ UNCHANGED <<rt, stage, M, rin, sin, agg>>

ColRead(i) ==
    /\ Task("col_read", i)
    /\ SS!ShuffleMerge(i)
    /\ UNCHANGED <<rt, stage, M, rin, sin, agg>>

\* m_localTables[i].joinFinalCombine(r_table.m_localTables[i], ...)
CombineTask(i) ==
    /\ Task("combine", i)
    /\ LET Sy == SortByP(st[i])
       IN  /\ Size(rt[i]) <= Size(Sy)
           /\ st' = [st EXCEPT ![i] = Sy]
           /\ rt' = [rt EXCEPT ![i] = FinalCombine(rt[i], Sy)]
    /\ UNCHANGED <<file, stage, M, rin, sin, agg>>

Next ==
    \/ Join \/ Degrees \/ SumCall \/ ExpandR \/ ExpandS \/ Step3
    \/ \E i \in Parts :
          \/ SumTask(i)
          \/ AlignTask(i) \/ RandWrite(i) \/ RandRead(i)
          \/ ColWrite(i) \/ ColRead(i) \/ CombineTask(i)

Spec == Init /\ [][Next]_vars /\ WF_vars(Next)

-----------------------------------------------------------------------------
Stages == {Phases[k] : k \in DOMAIN Phases}

TypeOK ==
    /\ stage \in Stages
    /\ pending \subseteq Parts
    /\ M \in Nat
    /\ \A i \in Parts : \A k \in DOMAIN st[i] :
          stage \in {"rand_write", "rand_read", "col_write", "col_read"} =>
              st[i][k].t \in Parts /\ st[i][k].p \in 0 .. RowsPerPart - 1
    /\ \A s \in SS!Slots : file[s] = NoFile \/ DOMAIN file[s] = 0 .. Size(file[s]) - 1

\* the pairs of an R and an S row with the same key, by id
Pairs == {<<At(rin, p).id, At(sin, q).id>> :
            <<p, q>> \in {pq \in RealPos(rin) \X RealPos(sin) : At(rin, pq[1]).jk = At(sin, pq[2]).jk}}

(***************************************************************************)
(* join joins: when it returns, M is the number of pairs of an R and an S  *)
(* row with the same key, R holds M real rows, and the (R id, S id) of     *)
(* these rows are exactly those pairs, each once.  The S row of a pair is  *)
(* placed beside its R row only by the index arithmetic of                 *)
(* joinComputeAlignment over the numbering of step 3, through two         *)
(* shuffles, and by the row order of joinFinalCombine's sort.              *)
(***************************************************************************)
JoinCorrect ==
    stage = "done" =>
        /\ M = Cardinality(Pairs)
        /\ Cardinality(RealPos(rt)) = M
        /\ {<<At(rt, p).id, At(rt, p).sid>> : p \in RealPos(rt)} = Pairs

\* a task of the current phase can run: a merge once every partition has
\* written its slot, a combine once S's partition holds R's rows
CanRun(i) ==
    /\ i \in pending
    /\ stage \in {"rand_read", "col_read"} => SS!Readable(i)
    /\ stage = "combine" => Size(rt[i]) <= Size(st[i])

(***************************************************************************)
(* join never stalls: until it returns, a step of its own, the join of the *)
(* phase or one of its tasks can be taken.  Every step moves to a later    *)
(* phase or takes a task out of pending, so the state graph has no cycle   *)
(* and a call that never stalls returns.  A merge whose slot nobody wrote  *)
(* (shuffle of an empty table) would wait forever.                         *)
(***************************************************************************)
NoStall ==
    stage # "done" => stage \notin TaskPhases \/ pending = {} \/ \E i \in pending : CanRun(i)

=============================================================================
