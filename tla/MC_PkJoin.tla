------------------------------ MODULE MC_PkJoin ------------------------------
(***************************************************************************)
(* Model-checking instance of PkJoin: R and S split over P partitions.    *)
(* R rows have ids 0, 1, ...; S rows ids from 100, and an S row's columns  *)
(* are its id.                                                             *)
(***************************************************************************)
EXTENDS PkJoin

CONSTANTS
    RSizes,     \* the sizes of R's partitions: a set of functions Parts -> Nat
    SSize       \* rows per partition of S

\* a row: a real row of any key, or a dummy, which sorts after every real
\* row and carries the smallest key
Rows == (Keys \X {FALSE}) \cup {<<Min(Keys), TRUE>>}

Elem(jk, d, id, sv) ==
    [key |-> 0, dummy |-> d, tgt |-> 0, id |-> id, jk |-> jk, z |-> 0, src |-> -1, sval |-> sv]

\* partition i of R with sizes n: rows i * MaxRows + k
RTables(n) ==
    {[i \in Parts |-> [k \in 0 .. n[i] - 1 |-> Elem(kd[i][k][1], kd[i][k][2], i * MaxRows + k, NoVal)]] :
        kd \in [Parts -> [0 .. MaxRows - 1 -> Rows]]}

MCInitR == UNION {RTables(n) : n \in RSizes}

\* every partition of R holds MaxRows rows (after a sort, every partition
\* holds the sum of the size bounds)
BalancedSizes == {[i \in Parts |-> MaxRows]}

\* partitions of different sizes, as the files of a standalone call hold
\* (benchmark.cpp and test.cpp split their inputs into any P files)
UnbalancedSizes == {[i \in Parts |-> IF i = 0 THEN MaxRows ELSE MaxRows - 1]}

\* one partition of R holds no row
EmptyPartitionSizes == {[i \in Parts |-> IF i = 0 THEN MaxRows ELSE 0]}

\* S with unique real keys
UniqueS ==
    {t \in {[i \in Parts |-> [k \in 0 .. SSize - 1 |->
                Elem(kd[i][k][1], kd[i][k][2], 100 + i * SSize + k, 100 + i * SSize + k)]] :
              kd \in [Parts -> [0 .. SSize - 1 -> Rows]]} :
        \A p, q \in RealRows(t) : t[p[1]][p[2]].jk = t[q[1]][q[2]].jk => p = q}

\* S as computeDegrees passes it: remove_dup_after_prefix leaves a key once
\* per partition, so a key spanning partitions stays in each, every copy
\* with the key's degree as its column
DegreeS ==
    {t \in {[i \in Parts |-> [k \in 0 .. SSize - 1 |->
                Elem(kd[i][k][1], kd[i][k][2], 100 + i * SSize + k, 200 + kd[i][k][1])]] :
              kd \in [Parts -> [0 .. SSize - 1 -> Rows]]} :
        \A p, q \in RealRows(t) : t[p[1]][p[2]].jk = t[q[1]][q[2]].jk => p = q \/ p[1] # q[1]}

MCInitS == UniqueS \cup DegreeS

=====
