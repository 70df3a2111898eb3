---------------------------- MODULE MC_SampleSort ----------------------------
(***************************************************************************)
(* Model-checking instance of SampleSort: P partitions of at most N tuples *)
(* each, keys from Keys, dummies anywhere (sort runs on the padded outputs *)
(* of joins).  Every input tuple has its own id, its position.             *)
(***************************************************************************)
EXTENDS SampleSort

CONSTANT N      \* largest partition of the input

\* partition i holds n tuples with keys and dummy flags kd
Partition_(i, n, kd) == [k \in 0 .. n - 1 |-> [key |-> kd[k][1], dummy |-> kd[k][2], tgt |-> 0, id |-> i * N + k]]

PartitionsOf(i) == UNION {{Partition_(i, n, kd) : kd \in [0 .. n - 1 -> Keys \X BOOLEAN]} : n \in 0 .. N}

AnyTables == {t \in [Parts -> UNION {PartitionsOf(i) : i \in Parts}] : \A i \in Parts : t[i] \in PartitionsOf(i)}

\* no slot written yet: the random shuffle writes every slot before any is read
FreshFiles == {[s \in Slots |-> NoFile]}

=============================================================================
