------------------------ MODULE MC_PrefixAggregate ------------------------
(***************************************************************************)
(* Model-checking instance of PrefixAggregate: the tables a call of        *)
(* groupByPrefixAggregate can receive, over N tuples per partition.        *)
(*                                                                         *)
(* Every caller sorts first (GlobalTable::sort, expansion output) and the  *)
(* padding dummies of a shuffle are copies of a real tuple of the sender   *)
(* (LocalTable::shuffle: dummy = m_tuples[0]; dummy.is_dummy = true), so a *)
(* dummy carries the key and value of some real tuple.  The local sort     *)
(* puts the dummies of a partition after its real tuples.                  *)
(***************************************************************************)
EXTENDS PrefixAggregate, TLC

CONSTANTS
    N,          \* tuples per partition
    Vals,       \* aggregate values of real tuples
    StaleKey    \* key of the tuple left in every slot by an earlier run

\* rows over keys K and values V, real or dummy
Rows(K, V, d) == [key : K, val : V, dummy : {d}]

Partitions(rows) == [Parts -> [1 .. N -> rows]]

DummiesLast(s) == \A i, j \in 1 .. N : i < j /\ s[i].dummy => s[j].dummy

HasRealRow(s) == \E i \in 1 .. N : ~s[i].dummy

\* The real tuples are sorted by key in partition order.
SortedByKey(t) ==
    \A p, q \in Parts : \A i, j \in 1 .. N :
        (/\ ~t[p][i].dummy /\ ~t[q][j].dummy
         /\ (p < q \/ (p = q /\ i < j))) => t[p][i].key <= t[q][j].key

\* Sorted by the group key, dummies (copies of a real row's key and value) last in each partition.
SortedTables ==
    {t \in Partitions(Rows(Keys, Vals, FALSE) \cup Rows(Keys, Vals, TRUE)) :
        SortedByKey(t) /\ \A p \in Parts : DummiesLast(t[p])}

\* ... where every partition still holds a real tuple.
SortedNonEmptyTables ==
    {t \in SortedTables : \A p \in Parts : HasRealRow(t[p])}

\* Sorted and without dummies.
SortedRealTables == {t \in Partitions(Rows(Keys, Vals, FALSE)) : SortedByKey(t)}

\* Unsorted, one key, dummies of value 0 anywhere (expansion: expansion_prepare
\* zeroes the D column of dummies, group_by_columns = {}).
ExpansionTables == Partitions(Rows({1}, Vals, FALSE) \cup Rows({1}, {0}, TRUE))

FreshFiles == [Slots -> {NoFile}]

\* Fresh slots, or the slots a previous call on the same table left behind.
FreshOrStaleFiles ==
    FreshFiles \cup {[s \in Slots |-> [key |-> StaleKey, val |-> v, dummy |-> FALSE]] : v \in Vals}

Call(op, g, r, d) == [op |-> op, groupBy |-> g, reverse |-> r, distributed |-> d]

Setup(c, T, F) == [call |-> c, tables |-> T, files |-> F]

\* expansion's column L: a distributed ADD over no group-by column
ExpansionSetup == Setup(Call("ADD", FALSE, FALSE, TRUE), ExpansionTables, FreshFiles)

\* computeDegrees, first call: a distributed grouped ADD
GroupedSetup == Setup(Call("ADD", TRUE, FALSE, TRUE), SortedNonEmptyTables, FreshOrStaleFiles)

\* computeDegrees, second call: the reverse MAX, on the enclave of a single
\* machine, over fresh slots so that a slot nobody writes blocks its reader
ReverseSetup == Setup(Call("MAX", TRUE, TRUE, FALSE), SortedRealTables, FreshFiles)

PassSetups == {ExpansionSetup, GroupedSetup, ReverseSetup}

\* a grouped ADD on tables whose partitions may hold dummies only
EmptyPartitionSetups == {Setup(Call("ADD", TRUE, FALSE, TRUE), SortedTables, FreshOrStaleFiles)}

\* the reverse MAX on sorted tables with trailing dummies
ReverseDummySetups == {Setup(Call("MAX", TRUE, TRUE, FALSE), SortedNonEmptyTables, FreshOrStaleFiles)}

\* the reverse MAX run by remote workers
ReverseDistributedSetups == {Setup(Call("MAX", TRUE, TRUE, TRUE), SortedRealTables, FreshOrStaleFiles)}

\* both reverse calls that go wrong
ReverseSetups == ReverseDummySetups \cup ReverseDistributedSetups

\* every call above that goes wrong
FaultySetups == EmptyPartitionSetups \cup ReverseSetups

=============================================================================
