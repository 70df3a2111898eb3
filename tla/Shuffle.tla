------------------------------ MODULE Shuffle ------------------------------
(***************************************************************************)
(* The slot-file exchange of the enclave LocalTable: every partition i     *)
(* owns the array tuples[i] (its m_tuples) and writes, for each target t,  *)
(* the slot file gid_lid<i>_tlid<t> (genFileName); a merge replaces the    *)
(* table of t by the concatenation of the files addressed to it.  The      *)
(* slot names carry no call counter, so a file keeps what the last writer  *)
(* put there until it is written again.  A tuple is an element of          *)
(* ObliviousOps: [key, dummy, tgt, id], id naming the input tuple it came  *)
(* from (a padding dummy copies the id of the tuple it copies).            *)
(***************************************************************************)
EXTENDS ObliviousOps

CONSTANTS
    P,          \* number of partitions (utils::num_partitions)
    NoFile      \* the content of a slot nobody has written: read_file throws

Parts == 0 .. P - 1

Slots == Parts \X Parts

VARIABLES tuples, file

\* an array with no element
EmptyArray == [k \in {} |-> NoFile]

\* X ++ Y over arrays 0 .. n-1
Cat(X, Y) == [k \in 0 .. Size(X) + Size(Y) - 1 |-> IF k < Size(X) THEN X[k] ELSE Y[k - Size(X)]]

\* the elements X[k] with idx[k] = t, in order: the output[t] of shuffle_non_obliv
Select(X, idx, t) ==
    LET S == {k \in DOMAIN X : idx[k] = t}
    IN  [r \in 0 .. Cardinality(S) - 1 |-> X[CHOOSE k \in S : Cardinality({l \in S : l < k}) = r]]

\* output[t] = X[t*U .. t*U+U-1]: the runs an oblivious shuffle or partition is cut into
Run(X, U, t) == [k \in 0 .. U - 1 |-> X[t * U + k]]

\* shuffleWrite(num_partitions, output): slot (i, t) := output[t] for every t
ShuffleWrite(i, output) ==
    file' = [s \in Slots |-> IF s[1] = i THEN output[s[2]] ELSE file[s]]

\* refreshAndMerge reads slot (j, i) for j = 0 .. P-1: a missing slot throws
Readable(i) == \A j \in Parts : file[<<j, i>>] # NoFile

\* m_tuples := slot (j, i) ++ ... ++ slot (P-1, i)
RECURSIVE MergeFrom(_, _)
MergeFrom(i, j) == IF j >= P THEN EmptyArray ELSE Cat(file[<<j, i>>], MergeFrom(i, j + 1))

\* fault variant: the merge loop starts at partition 1
MergeSkipFirst(i) == MergeFrom(i, 1)

\* refresh(); then append every slot addressed to i
RefreshAndMerge(i) == MergeFrom(i, 0)

\* the padding tuple of a shuffle or partition: dummy = m_tuples[0]; dummy.is_dummy = true
PadTuple(X) == [X[0] EXCEPT !.dummy = TRUE]

\* shuffle_non_obliv: output[t] = the tuples of X whose index is t, in order
ShuffleNonObliv(i, X, idx) == ShuffleWrite(i, [t \in Parts |-> Select(X, idx, t)])

\* randomShuffle: a random target for every tuple, dummies included
RandomShuffleWrite(i) ==
    /\ \E idx \in [DOMAIN tuples[i] -> Parts] : ShuffleNonObliv(i, tuples[i], idx)
    /\ UNCHANGED tuples

(***************************************************************************)
(* LocalTable::shuffle(num_partitions, index_list, size_bound) of table i  *)
(* holding X: clamp the bound to the size; an empty table returns without  *)
(* writing; otherwise obliv::shuffle pads X with a dummy copy of its first *)
(* tuple (target 0) to P * U and partitions it by target into runs of U,   *)
(* which become m_tuples, and run t is written to slot (i, t).  _partition *)
(* reads the target of real tuples only (MarkLoop), so a dummy's random    *)
(* target is never observed.                                               *)
(***************************************************************************)
TableShuffle(i, X, idx, sb) ==
    LET U   == IF sb > Size(X) THEN Size(X) ELSE sb
        Xt  == [k \in DOMAIN X |-> [X[k] EXCEPT !.tgt = idx[k]]]
        pad == [X[0] EXCEPT !.dummy = TRUE, !.tgt = 0]
        Y   == Partition(Xt, P - 1, U, pad, [by |-> ByTarget, pv |-> <<>>])
    IN  IF Size(X) = 0 THEN UNCHANGED <<tuples, file>>
        ELSE /\ tuples' = [tuples EXCEPT ![i] = Y]
             /\ ShuffleWrite(i, [t \in Parts |-> Run(Y, U, t)])

\* the values of the columns cols (a sequence of field names) of tuple e
Project(e, cols) == [c \in DOMAIN cols |-> e[cols[c]]]

\* Fault variant: a table without a real tuple returns before it writes.
ShuffleByKeyRealsOnly(i, cols, h, sb) ==
    IF Reals(tuples[i]) = {} THEN UNCHANGED <<tuples, file>>
    ELSE TableShuffle(i, tuples[i],
                      [k \in DOMAIN tuples[i] |->
                          IF tuples[i][k].dummy THEN 0 ELSE h[Project(tuples[i][k], cols)]],
                      sb)

(***************************************************************************)
(* shuffleByKey(num_partitions, key, seed, size_bound): an empty table     *)
(* returns before it writes any slot; a real tuple goes to                 *)
(* hash(key, seed) % P, h applied to the values of its key columns cols,  *)
(* a dummy to a random partition.                                          *)
(***************************************************************************)
ShuffleByKey(i, cols, h, sb) ==
    IF Size(tuples[i]) = 0 THEN UNCHANGED <<tuples, file>>
    ELSE TableShuffle(i, tuples[i],
                      [k \in DOMAIN tuples[i] |->
                          IF tuples[i][k].dummy THEN 0 ELSE h[Project(tuples[i][k], cols)]],
                      sb)

(***************************************************************************)
(* shuffleByCol(num_partitions, i_col_id, size_bound): clamp the bound to  *)
(* the size; when P runs of it cannot hold the table, compact the real     *)
(* tuples to the front and cut the table to P * U; every tuple, dummy or   *)
(* not, goes to the partition its column col names; a bound of 0 takes    *)
(* the non-oblivious shuffle.                                              *)
(***************************************************************************)
ShuffleByCol(i, col, sb) ==
    LET X  == tuples[i]
        U  == IF sb > Size(X) THEN Size(X) ELSE sb
        M  == [k \in DOMAIN X |-> IF X[k].dummy THEN 0 ELSE 1]
        C  == Compact(X, M, 0, Size(X))
        X1 == IF U * P < Size(X) THEN [k \in 0 .. U * P - 1 |-> C[k]] ELSE X
        idx == [k \in DOMAIN X1 |-> X1[k][col]]
    IN  IF U = 0 THEN /\ tuples' = [tuples EXCEPT ![i] = X1]
                      /\ ShuffleNonObliv(i, X1, idx)
        ELSE TableShuffle(i, X1, idx, U)

\* shuffleMerge: refreshAndMerge
ShuffleMerge(i) ==
    /\ Readable(i)
    /\ tuples' = [tuples EXCEPT ![i] = RefreshAndMerge(i)]
    /\ UNCHANGED file

=============================================================================
