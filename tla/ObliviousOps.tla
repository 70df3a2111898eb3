---------------------------- MODULE ObliviousOps ----------------------------
(***************************************************************************)
(* The oblivious primitives of Enclave/Obliv.cpp as operators over arrays  *)
(* X : 0 .. n-1 -> Element, each translated from the recursion of the     *)
(* code: the bitonic sorting network, order-preserving compaction (the    *)
(* recursion of _compact and _oroffcompact), partitioning into buckets of  *)
(* fixed capacity U (_partition_rec), and distribute.  An element keeps    *)
(* its sort key, its dummy flag, the target array that swaps along with it *)
(* (TupleObliv::shuffle, sortByKey, distribute) and the input position id, *)
(* which no operator reads.                                                *)
(***************************************************************************)
EXTENDS Integers, FiniteSets, SequencesExt

\* the size of an array 0 .. n-1 -> Element
Size(X) == Cardinality(DOMAIN X)

\* prev_pow_two(x): x when x <= 2, else the largest power of two <= x.
RECURSIVE PowLoop(_, _)
PowLoop(y, x) == IF y <= x THEN PowLoop(2 * y, x) ELSE y \div 2

PrevPowTwo(x) == IF x <= 2 THEN x ELSE PowLoop(1, x)

(***************************************************************************)
(* The loop condition of every swap loop below.  TLC passes the arguments *)
(* of an operator unevaluated, so a loop of n swaps would otherwise be a   *)
(* chain of n pending swaps, evaluated at once at the end; testing DOMAIN  *)
(* X evaluates the array of each step before the next one is taken.       *)
(***************************************************************************)
LoopDone(X, i, end) == DOMAIN X = {} \/ i >= end

\* cswapTuple(X[i], X[j], cond), with the targets swapped along
CSwap(X, i, j, cond) == IF cond THEN [X EXCEPT ![i] = X[j], ![j] = X[i]] ELSE X

(***************************************************************************)
(* Tuple::less_in_cols over one column: a non-dummy is less than a dummy;  *)
(* two tuples with the same flag compare by key.                           *)
(***************************************************************************)
LessInCols(a, b) ==
    \/ ~a.dummy /\ b.dummy
    \/ a.dummy = b.dummy /\ a.key < b.key

-----------------------------------------------------------------------------
(* Bitonic sort.  The comparator is less_in_cols over the sort column    *)
(* (sortByCols, by = ByCols) or key[i] < key[j] over the targets that     *)
(* swap along (sortByKey, by = ByTarget).                                 *)

ByCols == "cols"
ByTarget == "targets"

Compare(a, b, by) == IF by = ByCols THEN LessInCols(a, b) ELSE a.tgt < b.tgt

\* fault variant: the swap condition ignores the direction
BitonicSwapNoAscend(X, by, ascend, i, j) == CSwap(X, i, j, Compare(X[i], X[j], by))

\* _bitonic_swap: cond = compare(i, j) ^ ascend
BitonicSwap(X, by, ascend, i, j) == CSwap(X, i, j, Compare(X[i], X[j], by) # ascend)

\* for (i = lo; i < end; i++) _bitonic_swap(ascend, i, i + d)
RECURSIVE MergeSwaps(_, _, _, _, _, _)
MergeSwaps(X, by, ascend, i, end, d) ==
    IF LoopDone(X, i, end) THEN X
    ELSE MergeSwaps(BitonicSwap(X, by, ascend, i, i + d), by, ascend, i + 1, end, d)

RECURSIVE BitonicMerge(_, _, _, _, _)
BitonicMerge(X, by, ascend, lo, hi) ==
    IF hi <= lo + 1 THEN X
    ELSE LET midLen == PrevPowTwo(hi - lo - 1)
             Y == MergeSwaps(X, by, ascend, lo, hi - midLen, midLen)
         IN  BitonicMerge(BitonicMerge(Y, by, ascend, lo, lo + midLen), by, ascend, lo + midLen, hi)

RECURSIVE BitonicSort(_, _, _, _, _)
BitonicSort(X, by, ascend, lo, hi) ==
    LET mid == (lo + hi) \div 2
    IN  IF mid = lo THEN X
        ELSE BitonicMerge(BitonicSort(BitonicSort(X, by, ~ascend, lo, mid), by, ascend, mid, hi),
                          by, ascend, lo, hi)

\* _sort(ascend, compare, cswap)
Sort(X, by, ascend) ==
    IF Size(X) <= 1 THEN X ELSE BitonicSort(X, by, ascend, 0, Size(X))

-----------------------------------------------------------------------------
(* Compaction.  M is the marker array; the swaps move X but never M, so   *)
(* every recursive call reads the markers of the input positions.         *)

\* the sum of the markers M[lo .. hi-1]
Count(M, lo, hi) == Cardinality({i \in lo .. hi - 1 : M[i] = 1})

\* for (i = 0; i < h; i++) cswap(i + lo, i + h + lo, s ^ (i >= zright))
RECURSIVE OffSwaps(_, _, _, _, _, _)
OffSwaps(X, lo, h, s, zright, i) ==
    IF LoopDone(X, i, h) THEN X
    ELSE OffSwaps(CSwap(X, i + lo, i + h + lo, s # (i >= zright)), lo, h, s, zright, i + 1)

\* for (i = 0; i < n2; i++) cswap(lo + i, lo + i + n1, i >= m)
RECURSIVE TailSwaps(_, _, _, _, _, _)
TailSwaps(X, lo, n1, n2, m, i) ==
    IF LoopDone(X, i, n2) THEN X
    ELSE TailSwaps(CSwap(X, lo + i, lo + i + n1, i >= m), lo, n1, n2, m, i + 1)

\* _oroffcompact(lo, hi, z); z & (_n - 1) is z % _n since _n is a power of two
RECURSIVE OrOffCompact(_, _, _, _, _)
OrOffCompact(X, M, lo, hi, z) ==
    LET n == hi - lo
    IN  IF n <= 1 THEN X
        ELSE IF n = 2 THEN CSwap(X, lo, lo + 1, (IF M[lo] = 0 /\ M[lo + 1] = 1 THEN 1 ELSE 0) # z)
        ELSE LET h      == n \div 2
                 m      == Count(M, lo, lo + h)
                 zleft  == z % h
                 zright == (z + m) % h
                 s      == (zleft + m >= h) # (z >= h)
                 Y == OrOffCompact(OrOffCompact(X, M, lo, lo + h, zleft), M, lo + h, hi, zright)
             IN  OffSwaps(Y, lo, h, s, zright, 0)

\* _compact(lo, hi)
RECURSIVE Compact(_, _, _, _)
Compact(X, M, lo, hi) ==
    LET n  == hi - lo
        n1 == PrevPowTwo(n)
        n2 == n - n1
        m  == Count(M, lo, lo + n2)
        Y  == IF n2 > 0 THEN Compact(X, M, lo, lo + n2) ELSE X
        Z  == OrOffCompact(Y, M, lo + n2, hi, (n1 - n2 + m) % n1)
    IN  IF n <= 1 THEN X
        ELSE TailSwaps(Z, lo, n1, n2, m, 0)

-----------------------------------------------------------------------------
(* Partition into fixed-capacity buckets: _partition_rec.  GoesLeft is    *)
(* the compare(i, j) of the caller: e < pivots[j] for partitionByPivots,   *)
(* and targets[i] <= j for shuffle: piv = [by, pv] names the comparison.  *)

\* fault variant: a tuple equal to the pivot also goes left
GoesLeftOrEqual(e, j, piv) == IF piv.by = ByTarget THEN e.tgt <= j ELSE ~LessInCols(piv.pv[j], e)

GoesLeft(e, j, piv) == IF piv.by = ByTarget THEN e.tgt <= j ELSE LessInCols(e, piv.pv[j])

\* the marker loop: dummies fill the left side up to its padded size
RECURSIVE MarkLoop(_, _, _, _, _, _)
MarkLoop(X, piv, i, hi, pmid, st) ==
    IF LoopDone(st.M, i, hi) THEN st.M
    ELSE LET z == st.left < st.padded /\ X[i].dummy
             mi == IF z \/ (GoesLeft(X[i], pmid, piv) /\ ~X[i].dummy) THEN 1 ELSE 0
         IN  MarkLoop(X, piv, i + 1, hi, pmid,
                      [st EXCEPT !.left = @ + (IF z THEN 1 ELSE 0), !.M[i] = mi])

RECURSIVE PartitionRec(_, _, _, _, _, _, _)
PartitionRec(X, lo, hi, plo, phi, U, piv) ==
    IF phi - plo < 1 THEN X
    ELSE LET pmid   == (phi + plo) \div 2
             padded == (pmid - plo + 1) * U
             left   == Cardinality({i \in lo .. hi - 1 : ~X[i].dummy /\ GoesLeft(X[i], pmid, piv)})
             M  == MarkLoop(X, piv, lo, hi, pmid,
                            [left |-> left, padded |-> padded, M |-> [i \in DOMAIN X |-> 0]])
             Y  == Compact(X, M, lo, hi)
         IN  PartitionRec(PartitionRec(Y, lo, lo + padded, plo, pmid, U, piv),
                          lo + padded, hi, pmid + 1, phi, U, piv)

\* pad X with copies of dummy to (psize + 1) * U elements, then _partition
Partition(X, psize, U, dummy, piv) ==
    LET padded == (psize + 1) * U
        Y == [i \in 0 .. padded - 1 |-> IF i < Size(X) THEN X[i] ELSE dummy]
    IN  PartitionRec(Y, 0, padded, 0, psize, U, piv)

-----------------------------------------------------------------------------
(* distribute(targets): move every non-dummy element right by powers of   *)
(* two until it reaches its target.                                        *)
\* fault variant: a tuple moves only when its target is strictly past i + j
RECURSIVE DistRoundStrict(_, _, _)
DistRoundStrict(X, i, j) ==
    IF i < 0 THEN X
    ELSE DistRoundStrict(CSwap(X, i, i + j, X[i].tgt > i + j /\ ~X[i].dummy), i - 1, j)

\* for (i = m - j - 1; i >= 0; i--) move X[i] by j if it is real and not past its target
RECURSIVE DistRound(_, _, _)
DistRound(X, i, j) ==
    IF i < 0 THEN X
    ELSE DistRound(CSwap(X, i, i + j, X[i].tgt >= i + j /\ ~X[i].dummy), i - 1, j)

\* for (j = prev_pow_two(m - 1); j >= 1; j /= 2), over the first m positions of X
RECURSIVE DistLoop(_, _, _)
DistLoop(X, m, j) == IF j < 1 THEN X ELSE DistLoop(DistRound(X, m - j - 1, j), m, j \div 2)

\* TupleObliv::distribute with m = size, the size the TupleObliv was built with
DistributeOver(X, m) == DistLoop(X, m, PrevPowTwo(m - 1))

Distribute(X) == DistributeOver(X, Size(X))

\* the positions of the real (non-dummy) elements of Y
Reals(Y) == {i \in DOMAIN Y : ~Y[i].dummy}

=============================================================================
