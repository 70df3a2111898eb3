---------------------------- MODULE MC_Oblivious ----------------------------
(***************************************************************************)
(* The calls of namespace obliv checked on every input up to a size.       *)
(* Element ids are input positions and are never read by the operators.   *)
(***************************************************************************)
EXTENDS Oblivious

CONSTANTS
    SortN,      \* largest array sorted
    CompactN,   \* largest array compacted
    PartitionN, \* largest table partitioned by pivots
    ShuffleN,   \* largest table shuffled (shuffle and shuffle_soda)
    DistributeN,\* largest array distributed
    Keys,       \* sort keys
    MaxBuckets, \* largest number of buckets of a partition or shuffle
    MaxU        \* largest bucket capacity

Elem(k, d, t, i) == [key |-> k, dummy |-> d, tgt |-> t, id |-> i]

\* arrays of n elements with keys in K and dummy flags in D
Arrays(n, K, D) ==
    {[i \in 0 .. n - 1 |-> Elem(kd[i][1], kd[i][2], 0, i)] : kd \in [0 .. n - 1 -> K \X D]}

Req(op, X) ==
    [op |-> op, X |-> X, M |-> <<>>, piv |-> <<>>, asc |-> TRUE, p |-> 0, U |-> 0]

SortRequests(maxN) ==
    UNION {{[Req("sort", X) EXCEPT !.asc = a] : X \in Arrays(n, Keys, BOOLEAN)} :
           n \in 0 .. maxN, a \in BOOLEAN}

\* compaction never reads the elements: one array per size, every marker vector
CompactRequests(maxN) ==
    UNION {{[Req("compact", [i \in 0 .. n - 1 |-> Elem(0, FALSE, 0, i)]) EXCEPT !.M = M] :
            M \in [0 .. n - 1 -> {0, 1}]} : n \in 0 .. maxN}

\* sorted pivots: the quantile tuples of the sorted sample (getPivots)
SortedPivots(k) ==
    {[j \in 1 .. k |-> Elem(s[j], FALSE, 0, -1)] :
        s \in {s \in [1 .. k -> Keys] : \A j \in 1 .. k - 1 : s[j] <= s[j + 1]}}

\* partitionByPivots on a non-empty table of at most (k+1)*U tuples
PartitionRequests(maxN) ==
    UNION {UNION {UNION {{[Req("partition", X) EXCEPT !.piv = pv, !.U = u] :
                            X \in Arrays(n, Keys, BOOLEAN), pv \in SortedPivots(k)} :
                         n \in 1 .. IF (k + 1) * u < maxN THEN (k + 1) * u ELSE maxN} :
                  u \in 1 .. MaxU} :
           k \in 1 .. MaxBuckets - 1}

\* shuffle: a target in 0 .. p-1 for every tuple; the caller clamps U to the
\* size, and the padded size p*U is at least the size
ShuffleCalls(maxN) ==
    UNION {UNION {{[Req("shuffle", [i \in 0 .. n - 1 |-> Elem(0, d[i], t[i], i)]) EXCEPT !.p = p, !.U = u] :
                    d \in [0 .. n - 1 -> BOOLEAN], t \in [0 .. n - 1 -> 0 .. p - 1], u \in 1 .. n} :
                  n \in 1 .. maxN} :
           p \in 2 .. MaxBuckets}

ShuffleRequests(maxN) == {r \in ShuffleCalls(maxN) : r.p * r.U >= Size(r.X)}

\* distributeByCol after compact and sort: real tuples first, increasing distinct targets
DistributeRequests(maxN) ==
    UNION {{Req("distribute",
               [i \in 0 .. n - 1 |-> IF i < Cardinality(T)
                                    THEN Elem(0, FALSE, CHOOSE t \in T : Cardinality({x \in T : x < t}) = i, i)
                                    ELSE Elem(0, TRUE, 0, i)]) :
             T \in SUBSET (0 .. n - 1)} : n \in 1 .. maxN}

\* shuffle_soda: a real tuple's target is its bucket 0 .. p-1, as in shuffle
ShuffleSodaRequests(maxN) ==
    {[r EXCEPT !.op = "shuffle_soda"] : r \in ShuffleRequests(maxN)}

\* Request sets take the bound as an argument so that only those checked are built.
MCRequests(op) ==
    CASE op = "sort"         -> SortRequests(SortN)
      [] op = "compact"      -> CompactRequests(CompactN)
      [] op = "partition"    -> PartitionRequests(PartitionN)
      [] op = "shuffle"      -> ShuffleRequests(ShuffleN)
      [] op = "distribute"   -> DistributeRequests(DistributeN)
      [] op = "shuffle_soda" -> ShuffleSodaRequests(ShuffleN)

=============================================================================
