----------------------------- MODULE Oblivious -----------------------------
(***************************************************************************)
(* The entry points of namespace obliv (Obliv.cpp:260-300) as the actions *)
(* of one call, over the operators of ObliviousOps: req is the call with  *)
(* its arguments, result the array the call leaves in X.  An element is   *)
(* [key, dummy, tgt, id].                                                  *)
(***************************************************************************)
EXTENDS ObliviousOps

CONSTANTS
    Which,          \* the calls checked: a subset of {"sort", "compact", "partition", ...}
    Requests(_)     \* Requests(op): the calls of op to check, with their arguments

VARIABLES req, result, done

vars == <<req, result, done>>

Init == (\E op \in Which : req \in Requests(op)) /\ result = req.X /\ done = FALSE

\* the padding tuple of the caller: a dummy copy of the first tuple
PadDummy(X) == [X[0] EXCEPT !.dummy = TRUE, !.tgt = 0]

\* sort(X, columns, ascend)
SortCall ==
    /\ req.op = "sort" /\ ~done
    /\ result' = Sort(req.X, ByCols, req.asc)
    /\ done' = TRUE
    /\ UNCHANGED req

\* fault variant: the compaction range stops one short of the end
CompactCallShort ==
    /\ req.op = "compact" /\ ~done
    /\ result' = IF Size(req.X) <= 1 THEN req.X ELSE Compact(req.X, req.M, 0, Size(req.X) - 1)
    /\ done' = TRUE
    /\ UNCHANGED req

\* compact(X, M): TupleObliv::compact, Obliv::_compact(_M)
CompactCall ==
    /\ req.op = "compact" /\ ~done
    /\ result' = IF Size(req.X) <= 1 THEN req.X ELSE Compact(req.X, req.M, 0, Size(req.X))
    /\ done' = TRUE
    /\ UNCHANGED req

\* partition(X, pivots, columns, U, dummy): TupleObliv::partitionByPivots
PartitionCall ==
    /\ req.op = "partition" /\ ~done
    /\ result' = Partition(req.X, Len(req.piv), req.U, PadDummy(req.X),
                         [by |-> ByCols, pv |-> [j \in 0 .. Len(req.piv) - 1 |-> req.piv[j + 1]]])
    /\ done' = TRUE
    /\ UNCHANGED req

\* shuffle(X, targets, p, U, dummy): TupleObliv::shuffle, targets padded with 0
ShuffleCall ==
    /\ req.op = "shuffle" /\ ~done
    /\ result' = Partition(req.X, req.p - 1, req.U, PadDummy(req.X), [by |-> ByTarget, pv |-> <<>>])
    /\ done' = TRUE
    /\ UNCHANGED req

\* distributeByCol(X, col), the same cascade as TupleObliv::distribute
DistributeByColCall ==
    /\ req.op = "distribute" /\ ~done
    /\ result' = Distribute(req.X)
    /\ done' = TRUE
    /\ UNCHANGED req

\* shuffle_soda(X, targets, p, U, dummy): sortByKey, pad with target p + 1,
\* distribute.  obl is built before the padding, so its size, and with it
\* the distribute cascade, stays at the length of the input.
ShuffleSodaCall ==
    /\ req.op = "shuffle_soda" /\ ~done
    /\ LET Y == Sort(req.X, ByTarget, TRUE)
           Z == [i \in 0 .. req.p * req.U - 1 |->
                   IF i < Size(Y) THEN Y[i] ELSE [PadDummy(req.X) EXCEPT !.tgt = req.p + 1]]
       IN  result' = DistributeOver(Z, Size(req.X))
    /\ done' = TRUE
    /\ UNCHANGED req

Next ==
    \/ SortCall
    \/ CompactCall
    \/ PartitionCall
    \/ ShuffleCall
    \/ DistributeByColCall
    \/ ShuffleSodaCall

Spec == Init /\ [][Next]_vars

-----------------------------------------------------------------------------
(* Reference definitions. *)

\* Y holds exactly the real elements of the input X, once each
KeepsReals(X, Y) ==
    /\ \A i \in Reals(Y) : Y[i] = X[Y[i].id]
    /\ \A i, j \in Reals(Y) : Y[i].id = Y[j].id => i = j
    /\ {Y[i].id : i \in Reals(Y)} = Reals(X)

\* the bucket of a real element: the first pivot it is less than, or its target
Bucket(e) ==
    IF req.op = "shuffle" THEN e.tgt
    ELSE LET less == {j \in 1 .. Len(req.piv) : LessInCols(e, req.piv[j])}
         IN  IF less = {} THEN Len(req.piv) ELSE (CHOOSE j \in less : \A k \in less : j <= k) - 1

Buckets == IF req.op = "shuffle" THEN req.p ELSE Len(req.piv) + 1

\* Y is a rearrangement of all of X
Permutes(X, Y) ==
    /\ DOMAIN Y = DOMAIN X
    /\ \A i \in DOMAIN Y : Y[i] = X[Y[i].id]
    /\ \A i, j \in DOMAIN Y : Y[i].id = Y[j].id => i = j

-----------------------------------------------------------------------------
(***************************************************************************)
(* obliv::sort: the output is the input rearranged, real tuples in key     *)
(* order before all dummies (reversed when descending), for every size,    *)
(* not only powers of two: the merge splits at prev_pow_two(n - 1).        *)
(***************************************************************************)
SortCorrect ==
    done /\ req.op = "sort" =>
        /\ Permutes(req.X, result)
        /\ \A i, j \in DOMAIN result :
              i < j => ~Compare(IF req.asc THEN result[j] ELSE result[i],
                                IF req.asc THEN result[i] ELSE result[j], ByCols)

(***************************************************************************)
(* obliv::compact: the marked elements end up in the first sum(M)          *)
(* positions in their input order, although M is never swapped along with *)
(* X and each recursive call reads the markers of the input positions.     *)
(***************************************************************************)
CompactCorrect ==
    done /\ req.op = "compact" =>
        LET k == Count(req.M, 0, Size(req.X))
        IN  /\ Permutes(req.X, result)
            /\ \A i \in 0 .. k - 1 : req.M[result[i].id] = 1
            /\ \A i, j \in 0 .. k - 1 : i < j => result[i].id < result[j].id

(***************************************************************************)
(* The specification of compact also promises that the unmarked elements   *)
(* follow in their input order.                                            *)
(***************************************************************************)
CompactUnmarkedOrder ==
    done /\ req.op = "compact" =>
        LET k == Count(req.M, 0, Size(req.X))
        IN  \A i, j \in k .. Size(req.X) - 1 : i < j => result[i].id < result[j].id

(***************************************************************************)
(* obliv::partition and obliv::shuffle: when no bucket receives more than  *)
(* U real tuples, bucket b of the padded output (positions b*U .. b*U+U-1) *)
(* holds exactly the real tuples that belong to b, and no other.           *)
(***************************************************************************)
PartitionCorrect ==
    done /\ req.op \in {"partition", "shuffle"}
    /\ (\A b \in 0 .. Buckets - 1 :
          Cardinality({i \in Reals(req.X) : Bucket(req.X[i]) = b}) <= req.U)
    => /\ DOMAIN result = 0 .. Buckets * req.U - 1
       /\ KeepsReals(req.X, result)
       /\ \A i \in Reals(result) : Bucket(result[i]) = i \div req.U

(***************************************************************************)
(* Whatever the bucket counts, a real tuple that survives a partition is   *)
(* in its own bucket: overflow loses tuples, it never misplaces them.      *)
(***************************************************************************)
PartitionNeverMisplaces ==
    done /\ req.op \in {"partition", "shuffle"} =>
        \A i \in Reals(result) : Bucket(result[i]) = i \div req.U

(***************************************************************************)
(* distributeByCol over real tuples sorted by distinct targets: every real *)
(* tuple ends at the position its column names.                            *)
(***************************************************************************)
DistributeCorrect ==
    done /\ req.op = "distribute" =>
        \A i \in Reals(req.X) : result[req.X[i].tgt] = req.X[i]

(***************************************************************************)
(* shuffle_soda: when no target receives more than U real tuples, every   *)
(* real tuple ends in the bucket of its target as the caller cuts the      *)
(* output into p runs of U (SODA_step4).                                   *)
(***************************************************************************)
ShuffleSodaCorrect ==
    done /\ req.op = "shuffle_soda"
    /\ (\A b \in 0 .. req.p - 1 : Cardinality({i \in Reals(req.X) : req.X[i].tgt = b}) <= req.U)
    =>
        /\ KeepsReals(req.X, result)
        /\ \A i \in Reals(result) : result[i].tgt = i \div req.U

=============================================================================
