----------------------------- MODULE MC_Expansion -----------------------------
(***************************************************************************)
(* Model-checking instance of Expansion: N rows per partition, each a     *)
(* dummy or a real row with D in 0 .. MaxD, and M the sum of D, as         *)
(* GlobalTable::join passes it (r_table.sum of the degree column), or one  *)
(* more.                                                                   *)
(***************************************************************************)
EXTENDS Expansion

CONSTANTS
    N,          \* rows per partition
    MaxD        \* the largest multiplicity

\* row k of partition i: real with multiplicity d, or a dummy (d = MaxD, which
\* expansion_prepare zeroes)
Elem(i, k, d) ==
    [key |-> 0, dummy |-> d < 0, tgt |-> 0, id |-> i * N + k,
     d |-> IF d < 0 THEN MaxD ELSE d, l |-> 0, t |-> 0, p |-> 0]

Tables == {[i \in Parts |-> [k \in 0 .. N - 1 |-> Elem(i, k, ds[i][k])]] :
              ds \in [Parts -> [0 .. N - 1 -> -1 .. MaxD]]}

\* the sum of D over the real rows of t
SumD(t) == MapThenSumSet(LAMBDA pos : t[pos[1]][pos[2]].d,
                         UNION {{<<i, k>> : k \in Reals(t[i])} : i \in Parts})

MCInitT == {<<t, x>> \in Tables \X (1 .. P * N * MaxD + 1) : x \in {SumD(t), SumD(t) + 1} /\ SumD(t) >= 1}

=============================================================================
