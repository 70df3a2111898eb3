------------------------------- MODULE MC_Join -------------------------------
(***************************************************************************)
(* Model-checking instance of Join: R and S of N rows per partition,       *)
(* sorted by a join key in Keys (step 1's sort), with at least one and at  *)
(* most MaxM matching pairs.                                               *)
(***************************************************************************)
EXTENDS Join

CONSTANTS
    N,          \* rows per partition
    Keys,       \* join-key values
    MaxM        \* the largest output size

\* a real row with join key jk; the appended columns start at 0
Elem(jk, id) ==
    [key |-> jk, dummy |-> FALSE, tgt |-> 0, id |-> id, jk |-> jk,
     rr |-> 0, rs |-> 0, ss |-> 0, sr |-> 0, i |-> 0, j |-> 0, p |-> 0, t |-> 0, sid |-> 0]

Places == 0 .. P * N - 1

SortedKeys == {ks \in [Places -> Keys] : \A a \in Places : a + 1 \in Places => ks[a] <= ks[a + 1]}

Table(ks, base) == [i \in Parts |-> [k \in 0 .. N - 1 |-> Elem(ks[i * N + k], base + i * N + k)]]

NumPairs(rk, sk) == Cardinality({ab \in Places \X Places : rk[ab[1]] = sk[ab[2]]})

KeyPairs == {ks \in SortedKeys \X SortedKeys : NumPairs(ks[1], ks[2]) \in 1 .. MaxM}

MCInitRS == {<<Table(ks[1], 0), Table(ks[2], 100)>> : ks \in KeyPairs}

=============================================================================
