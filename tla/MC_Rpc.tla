------------------------------- MODULE MC_Rpc -------------------------------
EXTENDS Rpc

\* the calls, as records of one shape: t, the value a "get" returns, the
\* payload a "write" posts, and whether the slot belongs to another worker
Get(v) == [t |-> "get", v |-> v, c |-> <<>>, remote |-> TRUE]
VoidCall == [t |-> "void", v |-> 0, c |-> <<>>, remote |-> TRUE]
Write(c, r) == [t |-> "write", v |-> 0, c |-> c, remote |-> r]
ReadSlot == [t |-> "read", v |-> 0, c |-> <<>>, remote |-> FALSE]

\* a size() of one digit, of two, a max() below zero, a void task; two
\* rounds of a shuffle slot written by another worker and read by its
\* owner; a slot written locally and read
MCScripts ==
    { <<Get(7)>>, <<Get(12)>>, <<Get(-3)>>, <<VoidCall>>,
      <<Write(<<"a">>, TRUE), ReadSlot, Write(<<"b", "c">>, TRUE), ReadSlot>>,
      <<Write(<<"a">>, FALSE), ReadSlot>> }

=============================================================================
