------------------------------- MODULE Layout -------------------------------
(***************************************************************************)
(* The column layout of the tables through GlobalTable::join and           *)
(* GlobalTable::pkjoin (App/src/GlobalTable.cpp).  Both address columns by *)
(* integer index only: the orchestrator computes an index from             *)
(* numColumns() and the columns it has added or deleted, and the enclave's *)
(* LocalTable reads and writes tuple.data at that index, or at an index it *)
(* computes from its own m_num_columns or num_columns().                  *)
(*                                                                         *)
(* A table's layout is the sequence of what its columns hold, one string  *)
(* per column: "R0", "S1" for the input columns, "degR" for R's self       *)
(* degree, "L" \o d for the prefix sum of column d, and so on.  Rows and   *)
(* values are abstracted away: every row of a table has its layout.  nc is *)
(* the enclave's m_num_columns; num_columns() is the layout's length.     *)
(* Every index the code reads is recorded with what it is meant to hold,  *)
(* and so is every width taken from m_num_columns (files are written with *)
(* num_columns() values a row and loaded with m_num_columns).             *)
(***************************************************************************)
EXTENDS Integers, Sequences, SequencesExt, TLC

CONSTANTS
    MaxW,           \* the widest input table
    MaxK            \* the most join columns

Tabs == {"R", "S", "Rc", "Sc"}  \* r_table, s_table, and computeDegrees' _r_table, _s_table

VARIABLES
    flow,           \* the driver: "join" (s.join(r, ...)) or "pkjoin" (s.pkjoin(r, ...))
    key,            \* the inputs: the join columns of R and S, and their widths
    lay,            \* table -> the layout of its rows
    nc,             \* table -> m_num_columns
    pc,             \* the next step
    loc,            \* the locals of GlobalTable::join
    pk,             \* the frame of the current GlobalTable::pkjoin call
    ex,             \* the frame of the current GlobalTable::expansion call
    misread         \* the reads that found another column than the code meant

vars == <<flow, key, lay, nc, pc, loc, pk, ex, misread>>

-----------------------------------------------------------------------------
(* The enclave LocalTable's column operations on one layout; indices are  *)
(* 0-based as in the code.                                                 *)

\* tuple.data[c], or "none" outside the row
At(l, c) == IF c \in 0 .. Len(l) - 1 THEN l[c + 1] ELSE "none"

\* the columns read by a list of column indices
Cols(l, cs) == [x \in 1 .. Len(cs) |-> At(l, cs[x])]

\* addCol(v, pos): add_val appends, insert_val(v, pos) inserts before pos
AddCol(l, lab, pos) == IF pos = -1 THEN Append(l, lab) ELSE InsertAt(l, pos + 1, lab)

\* Tuple::delete_col(pos): erases pos, and ignores a pos past the row
DelCol(l, pos) == IF pos \in 0 .. Len(l) - 1 THEN RemoveAt(l, pos + 1) ELSE l

\* project(columns): the row becomes tuple.data[columns[0]], ...
ProjectCols(l, cs) == Cols(l, cs)

\* (mutant) the loop over the other columns runs one past the row
MvAheadPast(l, jc) ==
    LET rest == SetToSortSeq({c \in 0 .. Len(l) : \A x \in 1 .. Len(jc) : jc[x] # c}, <)
    IN  Cols(l, jc) \o Cols(l, rest)

\* mvJoinColsAhead(join_cols): the join columns, then the others in order
MvAhead(l, jc) ==
    LET rest == SetToSortSeq({c \in 0 .. Len(l) - 1 : \A x \in 1 .. Len(jc) : jc[x] # c}, <)
    IN  Cols(l, jc) \o Cols(l, rest)

\* GlobalTable::mvJoinColsAhead: nothing to do when join_cols is 0, 1, ...
MvIfNeeded(l, jc) == IF \A x \in 1 .. Len(jc) : jc[x] = x - 1 THEN l ELSE MvAhead(l, jc)

\* tuple.data.resize(n): cut, or extend with zeros
Resize(l, n) == [x \in 1 .. n |-> IF x <= Len(l) THEN l[x] ELSE "zero"]

\* n fill columns inserted at pos, pos + 1, ...: addCol(DUMMY_VAL, start + i)
RECURSIVE InsertFills(_, _, _)
InsertFills(l, pos, n) == IF n = 0 THEN l ELSE InsertFills(AddCol(l, "fill", pos), pos + 1, n - 1)

\* 0, 1, ..., k - 1: std::iota, and pkjoin's new_join_cols
Iota(k) == [x \in 1 .. k |-> x - 1]

\* a read of what the code meant, or a misread
Read(at, got, want) == IF got = want THEN {} ELSE {[at |-> at, got |-> got, want |-> want]}

\* a use of m_num_columns as the width of the rows
Width(at, n, l) == Read(at, ToString(n), ToString(Len(l)))

\* a sequence of columns read, against the sequence meant
ReadSeq(at, got, want) == Read(at, ToString(got), ToString(want))

\* rows of t written to files at num_columns() values and loaded at m_num_columns
\* (shuffleWrite, then refreshAndMerge's load_file_str), or serialized at
\* m_num_columns (the prefix aggregate's and the suffix sum's boundary rows)
Moves(at, t) == Width(at, nc[t], lay[t])

\* (mutant) the copy stops at end - 5
JoinFinalCombineLong(r, s, k) == r \o SubSeq(s, k + 1, Len(s) - 5)

\* joinFinalCombine: R's rows take S's columns [num_join_cols, end - 6)
JoinFinalCombine(r, s, k) == r \o SubSeq(s, k + 1, Len(s) - 6)

\* (mutant) cur_col_num counts one column too many
CurColNumOver(p) == p.ori_r + p.ori_s - p.k + 3

\* pkjoin's cur_col_num, the width of R's rows before I and Z are deleted
CurColNum(p) == p.ori_r + p.ori_s - p.k + 2


-----------------------------------------------------------------------------
(* The inputs: R and S read from files, m_num_columns from their headers.  *)

Input(t, w) == [x \in 1 .. w |-> t \o ToString(x - 1)]

\* what the join columns of an input table hold
KeyLabels(t, kl) == [x \in 1 .. Len(kl) |-> t \o ToString(kl[x])]

\* the join columns: distinct column indices of a table of width w
KeyLists(w) == {kl \in UNION {[1 .. k -> 0 .. w - 1] : k \in 1 .. MaxK} :
                    \A x, y \in 1 .. Len(kl) : x # y => kl[x] # kl[y]}

NoLoc == [rc |-> <<>>, sc |-> <<>>, r_num |-> 0, s_num |-> 0, rr |-> 0, rs |-> 0,
          ss |-> 0, sr |-> 0, i |-> 0, j |-> 0]

NoPk == [r |-> "R", s |-> "S", rc |-> <<>>, sc |-> <<>>, rkey |-> <<>>, skey |-> <<>>, move |-> FALSE, k |-> 0,
         ori_r |-> 0, ori_s |-> 0, ret |-> "done"]

NoEx == [t |-> "R", d |-> 0, want |-> "", del |-> FALSE, num_cols |-> 0, ret |-> "done"]

\* the call expansion(d_index, M, delete_expand_col) on t, d meant to hold want
ExCall(t, d, want, del, ret) ==
    ex' = [t |-> t, d |-> d, want |-> want, del |-> del, num_cols |-> Len(lay[t]), ret |-> ret]

Init ==
    \E wr, ws \in 1 .. MaxW :
    \E rc \in KeyLists(wr), sc \in KeyLists(ws) :
        /\ Len(rc) = Len(sc)
        /\ flow \in {"join", "pkjoin"}
        /\ key = [r |-> rc, s |-> sc, wr |-> wr, ws |-> ws]
        /\ lay = [t \in Tabs |-> CASE t = "R" -> Input("R", wr)
                                   [] t = "S" -> Input("S", ws)
                                   [] OTHER -> <<>>]
        /\ nc = [t \in Tabs |-> Len(lay[t])]
        /\ misread = {}
        /\ loc = NoLoc
        /\ ex = NoEx
        /\ IF flow = "join"
           THEN pc = "j_start" /\ pk = NoPk
           ELSE /\ pc = "pk_mv"
                /\ pk = [NoPk EXCEPT !.rc = rc, !.sc = sc, !.rkey = Cols(lay["R"], rc),
                                     !.skey = Cols(lay["S"], sc),
                                     !.move = TRUE, !.k = Len(rc), !.ori_r = wr, !.ori_s = ws]

-----------------------------------------------------------------------------
(* GlobalTable::join, s_table = "S" (this) and r_table = "R".             *)

JStart ==
    /\ pc = "j_start"
    /\ lay' = [lay EXCEPT !["R"] = MvIfNeeded(@, key.r), !["S"] = MvIfNeeded(@, key.s)]
    /\ loc' = [loc EXCEPT !.rc = Iota(Len(key.r)), !.sc = Iota(Len(key.s)),
                          !.r_num = Len(lay["R"]), !.s_num = Len(lay["S"])]
    /\ pc' = "j_sort"
    /\ UNCHANGED <<flow, key, nc, pk, ex, misread>>

\* step 1: sort(s_cols), r_table.sort(r_cols)
JSort ==
    /\ pc = "j_sort"
    /\ misread' = misread
           \cup ReadSeq("sort S", Cols(lay["S"], loc.sc), KeyLabels("S", key.s))
           \cup ReadSeq("sort R", Cols(lay["R"], loc.rc), KeyLabels("R", key.r))
           \cup Moves("sort S", "S") \cup Moves("sort R", "R")
    /\ pc' = "c_r"
    /\ UNCHANGED <<flow, key, lay, nc, loc, pk, ex>>

\* computeDegrees: rr_col = r_table.appendCol(1), the prefix ADD and the
\* reverse prefix MAX into it
CDegR ==
    /\ pc = "c_r"
    /\ LET rr == Len(lay["R"])
           r2 == AddCol(lay["R"], "degR", -1)
       IN  /\ lay' = [lay EXCEPT !["R"] = r2]
           /\ nc' = [nc EXCEPT !["R"] = @ + 1]
           /\ loc' = [loc EXCEPT !.rr = rr]
           /\ misread' = misread \cup Read("degree R", At(r2, rr), "degR")
                                 \cup Width("degree R", nc["R"] + 1, r2)
    /\ pc' = "c_s"
    /\ UNCHANGED <<flow, key, pk, ex>>

\* computeDegrees: the self degree of S, then the copies _s_table, _r_table
CDegS ==
    /\ pc = "c_s"
    /\ LET ss == Len(lay["S"])
           s2 == AddCol(lay["S"], "degS", -1)
       IN  /\ lay' = [lay EXCEPT !["S"] = s2, !["Sc"] = s2, !["Rc"] = lay["R"]]
           /\ nc' = [nc EXCEPT !["S"] = @ + 1, !["Sc"] = nc["S"] + 1, !["Rc"] = nc["R"]]
           /\ loc' = [loc EXCEPT !.ss = ss]
           /\ misread' = misread \cup Read("degree S", At(s2, ss), "degS")
                                 \cup Width("degree S", nc["S"] + 1, s2)
    /\ pc' = "c_ps"
    /\ UNCHANGED <<flow, key, pk, ex>>

\* _s_table.project(s_cols + ss_col), remove_dup_after_prefix, then
\* _s_table.pkjoin(r_table, r_cols, s_cols, false)
CProjS ==
    /\ pc = "c_ps"
    /\ LET sc == Append(loc.sc, loc.ss) IN
       /\ lay' = [lay EXCEPT !["Sc"] = ProjectCols(@, sc)]
       /\ nc' = [nc EXCEPT !["Sc"] = Len(sc)]
       /\ pk' = [r |-> "R", s |-> "Sc", rc |-> loc.rc, sc |-> loc.sc,
                 rkey |-> Cols(lay["R"], loc.rc), skey |-> Cols(lay["S"], loc.sc),
                 move |-> FALSE, k |-> Len(loc.rc), ori_r |-> Len(lay["R"]),
                 ori_s |-> Len(sc), ret |-> "c_pr"]
       /\ misread' = misread \cup ReadSeq("project Sc", Cols(lay["Sc"], sc),
                                          Cols(lay["S"], loc.sc) \o <<"degS">>)
    /\ pc' = "pk_mv"
    /\ UNCHANGED <<flow, key, loc, ex>>

\* _r_table.project(r_cols + rr_col), remove_dup_after_prefix, then
\* _r_table.pkjoin(s_table, s_cols, r_cols, false)
CProjR ==
    /\ pc = "c_pr"
    /\ LET rc == Append(loc.rc, loc.rr) IN
       /\ lay' = [lay EXCEPT !["Rc"] = ProjectCols(@, rc)]
       /\ nc' = [nc EXCEPT !["Rc"] = Len(rc)]
       /\ pk' = [r |-> "S", s |-> "Rc", rc |-> loc.sc, sc |-> loc.rc,
                 rkey |-> Cols(lay["S"], loc.sc), skey |-> Cols(lay["R"], loc.rc),
                 move |-> FALSE, k |-> Len(loc.sc), ori_r |-> Len(lay["S"]),
                 ori_s |-> Len(rc), ret |-> "j_sum"]
       /\ misread' = misread \cup ReadSeq("project Rc", Cols(lay["Rc"], rc),
                                          Cols(lay["R"], loc.rc) \o <<"degR">>)
    /\ pc' = "pk_mv"
    /\ UNCHANGED <<flow, key, loc, ex>>

\* step 2: M = r_table.sum(rs_col), then r_table.expansion(rs_col, M)
JSum ==
    /\ pc = "j_sum"
    /\ LET r_num == loc.r_num + 2
           rs == r_num - 1
       IN  /\ loc' = [loc EXCEPT !.r_num = r_num, !.s_num = @ + 2, !.rr = r_num - 2, !.rs = rs]
           /\ misread' = misread \cup Read("sum rs", At(lay["R"], rs), "degS")
           /\ ExCall("R", rs, "degS", TRUE, "j_delrr")
    /\ pc' = "ex_prep"
    /\ UNCHANGED <<flow, key, lay, nc, pk>>

\* r_table deleteCol(rr_col), then expansion(sr_col, M, false) on s_table
JDelRR ==
    /\ pc = "j_delrr"
    /\ lay' = [lay EXCEPT !["R"] = DelCol(@, loc.rr)]
    /\ nc' = [nc EXCEPT !["R"] = @ - 1]
    /\ loc' = [loc EXCEPT !.r_num = @ - 2, !.ss = loc.s_num - 2, !.sr = loc.s_num - 1]
    /\ misread' = misread \cup Read("delete rr", At(lay["R"], loc.rr), "degR")
    /\ ExCall("S", loc.s_num - 1, "degR", FALSE, "j_step3")
    /\ pc' = "ex_prep"
    /\ UNCHANGED <<flow, key, pk>>

\* step 3: i_col and j_col appended and computed by prefix aggregates
JStep3 ==
    /\ pc = "j_step3"
    /\ LET s1 == AddCol(lay["S"], "i", -1)
           s2 == AddCol(s1, "j", -1)
       IN  /\ lay' = [lay EXCEPT !["S"] = s2]
           /\ nc' = [nc EXCEPT !["S"] = @ + 2]
           /\ loc' = [loc EXCEPT !.i = Len(s1) - 1, !.j = Len(s2) - 1, !.s_num = @ + 2]
           /\ misread' = misread \cup Read("i_col", At(s1, Len(s1) - 1), "i")
                                 \cup Width("i_col", nc["S"] + 1, s1)
                                 \cup Read("j_col", At(s2, Len(s2) - 1), "j")
                                 \cup Width("j_col", nc["S"] + 2, s2)
                                 \cup ReadSeq("group by s_cols", Cols(s2, loc.sc), KeyLabels("S", key.s))
    /\ pc' = "j_step4"
    /\ UNCHANGED <<flow, key, pk, ex>>

\* step 4: joinComputeAlignment, then the shuffle by column s_num_cols - 1
JStep4 ==
    /\ pc = "j_step4"
    /\ LET l == lay["S"]
           n == Len(l)
           s2 == l \o <<"pos", "dst">>
       IN  /\ lay' = [lay EXCEPT !["S"] = s2]
           /\ nc' = [nc EXCEPT !["S"] = @ + 2]
           /\ loc' = [loc EXCEPT !.s_num = @ + 2]
           /\ misread' = misread \cup Read("alignment j", At(l, n - 1), "j")
                                 \cup Read("alignment q", At(l, n - 2), "i")
                                 \cup Read("alignment deg_r", At(l, n - 3), "degR")
                                 \cup Read("alignment deg_s", At(l, n - 4), "degS")
                                 \cup Width("alignment shuffle", nc["S"] + 2, s2)
                                 \cup Read("alignment shuffle", At(s2, loc.s_num + 1), "dst")
    /\ pc' = "j_final"
    /\ UNCHANGED <<flow, key, pk, ex>>

\* joinFinalCombine(r_table, r_cols.size()) in every partition; R's
\* m_num_columns is left as it was
JFinal ==
    /\ pc = "j_final"
    /\ lay' = [lay EXCEPT !["R"] = JoinFinalCombine(@, lay["S"], Len(loc.rc))]
    /\ misread' = misread \cup Read("final sort", At(lay["S"], Len(lay["S"]) - 2), "pos")
    /\ pc' = "done"
    /\ UNCHANGED <<flow, key, nc, loc, pk, ex>>

-----------------------------------------------------------------------------
(* GlobalTable::pkjoin(r_table = pk.r, r_cols, s_cols, need_move_cols) on *)
(* s_table = pk.s; the result is r_table.                                  *)

PkMv ==
    /\ pc = "pk_mv"
    /\ lay' = IF pk.move
              THEN [lay EXCEPT ![pk.r] = MvIfNeeded(@, pk.rc), ![pk.s] = MvIfNeeded(@, pk.sc)]
              ELSE lay
    /\ pc' = "pk_r"
    /\ UNCHANGED <<flow, key, nc, loc, pk, ex, misread>>

\* R: localSort, addCol I, addCol Z, foreignTableModifyColZ, shuffle by key + Z
PkR ==
    /\ pc = "pk_r"
    /\ LET l == AddCol(AddCol(lay[pk.r], "I", -1), "Z", -1)
           n == nc[pk.r] + 2
       IN  /\ lay' = [lay EXCEPT ![pk.r] = l]
           /\ nc' = [nc EXCEPT ![pk.r] = n]
           /\ misread' = misread \cup ReadSeq("pk sort R", Cols(l, Iota(pk.k)), pk.rkey)
                                 \cup Read("modify Z", At(l, n - 1), "Z")
                                 \cup Read("shuffle R by Z", At(l, Len(l) - 1), "Z")
                                 \cup Width("shuffle R", n, l)
    /\ pc' = "pk_s"
    /\ UNCHANGED <<flow, key, loc, pk, ex>>

\* S: addCol I (-1), addCol Z (0), shuffle by key + Z
PkS ==
    /\ pc = "pk_s"
    /\ LET l == AddCol(AddCol(lay[pk.s], "I", -1), "Z", -1) IN
       /\ lay' = [lay EXCEPT ![pk.s] = l]
       /\ nc' = [nc EXCEPT ![pk.s] = @ + 2]
       /\ misread' = misread \cup ReadSeq("shuffle S by key", Cols(l, Iota(pk.k)), pk.skey)
                             \cup Read("shuffle S by Z", At(l, Len(l) - 1), "Z")
                             \cup Width("shuffle S", nc[pk.s] + 2, l)
    /\ pc' = "pk_align"
    /\ UNCHANGED <<flow, key, loc, pk, ex>>

\* the dummy columns that align R (at ori_r_col_num) and S (at join_col_num)
PkAlign ==
    /\ pc = "pk_align"
    /\ lay' = [lay EXCEPT ![pk.r] = InsertFills(@, pk.ori_r, pk.ori_s - pk.k),
                          ![pk.s] = InsertFills(@, pk.k, pk.ori_r - pk.k)]
    /\ nc' = [nc EXCEPT ![pk.r] = @ + pk.ori_s - pk.k, ![pk.s] = @ + pk.ori_r - pk.k]
    /\ pc' = "pk_combine"
    /\ UNCHANGED <<flow, key, loc, pk, ex, misread>>

\* pkJoinCombine: S's rows join R's, sorted by key, Z, I; R's rows take the
\* columns [ori_r_col_num, ori_r_col_num + r_align_col_num) of the S row before
PkCombine ==
    /\ pc = "pk_combine"
    /\ LET r == lay[pk.r]
           s == lay[pk.s]
           n == Len(r)
           cp == {j \in 0 .. n - 1 : pk.ori_r <= j /\ j < pk.ori_r + pk.ori_s - pk.k}
       IN  /\ lay' = [lay EXCEPT ![pk.r] = [x \in 1 .. n |-> IF x - 1 \in cp THEN At(s, x - 1) ELSE r[x]]]
           /\ misread' = misread \cup Read("combine rows", ToString(Len(s)), ToString(n))
                                 \cup Read("combine I", At(r, n - 2), "I")
                                 \cup Read("combine Z", At(r, n - 1), "Z")
                                 \cup Read("combine S I", At(s, n - 2), "I")
                                 \cup Read("combine S Z", At(s, n - 1), "Z")
    /\ pc' = "pk_back"
    /\ UNCHANGED <<flow, key, nc, loc, pk, ex>>

\* R shuffled back by column I, finalizePkjoinResult sorting by key + Z,
\* then deleteCol(cur_col_num - 1) and deleteCol(cur_col_num - 2)
PkFinal ==
    /\ pc = "pk_back"
    /\ LET r == lay[pk.r]
           cur == CurColNum(pk)
           r1 == DelCol(r, cur - 1)
       IN  /\ lay' = [lay EXCEPT ![pk.r] = DelCol(r1, cur - 2)]
           /\ nc' = [nc EXCEPT ![pk.r] = @ - 2]
           /\ misread' = misread \cup Read("shuffle back by I", At(r, Len(r) - 2), "I")
                                 \cup Width("shuffle back", nc[pk.r], r)
                                 \cup Read("finalize sort Z", At(r, Len(lay[pk.s]) - 1), "Z")
                                 \cup Read("finalize Z", At(r, Len(r) - 1), "Z")
                                 \cup Read("delete Z", At(r, cur - 1), "Z")
                                 \cup Read("delete I", At(r1, cur - 2), "I")
    /\ pc' = pk.ret
    /\ UNCHANGED <<flow, key, loc, pk, ex>>

-----------------------------------------------------------------------------
(* GlobalTable::expansion(d_index, M, delete_expand_col) on ex.t.         *)

\* expansion_prepare(d_index), then copyCol() (a copy of the last column)
\* that the prefix sum into l_index turns into L
ExL ==
    /\ pc = "ex_prep"
    /\ LET l == lay[ex.t]
           l2 == Append(l, "L")
       IN  /\ lay' = [lay EXCEPT ![ex.t] = l2]
           /\ nc' = [nc EXCEPT ![ex.t] = @ + 1]
           /\ ex' = [ex EXCEPT !.num_cols = @ + 1]
           /\ misread' = misread \cup Read("prepare D", At(l, ex.d), ex.want)
                                 \cup Read("copy D", At(l, Len(l) - 1), ex.want)
                                 \cup Read("prefix L", At(l2, ex.num_cols), "L")
                                 \cup Width("prefix L", nc[ex.t] + 1, l2)
    /\ pc' = "ex_tp"
    /\ UNCHANGED <<flow, key, loc, pk>>

\* add_and_calculate_col_t_p(d_index, m), then the shuffle by num_cols - 2
ExTP ==
    /\ pc = "ex_tp"
    /\ LET l == lay[ex.t]
           n == nc[ex.t]
           l2 == Resize(l, n) \o <<"T", "P">>
       IN  /\ lay' = [lay EXCEPT ![ex.t] = l2]
           /\ nc' = [nc EXCEPT ![ex.t] = n + 2]
           /\ ex' = [ex EXCEPT !.num_cols = @ + 2]
           /\ misread' = misread \cup Read("T P of D", At(l, ex.d), ex.want)
                                 \cup Read("T P of L", At(l, n - 1), "L")
                                 \cup Width("shuffle by T", n + 2, l2)
                                 \cup Read("shuffle by T", At(l2, (ex.num_cols + 2) - 2), "T")
    /\ pc' = "ex_dist"
    /\ UNCHANGED <<flow, key, loc, pk>>

\* expansion_distribute_and_clear(m): distribute by the last column, drop
\* the last three; then the two phases of the suffix sum
ExDist ==
    /\ pc = "ex_dist"
    /\ LET l == lay[ex.t]
           l2 == SubSeq(l, 1, Len(l) - 3)
       IN  /\ lay' = [lay EXCEPT ![ex.t] = l2]
           /\ nc' = [nc EXCEPT ![ex.t] = @ - 3]
           /\ misread' = misread \cup Read("distribute by P", At(l, Len(l) - 1), "P")
                                 \cup ReadSeq("remove P T L", SubSeq(l, Len(l) - 2, Len(l)), <<"L", "T", "P">>)
                                 \cup Width("suffix sum", nc[ex.t] - 3, l2)
    /\ pc' = "ex_del"
    /\ UNCHANGED <<flow, key, loc, pk, ex>>

\* delete_expand_col: deleteCol(d_index)
ExDel ==
    /\ pc = "ex_del"
    /\ ex.del
    /\ lay' = [lay EXCEPT ![ex.t] = DelCol(@, ex.d)]
    /\ nc' = [nc EXCEPT ![ex.t] = @ - 1]
    /\ misread' = misread \cup Read("delete D", At(lay[ex.t], ex.d), ex.want)
    /\ pc' = ex.ret
    /\ UNCHANGED <<flow, key, loc, pk, ex>>

ExKeep ==
    /\ pc = "ex_del"
    /\ ~ex.del
    /\ pc' = ex.ret
    /\ UNCHANGED <<flow, key, lay, nc, loc, pk, ex, misread>>

Next ==
    \/ JStart \/ JSort \/ CDegR \/ CDegS \/ CProjS \/ CProjR
    \/ JSum \/ JDelRR \/ JStep3 \/ JStep4 \/ JFinal
    \/ PkMv \/ PkR \/ PkS \/ PkAlign \/ PkCombine \/ PkFinal
    \/ ExL \/ ExTP \/ ExDist \/ ExDel \/ ExKeep

Spec == Init /\ [][Next]_vars

-----------------------------------------------------------------------------
Labels == {t \o ToString(c) : t \in {"R", "S"}, c \in 0 .. MaxW - 1}
          \cup {"degR", "degS", "I", "Z", "fill", "i", "j", "pos", "dst", "L", "T", "P", "zero"}

\* Every column of every table holds an input column or one the join adds,
\* and m_num_columns is a count.
TypeOK ==
    /\ flow \in {"join", "pkjoin"}
    /\ \A t \in Tabs : lay[t] \in Seq(Labels) /\ nc[t] \in Nat
    /\ \A m \in misread : m.got \in STRING /\ m.want \in STRING

\* Every column index the orchestrator computes (from numColumns(), from the
\* columns it has added and deleted, from pkjoin's ori_*_col_num) and every
\* index the enclave computes (from num_columns() or m_num_columns) reads the
\* column the code means there, and every width taken from m_num_columns
\* is the rows' width.
ReadsRight == misread = {}

\* The result of s.join(r, r_cols, s_cols) and of s.pkjoin(r, r_cols,
\* s_cols) is r_table holding R's columns, join columns first, then S's
\* columns other than its join columns, in order.
ResultLayout ==
    pc = "done" =>
        lay["R"] = MvAhead(Input("R", key.wr), key.r)
                   \o SubSeq(MvAhead(Input("S", key.ws), key.s), Len(key.s) + 1, key.ws)

=============================================================================
