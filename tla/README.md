# TLA+ models of Jodes

Jodes runs relational operators (sort, prefix aggregate, primary-key join,
general join, expansion) obliviously over a table split into `P` partitions.
Each partition is a `LocalTable` inside an SGX enclave. In distributed mode a
partition lives on a remote worker. This directory holds TLA+ models of the
protocols and algorithms, the TLC configurations that check them, and
`PROJECT.json`, which lists the components, runs, mutants, code map, findings
and hazards.

## The system

| Part | Source | State | Operations |
|---|---|---|---|
| Orchestrator `GlobalTable` | `App/src/GlobalTable.cpp` | the list of partition handles | sort, shuffle, groupByPrefixAggregate, pkjoin, join, expansion, sum, max, soda_join |
| Partition proxy `LocalTable` (App) | `App/src/LocalTable.cpp` | handle or URL | sends each task to the worker (`is_handle_`) or makes the ecall |
| Transport `send_request`, `CurlClient` | `App/src/ReqSender.cpp`, `App/src/CurlClient.cpp` | one client per request: `task_ret` | connect, send the headers, body and EOM, keep the reply body, return `task_ret` when the event loop ends |
| Worker `EchoHandler` | `App/src/EchoHandler.cpp` | `localTableMap` | `executeTask` dispatches a request; `onBody`/`onEOM` store a posted file |
| Enclave `LocalTable` | `Enclave/LocalTable.cpp` | `m_tuples` | aggCore, groupByAggregateBase, _addValueByKey, shuffle, partitionByPivots, expansion steps, pkjoin steps, SODA steps |
| Oblivious primitives | `Enclave/Obliv.cpp` | none (works in place) | bitonic sort, compaction, partition, distribute |
| Operators | `Enclave/Operators.h`, `Enclave/Tuple.cpp` | none | `apply` of ADD/MUL/MAX/MIN/COPY, `equal_in_cols`, `less_in_cols` |
| Enclave registry | `Enclave/Enclave.cpp` | `tableMap`: global id -> one `LocalTable*` per partition; `e_num_partitions` | `ecall_setup_env`, `ecall_read_file`, `ecall_copy`, `ecall_destroy`, `getLocalTable` |
| Slot files | `Enclave/LocalTable.cpp:191` (`genFileName`), `Enclave/Enclave.cpp`, `App/src/ocalls.cpp` | one file per (table, source, target) | write (local file or POST to the target worker), read (a missing file throws) |

### How the parts interact

Partitions exchange data only through slot files named
`gid<table>_lid<src>_tlid<dst>`. An operation is a sequence of phases. In
each phase the orchestrator starts one task per partition with
`parallel_for_each`. These are threads in distributed mode and a sequential
loop otherwise. It joins them all before the next phase, so a phase reads
only what earlier phases wrote. Slot names do not include a call counter, so
the next call on the same table finds the old files.

### Hard behaviours

- Phase tasks interleave in any order in distributed mode. `sum` and `max`
  fold the tasks' answers into one shared variable under a mutex.
- Stale slot files remain from earlier calls.
- Dummy tuples are padding that carry a real key and value: they are copies
  of a real tuple with the flag set. `equal_in_cols` ignores the flag, so
  every fold sees the dummies.
- Size bounds silently drop the tuples that do not fit.
- A table's id comes from the counter `GlobalTable::TOTAL`, and its
  partitions are found by that id in every enclave. `copy()` hands `TOTAL`
  to the partition copies before the new GlobalTable takes it. A worker
  never erases its `localTableMap` entry, and `getLocalTable` only logs a
  missing id.
- A task reaches a worker through one HTTP/1.1 request. Neither side checks
  what the other did: `ocall_write_file` and the void proxies ignore the
  reply, a refused or reset connection only logs, and the proxies that
  return a value cut it out of the reply text (`extractRet`, `stoi`).
- Columns are addressed by index only. The orchestrator computes an index
  from `numColumns()` (the width of partition 0's first row), or from
  counts it keeps by hand (`r_num_cols`, `cur_col_num`). The enclave
  computes one from `num_columns()` or from its own `m_num_columns`, and
  it writes and loads rows at `m_num_columns` values each. An index one
  off reads or deletes another column, without any error.

### Properties per component

- Prefix aggregate:
  - the result equals the per-group prefix or suffix aggregate of the input
    in partition order (`PrefixCorrect`);
  - the call returns (`Termination`);
  - the protocol refines the one-step call of `PrefixAggregateSpec`: no
    tuple changes place, key or dummy flag (`ImplementsPrefixAggregateSpec`).
- Oblivious primitives:
  - sort sorts (`SortCorrect`);
  - compaction puts the marked elements first, in order (`CompactCorrect`);
  - partition and shuffle put each real tuple in its bucket when no bucket
    overflows (`PartitionCorrect`);
  - distributeByCol puts each tuple at its target (`DistributeCorrect`);
- Sample sort:
  - the random shuffle keeps every tuple (`ShuffleKeepsTable`);
  - sort returns its real tuples once each, in key order across partitions
    (`SortCorrect`). It fails when a partition is empty, so it is also
    checked on the runs where no partition is empty
    (`SortCorrectUnlessSkipped`).
- Primary-key join:
  - every matched R row comes out once, with the columns of its S row, and
    nothing else comes out (`PkJoinCorrect`);
  - the call never waits on a slot nobody writes (`NoStall`).
- Expansion:
  - every row's D copies fill the output in input order, and dummies fill
    the rest (`ExpansionCorrect`);
  - the suffix sum never reads a slot that does not hold its one row
    (`NoStall`).
- General join:
  - R's rows pair every R row with every S row of its key exactly once, and
    M counts the pairs (`JoinCorrect`);
  - the call never waits on a slot nobody writes, and the final combine
    never reads past S's partition (`NoStall`).

- Table registry:
  - every partition of every table in scope is reachable in its enclave
    and holds that table's tuples (`Resident`);
  - between operations, every enclave `LocalTable` belongs to exactly one
    table in scope (`NoLeak`).
- Column layout of join and pkjoin:
  - every column index the code computes reads the column meant there,
    and every `m_num_columns` used as a row width is the rows' width
    (`ReadsRight`);
  - the result is R's columns, join columns first, then S's non-join
    columns (`ResultLayout`).
- Transport and slot files:
  - every call returns, whatever the network does to bodies and
    connections (`CallsReturn`);
  - a remote write that returns without a logged error has left exactly
    its block in the target's file (`StoredOnReturn`);
  - every call gives the caller what the worker meant (`Delivered`). It
    fails (findings 10-12).
- Table aggregates:
  - `max` returns the largest real value of the column (`MaxCorrect`). It
    fails in distributed mode (finding 9). `sum` is checked inside `Join`,
    where `JoinCorrect` needs `M`.

## Plan

The modules, most important behaviour first:

1. `PrefixAggregate` (done): the three-phase prefix aggregate, which every
   join uses (computeDegrees, join step 3).
2. `Oblivious` (done): RECURSIVE operators for bitonic sort, `_compact`,
   `_oroffcompact`, `_partition_rec` and distribute, checked against
   reference definitions on every input up to a small size.
3. `PrefixAggregateSpec` (done): an abstract specification with an atomic
   step, which `PrefixAggregate` refines.
4. `Shuffle` (done): slot files, shuffleWrite, refreshAndMerge,
   randomShuffle, the oblivious shuffle by target, shuffleByKey and
   shuffleByCol with their size bounds and early returns.
5. `SampleSort` (done): GlobalTable::sort over `Shuffle` and
   `ObliviousOps`. Still to add: a composition with `PrefixAggregate` to
   decide whether the empty bucket of finding 1 arises from equal pivots.
6. `PkJoin` (done): GlobalTable::pkjoin over two instances of `Shuffle`.
7. `Expansion` (done): GlobalTable::expansion over `Shuffle`, with the
   prefix sum taken as the step of `PrefixAggregateSpec`.
8. `Join` (done): GlobalTable::join, steps 2-4, with computeDegrees,
   expansion and the prefix aggregates as single steps. Still to add: a
   composition that runs computeDegrees' own prefix aggregates and pkjoins
   in place of their checked results.
9. `Aggregates` (done): GlobalTable::sum and max, task by task, with the
   threads of distributed mode. `Join` instantiates it for `M`.
10. `Tables` (done): the registry and the life of a table (read, copy,
    destroy) in both modes.
11. `Layout` (done): the columns of every table through join,
    computeDegrees, pkjoin and expansion, one column index at a time.
12. `Rpc` (done): a call through the transport to a worker, and the slot
    files that `ocall_write_file` posts, with chunked bodies and refused
    or reset connections.

## Modules and runs

### PrefixAggregate

`PrefixAggregate.tla` models `GlobalTable::groupByPrefixAggregate`
(`App/src/GlobalTable.cpp:882-916`) and its enclave side
(`Enclave/LocalTable.cpp:916-1000`). Its state:

- `tuples[i]`: the `m_tuples` of partition `i`. A tuple is abstracted to
  `[key, val, dummy]`, with one group-by column and one aggregate column.
- `file[<<s, t>>]`: the one-tuple slot file `gid_lid<s>_tlid<t>`.
- `stage` and `pending`: the orchestrator's phase and the tasks of that
  phase that have not yet joined.
- `input`: a history variable that keeps the table as the call received it.
- `call`: the arguments of the call, fixed by `Init`: the operator (`Op`),
  whether it groups by key (`GroupByKey`), `reverse` and whether the
  partitions are remote workers (`Distributed`).

Its actions:

- `Phase1(i)`: `groupByAggregateBase(phase = 1)`.
- `Phase2`: `phase = 2` on partition 0, after the join.
- `Phase3(i)`: `_addValueByKey`.
- `Return`: the last join.

A read of an unwritten slot throws in the code. In the model it is a step
that is never enabled. `TaskReverse` is the `reverse` flag a task actually
runs with. The worker's dispatch drops it (`HandleReverse`).

`MC_PrefixAggregate.tla` defines the calls as setups `[call, tables,
files]`, and `Init` picks one. `PassSetups` holds the three calls the
code gets right: an ungrouped ADD over tables with dummies of value 0
anywhere (the expansion's prefix sum), a grouped ADD with a real tuple in
every partition and stale or fresh slots, and a local reverse MAX without
dummies. Each violation run takes the one setup of its finding. The input
sets are:

- `SortedTables`: sorted by key, dummies last in each partition.
- `SortedNonEmptyTables`: the same, with a real tuple in every partition.
- `SortedRealTables`: sorted, with no dummies.
- `AnyTables`: no order.
- `FreshFiles` and `FreshOrStaleFiles`: the slot contents before the call.

Bounds: `P = 3` partitions, so there is a middle partition that both
receives and forwards a carry. Each partition has `N = 2` tuples, so a group
can both continue inside a partition and straddle a boundary. There are two
keys and values in {1, 2}.

| Run | cfg | Checks | Result |
|---|---|---|---|
| prefix_aggregate | MC_prefix_aggregate.cfg | the three `PassSetups` calls | TypeOK, PrefixCorrect, Termination, ImplementsPrefixAggregateSpec hold |
| prefix_faults | MC_prefix_faults.cfg | grouped ADD with an all-dummy partition, reverse MAX with trailing dummies, reverse MAX on workers (`FaultySetups`) | PrefixCorrect violated (findings 1, 2 and 3) |

TLC prints the shortest counterexample of prefix_faults, the all-dummy
partition (finding 1). Setting `Setups <- ReverseDummySetups` or
`Setups <- ReverseDistributedSetups` in a copy of `MC_prefix_faults.cfg`
prints the counterexample of finding 2 or of finding 3.

**Fairness:** `WF_vars(Next)`. Each task is a thread, or a loop iteration,
that runs to completion, and the orchestrator joins them. No step waits on
anything except the slot files that earlier phases wrote. `CHECK_DEADLOCK`
is off because the call really does stop once it returns (`stage = "done"`).

**Refinement.** `PrefixAggregateSpec.tla` states what the call promises its
caller, without partitions' tasks or files. Its state is the table the
caller sees (`view`), `done` and `call`. One step, `Return`, replaces the
view with `PrefixTable(view)`: every tuple keeps its place, key and dummy
flag, and each real tuple gets its running aggregate. A dummy's value is
not promised, and the view shows it as 0. Its `Init` admits any table of
tuples, so it assumes nothing of the caller's sort.

`PrefixAggregate` maps onto it in `Abs == INSTANCE PrefixAggregateSpec WITH ...`:

- `view` is `input` until `stage = "done"`, and `tuples` after, with the
  dummies' values hidden;
- `done` is `stage = "done"`.

Phases 1 to 3 are stuttering steps of the abstract spec. `Return` is its
`Return`. The prefix_aggregate run checks `Abs!SafetySpec`
(`Init /\ [][Return]_avars`) as the property `ImplementsPrefixAggregateSpec`.
The fairness of `Abs!Spec`, `WF(Return)`, follows from it together with
`Termination`, which the same run checks. `Return` is the only abstract step
that sets `done`, so a behaviour that reaches `stage = "done"` takes it. After
it, `Return` is disabled. Checking `WF(Return)` directly makes TLC evaluate
`ENABLED Return`, a whole `PrefixTable`, on every state. That costs five times
the rest of the run and adds nothing.
`PrefixCorrect` looks only at the values of real tuples. The refinement
also fails when a fold rewrites a key or a dummy flag. The mutant
`AggLoopMarkDummy` is an example: it runs aggCore's dummy-marking line
without its `!doPrefix` guard, which is the `groupByAggregate` behaviour.

### Oblivious

`Oblivious.tla` models `Enclave/Obliv.cpp`. An array is a function
`0 .. n-1 -> [key, dummy, tgt, id]`:

- `key` is the one sort column.
- `tgt` is the target that `sortByKey`, `shuffle` and `distribute` swap
  along with the tuple.
- `id` is the input position. It is read only by the properties.

Each recursive C++ routine is a RECURSIVE operator with the same arguments,
and each `for` loop is a RECURSIVE loop operator:

- `BitonicSort`, `BitonicMerge`, `MergeSwaps`: `_bitonic_sort`,
  `_bitonic_merge`.
- `Compact`, `TailSwaps`, `OrOffCompact`, `OffSwaps`: `_compact`,
  `_oroffcompact`. The marker array `M` is never swapped, as in the code.
- `PartitionRec`, `MarkLoop`: `_partition_rec`. `GoesLeft` is the caller's
  `compare`: `less_in_cols` against a pivot, or `targets[i] <= j`.
- `DistLoop`, `DistRound`, `DistributeOver`: the distribute cascade over
  the first `m` positions. `TupleObliv::distribute` takes `m` from the size
  the `TupleObliv` was built with, and `shuffle_soda` builds it before
  padding, so its cascade never reaches the padding.

`cswapTuple` and `cmove` are modelled by what they do: `CSwap` is a
conditional swap. One call is one action (`SortCall`, `CompactCall`,
`PartitionCall`, `ShuffleCall`, `DistributeByColCall`, `ShuffleSodaCall`),
with the caller's padding: the padding dummy is a dummy copy of the first
tuple.

`MC_Oblivious.tla` enumerates every call up to a size, for the calls named in the set `Which`.
`Requests(op)` builds the calls of one operation only; `Init` draws from it for each op in `Which`:

- sort: all arrays of up to 6 tuples over two keys and both dummy flags,
  both directions.
- compact: every marker vector of up to 8 elements.
- partition: up to 3 buckets of capacity up to 2, and at most 5 tuples with
  dummies anywhere. Shuffle's `shuffle_non_obliv` leaves dummies in a table.
- shuffle and shuffle_soda: up to 4 tuples, 2 or 3 targets, and capacities
  with `p*U >= n`, as `LocalTable::shuffle` clamps them.
- distribute: real tuples first with increasing distinct targets, as
  `expansion_distribute_and_clear` leaves them after compact and sort.

These sizes include sizes that are not powers of two, empty buckets, full
buckets and overflow. A call is one step, so deadlock checking is off: the
state after the call is final.

| Run | cfg | Checks | Result |
|---|---|---|---|
| obliv_calls | MC_obliv_calls.cfg | SortCorrect, CompactCorrect, PartitionCorrect (over partition and shuffle), DistributeCorrect | all hold |

### Shuffle and SampleSort

`Shuffle.tla` holds the slot-file vocabulary of the enclave `LocalTable`:

- `tuples[i]` is `m_tuples` of partition `i`, an array of ObliviousOps
  elements.
- `file[<<s, t>>]` is slot `gid_lid<s>_tlid<t>`. `NoFile` means nobody has
  written it yet.
- `ShuffleWrite` is `shuffleWrite`.
- `RefreshAndMerge` / `MergeFrom` are `refreshAndMerge`. A missing slot
  throws, so the step is not enabled.
- `RandomShuffleWrite` is `randomShuffle` with `shuffle_non_obliv`
  (`ShuffleNonObliv`). Every tuple, dummies included, goes to any
  partition.
- `TableShuffle` is `LocalTable::shuffle`: the bound is clamped to the
  table size, an empty table returns without writing, and otherwise the
  table is padded with dummy copies of its first tuple and partitioned by
  target into `P` runs of `U`. The runs become `m_tuples` and run `t` goes
  to slot `(i, t)`.
- `ShuffleByKey` is `shuffleByKey`: an empty table returns before the
  shuffle, and a real tuple's target is `Hash` of its key. A dummy's target
  is random in the code; `_partition` never reads it, so the model sets 0.
- `ShuffleByCol` is `shuffleByCol`: when `P` runs of the bound cannot hold
  the table, the real tuples are compacted to the front and the table is
  cut to `P * U`. Every tuple goes to the partition its column names, and a
  bound of 0 takes the non-oblivious shuffle.

`ObliviousOps` tests `LoopDone(X, i, end)` in each swap loop. TLC passes
operator arguments unevaluated, so without it a loop of `n` swaps is a chain
of `n` pending swaps that is evaluated all at once, deep enough to overflow
the stack inside the pkjoin pipeline. Testing `DOMAIN X` only forces the
array of each step; it does not change what the loop computes.

`SampleSort.tla` models `GlobalTable::sort`
(`App/src/GlobalTable.cpp:769-790`). Its phases are:

1. the random shuffle write tasks (`RandomShuffleTask`);
2. the merge tasks (`ShuffleMergeTask`);
3. `GetPivots` on partition 0;
4. `PartitionByPivotsTask`;
5. `SortMergeTask`.

`Join` is the return of `parallel_for_each`. `n0` is
`m_localTables[0].size()`, read after the shuffle.

Three behaviours of the code are kept:

- `partitionByPivots` on an empty table returns before it writes.
- `getPivots` reads past the end of `m_tuples` when partition 0 has fewer
  than `P` tuples. This is modelled as any tuple.
- `n0 = 0` makes the size bound undefined, and the partition tasks fail
  (`stage = "failed"`).

The size bound is the table size. The Chernoff formula of
`size_bound_for_sorting` exceeds it for every table under 50 tuples per
partition. `skipped` is a history variable: the partitions that took the
early return.

`MC_SampleSort.tla`: `P = 2` partitions of up to `N = 2` tuples, with keys
{1, 2} and dummies anywhere. Every target the random shuffle can draw is
explored, in every task order. This includes empty partitions and pivots
that are dummies.

| Run | cfg | Checks | Result |
|---|---|---|---|
| sample_sort | MC_sample_sort.cfg | TypeOK, ShuffleKeepsTable, SortCorrectUnlessSkipped | hold |
| (no run) | MC_sample_sort_empty.cfg | SortCorrect | violated (finding 7) |

The comment on `GlobalTable::sort`'s call of `randomShuffle` says dummies
"would also be removed". `ShuffleKeepsTable` shows that they are kept:
`shuffle_non_obliv` sends every tuple.

### PkJoin

`PkJoin.tla` models `GlobalTable::pkjoin` (`App/src/GlobalTable.cpp:612-700`),
called on the table S, whose join key is unique, with the table R. R's rows
receive the non-join columns of the matching S row. It instantiates
`Shuffle` twice: `RS` over R's tables and slot files (`rt`, `rfile`) and `SS`
over S's (`st`, `sfile`). The two tables have different global ids, so they
have different files.

A row is an ObliviousOps element with the columns the protocol reads:

- `jk`: the join key;
- `z`: column Z;
- `src`: column I, the partition R's row came from, or -1 for S;
- `sval`: the S columns in R's layout, `NoVal` until they are copied;
- `id`: the input row, which no operator reads.

A sort by several columns becomes a sort by one number that orders them the
same way: `ColsKey` folds the columns of a list (`JoinCols`,
`CombineSortCols`, `KeyZCols`) into one number, as `Tuple::less_in_cols` compares column by column. `hash` is `Tuple::hash` with the
call's seed, mod `P`: a function of (key, Z) chosen by `Init`, so every
hash is explored. `rin` and `sin` are history variables.

Phases, each a `parallel_for_each` whose tasks run in any order before
`Join` moves to the next:

1. `RPrepare`: localSort by key, add I and Z, foreignTableModifyColZ.
2. `RKeyWrite` / `RKeyRead`: R's shuffle by (key, Z).
3. `SPrepare`, `SKeyWrite`, `SKeyRead`: the same for S, with I = -1, Z = 0.
4. `Combine`: pkJoinCombine, which copies S's columns into each
   representative (Z = 0), marks unmatched representatives dummy, compacts
   R's rows to the front and cuts to R's size.
5. `RColWrite` / `RColRead`: the shuffle back by column I with bound
   `loc_size / P`, where `loc_size` is partition 0's size.
6. `Finalize`: finalizePkjoinResult copies each representative's columns
   into the other rows of its key. On an empty table the code writes
   `m_tuples[0]` past the end, which is undefined behaviour. The model
   takes the job as failed.

`Join` computes each shuffle by key's bound as `GlobalTable::shuffle` does:
the largest local table, because `getSizeBound` exceeds it for every table
in reach. The column-alignment and delete phases change only the layout and
are left out.

`MC_PkJoin.tla`: `P = 2`, keys {1, 2}, `MaxRows = 2`. R has two rows per
partition: real rows of any key, and dummies. A dummy sorts after every real
row, so it carries the smallest key. S has one row per partition. Its real keys
are either unique (`UniqueS`), or one key sits in both partitions with the
same column value (`DegreeS`). The second kind is what computeDegrees
passes: its `remove_dup_after_prefix` is local to a partition, and every
copy of a key carries the key's degree. Every hash of (key, Z) is explored, so representatives of
both keys meet and miss their S rows.

| Run | cfg | Checks | Result |
|---|---|---|---|
| pkjoin | MC_pkjoin.cfg | TypeOK, PkJoinCorrect, NoStall | hold (850,176 states) |
| (no run) | MC_pkjoin_unbalanced.cfg | PkJoinCorrect with R partitions of 2 and 1 rows | violated (finding 8) |

`MC_sample_sort_empty.cfg` and `MC_pkjoin_unbalanced.cfg` are kept to
reproduce findings 7 and 8 (`tlc -config <cfg> MC_SampleSort`, `MC_PkJoin`);
they are not among the runs `PROJECT.json` lists.

**Termination.** The pkjoin run checks `NoStall`, a state invariant, instead
of a temporal `<>(stage = "done")`. TLC evaluates the pipeline's recursive
operators without caching when it computes `ENABLED` or checks fairness on
transitions, and that makes a liveness run infeasible at this size. Every
step removes a task from `pending` or moves to a later phase, so the state
graph is finite and acyclic. Under `WF_vars(Next)`, which the joined tasks
justify as they do for PrefixAggregate, a call that never stalls therefore
returns.

### Expansion

`Expansion.tla` models `GlobalTable::expansion(d_index, M)`
(`App/src/GlobalTable.cpp:702-767`) and the enclave functions it calls
(`Enclave/LocalTable.cpp:357-496`). Each real row with multiplicity `D > 0`
becomes `D` copies. The copies are laid out in input order over `P`
partitions of `m = ceil(M / P)` rows each. A tuple carries `d`, `l`, `t`
and `p` (columns D, L, T, P) and the input row's `id`. The module
instantiates `Shuffle` for the slot files.

Phases, in program order (`Phases`). The tasks of a phase run in any
order, and the orchestrator joins them before the next phase starts:

1. `PrepareTask`: `expansion_prepare` zeroes D of the dummies, and
   `copyCol` sets L := D.
2. `PrefixStep`: `groupByPrefixAggregate` (ADD, no group-by column) as one
   step. L becomes the running sum in partition order. This step is the
   `Return` of `PrefixAggregateSpec`, and the prefix_aggregate run checks
   that the protocol refines it for this very call (`ExpansionSetup`). The
   dummies, with D = 0, get the same running sum, because `aggCore` folds
   them like real rows.
3. `TPTask`: `add_and_calculate_col_t_p`. A row with D = 0 becomes a dummy.
   T = (L-1)/m and P = (L-1)%m use C's truncating division (`CDiv`,
   `CMod`).
4. `RandWrite` / `RandRead`: `randomShuffle`, with every target for every
   row.
5. `ColWrite` / `ColRead`: the shuffle by column T. `getSizeBound(m, P)`
   exceeds 27 for every `m` (`ColSizeBound`), and `shuffleByCol` clamps it
   to the table's size.
6. `DistributeTask`: `expansion_distribute_and_clear` compacts the real
   rows, sorts them by P, cuts or pads to `m` rows and distributes them by
   P.
7. `Suffix1`: phase 1 of `expansion_suffix_sum`. Each gap is filled from
   the right, and the first row goes to slot (i, 0).
8. `Suffix2Zero`, then `Suffix2`: phase 2. It runs on partition 0 alone
   first, then on the others, as the code orders it (line 752).

`MC_expansion.cfg` sets `P = 3` partitions of `N = 1` row. Each row is a
dummy or a real row with D in 0..3, and M is the sum of D (what `join`
passes) or one more. The instance therefore has m = 1 and m = 2, rows whose
copies span all three partitions, rows with D = 0, and a middle partition
that both receives and forwards the fill. The run covers 315,900 states in
about 15 s.

| Run | cfg | Checks | Result |
|---|---|---|---|
| expansion | MC_expansion.cfg | every call of the instance, every random shuffle and interleaving | TypeOK, ExpansionCorrect, NoStall hold |

- `TypeOK` bounds L, T and P. T = -1 (m = 1) and P = -1 occur only on
  dummies, whose target `_partition_rec` masks.
- `ExpansionCorrect`: at return, place g = i*m + k holds a copy of the row
  whose copies cover g in input order, or a dummy past the sum of D.
- `NoStall`: phase 2 never reads a slot that does not hold the one row
  partition 0 wrote. Until partition 0 writes it, slot (0, i) still holds a
  run of the shuffle by T. The same graph argument as for `PkJoin` turns
  this invariant into termination.

### Join

`Join.tla` models `GlobalTable::join` (`App/src/GlobalTable.cpp:561-610`)
after step 1, so R and S arrive sorted by the join key. The state is R's
`m_tuples` (`rt`), S's `m_tuples` and slot files (`st`, `file`, through an
instance of `Shuffle`), the phase, the pending tasks and `M`. The
calls that other modules check in detail are one atomic step each here.
Each step gives the result those modules show the call gives:

1. `Degrees` is `computeDegrees`. Each table's self degree is the number of
   real rows of its key. That is the forward ADD followed by the reverse MAX
   when both are correct, as `PrefixAggregateSpec` states them. Each side
   gets the other's degree from a local `remove_dup_after_prefix` (modelled
   line by line) and a pkjoin. An R row whose key S lacks becomes a dummy
   at the end of its partition, as pkjoin's final sort leaves it, and the
   same holds the other way round.
2. `SumCall` and `SumTask` are `M = r_table.sum(rs_col)`. They run
   through an instance of `Aggregates` on R, with its tasks interleaved as
   in distributed mode. `ExpandR` takes the returned `M` and expands R by rs. `ExpandS` expands S by
   sr. Both give the layout `ExpansionCorrect` proves.
3. `Step3`: i is a row's number within its key, and j is the running count
   of its key's first row. Dummies keep appendCol's 1, since the aggregates
   promise nothing of them.
4. Step 4 runs task by task:
   - `AlignTask` is `joinComputeAlignment`, with
     `l = q / deg_r + (q % deg_r) * deg_s + j - 1`.
   - `RandWrite` and `RandRead` are the random shuffle.
   - `ColWrite` and `ColRead` are the shuffle by column T, with the clamped
     `getSizeBound(m, P)`.
   - `CombineTask` is `joinFinalCombine`, which sorts S's partition by P
     and copies row k's id into R's row k.

`MC_join.cfg` sets:
- `P = 2` partitions of `N = 2` rows;
- keys 1..3;
- every pair of sorted R and S with one to six matching pairs.

So the instance contains keys that match nothing, groups spanning both
partitions, m up to 3, and a key with 2 R rows and 3 S rows. The
alignment formula tells deg_r from deg_s only when the two degrees differ
and are both at least 2, so that key is needed. The run covers 81,018 states.

| Run | cfg | Checks | Result |
|---|---|---|---|
| join | MC_join.cfg | every input of the instance, every random shuffle and interleaving | TypeOK, JoinCorrect, NoStall hold |

- `TypeOK` requires every row's T to be a partition and P to be below m.
  If l counts from j instead of j - 1, the last row's T is P.
- `JoinCorrect`: at return, M is the number of matching (R, S) pairs, R
  holds M real rows, and their (R id, S id) are those pairs, each once.
- `NoStall`: no merge waits for a slot nobody wrote, and `joinFinalCombine`
  never reads past S's partition. A bound of m / P for the shuffle by T
  would cut rows off and make S's partition shorter than R's.

What `Join` relies on is what the other runs check under their own
conditions. Findings 1-3 and 8 show inputs on which those conditions fail,
and then computeDegrees' degrees are wrong.

### Aggregates

`Aggregates.tla` models `GlobalTable::sum` and `GlobalTable::max`
(`App/src/GlobalTable.cpp:812-839`) on one table. `agg` holds the call's
operator and column, the shared `ret`, and each task's answer `cur`, its
comparison `cond` and its step `pc`. A task is a sequence of actions:

- `AskSum` / `AskMax` are `table.sum(column)` / `table.max(column)`. They
  go through the App `LocalTable` proxy, then either the ecall directly or
  a request to the worker, which makes the same ecall. `LocalSum` and
  `LocalMax` are the enclave's `LocalTable::sum` (dummies count 0) and
  `LocalTable::max` (from `INT_MIN`, real tuples only).
- `Add` is sum's `ret += cur_sum` under the lock. It is one step.
- `Compare` is max's `cond = cur > ret`, taken before the lock. `Update`
  is the locked `ret ^= (-cond) & (ret ^ cur)`, that is `ret = cond ? cur :
  ret`.

`Turn(i)` is `parallel_for_each`. In distributed mode every task may step
at any time. Otherwise a task waits until the tasks of the partitions
before it have returned. The unlocked read of `ret` is a data race. It
reads the value either before or after the concurrent write, and the
interleavings cover both.

`MC_Aggregates` calls sum or max once on every table of two partitions of
at most one tuple, with values 1 or 2, any of them dummies.

| Run | cfg | Checks | Result |
|---|---|---|---|
| max_race | MC_max_race.cfg | MaxCorrect with `Distributed = TRUE` | violated (finding 9) |

With `Distributed = FALSE` the same instance satisfies `MaxCorrect`, so the
violation comes from the threads. `sum` has no run of its own: `Join`
takes `M` from it, and `JoinCorrect` fails if the sum is wrong.

### Tables

`Tables.tla` models the life of a table across the App, the workers and
the enclaves. Its state:

- `tmap[h][g]` is enclave `h`'s `tableMap` entry for global id `g`. It is
  either `Absent` or one pointer per partition, where `Null` is a null
  pointer.
- `heap[o]` is what `LocalTable` object `o` holds, or `Free` once it is
  deleted. Contents are abstracted to their origin: the file and partition
  the tuples were read from.
- `eNum` is `e_num_partitions`, which starts at -1.
- `lmap[w][g]` is the local id of worker `w`'s `localTableMap` entry for
  `g`.
- `total` is `TOTAL`.
- `live` holds the GlobalTables in scope. Each has its id and the
  `global_id` of each partition proxy.
- `distributed` is chosen in `Init`, so one run covers both modes. Enclave
  `Host(i)` holds partition `i`: enclave 0 on one machine, worker `i`'s
  otherwise.

The ecalls are operators: `EcallReadFile`, `EcallCopy` and `EcallDestroy`,
with `Slots` for `initGlobalTable` and `Content` for `getLocalTable`.
`getLocalTable` reads through a missing entry, and that read gives
`Garbage`. The App's operations are split into actions:

- `ReadConfig` is `read_config_file`.
- `CreateTable`, then `ReadPart(i)` for each partition, then `CreateDone`
  is the file constructor and `splitData`.
- `CopyTable`, then `CopyPart(i)`, then `CopyDone` is `copy()` and the
  vector constructor. In distributed mode each partition's step is the
  worker's copy request and then its create_local_table request.
- `DestroyTable` is the destructor. In distributed mode it is followed by
  `DestroyPart(i)` for each partition and then `DestroyDone`.

The partition steps are ordered by `Turn` as in `parallel_for_each_i`. The
driver (`benchmark.cpp`, `test.cpp`) reads its configuration before it
builds a table, and `CreateTable` is guarded by `configured` accordingly.

`MC_tables.cfg` uses 2 partitions, 2 files and up to 3 ids. That allows a
read, a copy of it, and then a third read or copy, which reuses freed
objects. Six objects are enough for three tables. The driver may stop at
any point, so deadlock checking is off.

| Run | cfg | Checks | Result |
|---|---|---|---|
| tables | MC_tables.cfg | TypeOK, Resident, NoLeak in both modes | hold (2,582 states) |

### Layout

`Layout.tla` follows what each column of each table holds through
`GlobalTable::join` and `GlobalTable::pkjoin`. Rows, values and
partitions are abstracted away. The models above fix the layout that
each step expects; this one checks that the code's index arithmetic
produces it. Its state:

- `lay[t]` is the layout of table `t`: one label per column. Tables are
  `R` (r_table), `S` (s_table), and `Rc`, `Sc` (the copies computeDegrees
  makes). Input columns are labelled `R0`, `S1`, and so on. Added columns
  are labelled by role: `degR`, `degS`, `I`, `Z`, `fill` (pkjoin's dummy
  alignment columns), `L`, `T`, `P` (expansion), `i`, `j`, `pos`, `dst`
  (join steps 3 and 4).
- `nc[t]` is the enclave's `m_num_columns`. `Len(lay[t])` is
  `num_columns()`.
- `loc` holds join's locals (`r_num_cols`, `rr_col`, ...). `pk` and `ex` are
  the frames of the pkjoin and expansion calls in progress, with the step
  each returns to.
- `misread` collects every read whose index finds another column than
  the one the code means there. It also collects every width taken from
  `m_num_columns` that differs from the rows' width.

The column operations of the enclave are operators: `AddCol`, `DelCol`
(which, like `Tuple::delete_col`, ignores a position past the row),
`ProjectCols`, `MvAhead`, and `Resize`. The orchestrator's steps are
actions, one per stretch of code between two calls that read an index:

- join: `JStart`, `JSort`, then computeDegrees as `CDegR`, `CDegS`,
  `CProjS` and `CProjR`, each projection followed by a pkjoin. Then
  `JSum`, `JDelRR` (each followed by an expansion), `JStep3`, `JStep4`
  and `JFinal`.
- pkjoin: `PkMv`, `PkR`, `PkS`, `PkAlign`, `PkCombine` and `PkFinal`.
- expansion: `ExL`, `ExTP`, `ExDist`, then `ExDel` or `ExKeep`.

`Init` draws both flows: `s.join(r, ...)`, and the benchmark's
`s.pkjoin(r, ...)` with `need_move_cols`. It draws inputs of 1 to 4
columns, and 1 to 3 join columns in any distinct positions of each side.
That covers key columns already in front, which `mvJoinColsAhead` skips,
and keys in other orders and places. It also covers a table made only of
its key.

| Run | cfg | Checks | Result |
|---|---|---|---|
| layout | MC_layout.cfg | TypeOK, ReadsRight, ResultLayout | hold (54,600 states) |

All the index arithmetic is right on every input, including the hand-kept
counts: `r_num_cols += 2` after computeDegrees, `cur_col_num` in pkjoin,
and `num_cols` in expansion. Two things only hold because of how the code
is used:

- `joinFinalCombine` leaves R's `m_num_columns` at R's old width. Nothing
  reads it afterwards: the drivers only print the result, and the
  enclave's `print` is empty.
- `expansion` takes L from `copyCol()`, which copies the last column
  rather than `d_index`. Both callers pass the last column.

### Rpc

`Rpc.tla` models one caller (a thread of `GlobalTable`, or an enclave's
`write_file`) running a script of calls against one worker:

- `cl` is the `CurlClient` of the current request: its state, `task_ret`,
  whether it logged an error, and how many `onBody` calls it has had.
- `net` is what is in flight: the request headers, the request body, the
  request EOM, and the reply bytes.
- `srv` is the worker's `EchoHandler` for the request: its state, whether
  `fileStream_` is open, and `ret`.
- `disk` is the target's slot file: whether it exists, and its bytes.
- `executed` (the calls whose task ran on the worker) and `got` (what each
  call gave the caller) are history variables.

Bytes are one-character strings. `Dec` is `std::to_string`, `Reply` is the
body `"(ret:" + ret + ")"`, `ExtractRet` is `utils::extractRet`, and `Stoi`
is `std::stoi`/`std::stoll` (an optional sign and the leading digits, or an
exception). `Block` is `packBlock`: a header holding the payload's length,
then the payload. Encryption is left out: `read_file` decrypts what
`write_file` encrypted.
`Unpack` is `read_file`, which trusts that header.

The actions are the callbacks:

- caller: `SendRequest` (`connectSuccess`, `sendRequest`), `ConnectError`,
  `Return` (`send_request` returns `task_ret` and the proxy decodes it),
  `WriteLocal` (`ocall_write_file` to the caller's own slot), `ReadFile`
  (`read_file`; `readPartitionFile`'s bare `throw;` on a missing file
  terminates);
- worker: `OnRequest` (a `write_file` opens the file, any other task runs
  and sets `ret`), `OnBodyServer` (appends a chunk), `OnEOMServer` (closes
  the file and replies);
- client: `OnBodyClient` (`task_ret` becomes the chunk), `OnEOMClient`;
- fault: `Reset`, the connection dropped at any point before the client's
  EOM. The worker's `onError` deletes the handler, whose destructor
  closes the file with what it has.

The client speaks HTTP/1.1 (`send_request` passes 1, 1 and `h2c = false`),
so it reads `Content-Length` bytes of the reply as its body:
`OnEOMServer` puts only the first 6 bytes in flight. The network may split
either body anywhere. `MaxChunks` bounds the `onBody` calls of one reply.

`Spec` has weak fairness on every step but the faults. Each step is a
callback that an event loop delivers once it is ready, or the caller's next
statement. A refused or reset connection may happen, but nothing forces it.
The driver stops after the last call, or when an exception ends it, so
deadlock checking is off.

`MC_Rpc.tla` has six scripts:

- `size()` of 7 and of 12, and `max()` of -3;
- a void task;
- two rounds of a shuffle slot posted by another worker and read by its
  owner, with payloads of one and two bytes;
- a slot written locally and read.

Replies come in up to two chunks, and connections may fail.

| Run | cfg | Checks | Result |
|---|---|---|---|
| rpc | MC_rpc.cfg | TypeOK, StoredOnReturn, CallsReturn | hold (302 states) |
| rpc_reply | MC_rpc_reply.cfg | Delivered, without faults | violated (finding 10) |

`StoredOnReturn` holds because the worker truncates the file in
`onRequest`, appends each chunk in order, and closes the file before it
replies. It holds even over the previous round's file.

### Findings

1. An all-dummy partition sends a dummy boundary that carries a real key and
   a stale value. Phases 2 and 3 fold that value into the next partition's
   group. The sort that precedes computeDegrees does produce such a
   partition: with an invariant stating the opposite added to SampleSort,
   TLC reaches `done` with `skipped = {}` from an empty input partition 0
   and pivots equal to the smallest key, leaving partition 0 all dummies
   and every real tuple in partition 1.
2. A reverse fold starts at the trailing dummies. MAX takes their values,
   which computeDegrees' forward ADD has made larger than the count, into
   the last real group.
3. Distributed workers ignore `reverse` (`EchoHandler.cpp:168`). They run
   phases 1 and 2 forward, while the orchestrator runs the reverse phase 3.
4. Compaction reorders the unmarked elements. Three unmarked elements come
   out as input positions 1, 2, 0. `spec.md` promises their original
   order. No caller relies on it: every caller drops or sorts the unmarked
   tail. So `CompactUnmarkedOrder` stays in `Oblivious.tla` without a run
   of its own. Checking it under the `MC_obliv_calls.cfg` constants with
   `Which = {"compact"}` and `CompactN = 8` gives the trace.
5. An overflowing partition bucket moves its surplus into a neighbouring
   bucket instead of losing it. The tuple then sits in the wrong bucket.
   Every caller sizes its buckets so that they do not overflow, so
   `PartitionNeverMisplaces` stays in `Oblivious.tla` without a run of its
   own. Checking it under the `MC_obliv_calls.cfg` constants with
   `Which = {"partition"}` gives the trace.
6. `shuffle_soda` is not a shuffle into `p` runs of `U`
   (`Enclave/Obliv.cpp:268-275`). Two things go wrong:
   - it builds `obl` before padding, so `distribute` runs over the original
     `n` positions only (`int m = size`, line 246), and a real tuple whose
     target is at or past `n` stops at `n - 1`;
   - within those positions it routes a tuple to the absolute index of its
     target, in `0 .. p-1`, while `soda_shuffleByKey` sends the run
     `i*U .. i*U+U-1` to partition `i`.
   The shortest trace has one real tuple with target 1, `p = 2` and `U = 1`:
   the cascade over one position is empty, and the tuple stays in run 0.
   Only the SODA join, which is not modelled, calls it, so
   `ShuffleSodaCorrect` stays in `Oblivious.tla` without a run of its own.
   Checking it under the `MC_obliv_calls.cfg` constants with
   `Which = {"shuffle_soda"}` gives the trace.
7. `partitionByPivots` on an empty table returns before `shuffleWrite`
   (`Enclave/LocalTable.cpp:855-857`). `sortMerge` then reads that
   partition's slots, which still hold what it sent in the random shuffle
   of the same sort. Tuples already delivered are merged twice. A partition
   is empty after the random shuffle with probability about
   `(1 - 1/P)^N`, which is small only for large tables.
8. pkjoin shuffles R back with one bound for every partition,
   `loc_size / P` from partition 0 (`App/src/GlobalTable.cpp:679-683`).
   When R's partitions differ in size, a partition can send more rows to
   one target than the bound allows, and `shuffleByCol` cuts them off. An R
   row is lost. The code logs an error only when `loc_size % P != 0`, and
   carries on. Inside `join` the tables come out of a sort and are
   balanced. The standalone calls in `benchmark.cpp` and `test.cpp` take
   files split in any way.

9. `GlobalTable::max` compares a task's local maximum with `ret` before it
   takes the mutex (`App/src/GlobalTable.cpp:831`), then sets `ret` by that
   comparison inside it. In distributed mode both tasks compare against
   `ret = 0`. Partition 1 sets 2, then partition 0 sets 1, so `max`
   returns 1 for a column whose maximum is 2. `soda_join` uses `max` for
   `a1` and `a2`, the inputs of `size_bound_soda`. `max` also starts from
   0, not from `INT_MIN`, so a column of negative values has maximum 0.
   The callers take `max` only of degrees, which are at least 1.

10. `EchoHandler::onEOM` sends `Content-Length: 6` with the body
    `"(ret:" + ret + ")"` (`App/src/EchoHandler.cpp:348`). That is 6 bytes
    only when `ret` is empty. The client keeps `"(ret:"` and the value's
    first character, and `extractRet`, finding no `)`, returns that
    character. TLC's trace is `max()` of -3: it arrives as `"-"`, and
    `stoi` throws, which ends the orchestrator. With
    `Scripts <- {<<Get(12)>>}` and `MaxChunks = 1`, `size()` of 12 returns
    1 without any error. The same happens to any size, num_columns, sum,
    max, localJoin or SODA_step1 result of two or more characters, in
    distributed mode.
11. `CurlClient::onBody` sets `task_ret` to each chunk instead of appending
    it (`App/src/CurlClient.cpp:277`). A reply delivered in two chunks
    keeps only the second. With `Scripts <- {<<Get(7)>>}`, TLC splits
    `"(ret:7"` into `"(ret"` and `":7"`. `extractRet` finds no `ret:` and
    returns `""`, and `stoi` throws.
12. `ocall_write_file` ignores the result of `send_post_request`
    (`App/src/ocalls.cpp:38`). `send_request` returns normally after a
    refused or reset connection, which is only logged. With
    `Faults = TRUE` and the two-round script, there are three outcomes:
    - the first post is refused: the owner finds no file, and
      `readPartitionFile` terminates the worker;
    - the second post is refused: the owner silently reads the first
      round's block as this round's rows;
    - a void task is refused: it returns to the orchestrator as done
      without having run.

The same early return as finding 7 is in `shuffleByKey`
(`Enclave/LocalTable.cpp:124`). A pkjoin whose R or S has an empty
partition stalls in the merge, and `NoStall` is violated. No run is given to
it because the mechanism is finding 7's.

## Not modelled

- The size-bound formulas use `log`, `sqrt` and `ceil` over reals. The
  models take bounds as constants.
- Encryption, the serialization of rows and operators, and the text of
  the request headers are left out: each is undone by its reader. `Rpc` keeps the
  reply text, because `extractRet` and `stoi` parse it. It also keeps the
  block header, because `read_file` trusts it.
- Of `CurlClient`, SSL, pushed transactions and `sendBodyFromFile` (with
  egress pause) are not actions:
  - `send_request` refuses `https` URLs;
  - HTTP/2 is never negotiated;
  - every post has content, so no caller reaches `sendBodyFromFile`.
- `GlobalTable` has the implicit copy constructor, and its destructor
  destroys its id. A copied GlobalTable would destroy the same id twice.
  The drivers only copy through `auto t = g.copy()`, which is elided, so
  `Tables` treats GlobalTables as values that are never copied.
- The protocol models (`Shuffle`, `PrefixAggregate`, ...) take every slot
  write to land. `Rpc` shows what a refused or reset post does to one slot
  (finding 12). Since nothing retries, composing faults into the protocols
  would only repeat that finding at every slot.
- Timing instrumentation does not affect results.
- SODA join (`soda_join`, `size_bound_soda`, the SODA steps) is not
  modelled, because the code only simulates SODA's cost:
  - `SODA_step2` and `SODA_step3` move nothing (`obliv::cmove` with
    condition 0);
  - `assignColE` sends row i to partition `i % P` whatever its key;
  - `localJoin` compacts with an all-zero marker, and its comment says it
    simulates the alignment;
  - the "shuffle back" shuffles copies that are destroyed at once.

  So there is no join result to check. Its shuffle, `shuffle_soda`, is
  modelled in `Oblivious` (finding 6).
- `Join` takes step 1 (the two sorts) as done and gives the input already
  sorted. Inside `Join`, computeDegrees, the expansions and the step-3
  prefix aggregates are atomic steps giving their checked results.
- An expansion with `M = 0` (a join with an empty result) is outside the
  model. `getSizeBound(0, P)` divides by zero, and
  `expansion_distribute_and_clear` copies `m_tuples[0]` of an empty table.
