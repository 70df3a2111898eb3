------------------------------- MODULE Tables -------------------------------
(***************************************************************************)
(* The life of a table: the enclave's registry tableMap (Enclave.cpp),     *)
(* which maps a global table id to the LocalTable pointers of its          *)
(* partitions, and the App objects that address it: GlobalTable (its id,   *)
(* taken from the counter TOTAL) and the LocalTable proxies of its          *)
(* partitions (each with the global_id it sends with every ecall or         *)
(* request).  In single-machine mode one enclave holds every partition; in *)
(* distributed mode worker i's enclave holds partition i and the worker's  *)
(* localTableMap (EchoHandler.cpp) maps a global id to its own LocalTable. *)
(*                                                                         *)
(* A GlobalTable is read from a file, copied, or destroyed.  Each of these *)
(* runs one step per partition (parallel_for_each_i: one thread per       *)
(* partition in distributed mode, in partition order otherwise) and then   *)
(* completes.  What a table holds is abstracted to its origin: the file   *)
(* and partition it was read from.                                         *)
(***************************************************************************)
EXTENDS Integers, FiniteSets

CONSTANTS
    P,              \* utils::num_partitions
    Files,          \* the table files the driver reads
    MaxTables,      \* bound on GlobalTable::TOTAL, the ids handed out
    MaxObjs         \* bound on the LocalTable objects alive in the enclaves at once

VARIABLES
    distributed,    \* utils::is_distributed, as parse_config set it
    configured,     \* read_config_file has run
    total,          \* GlobalTable::TOTAL
    live,           \* the GlobalTables in scope: [id, lt (proxy global_id per partition), data]
    pending,        \* the GlobalTable operation in progress and its finished partitions
    tmap,           \* enclave -> global id -> pointer per partition, or Absent
    heap,           \* LocalTable object -> what it holds, or Free
    eNum,           \* enclave -> e_num_partitions
    lmap            \* worker -> global id -> local id of its LocalTable, or NoLocal

vars == <<distributed, configured, total, live, pending, tmap, heap, eNum, lmap>>

Parts == 0 .. P - 1
Gids == 0 .. MaxTables - 1
Objs == 1 .. MaxObjs
Null == 0           \* a null LocalTable*
Absent == <<>>      \* no entry for the global id
NoLocal == -1       \* no LocalTable under the global id in a worker's localTableMap
Free == <<>>        \* a deleted object
Garbage == <<"garbage", -1>>    \* what a read through a missing entry returns

\* the enclave that holds partition i
Host(i) == IF distributed THEN i ELSE 0

NoOp == [op |-> "none", src |-> [id |-> 0, lt |-> [i \in Parts |-> 0], data |-> [i \in Parts |-> Garbage]],
         id |-> 0, lt |-> [i \in Parts |-> 0], data |-> [i \in Parts |-> Garbage], done |-> {}]

Init ==
    /\ distributed \in BOOLEAN
    /\ configured = FALSE
    /\ total = 0
    /\ live = {}
    /\ pending = NoOp
    /\ tmap = [h \in Parts |-> [g \in Gids |-> Absent]]
    /\ heap = [o \in Objs |-> Free]
    /\ eNum = [h \in Parts |-> -1]
    /\ lmap = [w \in Parts |-> [g \in Gids |-> NoLocal]]

-----------------------------------------------------------------------------
(* The enclave's registry. *)

\* fault variant: the new vector has one slot too many
SlotsLong(h, g) == IF tmap[h][g] = Absent THEN [i \in 0 .. P |-> Null] ELSE tmap[h][g]

\* the slots of global id g in enclave h: initGlobalTable makes e_num_partitions null ones
Slots(h, g) == IF tmap[h][g] = Absent THEN [i \in Parts |-> Null] ELSE tmap[h][g]

\* getLocalTable(g, i)->...: a missing id is logged, not refused, and read anyway
Content(h, g, i) ==
    IF tmap[h][g] = Absent \/ tmap[h][g][i] = Null \/ heap[tmap[h][g][i]] = Free
    THEN Garbage ELSE heap[tmap[h][g][i]]

\* new LocalTable: the first free object
NewObj == CHOOSE o \in Objs : heap[o] = Free

\* ecall_read_file(g, i, file): -1 when the id is new and e_num_partitions < 1,
\* otherwise a new LocalTable of the file in slot i
EcallReadFile(h, g, i, d) ==
    IF tmap[h][g] = Absent /\ eNum[h] < 1
    THEN UNCHANGED <<tmap, heap>>
    ELSE /\ \E o \in Objs : heap[o] = Free
         /\ heap' = [heap EXCEPT ![NewObj] = d]
         /\ tmap' = [tmap EXCEPT ![h][g] = [Slots(h, g) EXCEPT ![i] = NewObj]]

\* fault variant: the copy is stored under the source's id
EcallCopyIntoSource(h, g, i, new) ==
    /\ \E o \in Objs : heap[o] = Free
    /\ heap' = [heap EXCEPT ![NewObj] = Content(h, g, i)]
    /\ tmap' = [tmap EXCEPT ![h][g] = [Slots(h, g) EXCEPT ![i] = NewObj]]

\* ecall_copy(g, i, new): getLocalTable(g, i)->copy(new) holds the same tuples;
\* initGlobalTable(new) and slot i of new set to the copy
EcallCopy(h, g, i, new) ==
    /\ \E o \in Objs : heap[o] = Free
    /\ heap' = [heap EXCEPT ![NewObj] = Content(h, g, i)]
    /\ tmap' = [tmap EXCEPT ![h][new] = [Slots(h, new) EXCEPT ![i] = NewObj]]

\* fault variant: the loop stops one partition short
EcallDestroyShort(h, g, n) ==
    LET freed == IF tmap[h][g] = Absent THEN {} ELSE {tmap[h][g][i] : i \in 0 .. n - 2} \ {Null}
    IN  /\ heap' = [o \in Objs |-> IF o \in freed THEN Free ELSE heap[o]]
        /\ tmap' = [tmap EXCEPT ![h][g] = Absent]

\* ecall_destroy(g, n): delete slots 0 .. n-1 of g (delete of null is a no-op), erase g
EcallDestroy(h, g, n) ==
    LET freed == IF tmap[h][g] = Absent THEN {} ELSE {tmap[h][g][i] : i \in 0 .. n - 1} \ {Null}
    IN  /\ heap' = [o \in Objs |-> IF o \in freed THEN Free ELSE heap[o]]
        /\ tmap' = [tmap EXCEPT ![h][g] = Absent]

\* the task of partition i runs now: any time in distributed mode, otherwise
\* once the partitions before it are done
Turn(i) == distributed \/ \A j \in Parts : j < i => j \in pending.done

-----------------------------------------------------------------------------
(* The App's operations on GlobalTables. *)

\* utils::read_config_file: ecall_setup_env(num_partitions) in the App's enclave,
\* or the request read_config_file by which each worker does the same in its own
ReadConfig ==
    /\ ~configured
    /\ configured' = TRUE
    /\ eNum' = [h \in Parts |-> IF h \in {Host(i) : i \in Parts} THEN P ELSE eNum[h]]
    /\ UNCHANGED <<distributed, total, live, pending, tmap, heap, lmap>>

\* GlobalTable(filePath): id = TOTAL++, then splitData
CreateTable(f) ==
    /\ configured
    /\ pending.op = "none"
    /\ total < MaxTables
    /\ pending' = [NoOp EXCEPT !.op = "create", !.id = total, !.lt = [i \in Parts |-> total],
                               !.data = [i \in Parts |-> <<f, i>>]]
    /\ total' = total + 1
    /\ UNCHANGED <<distributed, configured, live, tmap, heap, eNum, lmap>>

\* splitData, partition i: LocalTable(id, i, path): ecall_read_file, or the request
\* create_local_table whose worker stores its LocalTable and runs the same ecall
ReadPart(i) ==
    /\ pending.op = "create"
    /\ i \notin pending.done
    /\ Turn(i)
    /\ EcallReadFile(Host(i), pending.id, i, pending.data[i])
    /\ lmap' = IF distributed THEN [lmap EXCEPT ![i][pending.id] = i] ELSE lmap
    /\ pending' = [pending EXCEPT !.done = @ \cup {i}]
    /\ UNCHANGED <<distributed, configured, total, live, eNum>>

\* the constructor returns: the table is in scope
CreateDone ==
    /\ pending.op = "create"
    /\ pending.done = Parts
    /\ live' = live \cup {[id |-> pending.id, lt |-> pending.lt, data |-> pending.data]}
    /\ pending' = NoOp
    /\ UNCHANGED <<distributed, configured, total, tmap, heap, eNum, lmap>>

\* GlobalTable::copy(): the local copies are given the id TOTAL before any
\* GlobalTable takes it
CopyTable(g) ==
    /\ pending.op = "none"
    /\ g \in live
    /\ total < MaxTables
    /\ pending' = [NoOp EXCEPT !.op = "copy", !.src = g, !.lt = [i \in Parts |-> total],
                               !.data = g.data]
    /\ UNCHANGED <<distributed, configured, total, live, tmap, heap, eNum, lmap>>

\* tables[i] = m_localTables[i].copy(TOTAL): ecall_copy; in distributed mode the
\* request copy, whose worker copies localTableMap[global_id] (ecall_copy in its
\* enclave) and stores the copy under the new id, and then the request
\* create_local_table of the returned handle, which stores an empty LocalTable of
\* the same local id under it again
CopyPart(i) ==
    /\ pending.op = "copy"
    /\ i \notin pending.done
    /\ Turn(i)
    /\ \/ /\ ~distributed
          /\ EcallCopy(0, pending.src.lt[i], i, pending.lt[i])
          /\ UNCHANGED lmap
       \/ /\ distributed
          /\ lmap[i][pending.src.lt[i]] # NoLocal
          /\ EcallCopy(i, pending.src.lt[i], lmap[i][pending.src.lt[i]], pending.lt[i])
          /\ lmap' = [lmap EXCEPT ![i][pending.lt[i]] = lmap[i][pending.src.lt[i]]]
    /\ pending' = [pending EXCEPT !.done = @ \cup {i}]
    /\ UNCHANGED <<distributed, configured, total, live, eNum>>

\* return GlobalTable(tables, names): id = TOTAL++, and in single-machine mode
\* ecall_setup_env(num_partitions) again
CopyDone ==
    /\ pending.op = "copy"
    /\ pending.done = Parts
    /\ live' = live \cup {[id |-> total, lt |-> pending.lt, data |-> pending.data]}
    /\ total' = total + 1
    /\ eNum' = IF distributed THEN eNum ELSE [eNum EXCEPT ![0] = P]
    /\ pending' = NoOp
    /\ UNCHANGED <<distributed, configured, tmap, heap, lmap>>

\* ~GlobalTable: ecall_destroy(id, num_partitions) in single-machine mode; in
\* distributed mode table.destroy() of every partition, one request each
DestroyTable(g) ==
    /\ pending.op = "none"
    /\ g \in live
    /\ live' = live \ {g}
    /\ \/ /\ ~distributed
          /\ EcallDestroy(0, g.id, P)
          /\ UNCHANGED pending
       \/ /\ distributed
          /\ pending' = [NoOp EXCEPT !.op = "destroy", !.src = g]
          /\ UNCHANGED <<tmap, heap>>
    /\ UNCHANGED <<distributed, configured, total, eNum, lmap>>

\* LocalTable::destroy(), partition i: the request destroy, whose worker calls
\* destroy() on localTableMap[global_id], i.e. ecall_destroy(global_id,
\* num_partitions) in its enclave; the entry of localTableMap stays
DestroyPart(i) ==
    /\ pending.op = "destroy"
    /\ i \notin pending.done
    /\ lmap[i][pending.src.lt[i]] # NoLocal
    /\ EcallDestroy(i, pending.src.lt[i], P)
    /\ pending' = [pending EXCEPT !.done = @ \cup {i}]
    /\ UNCHANGED <<distributed, configured, total, live, eNum, lmap>>

\* the destructor returns
DestroyDone ==
    /\ pending.op = "destroy"
    /\ pending.done = Parts
    /\ pending' = NoOp
    /\ UNCHANGED <<distributed, configured, total, live, tmap, heap, eNum, lmap>>

Next ==
    \/ ReadConfig
    \/ \E f \in Files : CreateTable(f)
    \/ \E i \in Parts : ReadPart(i) \/ CopyPart(i) \/ DestroyPart(i)
    \/ CreateDone \/ CopyDone \/ DestroyDone
    \/ \E g \in live : CopyTable(g) \/ DestroyTable(g)

Spec == Init /\ [][Next]_vars

-----------------------------------------------------------------------------
TypeOK ==
    /\ total \in 0 .. MaxTables
    /\ pending.op \in {"none", "create", "copy", "destroy"}
    /\ pending.done \subseteq Parts
    /\ tmap \in [Parts -> [Gids -> [Parts -> {Null} \cup Objs] \cup {Absent}]]
    /\ lmap \in [Parts -> [Gids -> Parts \cup {NoLocal}]]

(***************************************************************************)
(* Every partition of every GlobalTable in scope can be reached: the       *)
(* enclave that holds partition i maps the global_id of its proxy to a     *)
(* LocalTable that has not been deleted and holds that partition's tuples  *)
(* (read from its file, or copied from the table it was copied from), and  *)
(* in distributed mode worker i's localTableMap has the id.  Broken by a   *)
(* copy that shares the source's LocalTable, by ids of the copy that       *)
(* disagree with TOTAL, or by a destroy that reaches another table.        *)
(***************************************************************************)
Resident ==
    \A g \in live, i \in Parts :
        /\ Content(Host(i), g.lt[i], i) = g.data[i]
        /\ distributed => lmap[i][g.lt[i]] # NoLocal

\* the (table, partition) pairs in scope whose slot holds object o
Holders(o) ==
    {gi \in live \X Parts :
        LET h == Host(gi[2]) IN tmap[h][gi[1].lt[gi[2]]] # Absent /\ tmap[h][gi[1].lt[gi[2]]][gi[2]] = o}

(***************************************************************************)
(* Between operations, every LocalTable alive in an enclave is the         *)
(* partition of exactly one GlobalTable in scope: the destructor deletes   *)
(* every partition it created or copied (in either mode), and no two      *)
(* tables share one.                                                       *)
(***************************************************************************)
NoLeak ==
    pending.op = "none" => \A o \in Objs : heap[o] # Free => Cardinality(Holders(o)) = 1

=============================================================================
