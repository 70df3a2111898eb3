-------------------------------- MODULE Rpc --------------------------------
(***************************************************************************)
(* The transport between the orchestrator and a worker in distributed     *)
(* mode, and the slot files it carries.                                    *)
(*                                                                         *)
(* A LocalTable handle (App/src/LocalTable.cpp) runs an operation on its   *)
(* worker by send_get_request: send_request (ReqSender.cpp) connects a     *)
(* CurlClient, which sends the request headers and EOM, collects the      *)
(* reply in onBody, and returns task_ret when the event loop ends.  The    *)
(* worker's EchoHandler runs the task in onRequest and replies in onEOM    *)
(* with the body "(ret:" + ret + ")".  The handle reads the value with     *)
(* utils::extractRet and std::stoi, or ignores the reply.                  *)
(*                                                                         *)
(* An enclave's write_file (Enclave.cpp) packs a block and calls           *)
(* ocall_write_file (ocalls.cpp): to a file of its own, or, when the slot  *)
(* belongs to another worker, by send_post_request to that worker, whose  *)
(* EchoHandler opens the file in onRequest, appends every body chunk in    *)
(* onBody and closes it in onEOM.  The target later reads it with         *)
(* read_file / ocall_read_file / utils::readPartitionFile.                 *)
(*                                                                         *)
(* One caller runs a script of calls, one at a time, as a thread of       *)
(* GlobalTable does.  Bytes are one-character strings; a payload is a     *)
(* short sequence of them.  The network may split either body into       *)
(* chunks anywhere, and, when Faults is TRUE, may refuse the connection   *)
(* or reset it at any point before the reply has arrived.                 *)
(***************************************************************************)
EXTENDS Integers, Sequences, SequencesExt

CONSTANTS
    Scripts,        \* the call sequences the caller may run
    MaxChunks,      \* bound on the onBody calls one reply is delivered in
    Faults          \* whether connections may be refused or reset

VARIABLES
    script,         \* the caller's calls
    i,              \* the index of the current call
    phase,          \* "run", "finished", or "crashed" (an uncaught exception)
    cl,             \* the CurlClient of the current call: st, task_ret, err (what it logged), chunks
    net,            \* in flight: request headers, request body, request EOM, reply bytes
    srv,            \* the worker's EchoHandler of the current request: st, open, ret
    disk,           \* the target's slot file: has (exists), data
    executed,       \* the calls whose task the worker has run
    got             \* what each finished call gave the caller

vars == <<script, i, phase, cl, net, srv, disk, executed, got>>

-----------------------------------------------------------------------------
(* Conversions.                                                            *)

Digit == [d \in 0 .. 9 |-> ToString(d)]

\* std::to_string(int): the decimal digits, with a leading "-"
RECURSIVE Digits(_)
Digits(n) == IF n < 10 THEN <<Digit[n]>> ELSE Digits(n \div 10) \o <<Digit[n % 10]>>
Dec(v) == IF v < 0 THEN <<"-">> \o Digits(-v) ELSE Digits(v)

\* (mutant) the reply spells its tag "ret="
ReplyEq(ret) == <<"(", "r", "e", "t", "=">> \o ret \o <<")">>

\* EchoHandler::onEOM's body "(ret:" + ret + ")"
Reply(ret) == <<"(", "r", "e", "t", ":">> \o ret \o <<")">>

\* the Content-Length header onEOM sends with it
ContentLength == 6

\* the first index at or after from where pat starts in s, or 0 (std::string::find)
Find(pat, s, from) ==
    LET I == {k \in from .. Len(s) - Len(pat) + 1 : SubSeq(s, k, k + Len(pat) - 1) = pat}
    IN  IF I = {} THEN 0 ELSE Min(I)

\* utils::extractRet: what follows "ret:" up to ")" or the end, or "" without "ret:"
ExtractRet(s) ==
    LET st == Find(<<"r", "e", "t", ":">>, s, 1)
        e  == Find(<<")">>, s, st + 4)
    IN  CASE st = 0 -> <<>>
          [] e = 0  -> SubSeq(s, st + 4, Len(s))
          [] OTHER  -> SubSeq(s, st + 4, e - 1)

\* std::stoi / std::stoll: an optional sign and the leading digits, or an
\* invalid_argument exception when there are none
Stoi(s) ==
    LET neg  == Len(s) > 0 /\ s[1] = "-"
        body == IF neg THEN Tail(s) ELSE s
        n    == LET J == {k \in 1 .. Len(body) : body[k] \notin Range(Digit)} IN IF J = {} THEN Len(body) ELSE Min(J) - 1
        val  == FoldLeft(LAMBDA a, c : 10 * a + CHOOSE d \in 0 .. 9 : Digit[d] = c, 0, SubSeq(body, 1, n))
    IN  IF n = 0 THEN <<"throws">> ELSE Dec(IF neg THEN -val ELSE val)

\* packBlock: plainLen and encLen, then the (encrypted) payload
Block(c) == <<"len" \o ToString(Len(c))>> \o c

\* read_file: unpackBlock takes the payload's length from the header; a file
\* shorter than its header says is read past its end
Unpack(d) == IF Len(d) >= 1 /\ d[1] = "len" \o ToString(Len(d) - 1) THEN Tail(d) ELSE <<"corrupt">>

\* executeTask's task_ret: to_string of what size, sum, max, num_columns,
\* localJoin and SODA_step1 return, "" for every other task
ExecuteTask(call) == IF call.t = "get" THEN Dec(call.v) ELSE <<>>

\* what ocall_write_file posts: the packed block, with its length as Content-Length
Body(call) == IF call.t = "write" THEN Block(call.c) ELSE <<>>

-----------------------------------------------------------------------------
(* What each call should give the caller.                                  *)

Call == script[i]

\* the payload of the last write before call k
LastWrite(k) ==
    LET W == {j \in 1 .. k - 1 : script[j].t = "write"}
    IN  IF W = {} THEN <<"terminate">> ELSE script[Max(W)].c

Meant(k) == CASE script[k].t = "get"  -> Dec(script[k].v)
              [] script[k].t = "read" -> LastWrite(k)
              [] OTHER                -> <<>>

NoClient == [st |-> "idle", ret |-> <<>>, err |-> FALSE, chunks |-> 0]
NoNet    == [hdr |-> FALSE, req |-> <<>>, eom |-> FALSE, resp |-> <<>>]
NoSrv    == [st |-> "none", open |-> FALSE, ret |-> <<>>]

Init ==
    /\ script \in Scripts
    /\ i = 1
    /\ phase = "run"
    /\ cl = NoClient
    /\ net = NoNet
    /\ srv = NoSrv
    /\ disk = [has |-> FALSE, data |-> <<>>]
    /\ executed = {}
    /\ got = <<>>

\* the call is over: the caller takes its outcome and goes on, or stops
Finish(out) ==
    /\ got' = Append(got, out)
    /\ phase' = CASE out \in {<<"throws">>, <<"terminate">>} -> "crashed"
                  [] i = Len(script)                          -> "finished"
                  [] OTHER                                    -> "run"
    /\ i' = IF phase' = "run" THEN i + 1 ELSE i
    /\ cl' = NoClient
    /\ net' = NoNet
    /\ srv' = NoSrv

-----------------------------------------------------------------------------
(* The caller.                                                             *)

\* ocall_write_file to a slot of this worker: an ofstream write
WriteLocal ==
    /\ phase = "run"
    /\ Call.t = "write" /\ ~Call.remote
    /\ disk' = [has |-> TRUE, data |-> Block(Call.c)]
    /\ Finish(<<>>)
    /\ UNCHANGED <<script, executed>>

\* read_file on the target: readPartitionFile throws (with no exception
\* active, so terminates) when the file is missing
ReadFile ==
    /\ phase = "run"
    /\ Call.t = "read"
    /\ Finish(IF disk.has THEN Unpack(disk.data) ELSE <<"terminate">>)
    /\ UNCHANGED <<script, disk, executed>>

\* (mutant) a GET is sent without its EOM
SendRequestNoEOM ==
    /\ phase = "run"
    /\ Call.t \in {"get", "void"} \/ (Call.t = "write" /\ Call.remote)
    /\ cl.st = "idle"
    /\ cl' = [cl EXCEPT !.st = "wait"]
    /\ net' = [net EXCEPT !.hdr = TRUE, !.eom = (Call.t = "write"),
                          !.req = Body(Call)]
    /\ UNCHANGED <<script, i, phase, srv, disk, executed, got>>

\* send_request: connectSuccess and sendRequest send the headers, then the
\* post content and EOM (GET: EOM alone)
SendRequest ==
    /\ phase = "run"
    /\ Call.t \in {"get", "void"} \/ (Call.t = "write" /\ Call.remote)
    /\ cl.st = "idle"
    /\ cl' = [cl EXCEPT !.st = "wait"]
    /\ net' = [net EXCEPT !.hdr = TRUE, !.eom = TRUE,
                          !.req = Body(Call)]
    /\ UNCHANGED <<script, i, phase, srv, disk, executed, got>>

\* connectError logs; the event loop ends and task_ret is still ""
ConnectError ==
    /\ Faults
    /\ phase = "run"
    /\ Call.t \in {"get", "void"} \/ (Call.t = "write" /\ Call.remote)
    /\ cl.st = "idle"
    /\ cl' = [cl EXCEPT !.st = "done", !.err = TRUE]
    /\ UNCHANGED <<script, i, phase, net, srv, disk, executed, got>>

\* what the handle makes of task_ret when send_request returns: size(),
\* num_columns(), max() and the like extractRet and stoi it, the rest ignore it
Decode(ret) == IF Call.t = "get" THEN Stoi(ExtractRet(ret)) ELSE <<>>

\* send_request returns getTaskRet() once the event loop has run out
Return ==
    /\ cl.st = "done"
    /\ Finish(Decode(cl.ret))
    /\ UNCHANGED <<script, disk, executed>>

-----------------------------------------------------------------------------
(* The worker's EchoHandler.                                               *)

\* (mutant) write_file opens the file for appending
OnRequestAppend ==
    /\ net.hdr /\ srv.st = "none"
    /\ net' = [net EXCEPT !.hdr = FALSE]
    /\ IF Call.t = "write"
       THEN /\ srv' = [srv EXCEPT !.st = "req", !.open = TRUE]
            /\ disk' = [disk EXCEPT !.has = TRUE]
            /\ UNCHANGED executed
       ELSE /\ srv' = [srv EXCEPT !.st = "req",
                                  !.ret = ExecuteTask(Call)]
            /\ executed' = executed \cup {i}
            /\ UNCHANGED disk
    /\ UNCHANGED <<script, i, phase, cl, got>>

\* onRequest: write_file opens (truncates) the file, any other task runs now
OnRequest ==
    /\ net.hdr /\ srv.st = "none"
    /\ net' = [net EXCEPT !.hdr = FALSE]
    /\ IF Call.t = "write"
       THEN /\ srv' = [srv EXCEPT !.st = "req", !.open = TRUE]
            /\ disk' = [has |-> TRUE, data |-> <<>>]
            /\ UNCHANGED executed
       ELSE /\ srv' = [srv EXCEPT !.st = "req",
                                  !.ret = ExecuteTask(Call)]
            /\ executed' = executed \cup {i}
            /\ UNCHANGED disk
    /\ UNCHANGED <<script, i, phase, cl, got>>

\* onBody: every IOBuf of the chunk is written to the open file
OnBodyServer ==
    /\ srv.st = "req" /\ net.req # <<>>
    /\ \E n \in 1 .. Len(net.req) :
          /\ net' = [net EXCEPT !.req = SubSeq(@, n + 1, Len(@))]
          /\ disk' = IF srv.open THEN [disk EXCEPT !.data = @ \o SubSeq(net.req, 1, n)] ELSE disk
    /\ UNCHANGED <<script, i, phase, cl, srv, executed, got>>

\* onEOM: the file is closed and the reply sent; the client's HTTP/1.1
\* parser takes Content-Length bytes of it as the body
OnEOMServer ==
    /\ srv.st = "req" /\ net.req = <<>> /\ net.eom
    /\ srv' = [srv EXCEPT !.st = "replied", !.open = FALSE]
    /\ net' = [net EXCEPT !.eom = FALSE, !.resp = SubSeq(Reply(srv.ret), 1, ContentLength)]
    /\ UNCHANGED <<script, i, phase, cl, disk, executed, got>>

-----------------------------------------------------------------------------
(* The CurlClient's callbacks.                                             *)

\* onBody: task_ret becomes the text of this chunk
OnBodyClient ==
    /\ cl.st = "wait" /\ srv.st = "replied" /\ net.resp # <<>>
    /\ \E n \in IF cl.chunks + 1 < MaxChunks THEN 1 .. Len(net.resp) ELSE {Len(net.resp)} :
          /\ cl' = [cl EXCEPT !.ret = SubSeq(net.resp, 1, n), !.chunks = @ + 1]
          /\ net' = [net EXCEPT !.resp = SubSeq(@, n + 1, Len(@))]
    /\ UNCHANGED <<script, i, phase, srv, disk, executed, got>>

\* onEOM, and the idle session closes, which ends the event loop
OnEOMClient ==
    /\ cl.st = "wait" /\ srv.st = "replied" /\ net.resp = <<>>
    /\ cl' = [cl EXCEPT !.st = "done"]
    /\ UNCHANGED <<script, i, phase, net, srv, disk, executed, got>>

\* the connection is reset: the worker's onError deletes the handler, whose
\* destructor closes the file; the client's onError logs and the loop ends
Reset ==
    /\ Faults
    /\ cl.st = "wait"
    /\ cl' = [cl EXCEPT !.st = "done", !.err = TRUE]
    /\ net' = NoNet
    /\ srv' = [srv EXCEPT !.st = "gone", !.open = FALSE]
    /\ UNCHANGED <<script, i, phase, disk, executed, got>>

-----------------------------------------------------------------------------

Next ==
    \/ WriteLocal \/ ReadFile \/ SendRequest \/ ConnectError \/ Return
    \/ OnRequest \/ OnBodyServer \/ OnEOMServer
    \/ OnBodyClient \/ OnEOMClient \/ Reset

\* the steps that are not faults: every one is a callback the event loops
\* deliver once it is ready, or the caller's next statement.  A fault may
\* happen but nothing forces it.
Progress ==
    \/ WriteLocal \/ ReadFile \/ SendRequest \/ Return
    \/ OnRequest \/ OnBodyServer \/ OnEOMServer \/ OnBodyClient \/ OnEOMClient

Spec == Init /\ [][Next]_vars /\ WF_vars(Progress)

-----------------------------------------------------------------------------
(* Properties.                                                             *)

Chars == {"(", ")", "r", "e", "t", ":", "-"} \cup {Digit[d] : d \in 0 .. 9}

TypeOK ==
    /\ i \in 1 .. Len(script)
    /\ phase \in {"run", "finished", "crashed"}
    /\ cl.st \in {"idle", "wait", "done"} /\ cl.err \in BOOLEAN
    /\ cl.chunks \in 0 .. MaxChunks /\ cl.ret \in Seq(Chars)
    /\ srv.st \in {"none", "req", "replied", "gone"} /\ srv.open \in BOOLEAN
    /\ disk.has \in BOOLEAN
    /\ executed \subseteq 1 .. Len(script)
    /\ Len(got) <= Len(script)

\* A remote write_file that returns without a logged transport error has
\* left exactly its block in the target's file: EchoHandler opened the file
\* afresh, appended every chunk of the body in order, and closed it before
\* it replied (ocall_write_file, EchoHandler::onRequest/onBody/onEOM).
StoredOnReturn ==
    [][(Return /\ Call.t = "write" /\ ~cl.err) => disk'.has /\ disk'.data = Block(Call.c)]_vars

\* Every call returns: no request waits forever on a reply the worker never
\* sends, whatever the network does to the bodies and connections.
CallsReturn == <>(phase # "run")

\* Every call gives the caller what the worker meant: a value-returning
\* call the worker's value, a read the payload last written to the slot,
\* and a call that returned has run on the worker.
Delivered ==
    /\ \A k \in 1 .. Len(got) : got[k] = Meant(k)
    /\ \A k \in 1 .. Len(got) : script[k].t \in {"get", "void"} => k \in executed

=============================================================================
