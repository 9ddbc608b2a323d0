------------------------------ MODULE Commands ------------------------------
(***************************************************************************)
(* The commands of a libmemcached handle over several servers: storage.c,  *)
(* get.c, fetch.c, delete.c, auto.c, flush.c, version.c, stats.c, dump.c,  *)
(* quit.c, in both protocols, with buffering, noreply, replicas and SASL,  *)
(* and the reading of answers in response.c.                               *)
(*                                                                         *)
(* A command is a list of steps, the calls it makes of memcached_do,       *)
(* memcached_response and the like, in the order of the code; a step is    *)
(* atomic, and between two steps a server may crash, come back, drop the   *)
(* connection or run out of memory.  Requests and answers are whole: how   *)
(* they are cut into bytes, watermarks and timeouts of writes is the       *)
(* subject of module Connection, and which server a key belongs to that of *)
(* module Distribution.                                                    *)
(***************************************************************************)
EXTENDS Integers, Sequences, FiniteSets, SequencesExt

CONSTANTS
    N,          \* the number of servers, 0 .. N - 1
    KeySeq,     \* the keys, in the order an mget asks for them
    Hash,       \* the server each key belongs to
    Modes,      \* the behaviours a handle may be configured with: see Mode
    Calls,      \* bound: calls the application makes
    MaxFaults,  \* bound: faults of the servers
    CursorMod   \* bound: cursor_active wraps at this (2^32 in the code)

Servers == 0..(N - 1)
Keys == Range(KeySeq)

\* A configuration: the flags of memcached_behavior_set, the calls made and
\* the faults met.  noreply: the application switches NOREPLY on and off.
Ops == {"set", "add", "replace", "delete", "incr", "get", "mget",
        "flush", "version", "stat", "dump", "quit"}
Mode == [binary : BOOLEAN, no_block : BOOLEAN, buffer : BOOLEAN, noreply : BOOLEAN,
         replicas : 0..(N - 1), randomize : BOOLEAN, generate : BOOLEAN,
         sasl : {"off", "none", "good", "bad"},
         faults : SUBSET {"crash", "drop", "full", "slow"}, ops : SUBSET Ops]

ASSUME CommandsAssumption ==
    /\ N \in Nat \ {0} /\ Calls \in Nat /\ MaxFaults \in Nat
    /\ CursorMod \in Nat /\ CursorMod > Calls + 3
    /\ KeySeq \in Seq(Keys) /\ KeySeq # <<>>
    /\ Hash \in [Keys -> Servers]
    /\ Modes \subseteq Mode
    /\ \A m \in Modes : /\ m.sasl # "off" => m.binary /\ ~m.buffer
                        /\ m.replicas > 0 => m.binary

VARIABLES
    mode,      \* the configuration
    no_reply,  \* the flag NOREPLY
    srv,       \* per server: is it up, what it stores, has it memory
    inst,      \* per server: its memcached_server_st, see Closed
    call,      \* the call in progress
    todo,      \* its steps still to take
    ok,        \* did its last memcached_do succeed?
    rc,        \* the return code it has so far
    rep,       \* replication_binary_mget: keys sent, dead servers, success
    fetching,  \* an mget has been made and memcached_fetch has not returned NULL
    ret,       \* what the last call returned
    abs,       \* ghost: what a single map would hold
    faults,    \* how many faults happened
    flaws      \* ghost: what went wrong: a foreign answer was taken (stray), an
               \* answer was waited for that nobody owes (idle), an increment
               \* returned what was not its answer (misread)

vars == <<mode, no_reply, srv, inst, call, todo, ok, rc, rep, fetching, ret,
          abs, faults, flaws>>

Nothing == 0                                     \* no value
Closed == [fd |-> FALSE, broken |-> FALSE, wbuf |-> <<>>, rbuf |-> <<>>, cursor |-> 0]
Opened == [Closed EXCEPT !.fd = TRUE]
Idle == [op |-> "none", id |-> 0, key |-> KeySeq[1]]
NoRet == [op |-> "none", rc |-> "SUCCESS", got |-> [k \in Keys |-> Nothing]]

StorageOps == {"set", "add", "replace"}

-----------------------------------------------------------------------------
(***************************************************************************)
(* The server: a request's effect and its answers.                         *)
(***************************************************************************)
Answer(r, code, key, val, more) ==
    [op |-> r.op, quiet |-> r.quiet, rc |-> code, key |-> key, val |-> val,
     more |-> more, id |-> r.id]
Plain(r, code) == <<Answer(r, code, KeySeq[1], Nothing, FALSE)>>

\* The keys among these that the server has a value for, in their order.
Present(v, keys) ==
    LET found[n \in 0..Len(keys)] ==
            IF n = 0 THEN <<>>
            ELSE IF v.data[keys[n]] # Nothing THEN Append(found[n - 1], keys[n])
            ELSE found[n - 1]
    IN found[Len(keys)]
Stored(v) == Present(v, KeySeq)
Hits(v, r) == Present(v, r.keys)

\* The outcome of a storage command or a delete.
Outcome(v, r) ==
    LET present == v.data[r.keys[1]] # Nothing
    IN CASE r.op \in StorageOps /\ v.full -> IF mode.binary THEN "NOMEM" ELSE "SERVER_ERROR"
         [] r.op = "add" /\ ~v.full /\ present -> IF mode.binary THEN "DATA_EXISTS" ELSE "NOTSTORED"
         [] r.op = "replace" /\ ~v.full /\ ~present -> IF mode.binary THEN "NOTFOUND" ELSE "NOTSTORED"
         [] r.op \in {"delete", "incr"} /\ ~present -> "NOTFOUND"
         [] OTHER -> "SUCCESS"

\* A set or an increment leaves a value that no other request leaves.
Effect(v, r) ==
    CASE r.op \in StorageOps \cup {"delete", "incr"} /\ Outcome(v, r) = "SUCCESS" ->
           [v EXCEPT !.data[r.keys[1]] = IF r.op = "delete" THEN Nothing ELSE r.id]
      [] r.op = "flush" -> [v EXCEPT !.data = [k \in Keys |-> Nothing]]
      [] OTHER -> v

\* A quiet binary request is answered when it fails, a noreply line never.
Reply(v, r) ==
    CASE r.op \in StorageOps \cup {"delete", "incr"} ->
           IF r.quiet /\ (~mode.binary \/ Outcome(v, r) = "SUCCESS") THEN <<>>
           ELSE Plain(r, Outcome(v, r))
      [] r.op = "get" ->                           \* ASCII: VALUE lines, END
           [i \in 1..Len(Hits(v, r)) |-> Answer(r, "SUCCESS", Hits(v, r)[i],
                                                v.data[Hits(v, r)[i]], TRUE)]
           \o Plain(r, "END")
      [] r.op = "getk" ->
           IF Hits(v, r) = <<>> THEN IF r.quiet THEN <<>> ELSE Plain(r, "NOTFOUND")
           ELSE <<Answer(r, "SUCCESS", r.keys[1], v.data[r.keys[1]], r.quiet)>>
      [] r.op = "noop" -> Plain(r, "END")
      [] r.op = "stat" ->
           <<Answer(r, IF mode.binary THEN "SUCCESS" ELSE "STAT", KeySeq[1], Nothing, ~mode.binary)>>
           \o Plain(r, "END")
      [] r.op = "dump" ->
           [i \in 1..Len(Stored(v)) |-> Answer(r, "ITEM", Stored(v)[i], Nothing, TRUE)]
           \o Plain(r, "END")
      [] OTHER -> IF r.quiet THEN <<>> ELSE Plain(r, "SUCCESS")

Execute(v, requests) ==
    LET done[n \in 0..Len(requests)] ==
            IF n = 0 THEN [v |-> v, out |-> <<>>]
            ELSE [v |-> Effect(done[n - 1].v, requests[n]),
                  out |-> done[n - 1].out \o Reply(done[n - 1].v, requests[n])]
    IN done[Len(requests)]

-----------------------------------------------------------------------------
(***************************************************************************)
(* I/O on one connection.  An outcome is the instance and the server it    *)
(* leaves, and whether the call succeeded.                                 *)
(***************************************************************************)
Out(i, v, good) == [i |-> i, v |-> v, ok |-> good]

\* io_flush.  A write to a connection the peer has left may still succeed;
\* an error closes the connection.
io_flush(i, v) ==
    IF i.wbuf = <<>> THEN {Out(i, v, TRUE)}
    ELSE IF ~i.fd THEN {Out(Closed, v, FALSE)}
    ELSE IF i.broken THEN {Out(Closed, v, FALSE), Out([i EXCEPT !.wbuf = <<>>], v, TRUE)}
    ELSE LET x == Execute(v, i.wbuf)
         IN {Out([i EXCEPT !.wbuf = <<>>, !.rbuf = @ \o x.out], x.v, TRUE)}

memcached_io_write(i, v, r, flush) ==
    LET j == [i EXCEPT !.wbuf = Append(@, r)]
    IN IF flush THEN io_flush(j, v) ELSE {Out(j, v, TRUE)}

\* memcached_sasl_authenticate_connection.  A server without SASL answers
\* LIST_MECHS with UNKNOWN COMMAND, that is PROTOCOL_ERROR, for which
\* memcached_read_one_response closes the connection; the caller then takes
\* it for authenticated.
memcached_sasl_authenticate_connection ==
    CASE mode.sasl = "none" -> {Closed}
      [] mode.sasl = "good" -> {Opened}
      [] mode.sasl = "bad" -> {}

\* memcached_connect: the instances it may leave when it returns SUCCESS.
memcached_connect(s) ==
    IF inst[s].fd THEN {inst[s]}
    ELSE IF ~srv[s].up THEN {}
    ELSE IF mode.sasl = "off" THEN {Opened}
    ELSE memcached_sasl_authenticate_connection

Increment(i) == [i EXCEPT !.cursor = (@ + 1) % CursorMod]
Decrement(i) == [i EXCEPT !.cursor = (@ - 1) % CursorMod]

\* Slip: the answers of a noreply command are counted all the same.
memcached_do_counts(s, r, flush) ==
    IF memcached_connect(s) = {} THEN {Out(inst[s], srv[s], FALSE)}
    ELSE LET written == UNION {memcached_io_write(i, srv[s], r, flush) : i \in memcached_connect(s)}
         IN {IF o.ok THEN [o EXCEPT !.i = Increment(@)] ELSE o : o \in written}

\* memcached_do and memcached_vdo: connect, write, and count the answer
\* unless noreply is set.
memcached_do(s, r, flush) ==
    IF memcached_connect(s) = {} THEN {Out(inst[s], srv[s], FALSE)}
    ELSE LET written == UNION {memcached_io_write(i, srv[s], r, flush) : i \in memcached_connect(s)}
         IN {IF o.ok /\ ~no_reply THEN [o EXCEPT !.i = Increment(@)] ELSE o : o \in written}

\* Slip: the error of a quiet storage command is taken for an answer.
DiscardedNever(a) == FALSE

\* binary_read_one_response throws the errors of quiet storage commands away.
Discarded(a) ==
    mode.binary /\ a.quiet /\ a.op \in StorageOps /\ a.rc # "SUCCESS"
Kept(rbuf) == {j \in 1..Len(rbuf) : ~Discarded(rbuf[j])}
FirstKept(rbuf) == CHOOSE j \in Kept(rbuf) : \A k \in Kept(rbuf) : j <= k

\* memcached_read_one_response: the instance, the code, and the answer in a.
\* Nothing to read: end of file or, in vain, a wait; either closes.
NoAnswer == Answer([op |-> "none", quiet |-> FALSE, id |-> 0], "FAILURE", KeySeq[1], Nothing, FALSE)
memcached_read_one_response(i) ==
    IF Kept(i.rbuf) = {} THEN [i |-> Closed, a |-> NoAnswer]
    ELSE LET j == FirstKept(i.rbuf)
             a == i.rbuf[j]
             read == [Decrement(i) EXCEPT !.rbuf = SubSeq(@, j + 1, Len(@))]
         IN [i |-> CASE a.rc = "NOMEM" -> Closed       \* memcached_io_reset
                     [] a.rc # "NOMEM" /\ a.more -> Increment(read)
                     [] OTHER -> read,
             a |-> a]

-----------------------------------------------------------------------------
(***************************************************************************)
(* The steps of the commands.                                              *)
(***************************************************************************)
Step(do, s, r, flush, fail) == [do |-> do, s |-> s, r |-> r, flush |-> flush, fail |-> fail]
Request(op, quiet, keys) == [op |-> op, quiet |-> quiet, keys |-> keys, id |-> call.id]
NoRequest == Request("none", FALSE, <<>>)

Do(s, r, flush, fail) == Step("do", s, r, flush, fail)
On(do, s) == Step(do, s, NoRequest, TRUE, "none")
EachServer(do) == [x \in 1..N |-> On(do, x - 1)]
If(b, steps) == IF b THEN steps ELSE <<>>

Replica(k, x) == (Hash[k] + x) % N
\* Slip: the last replica is left out.
ReplicateShort(r, k, flush) ==
    [x \in 1..(mode.replicas - 1) |-> Do(Replica(k, x), [r EXCEPT !.quiet = TRUE], flush, "replica")]

Replicate(r, k, flush) ==
    [x \in 1..mode.replicas |-> Do(Replica(k, x), [r EXCEPT !.quiet = TRUE], flush, "replica")]

\* memcached_send and memcached_send_binary; only a set is buffered and
\* replicated, and the replicas are never flushed.
memcached_send(op, k) ==
    LET r == Request(op, no_reply, <<k>>)
        flush == ~(mode.buffer /\ op = "set")
    IN <<Do(Hash[k], r, flush, "return")>>
       \o If(op = "set", Replicate(r, k, FALSE))
       \o If(flush /\ ~no_reply, <<On("response", Hash[k])>>)

\* memcached_delete_by_key and binary_delete.
memcached_delete(k) ==
    LET r == Request("delete", no_reply, <<k>>)
        to_write == ~mode.buffer
    IN <<Do(Hash[k], r, to_write, "skip")>> \o Replicate(r, k, to_write)
       \o If(to_write /\ ~no_reply, <<On("response", Hash[k])>>)

\* text_incr_decr and binary_incr_decr: of the master only.
memcached_increment(k) ==
    <<Do(Hash[k], Request("incr", no_reply, <<k>>), TRUE, "return")>>
    \o If(~no_reply, <<On("response", Hash[k])>>)

\* memcached_flush: in ASCII server by server, in binary all requests first.
memcached_flush_textual ==
    FlattenSeq([x \in 1..N |-> <<Do(x - 1, Request("flush", no_reply, <<>>), TRUE, "skip")>>
                               \o If(~no_reply, <<On("response", x - 1)>>)])
memcached_flush_binary ==
    [x \in 1..N |-> Do(x - 1, Request("flush", no_reply, <<>>), TRUE, "return")]
    \o EachServer("pending")

memcached_version_textual ==
    FlattenSeq([x \in 1..N |-> <<Do(x - 1, Request("version", FALSE, <<>>), TRUE, "skip"),
                                 On("response", x - 1)>>])
memcached_version_binary ==
    [x \in 1..N |-> Do(x - 1, Request("version", FALSE, <<>>), TRUE, "skip")]
    \o EachServer("pending")

\* ascii_stats_fetch and binary_stats_fetch.
memcached_stat ==
    FlattenSeq([x \in 1..N |-> <<Do(x - 1, Request("stat", FALSE, <<>>), TRUE, "skip"),
                                 On("stats", x - 1)>>])

\* ascii_dump, for one of the 256 slabs.
memcached_dump ==
    FlattenSeq([x \in 1..N |-> <<Do(x - 1, Request("dump", FALSE, <<>>), TRUE, "return"),
                                 On("dump", x - 1)>>])

\* memcached_mget_by_key_real: old answers are read first; then a get per
\* server with all its keys, or GETKQs and a NOOP per server, or with
\* replicas a GETK per key to the first of its servers that takes it.
AsciiGets(keys) ==
    [x \in 1..Len(keys) |-> Step("key", Hash[keys[x]], Request("get", FALSE, <<keys[x]>>), FALSE, "skip")]
    \o EachServer("newline")
simple_binary_mget(keys, mget_mode) ==
    [x \in 1..Len(keys) |-> Step("getk", Hash[keys[x]], Request("getk", mget_mode, <<keys[x]>>),
                                 Len(keys) = 1, "skip")]
    \o If(mget_mode, EachServer("noop"))
replication_binary_mget(keys, start) ==
    FlattenSeq([y \in 1..(mode.replicas + 1) |->
        [x \in 1..Len(keys) |->
            LET off == y - 1 + (IF y - 1 + start <= mode.replicas THEN start ELSE 0)
            IN Step("rget", Replica(keys[x], off), Request("getk", FALSE, <<keys[x]>>), TRUE, "skip")]
        \o <<On("round", 0)>>])
memcached_mget_by_key_real(keys, mget_mode, start) ==
    EachServer("purge")
    \o (IF ~mode.binary THEN AsciiGets(keys)
        ELSE IF mode.replicas = 0 THEN simple_binary_mget(keys, mget_mode)
        ELSE replication_binary_mget(keys, start))

\* memcached_get_by_key fetches once more after a value, for the END.
memcached_get(k, start) ==
    memcached_mget_by_key_real(<<k>>, FALSE, start) \o <<On("fetch", 0), On("fetch_end", 0)>>

memcached_quit == EachServer("quit")

Plan(op, k, start) ==
    CASE op \in StorageOps -> memcached_send(op, k)
      [] op = "delete" -> memcached_delete(k)
      [] op = "incr" -> memcached_increment(k)
      [] op = "get" -> memcached_get(k, start)
      [] op = "mget" -> memcached_mget_by_key_real(KeySeq, TRUE, start)
      [] op = "fetch" -> <<On("fetch", 0)>>
      [] op = "flush" -> IF mode.binary THEN memcached_flush_binary ELSE memcached_flush_textual
      [] op = "version" -> IF mode.binary THEN memcached_version_binary ELSE memcached_version_textual
      [] op = "stat" -> memcached_stat
      [] op = "dump" -> IF mode.binary THEN <<>> ELSE memcached_dump
      [] op = "quit" -> memcached_quit

-----------------------------------------------------------------------------
(***************************************************************************)
(* Taking the steps.                                                       *)
(***************************************************************************)
Now == todo[1]
Later == Tail(todo)
Running(do) == todo # <<>> /\ Now.do = do

\* Server s and its instance become what the outcome o says.
Becomes(s, o) ==
    /\ inst' = [inst EXCEPT ![s] = o.i]
    /\ srv' = [srv EXCEPT ![s] = o.v]
Touch(s, i) == inst' = [inst EXCEPT ![s] = i] /\ UNCHANGED srv

\* The answer a was taken for one of this call, or a wait was in vain.
Taken(a, i) ==
    flaws' = [flaws EXCEPT !.stray = @ \/ (a # NoAnswer /\ a.id # call.id),
                           !.idle = @ \/ (a = NoAnswer /\ i.fd /\ ~i.broken)]

Frame == UNCHANGED <<mode, no_reply, abs, faults, fetching, ret>>

\* Slip: the answer a quiet replica will not give stays counted.
StepDoCounted ==
    /\ Running("do")
    /\ \E o \in memcached_do(Now.s, Now.r, Now.flush) :
         /\ Becomes(Now.s, o)
         /\ ok' = IF Now.fail = "replica" THEN ok ELSE o.ok
         /\ rc' = IF o.ok \/ Now.fail = "replica" THEN rc ELSE "FAILURE"
         /\ todo' = IF ~o.ok /\ Now.fail = "return" THEN <<>> ELSE Later
    /\ UNCHANGED <<call, rep, flaws>> /\ Frame

\* memcached_do, and the decrement for a replica.
StepDo ==
    /\ Running("do")
    /\ \E o \in memcached_do(Now.s, Now.r, Now.flush) :
         /\ Becomes(Now.s, IF o.ok /\ Now.fail = "replica" THEN [o EXCEPT !.i = Decrement(@)] ELSE o)
         /\ ok' = IF Now.fail = "replica" THEN ok ELSE o.ok
         /\ rc' = IF o.ok \/ Now.fail = "replica" THEN rc ELSE "FAILURE"
         /\ todo' = IF ~o.ok /\ Now.fail = "return" THEN <<>> ELSE Later
    /\ UNCHANGED <<call, rep, flaws>> /\ Frame

\* memcached_response in ASCII reads the answers of older requests away.
Old(i) == ~mode.binary /\ i.cursor > 1
\* Slip: NOTFOUND and NOTSTORED of an older command end this one.
ReadOldStrict(i) ==
    LET x == memcached_read_one_response(i)
    IN /\ Old(i) /\ Touch(Now.s, x.i)
       /\ flaws' = [flaws EXCEPT !.idle = @ \/ (x.a = NoAnswer /\ i.fd /\ ~i.broken)]
       /\ IF x.a.rc \notin {"SUCCESS", "END", "STAT"}
          THEN rc' = "FAILURE" /\ todo' = Later
          ELSE UNCHANGED <<rc, todo>>
       /\ UNCHANGED <<call, ok, rep>> /\ Frame
ReadOld(i) ==
    LET x == memcached_read_one_response(i)
    IN /\ Old(i) /\ Touch(Now.s, x.i)
       /\ flaws' = [flaws EXCEPT !.idle = @ \/ (x.a = NoAnswer /\ i.fd /\ ~i.broken)]
       /\ IF x.a.rc \in {"FAILURE", "SERVER_ERROR", "ITEM"}
          THEN rc' = "FAILURE" /\ todo' = Later
          ELSE UNCHANGED <<rc, todo>>
       /\ UNCHANGED <<call, ok, rep>> /\ Frame

\* The last answer, and the steps that remain after it.
ReadLast(i, remaining, code) ==
    LET x == memcached_read_one_response(i)
    IN /\ ~Old(i) /\ Touch(Now.s, x.i) /\ Taken(x.a, i)
       /\ todo' = remaining /\ rc' = code
       /\ UNCHANGED <<call, ok, rep>> /\ Frame
Read(i) == memcached_read_one_response(i).a
Worse(code) == IF code = "SUCCESS" THEN rc ELSE code

Skip == todo' = Later /\ UNCHANGED <<srv, inst, call, ok, rc, rep, flaws>> /\ Frame

\* text_incr_decr looks at its buffer, whatever memcached_response returned:
\* it holds the answer read last or, where none was read, the command itself.
\* All but an error line and NOT_FOUND is a number to strtoull.
TextIncrement == ~mode.binary /\ call.op = "incr"
Reparsed(a) == CASE a = NoAnswer -> rc
                 [] a.rc = "NOTFOUND" -> "NOTFOUND"
                 [] OTHER -> "SUCCESS"
\* Slip: the first answer on the connection is taken.
ReadCounterFirst(i) ==
    LET x == memcached_read_one_response(i)
    IN /\ Touch(Now.s, x.i)
       /\ flaws' = [flaws EXCEPT !.misread = @ \/ x.a.id # call.id]
       /\ rc' = Reparsed(x.a) /\ todo' = Later
       /\ UNCHANGED <<call, ok, rep>> /\ Frame
ReadCounter(i) ==
    LET x == memcached_read_one_response(i)
        last == ~Old(i) \/ x.a.rc \in {"FAILURE", "SERVER_ERROR", "ITEM"}
        foreign == x.a # NoAnswer /\ x.a.id # call.id
    IN /\ Touch(Now.s, x.i)
       /\ flaws' = [stray |-> flaws.stray \/ (~Old(i) /\ foreign),
                    idle |-> flaws.idle \/ (x.a = NoAnswer /\ i.fd /\ ~i.broken),
                    misread |-> flaws.misread \/ (last /\ (foreign \/ x.a = NoAnswer))]
       /\ rc' = Reparsed(x.a)
       /\ todo' = IF last THEN Later ELSE todo
       /\ UNCHANGED <<call, ok, rep>> /\ Frame

\* The answer of the memcached_do before, which has sent everything.
StepResponse ==
    /\ Running("response")
    /\ LET i == inst[Now.s]
       IN IF ~ok THEN Skip
          ELSE IF TextIncrement THEN ReadCounter(i)
          ELSE ReadOld(i) \/ ReadLast(i, Later, Worse(Read(i).rc))

\* An answer if one is pending (memcached_flush_binary, memcached_version_binary).
StepPending ==
    /\ Running("pending")
    /\ LET i == inst[Now.s]
       IN IF i.cursor = 0 THEN Skip
          ELSE ReadLast(i, Later, Worse(Read(i).rc))

\* The answers up to END.  binary_stats_fetch takes its request off the
\* count beforehand, which nobody sees: it sets the count to 0 in the end.
StepStats ==
    /\ Running("stats")
    /\ LET i == inst[Now.s]
           j == memcached_read_one_response(i).i
           again == Read(i).rc = IF mode.binary THEN "SUCCESS" ELSE "STAT"
       IN IF ~ok THEN Skip
          ELSE \/ /\ mode.binary
                  /\ Touch(Now.s, IF again THEN j ELSE IF Read(i).rc = "END"
                                                    THEN [j EXCEPT !.cursor = 0] ELSE Closed)
                  /\ Taken(Read(i), i)
                  /\ todo' = IF again THEN todo ELSE Later
                  /\ rc' = IF again \/ Read(i).rc = "END" THEN rc ELSE Read(i).rc
                  /\ UNCHANGED <<call, ok, rep>> /\ Frame
               \/ /\ ~mode.binary
                  /\ ReadOld(i) \/ ReadLast(i, IF again THEN todo ELSE Later,
                                            IF again \/ Read(i).rc = "END" THEN rc ELSE Read(i).rc)

\* The answers up to END; an error of the server ends the slab, any other
\* the dump.
StepDump ==
    /\ Running("dump")
    /\ LET i == inst[Now.s]
           code == Read(i).rc
       IN ReadOld(i) \/ ReadLast(i, CASE code = "ITEM" -> todo
                                      [] code \in {"END", "SERVER_ERROR"} -> Later
                                      [] OTHER -> <<>>,
                                 IF code \in {"ITEM", "END", "SERVER_ERROR"} THEN rc ELSE code)

\* memcached_response with no_block first sends what is buffered.
FlushFirst ==
    /\ mode.no_block /\ inst[Now.s].wbuf # <<>>
    /\ \E o \in io_flush(inst[Now.s], srv[Now.s]) : Becomes(Now.s, o)
    /\ UNCHANGED <<call, todo, ok, rc, rep, flaws>> /\ Frame
Flushed(i) == ~mode.no_block \/ i.wbuf = <<>>

\* The queue of a server is emptied before a get: the answers belong to
\* earlier calls.
StepPurge ==
    /\ Running("purge")
    /\ LET i == inst[Now.s]
           x == memcached_read_one_response(i)
       IN IF i.cursor = 0 THEN Skip
          ELSE \/ FlushFirst
               \/ /\ Flushed(i) /\ Touch(Now.s, x.i)
                  /\ flaws' = [flaws EXCEPT !.idle = @ \/ (x.a = NoAnswer /\ i.fd /\ ~i.broken)]
                  /\ UNCHANGED <<call, todo, ok, rc, rep>> /\ Frame

-----------------------------------------------------------------------------
\* The request of this step, written to one of the instances is.
WritesTo(is, flush) == UNION {memcached_io_write(i, srv[Now.s], Now.r, flush) : i \in is}

\* The first key for a server starts its get and counts it; the others are
\* added to it.
StepKey ==
    /\ Running("key")
    /\ LET i == inst[Now.s]
       IN IF i.cursor # 0
          THEN /\ Touch(Now.s, [i EXCEPT !.wbuf[Len(i.wbuf)].keys = @ \o Now.r.keys])
               /\ UNCHANGED rc
          ELSE IF memcached_connect(Now.s) = {} THEN rc' = "FAILURE" /\ UNCHANGED <<srv, inst>>
          ELSE \E o \in WritesTo(memcached_connect(Now.s), FALSE) :
                 Becomes(Now.s, [o EXCEPT !.i = Increment(@)]) /\ UNCHANGED rc
    /\ todo' = Later
    /\ UNCHANGED <<call, ok, rep, flaws>> /\ Frame

\* The end of the line: the get is sent.
StepNewline ==
    /\ Running("newline")
    /\ IF inst[Now.s].cursor = 0 THEN Skip
       ELSE /\ \E o \in io_flush(inst[Now.s], srv[Now.s]) :
                 Becomes(Now.s, o) /\ rc' = IF o.ok THEN rc ELSE "SOME_ERRORS"
            /\ todo' = Later
            /\ UNCHANGED <<call, ok, rep, flaws>> /\ Frame

\* GETKQ or GETK: one answer is counted however many are sent.
StepGetk ==
    /\ Running("getk")
    /\ LET js == IF inst[Now.s].cursor = 0 THEN memcached_connect(Now.s) ELSE {inst[Now.s]}
       IN IF js = {} THEN rc' = "FAILURE" /\ UNCHANGED <<srv, inst>>
          ELSE \E o \in WritesTo(js, Now.flush) :
                 /\ Becomes(Now.s, [o EXCEPT !.i.cursor = IF o.ok THEN 1 ELSE 0])
                 /\ rc' = IF o.ok THEN rc ELSE "SOME_ERRORS"
    /\ todo' = Later
    /\ UNCHANGED <<call, ok, rep, flaws>> /\ Frame

\* The NOOP behind the GETKQs of a server.
StepNoop ==
    /\ Running("noop")
    /\ IF inst[Now.s].cursor = 0 THEN Skip
       ELSE /\ \E o \in io_flush(inst[Now.s], srv[Now.s]) :
                 \E p \in memcached_io_write(o.i, o.v, Request("noop", FALSE, <<>>), TRUE) :
                   /\ Becomes(Now.s, p)
                   /\ rc' = IF o.ok /\ p.ok THEN rc ELSE "SOME_ERRORS"
            /\ todo' = Later
            /\ UNCHANGED <<call, ok, rep, flaws>> /\ Frame

\* A key not sent yet goes to the next of its servers, unless that is dead.
StepReplicaGet ==
    /\ Running("rget")
    /\ IF Now.r.keys[1] \in rep.sent \/ Now.s \in rep.dead THEN Skip
       ELSE LET js == IF inst[Now.s].cursor = 0 THEN memcached_connect(Now.s) ELSE {inst[Now.s]}
                outs == IF js = {} THEN {Out(Closed, srv[Now.s], FALSE)}
                        ELSE WritesTo(js, TRUE)
            IN /\ \E o \in outs :
                    /\ Becomes(Now.s, IF o.ok THEN [o EXCEPT !.i = Increment(@)] ELSE o)
                    /\ rep' = IF o.ok THEN [rep EXCEPT !.sent = @ \cup {Now.r.keys[1]}]
                              ELSE [rep EXCEPT !.dead = @ \cup {Now.s}, !.success = FALSE]
               /\ todo' = Later
               /\ UNCHANGED <<call, ok, rc, flaws>> /\ Frame

\* The end of a round: with a success there is no other, and the code is
\* SUCCESS whatever happened.
StepRound ==
    /\ Running("round")
    /\ todo' = IF rep.success THEN SelectSeq(Later, LAMBDA t : t.do \notin {"rget", "round"}) ELSE Later
    /\ rep' = [rep EXCEPT !.success = TRUE]
    /\ UNCHANGED <<srv, inst, call, ok, rc, flaws>> /\ Frame

-----------------------------------------------------------------------------
(***************************************************************************)
(* memcached_fetch.                                                        *)
(***************************************************************************)
Pending == {s \in Servers : inst[s].cursor # 0}
Readable(s) == inst[s].rbuf # <<>> \/ inst[s].broken \/ ~inst[s].fd

\* memcached_io_get_readable_server: the only one with an answer to come, or
\* one that poll() finds readable.
memcached_io_get_readable_server ==
    IF Cardinality(Pending) < 2 THEN Pending ELSE {s \in Pending : Readable(s)}

\* A value for key k has been fetched.
Got(k, v) == [ret EXCEPT !.got[k] = IF @ = Nothing THEN v ELSE 0 - v]

FetchFrame == UNCHANGED <<mode, no_reply, abs, call, ok, rep>>
Slow == "slow" \in mode.faults /\ faults < MaxFaults /\ faults' = faults + 1

\* memcached_fetch returns NULL.
FetchNull(code) ==
    /\ rc' = IF code = "END" /\ call.op = "get" THEN "NOTFOUND" ELSE code
    /\ todo' = IF call.op = "get" /\ Now.do = "fetch" THEN <<>> ELSE Later
    /\ fetching' = IF call.op = "fetch" THEN FALSE ELSE fetching
    /\ UNCHANGED <<ret>>

\* memcached_fetch_result: answers are read until there is a value, an
\* error, or no server with an answer to come.
StepFetch ==
    /\ Running("fetch") \/ Running("fetch_end")
    /\ \/ /\ Pending = {}
          /\ FetchNull(rc)
          /\ UNCHANGED <<srv, inst, flaws, faults>>
       \/ \E s \in memcached_io_get_readable_server :
            LET x == memcached_read_one_response(inst[s])
            IN /\ Taken(x.a, inst[s])
               /\ Touch(s, IF x.a.rc = "END" THEN [x.i EXCEPT !.cursor = 0] ELSE x.i)
               /\ UNCHANGED faults
               /\ CASE x.a.rc = "SUCCESS" ->
                         /\ ret' = Got(x.a.key, x.a.val)
                         /\ rc' = IF Now.do = "fetch_end" THEN rc ELSE "SUCCESS"
                         /\ todo' = Later /\ UNCHANGED fetching
                    [] x.a.rc \in {"END", "NOTFOUND"} ->
                         /\ rc' = IF Now.do = "fetch_end" THEN rc ELSE x.a.rc
                         /\ UNCHANGED <<todo, fetching, ret>>
                    [] OTHER -> FetchNull(IF Now.do = "fetch_end" THEN rc ELSE x.a.rc)
       \/ /\ Cardinality(Pending) > 1 /\ Slow                \* poll() times out
          /\ FetchNull(rc)
          /\ UNCHANGED <<srv, inst, flaws>>
    /\ FetchFrame

\* Slip: the socket is closed and the buffers keep their contents.
StepQuitKeeps ==
    /\ Running("quit")
    /\ \E o \in IF inst[Now.s].fd
                THEN io_flush(inst[Now.s], srv[Now.s]) ELSE {Out(Closed, srv[Now.s], TRUE)} :
         Becomes(Now.s, [o EXCEPT !.i.fd = FALSE])
    /\ todo' = Later
    /\ UNCHANGED <<call, ok, rc, rep, flaws>> /\ Frame

\* memcached_quit_server: "quit" pushes what is buffered; without buffering
\* and replicas nothing is read, and whatever happens the socket is closed.
StepQuit ==
    /\ Running("quit")
    /\ \E o \in IF inst[Now.s].fd
                THEN io_flush(inst[Now.s], srv[Now.s]) ELSE {Out(Closed, srv[Now.s], TRUE)} :
         Becomes(Now.s, [o EXCEPT !.i = Closed])
    /\ todo' = Later
    /\ UNCHANGED <<call, ok, rc, rep, flaws>> /\ Frame

-----------------------------------------------------------------------------
(***************************************************************************)
(* Calls.                                                                  *)
(***************************************************************************)
IsIdle == todo = <<>> /\ call.op = "none"

\* What a single map would hold after the call.
Abstract(op, k) ==
    CASE op = "set" \/ (op = "add" /\ abs[k] = Nothing)
                    \/ (op \in {"replace", "incr"} /\ abs[k] # Nothing) ->
           [abs EXCEPT ![k] = call.id + 1]
      [] op = "delete" -> [abs EXCEPT ![k] = Nothing]
      [] op = "flush" -> [j \in Keys |-> Nothing]
      [] OTHER -> abs

Keyed == StorageOps \cup {"delete", "incr", "get"}

\* The application makes a call; after an mget it fetches until NULL, or quits.
Begin(op, k) ==
    /\ IsIdle
    /\ op \in mode.ops \/ op = "fetch"
    /\ op = "fetch" => fetching
    /\ fetching => op \in {"fetch", "quit"}
    /\ call.id < Calls \/ op = "fetch"
    /\ op \notin Keyed => k = KeySeq[1]
    /\ call' = [op |-> op, id |-> IF op = "fetch" THEN call.id ELSE call.id + 1, key |-> k]
    /\ todo' = <<On("plan", 0)>>
    /\ ok' = TRUE
    /\ rc' = IF op = "fetch" THEN "END" ELSE "SUCCESS"
    /\ rep' = [sent |-> {}, dead |-> {}, success |-> TRUE]
    /\ ret' = IF op = "fetch" THEN ret ELSE [NoRet EXCEPT !.op = op]
    /\ fetching' = (op = "mget" \/ (fetching /\ op # "quit"))
    /\ abs' = Abstract(op, k)
    /\ UNCHANGED <<mode, no_reply, srv, inst, faults, flaws>>

\* A dump of a binary handle fails at once.
StepPlan ==
    /\ Running("plan")
    /\ \E start \in IF mode.randomize THEN 0..mode.replicas ELSE {0} :
         todo' = Plan(call.op, call.key, start)
    /\ rc' = IF mode.binary /\ call.op = "dump" THEN "FAILURE" ELSE rc
    /\ UNCHANGED <<srv, inst, call, ok, rep, flaws>> /\ Frame

\* A get that misses may have the application's callback produce the value,
\* which is then set.
Generate ==
    /\ call.op = "get" /\ todo = <<>> /\ rc = "NOTFOUND" /\ mode.generate
    /\ call' = [call EXCEPT !.op = "generate"]
    /\ todo' = memcached_send("set", call.key)
    /\ rc' = "SUCCESS"
    /\ abs' = [abs EXCEPT ![call.key] = call.id]
    /\ UNCHANGED <<mode, no_reply, srv, inst, ok, rep, fetching, ret, faults, flaws>>

\* The call returns.
End ==
    /\ call.op # "none" /\ todo = <<>>
    /\ ~(call.op = "get" /\ rc = "NOTFOUND" /\ mode.generate)
    /\ ret' = [ret EXCEPT !.op = call.op, !.rc = rc]
    /\ call' = [call EXCEPT !.op = "none"]
    /\ UNCHANGED <<mode, no_reply, srv, inst, todo, ok, rc, rep, fetching, abs, faults, flaws>>

\* memcached_behavior_set(NOREPLY).
SetNoReply ==
    /\ IsIdle /\ mode.noreply /\ ~fetching /\ call.id < Calls
    /\ no_reply' = ~no_reply
    /\ UNCHANGED <<mode, srv, inst, call, todo, ok, rc, rep, fetching, ret, abs, faults, flaws>>

\* The application has made its calls.
Done == IsIdle /\ call.id = Calls /\ ~fetching /\ UNCHANGED vars

-----------------------------------------------------------------------------
Fault(kind) == kind \in mode.faults /\ faults < MaxFaults /\ faults' = faults + 1
FaultFrame == UNCHANGED <<mode, no_reply, call, todo, ok, rc, rep, fetching, ret, abs, flaws>>

\* The connection breaks: what the client has not read may be lost.
Break(s) ==
    IF ~inst[s].fd THEN {inst[s]}
    ELSE {[inst[s] EXCEPT !.broken = TRUE, !.rbuf = SubSeq(@, 1, n)] : n \in 0..Len(inst[s].rbuf)}

ServerCrash(s) ==
    /\ Fault("crash") /\ srv[s].up
    /\ srv' = [srv EXCEPT ![s] = [@ EXCEPT !.up = FALSE, !.data = [k \in Keys |-> Nothing]]]
    /\ \E i \in Break(s) : inst' = [inst EXCEPT ![s] = i]
    /\ FaultFrame
ServerRestart(s) ==
    /\ ~srv[s].up
    /\ srv' = [srv EXCEPT ![s].up = TRUE]
    /\ UNCHANGED <<inst, faults>> /\ FaultFrame
ConnectionDrop(s) ==
    /\ Fault("drop") /\ inst[s].fd /\ ~inst[s].broken
    /\ \E i \in Break(s) : inst' = [inst EXCEPT ![s] = i]
    /\ UNCHANGED srv /\ FaultFrame
ServerFull(s) ==
    /\ Fault("full") /\ ~srv[s].full
    /\ srv' = [srv EXCEPT ![s].full = TRUE]
    /\ UNCHANGED inst /\ FaultFrame

Init ==
    /\ mode \in Modes
    /\ no_reply = FALSE
    /\ srv = [s \in Servers |-> [up |-> TRUE, data |-> [k \in Keys |-> Nothing], full |-> FALSE]]
    /\ inst = [s \in Servers |-> Closed]
    /\ call = Idle /\ todo = <<>> /\ ok = TRUE /\ rc = "SUCCESS"
    /\ rep = [sent |-> {}, dead |-> {}, success |-> TRUE]
    /\ fetching = FALSE /\ ret = NoRet
    /\ abs = [k \in Keys |-> Nothing]
    /\ faults = 0
    /\ flaws = [stray |-> FALSE, idle |-> FALSE, misread |-> FALSE]

Steps ==
    \/ StepPlan \/ StepDo \/ StepResponse \/ StepPending \/ StepStats \/ StepDump
    \/ StepPurge \/ StepKey \/ StepNewline \/ StepGetk \/ StepNoop
    \/ StepReplicaGet \/ StepRound \/ StepFetch \/ StepQuit \/ Generate \/ End

Next ==
    \/ Steps \/ SetNoReply \/ Done
    \/ \E op \in Ops \cup {"fetch"}, k \in Keys : Begin(op, k)
    \/ \E s \in Servers : ServerCrash(s) \/ ServerRestart(s) \/ ConnectionDrop(s) \/ ServerFull(s)

Spec == Init /\ [][Next]_vars
-----------------------------------------------------------------------------
\* The types; a closed connection has nothing left to read.
TypeOK ==
    /\ mode \in Modes /\ no_reply \in BOOLEAN
    /\ \A s \in Servers :
         /\ inst[s].cursor \in 0..(CursorMod - 1)
         /\ ~inst[s].fd => inst[s].rbuf = <<>>
         /\ srv[s].data \in [Keys -> 0..Calls]
    /\ faults \in 0..MaxFaults
    /\ call.id \in 0..Calls

\* The answer a command reads last, for its own, was given to a request of
\* that command: the counts of the connections never let an answer slip to
\* the next call.  Increments of the text protocol may return without having
\* read any: see IncrementsOwn.
OwnAnswer == ~flaws.stray

\* As long as no server fails, an increment returns what the server answered
\* to it, although text_incr_decr ignores what memcached_response says.
IncrementsOwn == faults = 0 => ~flaws.misread

\* The client never waits for an answer on a sound connection on which no
\* answer is owed: a count too high, or a request that is still buffered.
NeverIdle == ~flaws.idle

\* Between two calls cursor_active of a sound connection is the number of
\* answers that the client has yet to read, or will get when it sends what it
\* has buffered.
InStep ==
    IsIdle => \A s \in Servers :
        LET i == inst[s]
        IN i.fd /\ ~i.broken =>
             i.cursor = Cardinality({j \in Kept(i.rbuf) : ~i.rbuf[j].more})
                        + Cardinality({j \in 1..Len(i.wbuf) : ~i.wbuf[j].quiet})

\* No server has failed or refused the handle.
Healthy == faults = 0 /\ mode.sasl # "bad"

\* As long as no server fails, the handle and its servers are one map: a get,
\* or an mget and its fetches, return exactly the values a single map would
\* hold, each once -- whatever is buffered, quiet, replicated or left unread.
ReadsCorrect ==
    Healthy /\ IsIdle /\ ~fetching =>
        /\ ret.op = "fetch" => ret.got = abs
        /\ ret.op = "get" => ret.got[call.key] = abs[call.key]

\* As long as no server fails, no call returns an error, but for a dump of a
\* binary handle, which always does.
NoSpuriousError ==
    Healthy /\ IsIdle /\ ~(mode.binary /\ ret.op = "dump") =>
        ret.rc \in {"SUCCESS", "NOTFOUND", "NOTSTORED", "DATA_EXISTS", "END"}
=============================================================================
