----------------------------- MODULE Connection -----------------------------
(***************************************************************************)
(* One connection of a libmemcached client (io.c, do.c, response.c,         *)
(* purge.c, quit.c, flush_buffers.c and the text protocol of storage.c):    *)
(* requests are collected in write_buffer and pipelined, and the client     *)
(* keeps one number, cursor_active, of the responses it still has to read.  *)
(* Everything that keeps requests and responses in step is here: the write  *)
(* loop with EAGAIN, the purge of old responses that io_flush and io_wait   *)
(* start, the reading of responses, the closing of a connection on errors   *)
(* and the reconnection at the next call.                                   *)
(*                                                                         *)
(* The client is one thread with no_block set; it runs against a server and *)
(* a network that fill, drain, stall and break as they like.  A request is  *)
(* two chunks (the command line and its data), a response one line, and all *)
(* lines are of one length.  Calls nest (io_flush -> memcached_purge ->     *)
(* io_flush), so the client's control is a stack of frames.  A connection   *)
(* the client has closed stays with the server, which may still execute     *)
(* what it has received there.                                              *)
(***************************************************************************)
EXTENDS Integers, Sequences, SequencesExt

CONSTANTS
    MaxOps,         \* bound: requests the application makes
    WBufMax,        \* MEMCACHED_MAX_BUFFER of write_buffer, in chunks
    RBufMax,        \* MEMCACHED_MAX_BUFFER of read_buffer, in lines
    NetCap,         \* what the kernel holds in each direction
    MsgWatermark,   \* io_msg_watermark
    BytesWatermark, \* io_bytes_watermark, in chunks
    FailureLimit,   \* server_failure_limit, 0 for none
    FailureCap,     \* bound: server_failure_counter is counted up to here
    CursorMod,      \* bound: cursor_active wraps at this (2^32 in the code)
    MaxCloses,      \* bound: times the server closes the connection
    Faults          \* what may go wrong: see FaultKinds

\* "timeout": poll waits in vain.  "connect": connect() fails.
\* "refuse": the server answers a storage command with SERVER_ERROR.
FaultKinds == {"timeout", "connect", "refuse"}

ASSUME ConnectionAssumption ==
    /\ {MaxOps, RBufMax, NetCap, MsgWatermark, FailureCap} \subseteq Nat \ {0}
    /\ {BytesWatermark, FailureLimit, MaxCloses} \subseteq Nat
    /\ WBufMax \in Nat \ {0, 1}
    /\ CursorMod \in Nat /\ CursorMod > MaxOps + 2
    /\ Faults \subseteq FaultKinds

Ids == 1..MaxOps
Quit == 0                                   \* the id of the quit command
Chunk == [id : Ids \cup {Quit}, part : {"cmd", "data"}]
ERROR == 0                                  \* the ERROR line
Refused(id) == -id                          \* SERVER_ERROR for id; id: STORED
Line == Ids \cup {ERROR} \cup {Refused(id) : id \in Ids}

Chunks(id) == <<[id |-> id, part |-> "cmd"], [id |-> id, part |-> "data"]>>
QuitChunk == [id |-> Quit, part |-> "cmd"]

VARIABLES
    fd,             \* is the socket open?
    cursor_active,  \* responses the client expects
    write_buffer,   \* chunks not yet flushed
    read_buffer,    \* from read_ptr on: read from the socket, not consumed
    read_data,      \* the array of read_buffer up to read_data_length
    read_ptr,       \* read_ptr as an index into it
    io_bytes_sent,  \* chunks sent since the last read of the socket
    purging,        \* memcached_is_purging
    failures,       \* server_failure_counter
    pc,             \* the call in progress: idle, write, answer, quit
    op,             \* its kind and id, the chunks to copy, flush to come
    stack,          \* frames of io_flush and memcached_purge
    ret,            \* what the frame popped last returned
    last,           \* what the call before returned, until the next one begins
    nextId,         \* the id of the next request
    toServer,       \* chunks in the kernel, on their way to the server
    toClient,       \* lines on their way to the client
    peer,           \* is the server's end of the connection open?
    parsing,        \* the command whose data the server waits for
    executed,       \* the requests the server has executed, in order
    closes,         \* times the server has closed the connection
    earlier,        \* connections given up, as the server still has them
    astray          \* ghost: what has happened to input and output so far,
                    \*   "reentered": the write loop was entered twice,
                    \*   "stale": old input was taken for new

client == <<fd, cursor_active, write_buffer, read_buffer, io_bytes_sent,
            purging, failures, read_data, read_ptr>>
array == <<read_data, read_ptr>>
control == <<pc, op, stack, ret, last, nextId>>
net == <<toServer, toClient>>
server == <<peer, parsing, executed, closes, earlier>>
vars == <<client, control, net, server, astray>>

NoResult == [id |-> Quit, rc |-> "none", got |-> ERROR]
NoOp == [kind |-> "none", id |-> Quit, todo |-> <<>>, flush |-> FALSE]

Init ==
    /\ fd = FALSE
    /\ cursor_active = 0
    /\ write_buffer = <<>>
    /\ read_buffer = <<>>
    /\ read_data = <<>>
    /\ read_ptr = 0
    /\ io_bytes_sent = 0
    /\ purging = FALSE
    /\ failures = 0
    /\ pc = "idle"
    /\ op = NoOp
    /\ stack = <<>>
    /\ ret = "ok"
    /\ last = NoResult
    /\ nextId = 1
    /\ toServer = <<>>
    /\ toClient = <<>>
    /\ peer = FALSE
    /\ parsing = Quit
    /\ executed = <<>>
    /\ closes = 0
    /\ earlier = {}
    /\ astray = {}

-----------------------------------------------------------------------------
\* memcached_server_response_increment and _decrement: a uint32_t.
Increment(c) == (c + 1) % CursorMod
Decrement(c) == (c - 1) % CursorMod

Strikes(n, k) == IF n + k > FailureCap THEN FailureCap ELSE n + k

\* Slip: what was read from the old socket is kept.
CloseKeepsInput(n, k) ==
    /\ fd' = FALSE
    /\ cursor_active' = 0
    /\ write_buffer' = <<>>
    /\ failures' = Strikes(n, k)
    /\ UNCHANGED <<read_buffer, array, io_bytes_sent>>

\* What memcached_quit_server leaves, whichever way it was called; k is the
\* number of times it ran with io_death on this way out, n the counter before.
\* read_data_length is not reset.
CloseServer(n, k) ==
    /\ fd' = FALSE
    /\ cursor_active' = 0
    /\ write_buffer' = <<>>
    /\ read_buffer' = <<>>
    /\ read_ptr' = 0
    /\ failures' = Strikes(n, k)
    /\ UNCHANGED <<read_data, io_bytes_sent>>

\* A connection given up: what the server has of it and has not looked at,
\* how many requests had been executed by then (before), and those since.  It
\* is kept while it has something to execute, and what it has executed.
Old == [toServer : Seq(Chunk), parsing : Ids \cup {Quit}, before : Nat,
        executed : Seq(Ids)]
Executable(c) ==
    \E i \in DOMAIN c.toServer :
        c.toServer[i] = [part |-> "data",
                         id |-> IF i = 1 THEN c.parsing ELSE c.toServer[i - 1].id]
Idled(c) == [c EXCEPT !.toServer = <<>>, !.parsing = Quit]
Kept(c) == IF Executable(c) THEN {c} ELSE
           IF c.executed # <<>> THEN {Idled(c)} ELSE {}

\* The other end of a connection that is given up: answers are lost, and the
\* server keeps its socket and what is on the way to it.
Leave ==
    /\ toServer' = <<>>
    /\ peer' = FALSE
    /\ parsing' = Quit
    /\ earlier' = earlier \cup
          Kept([toServer |-> IF peer THEN toServer ELSE <<>>,
                parsing |-> parsing, before |-> Len(executed),
                executed |-> <<>>])

Hangup == Leave /\ toClient' = <<>>

\* Slips: the flag is not tested; nothing is ever purged.
PurgeAgain ==
    /\ ~(cursor_active < MsgWatermark /\ io_bytes_sent < BytesWatermark)
    /\ ~(io_bytes_sent >= BytesWatermark /\ cursor_active < 2)

NeverPurge == FALSE

\* The condition at the head of memcached_purge.
NeedPurge ==
    /\ ~purging
    /\ ~(cursor_active < MsgWatermark /\ io_bytes_sent < BytesWatermark)
    /\ ~(io_bytes_sent >= BytesWatermark /\ cursor_active < 2)

Idle(rc, got) ==
    /\ pc' = "idle"
    /\ op' = NoOp
    /\ stack' = <<>>
    /\ ret' = "ok"
    /\ last' = [id |-> op.id, rc |-> rc, got |-> got]

-----------------------------------------------------------------------------
(* Frames: [at, rest, sent, n, rc]                                         *)
(*   flush  io_flush has been called                                       *)
(*   purged the memcached_purge at the head of io_flush has returned       *)
(*   send   its write loop, rest still to be written, sent already         *)
(*   wait   the memcached_purge of io_wait has returned into that loop     *)
(*   purge  the io_flush inside memcached_purge has returned               *)
(*   drain  memcached_purge reads n more responses, rc is its result       *)
Frame(at) == [at |-> at, rest |-> <<>>, sent |-> 0, n |-> 0, rc |-> "ok"]
Top == Last(stack)
At(where) == stack # <<>> /\ Top.at = where
Become(f) == stack' = Append(Front(stack), f)
Pop(rc) == stack' = Front(stack) /\ ret' = rc

\* Turn the top frame into f, and start memcached_purge, which flushes first.
StartPurge(f) ==
    /\ purging' = TRUE
    /\ stack' = Front(stack) \o <<f, Frame("purge"), Frame("flush")>>
    /\ ret' = "ok"

\* The write loop begins if there is anything to write.
BeginSend ==
    IF write_buffer = <<>>
    THEN Pop("ok")
    ELSE Become([Frame("send") EXCEPT !.rest = write_buffer]) /\ ret' = "ok"

\* Head of io_flush.
FlushEnter ==
    /\ At("flush")
    /\ IF NeedPurge
       THEN StartPurge(Frame("purged"))
       ELSE BeginSend /\ UNCHANGED purging
    /\ UNCHANGED <<fd, cursor_active, write_buffer, read_buffer, array,
                   io_bytes_sent, failures, pc, op, last, nextId, net, server>>

FlushPurged ==
    /\ At("purged")
    /\ IF ret = "ok" THEN BeginSend ELSE Pop("fail")
    /\ UNCHANGED <<client, pc, op, last, nextId, net, server>>

\* Slip: write_buffer_offset is not reset after the last byte.
SendKeepsBuffer(k) ==
    /\ At("send") /\ fd
    /\ k \in 1..Len(Top.rest)
    /\ Len(toServer) + k <= NetCap
    /\ toServer' = IF peer THEN toServer \o SubSeq(Top.rest, 1, k) ELSE <<>>
    /\ io_bytes_sent' = io_bytes_sent + k
    /\ IF k = Len(Top.rest)
       THEN Pop("ok")
       ELSE /\ Become([Top EXCEPT !.rest = SubSeq(@, k + 1, Len(@)),
                                  !.sent = @ + k])
            /\ UNCHANGED ret
    /\ UNCHANGED <<fd, cursor_active, write_buffer, read_buffer, array, purging,
                   failures, pc, op, last, nextId, toClient, server>>

\* write() takes what the kernel has room for; after the last byte the whole
\* of write_buffer counts as sent.  It may also take data for a server that has
\* closed its end, where the data is lost.
Send(k) ==
    /\ At("send") /\ fd
    /\ k \in 1..Len(Top.rest)
    /\ Len(toServer) + k <= NetCap
    /\ toServer' = IF peer THEN toServer \o SubSeq(Top.rest, 1, k) ELSE <<>>
    /\ io_bytes_sent' = io_bytes_sent + k
    /\ IF k = Len(Top.rest)
       THEN Pop("ok") /\ write_buffer' = <<>>
       ELSE /\ Become([Top EXCEPT !.rest = SubSeq(@, k + 1, Len(@)),
                                  !.sent = @ + k])
            /\ UNCHANGED <<ret, write_buffer>>
    /\ UNCHANGED <<fd, cursor_active, read_buffer, array, purging, failures,
                   pc, op, last, nextId, toClient, server>>

\* write() fails.
SendError ==
    /\ At("send") /\ ~(fd /\ peer)
    /\ CloseServer(failures, 1)
    /\ Hangup
    /\ Pop("fail")
    /\ UNCHANGED <<purging, pc, op, last, nextId, executed, closes>>

Blocked == At("send") /\ fd /\ peer /\ Len(toServer) >= NetCap

\* repack_input_buffer: what has not been consumed moves to the beginning of
\* the array, unless read_ptr is there.
Packed == IF read_ptr = 0 THEN read_data ELSE read_buffer
CanRepack ==
    Len(read_buffer) < RBufMax /\ Len(Packed) < RBufMax /\ toClient # <<>>

\* EAGAIN and repack_input_buffer finds something to read.  It goes to the end
\* of what read_data_length counts, and as many lines more are unread: where
\* read_data_length is left from an older connection, these are old ones.
SendRepack ==
    /\ Blocked /\ CanRepack
    /\ LET room == RBufMax - Len(Packed)
           k == IF Len(toClient) < room THEN Len(toClient) ELSE room
       IN /\ read_data' = Packed \o SubSeq(toClient, 1, k)
          /\ read_buffer' = SubSeq(read_data', 1, Len(read_buffer) + k)
          /\ toClient' = SubSeq(toClient, k + 1, Len(toClient))
    /\ read_ptr' = 0
    /\ astray' = astray \cup (IF Packed = read_buffer THEN {} ELSE {"stale"})
    /\ UNCHANGED <<fd, cursor_active, write_buffer, io_bytes_sent, purging,
                   failures, control, toServer, server>>

\* EAGAIN, nothing to read, and io_wait purges before it polls.  When there
\* is nothing to purge poll waits, and a timeout only makes the loop go round.
SendWait ==
    /\ Blocked /\ ~CanRepack
    /\ read_data' = Packed /\ read_ptr' = 0
    /\ \/ /\ NeedPurge
          /\ StartPurge([Top EXCEPT !.at = "wait"])
          /\ astray' = astray \cup {"reentered"}
       \/ /\ ~NeedPurge /\ read_ptr # 0
          /\ UNCHANGED <<purging, stack, ret, astray>>
    /\ UNCHANGED <<fd, cursor_active, write_buffer, read_buffer, io_bytes_sent,
                   failures, pc, op, last, nextId, net, server>>

SendWaited ==
    /\ At("wait")
    /\ IF ret = "ok"
       THEN /\ Become([Top EXCEPT !.at = "send"])
            /\ UNCHANGED <<client, ret, net, peer, parsing, earlier>>
       ELSE /\ CloseServer(failures, 1)
            /\ Hangup
            /\ Pop("fail")
            /\ UNCHANGED purging
    /\ UNCHANGED <<pc, op, last, nextId, executed, closes>>
-----------------------------------------------------------------------------
\* memcached_read_one_response, decrement left out: what reading a response
\* may come to.  rc is its result, got the line, strikes the number of times
\* memcached_quit_server runs with io_death on the way (memcached_io_read and
\* then memcached_io_reset), fresh says that the socket was read.
Outcome(rc, got, strikes, rb, tc, fresh) ==
    [rc |-> rc, got |-> got, strikes |-> strikes, rb |-> rb, tc |-> tc,
     fresh |-> fresh]

Parsed(line, rb, tc, fresh) ==
    IF line = ERROR THEN Outcome("PROTOCOL_ERROR", line, 1, rb, tc, fresh)
    ELSE Outcome(IF line > 0 THEN "STORED" ELSE "SERVER_ERROR",
                 line, 0, rb, tc, fresh)

Broken(rc, strikes) == Outcome(rc, ERROR, strikes, <<>>, <<>>, FALSE)

Responses ==
    CASE ~fd -> {Broken("ERRNO", 1)}
      [] fd /\ read_buffer # <<>> ->
            {Parsed(Head(read_buffer), Tail(read_buffer), toClient, FALSE)}
      [] fd /\ read_buffer = <<>> /\ toClient # <<>> ->
            LET k == IF Len(toClient) < RBufMax THEN Len(toClient) ELSE RBufMax
            IN {Parsed(Head(toClient), SubSeq(toClient, 2, k),
                       SubSeq(toClient, k + 1, Len(toClient)), TRUE)}
      [] fd /\ read_buffer = <<>> /\ toClient = <<>> /\ ~peer ->
            {Broken("UNKNOWN_READ_FAILURE", 2)}
      [] OTHER -> IF "timeout" \in Faults THEN {Broken("TIMEOUT", 1)} ELSE {}

\* The state after the response o was read, extra strikes of the caller
\* included; a connection with a strike is closed.
AfterResponse(o, extra) ==
    IF o.strikes = 0
    THEN /\ cursor_active' = Decrement(cursor_active)
         /\ read_buffer' = o.rb
         /\ toClient' = o.tc
         /\ read_data' = IF o.fresh THEN <<o.got>> \o o.rb ELSE read_data
         /\ read_ptr' = IF o.fresh THEN 1 ELSE read_ptr + 1
         /\ failures' = IF o.fresh THEN 0 ELSE failures
         /\ io_bytes_sent' = IF o.fresh THEN 0 ELSE io_bytes_sent
         /\ UNCHANGED <<fd, write_buffer, toServer, peer, parsing, earlier>>
    ELSE /\ fd' = FALSE
         /\ cursor_active' = 0
         /\ write_buffer' = <<>>
         /\ read_buffer' = <<>>
         /\ read_data' = IF o.fresh THEN <<o.got>> \o o.rb ELSE read_data
         /\ read_ptr' = 0
         /\ failures' = Strikes(IF o.fresh THEN 0 ELSE failures,
                                o.strikes + extra)
         /\ io_bytes_sent' = IF o.fresh THEN 0 ELSE io_bytes_sent
         /\ Hangup

\* memcached_purge once its own io_flush is back.  When that failed, the code
\* sets the purging flag again.
PurgeFlushed ==
    /\ At("purge")
    /\ LET no_msg == Decrement(cursor_active) IN
       \/ ret = "fail" /\ Pop("fail") /\ purging' = TRUE
       \/ ret = "ok" /\ no_msg = 0 /\ Pop("ok") /\ purging' = FALSE
       \/ /\ ret = "ok" /\ no_msg > 0
          /\ Become([Frame("drain") EXCEPT !.n = no_msg])
          /\ UNCHANGED <<ret, purging>>
    /\ UNCHANGED <<fd, cursor_active, write_buffer, read_buffer, array,
                   io_bytes_sent, failures, pc, op, last, nextId, net, server>>

\* The purge loop: only a protocol error and an end of file make the purge
\* fail, and nothing makes the loop stop early.
PurgeRead(o) ==
    /\ At("drain") /\ Top.n > 0
    /\ o \in Responses
    /\ LET fatal == o.rc \in {"PROTOCOL_ERROR", "UNKNOWN_READ_FAILURE"} IN
       /\ AfterResponse(o, IF fatal THEN 1 ELSE 0)
       /\ Become([Top EXCEPT !.n = @ - 1, !.rc = IF fatal THEN "fail" ELSE @])
    /\ UNCHANGED <<purging, pc, op, ret, last, nextId, executed, closes>>

PurgeDone ==
    /\ At("drain") /\ Top.n = 0
    /\ Pop(Top.rc)
    /\ purging' = FALSE
    /\ UNCHANGED <<fd, cursor_active, write_buffer, read_buffer, array,
                   io_bytes_sent, failures, pc, op, last, nextId, net, server>>

-----------------------------------------------------------------------------
\* memcached_connect: an open connection is used as it is.  A server with too
\* many failures is not tried, and a new connection starts with whatever
\* write_buffer and cursor_active hold.
MarkedDead == ~fd /\ FailureLimit > 0 /\ failures >= FailureLimit

ConnectFails ==
    \/ /\ MarkedDead
       /\ UNCHANGED failures
    \/ /\ ~fd /\ ~MarkedDead /\ "connect" \in Faults
       /\ failures' = Strikes(failures, 1)

Connected ==
    \/ /\ fd
       /\ UNCHANGED <<fd, failures, peer>>
    \/ /\ ~fd /\ ~MarkedDead
       /\ fd' = TRUE
       /\ peer' = TRUE
       /\ failures' = 0

\* An application call begins: memcached_set with buffer_requests ("set"), a
\* storage call that waits for its answer ("sync"), memcached_flush_buffers.
Begin(kind) ==
    /\ pc = "idle"
    /\ IF kind = "flush"
       THEN write_buffer # <<>> /\ UNCHANGED nextId
       ELSE nextId <= MaxOps /\ nextId' = nextId + 1
    /\ LET id == IF kind = "flush" THEN Quit ELSE nextId IN
       \/ /\ Connected
          /\ pc' = "write"
          /\ op' = [kind |-> kind, id |-> id,
                    todo |-> IF kind = "flush" THEN <<>> ELSE Chunks(id),
                    flush |-> kind # "set"]
          /\ ret' = "ok"
          /\ last' = NoResult
       \/ /\ ConnectFails
          /\ last' = [id |-> id, rc |-> "ERROR", got |-> ERROR]
          /\ UNCHANGED <<fd, peer, pc, op, ret>>
    /\ UNCHANGED <<cursor_active, write_buffer, read_buffer, array,
                   io_bytes_sent, purging, stack, net, parsing, earlier, executed, closes>>

\* memcached_quit: on a closed connection only the bookkeeping is reset.
BeginQuit ==
    /\ pc = "idle"
    /\ IF fd
       THEN /\ pc' = "write"
            /\ op' = [kind |-> "quit", id |-> Quit, todo |-> <<QuitChunk>>,
                      flush |-> TRUE]
            /\ UNCHANGED <<client, net, peer, parsing, earlier>>
       ELSE /\ CloseServer(failures, 0)
            /\ Hangup
            /\ UNCHANGED <<purging, pc, op>>
    /\ last' = NoResult
    /\ UNCHANGED <<stack, ret, nextId, executed, closes>>

Writing == pc = "write" /\ stack = <<>>

\* Slip: the test for a full buffer is off by one.
WriteChunkOver ==
    /\ Writing /\ ret = "ok" /\ op.todo # <<>>
    /\ write_buffer' = Append(write_buffer, Head(op.todo))
    /\ op' = [op EXCEPT !.todo = Tail(@)]
    /\ stack' = IF Len(write_buffer) = WBufMax
                THEN <<Frame("flush")>> ELSE <<>>
    /\ UNCHANGED <<fd, cursor_active, read_buffer, array, io_bytes_sent,
                   purging, failures, pc, ret, last, nextId, net, server>>

\* _io_write copies; a full buffer is flushed at once.
WriteChunk ==
    /\ Writing /\ ret = "ok" /\ op.todo # <<>>
    /\ write_buffer' = Append(write_buffer, Head(op.todo))
    /\ op' = [op EXCEPT !.todo = Tail(@)]
    /\ stack' = IF Len(write_buffer) + 1 = WBufMax
                THEN <<Frame("flush")>> ELSE <<>>
    /\ UNCHANGED <<fd, cursor_active, read_buffer, array, io_bytes_sent,
                   purging, failures, pc, ret, last, nextId, net, server>>

WriteFlush ==
    /\ Writing /\ ret = "ok" /\ op.todo = <<>> /\ op.flush
    /\ op' = [op EXCEPT !.flush = FALSE]
    /\ stack' = <<Frame("flush")>>
    /\ UNCHANGED <<client, pc, ret, last, nextId, net, server>>

\* The end of memcached_vdo: one more response is expected.  A call that
\* waits goes on to memcached_response, which (no_block) flushes first.
WriteDone ==
    /\ Writing /\ ret = "ok" /\ op.todo = <<>> /\ ~op.flush
    /\ cursor_active' = IF op.kind = "flush" THEN cursor_active
                                             ELSE Increment(cursor_active)
    /\ \/ op.kind = "set" /\ Idle("BUFFERED", ERROR)
       \/ op.kind = "flush" /\ Idle("SUCCESS", Quit)
       \/ /\ op.kind = "sync"
          /\ pc' = "answer" /\ stack' = <<Frame("flush")>>
          /\ UNCHANGED <<op, ret, last>>
       \/ /\ op.kind = "quit"
          /\ pc' = "quit"
          /\ UNCHANGED <<op, stack, ret, last>>
    /\ UNCHANGED <<fd, write_buffer, read_buffer, array, io_bytes_sent,
                   purging, failures, nextId, net, server>>

\* MEMCACHED_WRITE_FAILURE: memcached_send resets the connection,
\* memcached_flush_buffers does not, and memcached_quit_server goes on.
WriteFailed ==
    /\ Writing /\ ret = "fail"
    /\ \/ /\ op.kind \in {"set", "sync"}
          /\ CloseServer(failures, 1)
          /\ Hangup
          /\ Idle("ERROR", ERROR)
          /\ UNCHANGED purging
       \/ /\ op.kind = "flush"
          /\ Idle("ERROR", ERROR)
          /\ UNCHANGED <<client, net, peer, parsing, earlier>>
       \/ /\ op.kind = "quit"
          /\ pc' = "quit" /\ ret' = "ok"
          /\ UNCHANGED <<op, stack, last, client, net, peer, parsing, earlier>>
    /\ UNCHANGED <<nextId, executed, closes>>

Answering == pc = "answer" /\ stack = <<>>

\* memcached_response: older responses are read and thrown away, the last one
\* answers the call.  The result of the flush before is not looked at.  An
\* older request that failed ends the call, whose own response stays unread.
AnswerOld(o) ==
    /\ Answering /\ cursor_active > 1
    /\ o \in Responses
    /\ AfterResponse(o, 0)
    /\ ret' = "ok"
    /\ IF o.rc = "STORED"
       THEN UNCHANGED <<pc, op, stack, last>>
       ELSE /\ pc' = "idle" /\ op' = NoOp /\ UNCHANGED stack
            /\ last' = [id |-> op.id, rc |-> "ERROR", got |-> ERROR]
    /\ UNCHANGED <<purging, nextId, executed, closes>>

Answer(o) ==
    /\ Answering /\ cursor_active <= 1
    /\ o \in Responses
    /\ AfterResponse(o, 0)
    /\ Idle(IF o.rc = "STORED" THEN "SUCCESS" ELSE "ERROR", o.got)
    /\ UNCHANGED <<purging, nextId, executed, closes>>

\* memcached_quit_server (buffer_requests set) reads until the server has
\* closed its end, then closes.
QuitDrain ==
    /\ pc = "quit" /\ fd
    /\ read_buffer \o toClient # <<>>
    /\ read_buffer' = <<>>
    /\ toClient' = <<>>
    /\ \/ /\ toClient = <<>>
          /\ read_ptr' = read_ptr + Len(read_buffer)
          /\ UNCHANGED read_data
       \/ \E k \in 1..RBufMax :            \* what the last read() gave
             /\ k <= Len(toClient)
             /\ read_data' = SubSeq(toClient, Len(toClient) - k + 1,
                                    Len(toClient))
             /\ read_ptr' = k
    /\ failures' = 0
    /\ io_bytes_sent' = IF read_buffer = <<>> THEN 0 ELSE io_bytes_sent
    /\ UNCHANGED <<fd, cursor_active, write_buffer, purging, control, toServer,
                   server>>

\* Slip: the connection is closed without reading to the end.
QuitCloseAtOnce ==
    /\ pc = "quit"
    /\ CloseServer(0, 0)
    /\ Hangup
    /\ Idle("QUIT", Quit)
    /\ UNCHANGED <<purging, nextId, executed, closes>>

QuitClose ==
    /\ pc = "quit"
    /\ fd /\ peer => "timeout" \in Faults
    /\ fd => read_buffer \o toClient = <<>>
    /\ CloseServer(0, 0)
    /\ Hangup
    /\ Idle(IF fd /\ ~peer THEN "QUIT" ELSE "ERROR", Quit)
    /\ UNCHANGED <<purging, nextId, executed, closes>>

-----------------------------------------------------------------------------
\* The memcached server, external: a command line makes it read the data that
\* follows and store it or refuse to; anything out of place gets an ERROR
\* line; quit closes.
Serve ==
    /\ fd /\ peer /\ toServer # <<>>
    /\ Len(toClient) < NetCap
    /\ toServer' = Tail(toServer)
    /\ LET c == Head(toServer) IN
       \/ /\ parsing = Quit /\ c = QuitChunk
          /\ peer' = FALSE
          /\ UNCHANGED <<toClient, parsing, executed>>
       \/ /\ parsing = Quit /\ c # QuitChunk /\ c.part = "cmd"
          /\ parsing' = c.id
          /\ UNCHANGED <<toClient, peer, executed>>
       \/ /\ parsing # Quit /\ c = [id |-> parsing, part |-> "data"]
          /\ executed' = Append(executed, parsing)
          /\ toClient' = Append(toClient, parsing)
          /\ parsing' = Quit
          /\ UNCHANGED peer
       \/ /\ parsing # Quit /\ c = [id |-> parsing, part |-> "data"]
          /\ "refuse" \in Faults
          /\ toClient' = Append(toClient, Refused(parsing))
          /\ parsing' = Quit
          /\ UNCHANGED <<peer, executed>>
       \/ /\ c # [id |-> parsing, part |-> "data"]
          /\ parsing # Quit \/ c.part = "data"
          /\ toClient' = Append(toClient, ERROR)
          /\ parsing' = Quit
          /\ UNCHANGED <<peer, executed>>
    /\ UNCHANGED <<client, control, closes, earlier, astray>>

\* The server, or the network, ends the connection; what the server had
\* already sent may still arrive, and what it had received it may execute.
ServerClose ==
    /\ fd /\ peer /\ closes < MaxCloses
    /\ closes' = closes + 1
    /\ Leave
    /\ toClient' \in {toClient, <<>>}
    /\ UNCHANGED <<client, control, executed>>

\* On a connection the client has given up the server goes on with what it
\* has received; whatever it answers is lost.
ServeOld(c) ==
    /\ c.toServer # <<>>
    /\ LET chunk == Head(c.toServer)
           left(id, done) == [toServer |-> Tail(c.toServer), parsing |-> id,
                              before |-> c.before, executed |-> done]
           becomes(d) == earlier' = (earlier \ {c}) \cup Kept(d)
       IN \/ /\ c.parsing = Quit /\ chunk.part = "cmd"
             /\ becomes(left(chunk.id, c.executed))
          \/ /\ c.parsing # Quit /\ chunk = [id |-> c.parsing, part |-> "data"]
             /\ becomes(left(Quit, Append(c.executed, c.parsing)))
          \/ /\ \/ c.parsing # Quit /\ "refuse" \in Faults
                \/ c.parsing # Quit /\ chunk # [id |-> c.parsing, part |-> "data"]
                \/ c.parsing = Quit /\ chunk.part = "data"
             /\ becomes(left(Quit, c.executed))
    /\ UNCHANGED <<client, control, net, peer, parsing, executed, closes>>

\* The server finds it broken, or the kernel has thrown the rest away
\* (SO_LINGER 0).
LoseOld(c) ==
    /\ c.toServer # <<>>
    /\ earlier' = (earlier \ {c}) \cup Kept(Idled(c))
    /\ UNCHANGED <<client, control, net, peer, parsing, executed, closes>>

-----------------------------------------------------------------------------
ClientStep ==
    \/ SendRepack
    \/ SendWait
    \/ /\ \/ FlushEnter
          \/ FlushPurged
          \/ \E k \in 1..NetCap : Send(k)
          \/ SendError
          \/ SendWaited
          \/ PurgeFlushed
          \/ \E o \in Responses : PurgeRead(o)
          \/ PurgeDone
          \/ WriteChunk
          \/ WriteFlush
          \/ WriteDone
          \/ WriteFailed
          \/ \E o \in Responses : AnswerOld(o)
          \/ \E o \in Responses : Answer(o)
          \/ QuitDrain
          \/ QuitClose
       /\ UNCHANGED astray

Next ==
    \/ ClientStep
    \/ Serve
    \/ /\ \/ \E kind \in {"set", "sync", "flush"} : Begin(kind)
          \/ BeginQuit
          \/ ServerClose
          \/ \E c \in earlier : ServeOld(c)
          \/ \E c \in earlier : LoseOld(c)
       /\ UNCHANGED astray

Spec == Init /\ [][Next]_vars

\* The client runs when it can, and so does the server; calls are made or not
\* as the application likes, and nothing has to fail.
FairSpec == Spec /\ WF_vars(ClientStep) /\ WF_vars(Serve)

-----------------------------------------------------------------------------
Frames == [at : {"flush", "purged", "send", "wait", "purge", "drain"},
           rest : Seq(Chunk), sent : Nat, n : 0..(CursorMod - 1),
           rc : {"ok", "fail"}]
Calls == [kind : {"none", "set", "sync", "flush", "quit"},
          id : Ids \cup {Quit}, todo : Seq(Chunk), flush : BOOLEAN]

\* What is not consumed lies within what has been read, and that within
\* MEMCACHED_MAX_BUFFER.
InputOK ==
    /\ read_buffer \in Seq(Line) /\ read_data \in Seq(Line) /\ read_ptr \in Nat
    /\ read_ptr + Len(read_buffer) <= Len(read_data)
    /\ Len(read_data) <= RBufMax

\* Type correctness, and both buffers within their arrays.
TypeOK ==
    /\ {fd, purging, peer} \subseteq BOOLEAN
    /\ cursor_active \in 0..(CursorMod - 1)
    /\ write_buffer \in Seq(Chunk) /\ Len(write_buffer) <= WBufMax
    /\ InputOK
    /\ io_bytes_sent \in Nat
    /\ failures \in 0..FailureCap
    /\ pc \in {"idle", "write", "answer", "quit"}
    /\ op \in Calls
    /\ stack \in Seq(Frames)
    /\ ret \in {"ok", "fail"}
    /\ nextId \in 1..(MaxOps + 1)
    /\ toServer \in Seq(Chunk)
    /\ toClient \in Seq(Line)
    /\ parsing \in Ids \cup {Quit}
    /\ executed \in Seq(Ids)
    /\ closes \in 0..MaxCloses
    /\ earlier \subseteq Old

\* A call that waited for its answer got its own: a response to an older
\* request, left on the connection by a failure, is never taken for it, unless
\* the write loop was entered twice or repack_input_buffer has exposed input
\* of an older connection.
OwnAnswer ==
    astray = {} /\ last.id # Quit /\ last.rc = "SUCCESS" => last.got = last.id

Increasing(s) == \A i \in 1..(Len(s) - 1) : s[i] < s[i + 1]
Elements(s) == {s[i] : i \in DOMAIN s}

\* A connection's requests are executed in the order of the calls, before and
\* after the client gives it up, and no request is executed on two of them,
\* whatever partial writes, purges and reconnections there were, unless the
\* write loop was entered twice.
ExecutedInOrder ==
    "reentered" \notin astray =>
        /\ Increasing(executed)
        /\ \A c \in earlier :
              /\ Increasing(SubSeq(executed, 1, c.before) \o c.executed)
              /\ Elements(c.executed) \cap Elements(executed) = {}
              /\ \A d \in earlier \ {c} :
                    Elements(c.executed) \cap Elements(d.executed) = {}

\* memcached_purge is never entered again while it runs, although the
\* io_flush it calls would purge too: the flag stops the recursion.
RecursionStops ==
    \A i, j \in DOMAIN stack :
        {stack[i].at, stack[j].at} \subseteq {"purge", "drain"} => i = j

\* memcached_quit reads until the server hangs up, so that every buffered
\* request of a connection without failures has been executed by then.
QuitDelivers ==
    last.rc = "QUIT" /\ closes = 0 /\ pc = "idle" =>
        \A id \in 1..(nextId - 1) : \E i \in DOMAIN executed : executed[i] = id

\* Calls end: the client is not left writing to a server that waits for the
\* client to read (the deadlock IO_MSG_WATERMARK is there to avoid).
CallsEnd == pc # "idle" ~> pc = "idle"

\* The assertion at the end of io_flush: what it has sent is write_buffer.
FlushSendsBuffer ==
    At("send") /\ fd => Top.sent + Len(Top.rest) = Len(write_buffer)

\* What repack_input_buffer adds to the unread input is what the server has
\* sent on this connection: memcached_quit has reset the state of the last one.
OnlyNewInput ==
    [][SendRepack => read_buffer' \o toClient' = read_buffer \o toClient]_vars
=============================================================================
