--------------------------- MODULE ProtocolServer ---------------------------
(***************************************************************************)
(* The protocol server library (libmemcached/protocol) as the example      *)
(* server memcached_light drives it: one thread, an event loop, and for    *)
(* every readable socket a call of memcached_protocol_client_work, which   *)
(* receives, parses, executes and spools until recv would block.           *)
(*                                                                         *)
(* memcached_light makes its listening socket non-blocking and leaves the  *)
(* accepted ones as accept() returns them: non-blocking where the flag is  *)
(* handed on (BSD, Solaris), blocking where it is not (Linux).             *)
(*                                                                         *)
(* Bytes are abstracted to units.  A request is two units: the command     *)
(* line and the data block of an ASCII storage command, the two halves of  *)
(* any other ASCII line (the newline is in the second), the header and the *)
(* body of a binary packet.  A response is a line per unit (ASCII), or a   *)
(* header and possibly a body.  Units of a kind have the same length, so   *)
(* that a count of bytes is a count of units.                              *)
(***************************************************************************)
EXTENDS Storage, Integers, FiniteSets, SequencesExt

CONSTANTS
    Clients,     \* the peers, one connection at a time each
    Interfaces,  \* which callback interfaces: a subset of {"v0", "v1"}
    Nonblocking, \* whether accept() hands O_NONBLOCK on: a subset of BOOLEAN
    Splits,      \* the protocols whose requests the network may cut in two
    NetCap,      \* units a socket's send buffer holds
    ChunkSize,   \* units of a chunk of output (CHUNK_BUFFERSIZE)
    MemFaults    \* how many times create_item may run out of memory

ASSUME ServerAssumption ==
    /\ Interfaces \subseteq {"v0", "v1"} /\ Nonblocking \subseteq BOOLEAN
    /\ Splits \subseteq {"ascii", "bin"}
    /\ NetCap \in Nat \ {0} /\ ChunkSize \in Nat \ {0} /\ MemFaults \in Nat

Nobody == "nobody"
ASSUME NobodyAssumption == Nobody \notin Clients

VARIABLES
    server,   \* how the server runs: the callbacks it was started with (iface)
              \* and whether its accepted sockets are non-blocking (nonblock)
    store,    \* the item store behind the callbacks
    conn,     \* per peer: "none", "pending" (in the accept queue), "up", "closed"
    eof,      \* per peer: it closed its end
    win,      \* per peer: units on their way to the server
    cl,       \* per peer: its memcached_protocol_client_st, in w the units
              \* given to send that the peer has not read, and the ghost mixed
    serving,  \* the client client_work is running for, or Nobody
    ibuf,     \* root->input_buffer, the units client_work received
    pos,      \* how many of them the protocol handler has consumed
    flaws,    \* what went wrong so far: how often create_item failed, whether
              \* a counter was read out of a text, whether client_work used an
              \* uninitialised pointer, whether that killed the server, the clients
              \* of which it saved the start of the buffer, not its rest, and the
              \* peers it ever happened to
    tail,     \* ghost: per peer, the units received and not yet executed
    owed      \* ghost: per peer, the response units not yet sent

vars == <<server, store, conn, eof, win, cl, serving, ibuf, pos,
          flaws, tail, owed>>

\* A request, as the peers build it.  ntok counts the ASCII tokens without
\* "noreply", which is quiet; keys are the keys of a get; a binary request
\* has extlen extra bytes.
Request == [proto |-> "bin", op |-> "noop", quiet |-> FALSE, keys |-> <<>>,
            val |-> Text(<<>>), cas |-> 0, delta |-> 0, initial |-> 0,
            extlen |-> 0, ntok |-> 1]

StorageOps == {"set", "add", "replace", "cas", "append", "prepend"}

Wire(r) == <<[r |-> r, part |-> 1], [r |-> r, part |-> 2]>>
Wires(requests) ==
    [n \in 1..(2 * Len(requests)) |->
        [r |-> requests[(n + 1) \div 2], part |-> 2 - (n % 2)]]
KeyOf(r) == IF r.keys = <<>> THEN "" ELSE r.keys[1]

\* A unit of a response.
Unit == [t |-> "line", op |-> "", quiet |-> FALSE, st |-> "", key |-> "",
         val |-> Text(<<>>), cas |-> 0, extlen |-> 0, keylen |-> 0, bodylen |-> 0]

-----------------------------------------------------------------------------
(***************************************************************************)
(* Output: chunks from the buffer cache, spooled and drained.              *)
(***************************************************************************)
Unsent(chunk) == Len(chunk.data) - chunk.off
Pending(out) ==
    FoldLeft(LAMBDA a, ch : a \o SubSeq(ch.data, ch.off + 1, Len(ch.data)), <<>>, out)
Lesser(a, b) == IF a < b THEN a ELSE b
Room(w) == NetCap - Len(w)

\* What send takes of n units.  A blocking one takes them all and returns
\* when the socket has room for them: meanwhile the server is Stuck.
Taken(w, n) == IF server.nonblock THEN Lesser(Room(w), n) ELSE n
Stuck(c) == conn[c] = "up" /\ Len(cl[c].w) > NetCap

\* Slip: the chunk sent last is not recycled.
DropKeeps(out, k) ==
    LET Before(j) == Len(Pending(SubSeq(out, 1, j - 1)))
        kept == {j \in 1..Len(out) : Before(j) + Unsent(out[j]) >= k}
        done == Len(out) - Cardinality(kept)
    IN [j \in 1..Cardinality(kept) |->
            IF j = 1 THEN [out[done + 1] EXCEPT !.off = @ + (k - Before(done + 1))]
            ELSE out[done + j]]

\* drain_output: the head chunk is sent from its offset until the socket
\* would block; a chunk that is sent completely goes back to the cache.
Drop(out, k) ==
    LET Before(j) == Len(Pending(SubSeq(out, 1, j - 1)))
        kept == {j \in 1..Len(out) : Before(j) + Unsent(out[j]) > k}
        done == Len(out) - Cardinality(kept)
    IN [j \in 1..Cardinality(kept) |->
            IF j = 1 THEN [out[done + 1] EXCEPT !.off = @ + (k - Before(done + 1))]
            ELSE out[done + j]]

drain_output(c) ==
    LET k == Taken(c.w, Len(Pending(c.out)))
    IN [c EXCEPT !.w = @ \o SubSeq(Pending(c.out), 1, k), !.out = Drop(@, k)]

\* allocate_output_chunk: a new chunk at the tail of the list.
allocate_output_chunk(out, data) == Append(out, [data |-> data, off |-> 0])

\* Slip: a chunk that would not be full is not allocated.
NewChunksFull(data, left) ==
    [j \in 1..(left \div ChunkSize) |-> SubSeq(data, 1, ChunkSize)]
\* spool_output: starts at the HEAD of the list, fills it, then takes new
\* chunks for the rest; every memcpy copies from the beginning of data.
NewChunks(data, left) ==
    [j \in 1..((left + ChunkSize - 1) \div ChunkSize) |->
        SubSeq(data, 1, Lesser(ChunkSize, left - (j - 1) * ChunkSize))]

Spooled(out, data) ==
    LET room == IF out = <<>> THEN 0 ELSE ChunkSize - Len(out[1].data)
        bulk == Lesser(room, Len(data))
        first == IF bulk = 0 THEN out
                 ELSE [out EXCEPT ![1].data = @ \o SubSeq(data, 1, bulk)]
    IN FoldLeft(allocate_output_chunk, first, NewChunks(data, Len(data) - bulk))

\* That is not behind what is waiting: the head has room and other chunks
\* follow it, or the data does not fit where the first copy goes.
Misplaces(out, data) ==
    LET room == IF out = <<>> THEN 0 ELSE ChunkSize - Len(out[1].data)
    IN IF room > 0 THEN Len(out) > 1 \/ Len(data) > room ELSE Len(data) > ChunkSize

\* Nothing is spooled for a muted client.
spool_output(c, data) ==
    IF c.mute \/ data = <<>> THEN c
    ELSE [c EXCEPT !.out = Spooled(@, data), !.mixed = @ \/ Misplaces(c.out, data)]

\* Several spool calls, a unit each.
SpooledEach(out, units) == FoldLeft(LAMBDA a, u : Spooled(a, <<u>>), out, units)
SpoolEach(c, units) ==
    IF c.mute THEN c
    ELSE [c EXCEPT !.out = SpooledEach(@, units),
                   !.mixed = @ \/ \E i \in 1..Len(units) :
                        Misplaces(SpooledEach(c.out, SubSeq(units, 1, i - 1)), <<units[i]>>)]

-----------------------------------------------------------------------------
(***************************************************************************)
(* The binary protocol.  A handler is a callback's result and the packet   *)
(* it answers with: raw through raw_response_handler, or spooled.          *)
(***************************************************************************)
Header(r, st, cas, keylen, extlen, bodylen) ==
    [Unit EXCEPT !.t = "hdr", !.op = r.op, !.quiet = r.quiet, !.st = st, !.cas = cas,
                 !.keylen = keylen, !.extlen = extlen, !.bodylen = bodylen]
Body(val) == [Unit EXCEPT !.t = "body", !.val = val]
NoExtras(r, st, cas) == <<Header(r, st, cas, 0, 0, 0)>>
ValLen(v) == IF v.raw THEN 8 ELSE Len(v.words)

Answer(h, raw, packet) == [h |-> h, raw |-> raw, packet |-> packet]
Silent(h) == Answer(h, TRUE, <<>>)

\* The commands that store: a success is answered unless the opcode is quiet.
StoreAnswer(r, h) ==
    Answer(h, TRUE, IF h.rval = "SUCCESS" /\ ~r.quiet
                    THEN NoExtras(r, "SUCCESS", h.cas) ELSE <<>>)

add_command_handler(s, r, mem) ==
    StoreAnswer(r, add_handler(s, KeyOf(r), r.val, mem))
append_command_handler(s, r, mem) ==
    StoreAnswer(r, append_handler(s, KeyOf(r), r.val, r.cas, mem))
prepend_command_handler(s, r, mem) ==
    StoreAnswer(r, prepend_handler(s, KeyOf(r), r.val, r.cas, mem))
replace_command_handler(s, r, mem) ==
    StoreAnswer(r, replace_handler(s, KeyOf(r), r.val, r.cas, mem))
set_command_handler(s, r, mem) ==
    StoreAnswer(r, set_handler(s, KeyOf(r), r.val, r.cas, mem))
delete_command_handler(s, r) == StoreAnswer(r, delete_handler(s, KeyOf(r), r.cas))
flush_command_handler(s, r) == StoreAnswer(r, flush_handler(s))

\* The counters answer with their new value.
CounterAnswer(r, h) ==
    Answer(h, TRUE, IF h.rval = "SUCCESS" /\ ~r.quiet
                    THEN <<Header(r, "SUCCESS", h.cas, 0, 0, 8), Body(Counter(h.num))>>
                    ELSE <<>>)
increment_command_handler(s, r, mem, old) ==
    CounterAnswer(r, increment_handler(s, KeyOf(r), r.delta, r.initial, mem, old))
decrement_command_handler(s, r, mem, old) ==
    CounterAnswer(r, decrement_handler(s, KeyOf(r), r.delta, r.initial, mem, old))

\* GETK and GETKQ carry the key; the pieces are spooled.
get_response_handler(r, item) ==
    <<[Header(r, "SUCCESS", item.cas, IF r.op = "getk" THEN 1 ELSE 0, 4,
              4 + (IF r.op = "getk" THEN 1 ELSE 0) + ValLen(item.val))
         EXCEPT !.key = IF r.op = "getk" THEN item.key ELSE ""],
      Body(item.val)>>
\* A quiet miss is a success without an answer.
get_command_handler(s, r) ==
    IF Exists(s, KeyOf(r))
    THEN Answer(Fails(s, "SUCCESS"), FALSE, get_response_handler(r, get_item(s, KeyOf(r))))
    ELSE Silent(Fails(s, IF r.quiet THEN "SUCCESS" ELSE "KEY_ENOENT"))

noop_command_handler(s, r) ==
    Answer(Fails(s, "SUCCESS"), TRUE, NoExtras(r, "SUCCESS", 0))
\* EIO is how a handler asks for the connection to be closed.
quit_command_handler(s, r) ==
    Answer(Fails(s, "EIO"), TRUE, IF r.quiet THEN <<>> ELSE NoExtras(r, "SUCCESS", 0))
\* The terminating packet only: the example server has no statistics.
stat_response_handler(r) == NoExtras(r, "SUCCESS", 0)
stat_command_handler(s, r) == Answer(Fails(s, "SUCCESS"), FALSE, stat_response_handler(r))
version_response_handler(r) ==
    <<Header(r, "SUCCESS", 0, 0, 0, 5), Body(Text(<<"version">>))>>
version_command_handler(s, r) == Answer(Fails(s, "SUCCESS"), FALSE, version_response_handler(r))

\* comcode_v0_v1_remap.
V1Handler(s, r, mem, old) ==
    CASE r.op = "add" -> add_command_handler(s, r, mem)
      [] r.op = "append" -> append_command_handler(s, r, mem)
      [] r.op = "prepend" -> prepend_command_handler(s, r, mem)
      [] r.op = "replace" -> replace_command_handler(s, r, mem)
      [] r.op = "set" -> set_command_handler(s, r, mem)
      [] r.op = "delete" -> delete_command_handler(s, r)
      [] r.op = "flush" -> flush_command_handler(s, r)
      [] r.op = "incr" -> increment_command_handler(s, r, mem, old)
      [] r.op = "decr" -> decrement_command_handler(s, r, mem, old)
      [] r.op \in {"get", "getk"} -> get_command_handler(s, r)
      [] r.op = "noop" -> noop_command_handler(s, r)
      [] r.op = "quit" -> quit_command_handler(s, r)
      [] r.op = "stat" -> stat_command_handler(s, r)
      [] r.op = "version" -> version_command_handler(s, r)
      [] OTHER -> Silent(Fails(s, "UNKNOWN_COMMAND"))

(***************************************************************************)
(* The raw interface (example/interface_v0.c): the same commands, building *)
(* their packets themselves.                                               *)
(***************************************************************************)
\* A failure the handler reports itself is an answer, and a success to its caller.
Reported(r, a) ==
    IF a.h.rval = "SUCCESS" THEN a
    ELSE Answer([a.h EXCEPT !.rval = "SUCCESS"], TRUE, NoExtras(r, a.h.rval, 0))

v0_set_command_handler(s, r, mem) == Reported(r, set_command_handler(s, r, mem))
v0_add_command_handler(s, r, mem) == Reported(r, add_command_handler(s, r, mem))
v0_replace_command_handler(s, r, mem) == Reported(r, replace_command_handler(s, r, mem))
v0_concat_command_handler(s, r, mem) ==
    IF r.op = "append" THEN append_command_handler(s, r, mem)
    ELSE prepend_command_handler(s, r, mem)
v0_arithmetic_command_handler(s, r, mem, old) ==
    Reported(r, IF r.op = "incr" THEN increment_command_handler(s, r, mem, old)
                ELSE decrement_command_handler(s, r, mem, old))
\* The cas of a delete is not looked at.
v0_delete_command_handler(s, r) ==
    Reported(r, StoreAnswer(r, delete_handler(s, KeyOf(r), 0)))
v0_get_command_handler(s, r) ==
    [Reported(r, get_command_handler(s, r)) EXCEPT !.raw = TRUE]
v0_flush_command_handler(s, r) == flush_command_handler(s, r)
v0_noop_command_handler(s, r) == noop_command_handler(s, r)
v0_quit_command_handler(s, r) == quit_command_handler(s, r)
v0_stat_command_handler(s, r) == [stat_command_handler(s, r) EXCEPT !.raw = TRUE]
v0_version_command_handler(s, r) == [version_command_handler(s, r) EXCEPT !.raw = TRUE]

\* initialize_interface_v0_handler: the table of comcodes.
V0Handler(s, r, mem, old) ==
    CASE r.op = "set" -> v0_set_command_handler(s, r, mem)
      [] r.op = "add" -> v0_add_command_handler(s, r, mem)
      [] r.op = "replace" -> v0_replace_command_handler(s, r, mem)
      [] r.op \in {"append", "prepend"} -> v0_concat_command_handler(s, r, mem)
      [] r.op \in {"incr", "decr"} -> v0_arithmetic_command_handler(s, r, mem, old)
      [] r.op = "delete" -> v0_delete_command_handler(s, r)
      [] r.op \in {"get", "getk"} -> v0_get_command_handler(s, r)
      [] r.op = "flush" -> v0_flush_command_handler(s, r)
      [] r.op = "noop" -> v0_noop_command_handler(s, r)
      [] r.op = "quit" -> v0_quit_command_handler(s, r)
      [] r.op = "stat" -> v0_stat_command_handler(s, r)
      [] r.op = "version" -> v0_version_command_handler(s, r)
      [] OTHER -> Silent(Fails(s, "UNKNOWN_COMMAND"))
-----------------------------------------------------------------------------
(***************************************************************************)
(* Answering.  A client view v is cl[c]; the operators return a view.      *)
(***************************************************************************)
\* memcached_binary_protocol_pedantic_check_response.
pedantic_check_response(u) ==
    IF u.st = "SUCCESS"
    THEN /\ u.op \in StorageOps \cup {"incr", "decr", "delete", "flush", "quit"} => ~u.quiet
         /\ CASE u.op \in StorageOps ->
                   u.keylen = 0 /\ u.extlen = 0 /\ u.bodylen = 0 /\ u.cas # 0
              [] u.op \in {"flush", "noop", "quit", "delete"} ->
                   u.keylen = 0 /\ u.extlen = 0 /\ u.bodylen = 0 /\ u.cas = 0
              [] u.op \in {"incr", "decr"} ->
                   u.keylen = 0 /\ u.extlen = 0 /\ u.bodylen = 8 /\ u.cas # 0
              [] u.op = "stat" -> u.extlen = 0 /\ u.cas = 0
              [] u.op = "version" ->
                   u.keylen = 0 /\ u.extlen = 0 /\ u.bodylen # 0 /\ u.cas = 0
              [] u.op = "get" -> u.keylen = 0 /\ u.extlen = 4 /\ u.cas # 0
              [] u.op = "getk" -> u.keylen # 0 /\ u.extlen = 4 /\ u.cas # 0
              [] OTHER -> TRUE
    ELSE u.cas = 0 /\ u.extlen = 0 /\ (u.op = "getk" \/ u.keylen = 0)

\* raw_response_handler: drain, then write to the socket what it takes and
\* spool the rest -- from the packet's first byte.
Rest(packet, sent) == SubSeq(packet, 1, Len(packet) - sent)
raw_response_handler(v, packet) ==
    LET d == drain_output(v)
        sent == IF d.out = <<>> THEN Taken(d.w, Len(packet)) ELSE 0
    IN spool_output([d EXCEPT !.w = @ \o SubSeq(packet, 1, sent),
                              !.mixed = @ \/ sent \in 1..(Len(packet) - 1)],
                    Rest(packet, sent))

\* What a binary request makes the server say, and the status of saying it.
Said(a) ==
    IF a.raw /\ a.packet # <<>> /\ ~pedantic_check_response(a.packet[1])
    THEN [rval |-> "EINVAL", packet |-> <<>>]
    ELSE [rval |-> a.h.rval, packet |-> a.packet]

\* memcached_light's unknown() answers itself; execute_command answers every
\* other failure but EIO.
Complaint(r, rval) ==
    IF rval \in {"SUCCESS", "EIO"} THEN <<>> ELSE NoExtras(r, rval, 0)

Say(v, raw, packet) ==
    IF packet = <<>> THEN v
    ELSE IF raw THEN raw_response_handler(v, packet)
    ELSE SpoolEach(v, packet)

Handle(s, r, mem, old) ==
    IF server.iface = "v0" THEN V0Handler(s, r, mem, old) ELSE V1Handler(s, r, mem, old)

-----------------------------------------------------------------------------
(***************************************************************************)
(* The ASCII protocol.  A command is the store it leaves, the lines it     *)
(* spools and the client's mute flag while it spools them.                 *)
(***************************************************************************)
Line(txt) == [Unit EXCEPT !.st = txt]
Lines(txts) == [i \in 1..Len(txts) |-> Line(txts[i])]
Command(s, mute, lines) == [s |-> s, mute |-> mute, lines |-> lines]

\* Unmutes: an error is sent even to a noreply command.
send_command_usage(s) == Command(s, FALSE, <<Line("ERROR")>>)

\* gets also prints the cas.
ascii_get_response_handler(r, item) ==
    <<[Line("VALUE") EXCEPT !.key = item.key, !.cas = IF r.op = "gets" THEN item.cas ELSE 0],
      Body(item.val)>>
\* ascii_process_gets: mute is left as the previous command set it.
ascii_process_gets(s, mute, r) ==
    IF r.keys = <<>> THEN send_command_usage(s)
    ELSE Command(s, mute,
           FoldLeft(LAMBDA a, k : IF Exists(s, k) THEN a \o ascii_get_response_handler(r, get_item(s, k)) ELSE a,
                    <<>>, r.keys) \o <<Line("END")>>)

process_delete(s, r) ==
    LET h == delete_handler(s, KeyOf(r), 0)
    IN IF r.ntok # 2 THEN send_command_usage(s)
       ELSE Command(h.s, r.quiet,
                    <<Line(IF h.rval = "SUCCESS" THEN "DELETED" ELSE "NOT_FOUND")>>)

process_arithmetic(s, r, mem, old) ==
    LET h == IF r.op = "incr" THEN increment_handler(s, KeyOf(r), r.delta, 0, mem, old)
             ELSE decrement_handler(s, KeyOf(r), r.delta, 0, mem, old)
    IN IF r.ntok # 3 THEN send_command_usage(s)
       ELSE Command(h.s, r.quiet,
                    IF h.rval = "SUCCESS"
                    THEN <<[Line("NUMBER") EXCEPT !.val = Counter(h.num)]>>
                    ELSE <<Line("NOT_FOUND")>>)

ascii_stat_response_handler == <<Line("END")>>
process_stats(s, r) ==
    IF r.quiet THEN send_command_usage(s) ELSE Command(s, FALSE, ascii_stat_response_handler)

ascii_version_response_handler == <<Line("VERSION")>>
process_version(s, r) ==
    IF r.quiet \/ r.ntok # 1 THEN send_command_usage(s)
    ELSE Command(s, FALSE, ascii_version_response_handler)

process_flush(s, r) ==
    IF r.ntok > 2 THEN send_command_usage(s) ELSE Command(flush(s), r.quiet, <<Line("OK")>>)

process_verbosity(s, r) ==
    IF r.ntok # 2 THEN send_command_usage(s) ELSE Command(s, r.quiet, <<Line("OK")>>)

\* process_set_command, process_cas_command, ...: the token count.
StorageTokens(r) == IF r.op = "cas" THEN 6 ELSE 5

\* process_storage_command: ASCII cas is a replace with the cas given.
StorageCallback(s, r, val, mem) ==
    CASE r.op = "set" -> set_handler(s, KeyOf(r), val, 0, mem)
      [] r.op = "add" -> add_handler(s, KeyOf(r), val, mem)
      [] r.op = "replace" -> replace_handler(s, KeyOf(r), val, 0, mem)
      [] r.op = "cas" -> replace_handler(s, KeyOf(r), val, r.cas, mem)
      [] r.op = "append" -> append_handler(s, KeyOf(r), val, 0, mem)
      [] r.op = "prepend" -> prepend_handler(s, KeyOf(r), val, 0, mem)

\* Slip: every failure of a storage command is NOT_STORED.
StorageReplyPlain(r, rval) == IF rval = "SUCCESS" THEN "STORED" ELSE "NOT_STORED"
StorageReply(r, rval) ==
    IF rval = "SUCCESS" THEN "STORED"
    ELSE IF r.op = "cas" /\ rval = "KEY_EEXISTS" THEN "EXISTS"
    ELSE IF r.op = "cas" /\ rval = "KEY_ENOENT" THEN "NOT_FOUND"
    ELSE "NOT_STORED"

process_storage_command(s, r, val, mem) ==
    LET h == StorageCallback(s, r, val, mem)
    IN Command(h.s, r.quiet, <<Line(StorageReply(r, h.rval))>>)
-----------------------------------------------------------------------------
(***************************************************************************)
(* The server's steps.                                                     *)
(***************************************************************************)
\* memcached_protocol_create_client: calloc, and determine_protocol as work.
create_client == [work |-> "determine", mute |-> FALSE, saved |-> <<>>,
                  out |-> <<>>, w |-> <<>>, mixed |-> FALSE]

\* The view of client c becomes v, having said some units; closing, the
\* client structure is freed (its chunks are not) and the socket closed.
Update(c, v, said, closing) ==
    /\ cl' = [cl EXCEPT ![c] = IF closing THEN [v EXCEPT !.out = <<>>, !.saved = <<>>] ELSE v]
    /\ conn' = [conn EXCEPT ![c] = IF closing THEN "closed" ELSE @]
    /\ owed' = [owed EXCEPT ![c] =
                   IF closing THEN <<>>
                   ELSE SubSeq(@ \o said, Len(v.w) - Len(cl[c].w) + 1, Len(@ \o said))]

NoFlaws == [memory |-> 0, overread |-> FALSE, endptr |-> FALSE, dead |-> FALSE,
            shifted |-> {}, reread |-> {}]
Dead == flaws.dead
Remaining == SubSeq(ibuf, pos + 1, Len(ibuf))
NextRequest == Remaining[1].r

\* A send to a peer that has gone may fail.
Fail(c) == IF eof[c] THEN BOOLEAN ELSE {FALSE}

\* Control returns to the event loop.
Return == serving' = Nobody /\ ibuf' = <<>> /\ pos' = 0

\* accept_handler
Accept(c) ==
    /\ serving = Nobody /\ conn[c] = "pending" /\ ~Dead
    /\ conn' = [conn EXCEPT ![c] = "up"]
    /\ cl' = [cl EXCEPT ![c] = create_client]
    /\ tail' = [tail EXCEPT ![c] = <<>>]
    /\ owed' = [owed EXCEPT ![c] = <<>>]
    /\ flaws' = [flaws EXCEPT !.shifted = @ \ {c}]
    /\ UNCHANGED <<server, store, eof, win, serving, ibuf, pos>>

\* drive_client calls client_work for a readable socket, or client_work is
\* in its loop.
Driven(c) == (serving = c \/ (serving = Nobody /\ ~Dead)) /\ conn[c] = "up"

\* The network delivers requests whole, or cuts them when it may.
Segment(c) ==
    {n \in 1..Len(win[c]) : win[c][n].part = 2 \/ win[c][n].r.proto \in Splits}

\* determine_protocol, on the first byte of the connection.
determine_protocol(v, first) ==
    IF v.work # "determine" THEN v
    ELSE [v EXCEPT !.work = IF first.r.proto = "bin" THEN "bin"
                            ELSE IF server.iface = "v1" THEN "ascii" ELSE "unsupported"]

\* recv returned data: what was saved goes in front of it.
Recv(c) ==
    /\ Driven(c) /\ ibuf = <<>> /\ serving' = c
    /\ \E n \in Segment(c) :
        LET got == SubSeq(win[c], 1, n)
            v == determine_protocol(cl[c], (cl[c].saved \o got)[1])
        IN /\ win' = [win EXCEPT ![c] = SubSeq(@, n + 1, Len(@))]
           /\ tail' = [tail EXCEPT ![c] = @ \o got]
           /\ ibuf' = cl[c].saved \o got
           /\ pos' = 0
           /\ cl' = [cl EXCEPT ![c] = [v EXCEPT !.saved = <<>>]]
    /\ UNCHANGED <<server, store, conn, eof, flaws, owed>>

\* The interface has no ASCII: an error line, a drain, and the end.
Unsupported(c) ==
    /\ serving = c /\ ibuf # <<>> /\ cl[c].work = "unsupported"
    /\ Update(c, drain_output(spool_output(cl[c], Lines(<<"ERROR">>))), Lines(<<"ERROR">>), TRUE)
    /\ Return
    /\ UNCHANGED <<server, store, eof, win, flaws, tail>>

\* recv would block: drain and wait for the next readable event.  On a
\* blocking socket recv does block, and nothing is drained.
RecvBlocks(c) ==
    /\ serving = c /\ ibuf = <<>> /\ win[c] = <<>> /\ ~eof[c] /\ server.nonblock
    /\ Update(c, drain_output(cl[c]), <<>>, FALSE)
    /\ Return
    /\ UNCHANGED <<server, store, eof, win, flaws, tail>>

\* recv returned 0: drain and destroy.
RecvEof(c) ==
    /\ Driven(c) /\ ibuf = <<>> /\ win[c] = <<>> /\ eof[c]
    /\ Update(c, drain_output(cl[c]), <<>>, TRUE)
    /\ Return
    /\ UNCHANGED <<server, store, eof, win, flaws, tail>>

\* The peer is gone while send waits for room: drain_output fails.
SendFails(c) ==
    /\ Stuck(c) /\ eof[c] /\ serving \in {c, Nobody}
    /\ Update(c, [cl[c] EXCEPT !.w = SubSeq(@, 1, NetCap)], <<>>, TRUE)
    /\ Return
    /\ UNCHANGED <<server, store, eof, win, flaws, tail>>

\* Everything received is consumed: back to recv.
Consumed(c) ==
    /\ serving = c /\ ibuf # <<>> /\ Remaining = <<>>
    /\ ibuf' = <<>> /\ pos' = 0
    /\ UNCHANGED <<server, store, conn, eof, win, cl, serving, flaws, tail, owed>>

\* The bytes are copied for the next call, the output drained.
Save(c, units) ==
    /\ \E fail \in Fail(c) :
         Update(c, drain_output([cl[c] EXCEPT !.saved = units]), <<>>, fail)
    /\ Return
    /\ UNCHANGED <<server, store, eof, win, tail>>

\* The command at the front of an ASCII buffer.  A unit that does not begin
\* a line, and a line whose second half is another's, is no command.
IsStorage(u) == u.part = 1 /\ u.r.op \in StorageOps /\ u.r.ntok = StorageTokens(u.r)
OneUnit(u) == u.part = 2 \/ (u.r.op \in StorageOps /\ ~IsStorage(u))
Garbled == Remaining[1].part = 2
           \/ (Remaining[1].r.op \notin StorageOps /\ Remaining[2] # [Remaining[1] EXCEPT !.part = 2])
Incomplete == Len(Remaining) = 1 /\ ~OneUnit(Remaining[1])
AsciiTurn(c) == serving = c /\ cl[c].work = "ascii" /\ ibuf # <<>> /\ Remaining # <<>>

\* memcached_ascii_protocol_process_data without a newline: the line is kept.
AsciiPartialLine(c) ==
    /\ AsciiTurn(c) /\ Incomplete /\ ~IsStorage(Remaining[1])
    /\ Save(c, Remaining)
    /\ UNCHANGED flaws

\* Bytes that are no part of any request.
Junk == [r |-> Request, part |-> 2]

\* ascii_tokenize_command has put a NUL for every separator of the lines it
\* was given, and recover_tokenize_command puts them back in the current line
\* only: an executed storage line is no command any more.
Tokenized(u) == IF u.part = 1 /\ u.r.op \in StorageOps THEN Junk ELSE u

\* Slip: the command line is taken for consumed.
UnfinishedLost == SubSeq(ibuf, 2, Len(Remaining))
\* A storage command without its data: *endptr still is the start of the
\* buffer, *length what remains of it.
Unfinished ==
    [i \in 1..Len(Remaining) |-> IF i > pos THEN ibuf[i] ELSE Tokenized(ibuf[i])]
AsciiPartialData(c) ==
    /\ AsciiTurn(c) /\ Incomplete /\ IsStorage(Remaining[1]) /\ KeyOf(NextRequest) # ""
    /\ Save(c, Unfinished)
    /\ flaws' = [flaws EXCEPT !.shifted = IF pos > 0 THEN @ \cup {c} ELSE @,
                              !.reread = IF pos > 0 THEN @ \cup {c} ELSE @]

\* The effect of one ASCII command that consumes n units.
Perform(c, cmd, n) ==
    LET v == SpoolEach([cl[c] EXCEPT !.mute = cmd.mute], cmd.lines)
    IN /\ Update(c, v, IF cmd.mute THEN <<>> ELSE cmd.lines, FALSE)
       /\ store' = cmd.s
       /\ pos' = pos + n
       /\ tail' = [tail EXCEPT ![c] = SubSeq(@, n + 1, Len(@))]
       /\ UNCHANGED <<server, eof, win, serving, ibuf>>

\* What create_item may find, and the record of its failures and of the
\* counters read out of a text.
Memory == IF flaws.memory < MemFaults THEN BOOLEAN ELSE {TRUE}
Note(r, mem) ==
    flaws' = [flaws EXCEPT
                !.memory = IF mem THEN @ ELSE @ + 1,
                !.overread = @ \/ (r.op \in {"incr", "decr"} /\ Exists(store, KeyOf(r))
                                    /\ ~get_item(store, KeyOf(r)).val.raw)]

AsciiStorage(c) ==
    /\ AsciiTurn(c) /\ ~Incomplete /\ IsStorage(Remaining[1]) /\ KeyOf(NextRequest) # ""
    /\ \E mem \in Memory :
         /\ Perform(c, process_storage_command(store, NextRequest, Remaining[2].r.val, mem), 2)
         /\ Note(NextRequest, mem)

\* A key out of bounds: the line is spooled, and the connection ends before
\* anything is drained.
AsciiBadKey(c) ==
    /\ AsciiTurn(c) /\ IsStorage(Remaining[1]) /\ KeyOf(NextRequest) = ""
    /\ Update(c, SpoolEach([cl[c] EXCEPT !.mute = NextRequest.quiet], Lines(<<"ERROR">>)), <<>>, TRUE)
    /\ Return
    /\ UNCHANGED <<server, store, eof, win, flaws, tail>>

\* The dispatch of the commands without a data block.
Dispatch(s, mute, r, mem, old) ==
    CASE Garbled -> send_command_usage(s)
      [] ~Garbled /\ r.op \in {"get", "gets"} -> ascii_process_gets(s, mute, r)
      [] ~Garbled /\ r.op = "delete" -> process_delete(s, r)
      [] ~Garbled /\ r.op \in {"incr", "decr"} -> process_arithmetic(s, r, mem, old)
      [] ~Garbled /\ r.op = "stat" -> process_stats(s, r)
      [] ~Garbled /\ r.op = "flush" -> process_flush(s, r)
      [] ~Garbled /\ r.op = "version" -> process_version(s, r)
      [] ~Garbled /\ r.op = "verbosity" -> process_verbosity(s, r)
      [] OTHER -> send_command_usage(s)

Quits(r) == r.op = "quit" /\ r.ntok = 1 /\ ~r.quiet
ReadsOf(r) == IF r.op \in {"incr", "decr"} THEN Reads(store, KeyOf(r)) ELSE {0}
MemoryOf(r) == IF r.op \in {"incr", "decr"} THEN Memory ELSE {TRUE}

AsciiCommand(c) ==
    /\ AsciiTurn(c) /\ ~Incomplete /\ ~IsStorage(Remaining[1])
    /\ Garbled \/ ~Quits(NextRequest)
    /\ \E mem \in MemoryOf(NextRequest), old \in ReadsOf(NextRequest) :
         /\ Perform(c, Dispatch(store, cl[c].mute, NextRequest, mem, old),
                    IF OneUnit(Remaining[1]) THEN 1 ELSE 2)
         /\ Note(NextRequest, mem)

\* quit ends the connection without draining it.
AsciiQuit(c) ==
    /\ AsciiTurn(c) /\ ~Incomplete /\ ~IsStorage(Remaining[1])
    /\ ~Garbled /\ Quits(NextRequest)
    /\ Update(c, [cl[c] EXCEPT !.mute = FALSE], <<>>, TRUE)
    /\ Return
    /\ UNCHANGED <<server, store, eof, win, flaws, tail>>

-----------------------------------------------------------------------------
BinaryTurn(c) == serving = c /\ cl[c].work = "bin" /\ ibuf # <<>> /\ Remaining # <<>>

\* execute_command
BinaryCommand(c) ==
    /\ BinaryTurn(c) /\ Len(Remaining) >= 2 /\ Remaining[1].part = 1
    /\ \E mem \in IF NextRequest.op \in StorageOps THEN Memory ELSE MemoryOf(NextRequest),
          old \in ReadsOf(NextRequest), fail \in Fail(c) :
        LET a == Handle(store, NextRequest, mem, old)
            said == Said(a)
            more == Complaint(NextRequest, said.rval)
            v == Say(Say(cl[c], a.raw, said.packet), TRUE, more)
            closing == said.rval = "EIO" \/ (fail /\ said.packet \o more # <<>>)
        IN /\ Update(c, v, said.packet \o more, closing)
           /\ store' = a.h.s
           /\ Note(NextRequest, mem)
           /\ tail' = [tail EXCEPT ![c] = SubSeq(@, 3, Len(@))]
           /\ IF closing THEN Return
              ELSE pos' = pos + 2 /\ UNCHANGED <<serving, ibuf>>
           /\ UNCHANGED <<server, eof, win>>

\* memcached_binary_protocol_process_data: the packet is not complete.
BinaryPartial(c) ==
    /\ BinaryTurn(c) /\ Len(Remaining) = 1 /\ pos > 0
    /\ Save(c, Remaining)
    /\ UNCHANGED flaws

\* ... and it is the first of the buffer: *endptr was never assigned, and
\* client_work copies from wherever its uninitialised endptr points.
BinaryPartialFirst(c) ==
    /\ BinaryTurn(c) /\ Len(Remaining) = 1 /\ pos = 0 /\ Remaining[1].part = 1
    /\ \/ /\ Save(c, <<Junk>>)
          /\ flaws' = [flaws EXCEPT !.endptr = TRUE]
       \/ /\ flaws' = [flaws EXCEPT !.endptr = TRUE, !.dead = TRUE]
          /\ Return
          /\ UNCHANGED <<server, store, conn, eof, win, cl, tail, owed>>

\* A buffer that does not begin with the magic byte ends the connection.
BinaryBadMagic(c) ==
    /\ BinaryTurn(c) /\ pos = 0 /\ Remaining[1].part = 2
    /\ Update(c, cl[c], <<>>, TRUE)
    /\ Return
    /\ UNCHANGED <<server, store, eof, win, flaws, tail>>

\* client_work and the event loop, in the server's one thread.
Works(c) ==
    \/ Accept(c) \/ Recv(c) \/ Unsupported(c)
    \/ RecvBlocks(c) \/ RecvEof(c) \/ Consumed(c)
    \/ AsciiPartialLine(c) \/ AsciiPartialData(c) \/ AsciiStorage(c)
    \/ AsciiBadKey(c) \/ AsciiCommand(c) \/ AsciiQuit(c)
    \/ BinaryCommand(c) \/ BinaryPartial(c) \/ BinaryPartialFirst(c)
    \/ BinaryBadMagic(c)

ServerStep(c) ==
    \/ (\A d \in Clients : ~Stuck(d)) /\ Works(c)
    \/ SendFails(c)

ServerInit ==
    /\ server \in [iface : Interfaces, nonblock : Nonblocking]
    /\ store = EmptyStore
    /\ conn = [c \in Clients |-> "none"]
    /\ eof = [c \in Clients |-> FALSE]
    /\ win = [c \in Clients |-> <<>>]
    /\ cl = [c \in Clients |-> create_client]
    /\ serving = Nobody
    /\ ibuf = <<>> /\ pos = 0 /\ flaws = NoFlaws
    /\ tail = [c \in Clients |-> <<>>]
    /\ owed = [c \in Clients |-> <<>>]
=============================================================================
