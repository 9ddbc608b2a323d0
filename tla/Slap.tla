-------------------------------- MODULE Slap --------------------------------
(***************************************************************************)
(* The load generator memslap (clients/memslap.c, ms_thread.c, ms_conn.c,  *)
(* ms_task.c): connections, each the event-driven state machine            *)
(* ms_drive_machine over its own sockets and its own window of objects,    *)
(* and the main thread that waits for them.                                *)
(*                                                                         *)
(* A connection has one command outstanding.  ms_exec_task first accounts  *)
(* for the command before (Update), then prepares the next one (Schedule,  *)
(* one step per turn of the multi-get loop); ms_transmit sends it; the     *)
(* answer is read and parsed piece by piece.  A window item has the key    *)
(* last given to it, the offset of its key suffix and the offset of its    *)
(* value in the random character block; a value is its offset.  The servers *)
(* answer a binary get of a missing key with an error: memcached's carries  *)
(* a text in its body (mode.text), memcached_light's does not.              *)
(*                                                                         *)
(* Left out: expire times, the throughput limit (--tps), the facebook test *)
(* and the packet buffer of UDP (a datagram is a piece of an answer, lost  *)
(* or delivered in order).                                                 *)
(***************************************************************************)
EXTENDS Integers, Sequences, FiniteSets, FiniteSetsExt

CONSTANTS
    WinSize,     \* items in the window of a connection
    ExecNum,     \* exec_num_perconn; in run-time mode, a bound of the model
    KeyOffset,   \* ms_setting.distr: where the key of each item starts
    Modes,       \* the command lines explored
    MaxFaults    \* faults of the servers and of the network per behaviour

ASSUME SlapAssumption ==
    /\ WinSize \in Nat \ {0} /\ ExecNum \in Nat \ {0} /\ MaxFaults \in Nat
    /\ KeyOffset \in [1..WinSize -> Nat]

Invalid == -1                                    \* INVALID_OFFSET
Text == -2                                       \* the text of an error, no value's offset
CursorMod == 16 * WinSize                        \* stands for 2^32

FaultKinds == {"drop", "cut", "evict", "fail", "lose", "late"}

Mode == [conns : 1..2, runtime : BOOLEAN, binary : BOOLEAN, text : BOOLEAN, udp : BOOLEAN,
         ml : 1..2, gp : 0..10, sp : 0..10, ow : 0..1, verify : 0..1,
         reconnect : BOOLEAN, socks : 1..2, rep : 0..2, faults : SUBSET FaultKinds]

ASSUME ModesAssumption == Modes \subseteq Mode

\* A connection with one socket never leaves cur_idx at an index of it:
\* ms_reconn writes past tcpsfd, and tcpsfd[0] keeps the closed descriptor,
\* which ms_conn_close closes again.  With one connection it is by then the
\* number of the new socket.  A closed UDP connection is still driven by the
\* timer of its thread, which ends only with its last connection.
ASSUME SharedAssumption ==
    \A m \in Modes : m.udp \/ (m.reconnect /\ m.socks = 1) => m.conns = 1

VARIABLES
    mode,        \* ms_setting
    cn,          \* the connections
    net,         \* per connection and socket: the request and the answer on the way
    store,       \* what the servers hold, by key (external)
    seq,         \* key_prefix_seq
    pc,          \* where the main thread is
    finish_warmup, time_out,   \* ms_global's flags
    locks,       \* the counts of init_lock, warmup_lock and run_lock
    stats,       \* get_misses, vef_miss, vef_failed of ms_stats
    unseen,      \* ghost: per connection, the objects asked for and not received
    faults,      \* faults so far
    flaws        \* ghost: an answer parsed for another command; an assertion failed

vars == <<mode, cn, net, store, seq, pc, finish_warmup, time_out, locks, stats,
          unseen, faults, flaws>>

Conns == 1..mode.conns
Socks == 1..mode.socks
Items == 1..WinSize
MaxKey == 2 * (WinSize + ExecNum)
WarmupNum == IF mode.sp = 0 THEN WinSize ELSE 0

NoRequest == [op |-> "none", keys |-> <<>>, val |-> Invalid, id |-> 0]
NoCommand == [cmd |-> "NULL", ret |-> "FAILURE"]
Quiet == [req |-> NoRequest, ans |-> <<>>, up |-> TRUE]

\* ms_task_init
NoTask == [cmd |-> "NULL", item |-> 1, verify |-> FALSE, finish |-> TRUE, miss |-> TRUE,
           gets |-> 0, sets |-> 0, verified |-> 0, overwrites |-> 0]

\* ms_item_win_init, ms_conn_init: a connection whose keys start after s.
ms_setup_conn(s) ==
    [state |-> "write", sch |-> FALSE,
     win |-> [i \in Items |-> [key |-> s + i, sfx |-> KeyOffset[i], off |-> Invalid]],
     set_cursor |-> 0, warm |-> WarmupNum, remain |-> ExecNum,
     task |-> NoTask, pre |-> NoCommand, cur |-> NoCommand, ml |-> <<>>, vindex |-> 0,
     sock |-> 0, fds |-> Socks, req |-> NoRequest, out |-> FALSE,
     rbuf |-> <<>>, readval |-> FALSE, key |-> 0, id |-> 0]

Unborn == [ms_setup_conn(0) EXCEPT !.state = "new"]

-----------------------------------------------------------------------------
(* Choosing a task (ms_task.c). *)

ms_get_next_get_item(cursor) ==
    CASE cursor = 0 -> {1}
      [] cursor > 0 /\ cursor < WinSize -> 1..cursor
      [] OTHER -> Items

ms_get_next_set_item(cursor) == (cursor % WinSize) + 1

\* Slip: the proportions are swapped.
SelectsSetSwapped(t) == mode.sp > 0 /\ t.gets * mode.gp >= t.sets * mode.sp
SelectsSet(t) == mode.sp > 0 /\ t.gets * mode.sp >= t.sets * mode.gp

\* The tests that turn a get into a set, or a set into a get, when one kind
\* is ahead of its share.  The counters of the cycle only narrow them.
ms_is_get_too_fast(t) == mode.gp > 0 /\ t.gets * mode.sp > t.sets * mode.gp
ms_is_set_too_fast(t) == mode.sp > 0 /\ t.gets * mode.sp < t.sets * mode.gp

ms_need_overwrite_item(t) == t.overwrites < t.sets * mode.ow

\* Slip: the old value offset is kept for the new key.
ms_kick_out_item_keeps(it, s) == [key |-> s, sfx |-> it.sfx + 1, off |-> it.off]
ms_kick_out_item(it, s) == [key |-> s, sfx |-> it.sfx + 1, off |-> Invalid]

\* The connection, the next free key prefix and the task's command.
Chosen(k, s) == [k |-> k, seq |-> s]
KickOut(k, i) == Chosen([k EXCEPT !.win[i] = ms_kick_out_item(@, seq), !.task.item = i,
                                  !.task.cmd = "SET"], seq + 1)

\* ms_adjust_opt after a set was selected.
AdjustSet(k) ==
    LET i == ms_get_next_set_item(k.set_cursor)
        old == k.win[i].off # Invalid
        set == [k EXCEPT !.task.item = i, !.task.cmd = "SET"]
        back == [set EXCEPT !.set_cursor = (@ - 1) % CursorMod]
    IN CASE old /\ ms_is_set_too_fast(k.task) -> {Chosen([set EXCEPT !.task.cmd = "GET"], seq)}
         [] old /\ ~ms_is_set_too_fast(k.task) /\ ms_need_overwrite_item(k.task) ->
                {Chosen([set EXCEPT !.task.overwrites = @ + 1], seq)}
         [] old /\ ~ms_is_set_too_fast(k.task) /\ ~ms_need_overwrite_item(k.task) ->
                {KickOut(k, i)}
         [] ~old /\ ms_need_overwrite_item(k.task) ->
                {Chosen([back EXCEPT !.task.item = j,
                            !.task.overwrites = IF k.win[j].off # Invalid THEN @ + 1 ELSE @],
                        seq) : j \in ms_get_next_get_item(back.set_cursor)}
         [] OTHER -> {Chosen(set, seq)}

\* ms_adjust_opt after a get was selected.  (It gives up, and the selection
\* starts again, when both kinds are too fast: the two tests exclude each other.)
AdjustGet(k) ==
    {LET get == [k EXCEPT !.task.item = i, !.task.cmd = "GET"]
     IN CASE k.win[i].off = Invalid -> Chosen([get EXCEPT !.task.cmd = "SET"], seq)
          [] k.win[i].off # Invalid /\ ms_is_get_too_fast(k.task) -> KickOut(k, i)
          [] OTHER -> Chosen(get, seq)
     : i \in ms_get_next_get_item(k.set_cursor)}

\* ms_task_data_verify_init
VerifyInit(k) ==
    IF mode.verify > 0 /\ k.task.verified < k.task.gets * mode.verify
    THEN [k EXCEPT !.task.verify = TRUE, !.task.finish = FALSE, !.task.verified = @ + 1]
    ELSE k

\* The get counter is updated now, the set counter with the result.
Counted(k) ==
    IF k.task.cmd = "GET" THEN [VerifyInit(k) EXCEPT !.task.gets = @ + 1] ELSE k

ms_get_task(k) ==
    LET k0 == [k EXCEPT !.task.verify = FALSE, !.task.finish = TRUE, !.task.miss = TRUE]
    IN {[ch EXCEPT !.k = Counted(@)] :
           ch \in IF SelectsSet(k0.task) THEN AdjustSet(k0) ELSE AdjustGet(k0)}

-----------------------------------------------------------------------------
(* Preparing a command (ms_mcd_set, ms_mcd_get, ms_mcd_mlget). *)

\* ms_get_rep_sock_index: a writing server if one is left, otherwise any.
ms_get_rep_sock_index(k, cmd) ==
    IF cmd = "SET" /\ k.fds \cap 1..mode.rep # {} THEN k.fds \cap 1..mode.rep ELSE k.fds

ms_get_next_sock_index(k) == {(k.sock % mode.socks) + 1}

\* ms_update_conn_sock_event: the first command goes to the first socket.
ms_update_conn_sock_event(k, cmd) ==
    CASE k.sock = 0 \/ mode.socks = 1 -> {1}
      [] k.sock # 0 /\ mode.socks > 1 /\ mode.rep = 0 -> ms_get_next_sock_index(k)
      [] OTHER -> ms_get_rep_sock_index(k, cmd)

Prepare(k, cmd, keys, val) ==
    {[k EXCEPT !.cur = [cmd |-> cmd, ret |-> "FAILURE"], !.sock = i, !.out = TRUE,
               !.sch = FALSE, !.id = @ + 1,
               !.req = [op |-> cmd, keys |-> keys, val |-> val, id |-> k.id + 1]]
        : i \in ms_update_conn_sock_event(k, cmd)}

\* The value sent is the one at the item's offset, or at the key suffix's
\* when the item is new.
ms_mcd_set(k) ==
    LET it == k.win[k.task.item]
    IN Prepare(k, "SET", <<it.key>>, IF it.off = Invalid THEN it.sfx ELSE it.off)

ms_mcd_get(k) == Prepare(k, "GET", <<k.win[k.task.item].key>>, Invalid)

ms_mcd_mlget(k) ==
    Prepare(k, "GET", [j \in 1..Len(k.ml) |-> k.win[k.ml[j].item].key], Invalid)

\* A get collected for the next multi-get.
Collected(k) ==
    [k EXCEPT !.ml = Append(@, [item |-> k.task.item, verify |-> k.task.verify,
                                finish |-> k.task.finish, miss |-> k.task.miss])]

-----------------------------------------------------------------------------
(* The result of the command before. *)

MultiGetDone(k) == (mode.ml > 1 /\ Len(k.ml) >= mode.ml) \/ (k.remain = 0 /\ k.ml # <<>>)

\* Slip: a new item's offset is increased too.
SetResultPlain(k) ==
    IF k.pre.cmd = "SET" /\ k.pre.ret = "STORED"
    THEN [k EXCEPT !.win[k.task.item].off = @ + 1,
                   !.set_cursor = (@ + 1) % CursorMod, !.task.sets = @ + 1]
    ELSE k
\* ms_update_set_result
SetResult(k) ==
    LET i == k.task.item
    IN IF k.pre.cmd = "SET" /\ k.pre.ret = "STORED"
       THEN [k EXCEPT !.win[i].off = IF @ = Invalid THEN k.win[i].sfx ELSE @ + 1,
                      !.set_cursor = (@ + 1) % CursorMod, !.task.sets = @ + 1]
       ELSE k

ms_update_task_result(k) ==
    IF MultiGetDone(k) THEN [SetResult(k) EXCEPT !.ml = <<>>, !.vindex = 0] ELSE SetResult(k)

\* What it adds to get_misses and to verify_misses.
Missed(k) ==
    IF MultiGetDone(k) THEN Cardinality({j \in 1..Len(k.ml) : k.ml[j].miss})
    ELSE IF k.pre.cmd = "GET" /\ k.task.miss THEN 1 ELSE 0
VerifyMissed(k) ==
    IF MultiGetDone(k)
    THEN Cardinality({j \in 1..Len(k.ml) : k.ml[j].verify /\ ~k.ml[j].finish})
    ELSE IF k.pre.cmd = "GET" /\ k.task.verify /\ ~k.task.finish THEN 1 ELSE 0

-----------------------------------------------------------------------------
(* The answer. *)

\* After one operation completes; readval and rvbytes are left alone.
ms_reset_conn(k) ==
    [k EXCEPT !.rbuf = <<>>, !.out = FALSE, !.state = "write", !.pre = k.cur]

\* The places of the multi-get that the value may be for: the next one, or
\* (text protocol) the first with the key received.
MlPlace(k) ==
    LET next == k.vindex + 1
        same == {j \in 1..Len(k.ml) : k.win[k.ml[j].item].key = k.key}
    IN IF mode.binary \/ next \in same THEN next
       ELSE IF same = {} THEN Len(k.ml) ELSE Min(same)

\* Slip: the miss flag of the multi-get's item is left set.
AdoptKeeps(k) ==
    IF ~MultiGetDone(k) THEN k
    ELSE LET j == MlPlace(k)
         IN [k EXCEPT !.vindex = @ + 1, !.task.item = k.ml[j].item,
                      !.task.verify = k.ml[j].verify, !.task.finish = k.ml[j].finish]
\* The value's item becomes the current one.
Adopt(k) ==
    IF ~MultiGetDone(k) THEN k
    ELSE LET j == MlPlace(k)
         IN [k EXCEPT !.vindex = @ + 1, !.ml[j].miss = FALSE, !.task.item = k.ml[j].item,
                      !.task.verify = k.ml[j].verify, !.task.finish = k.ml[j].finish]

\* ms_verify_value: the value is compared with the one at the item's offset.
Mismatch(k, val) == k.task.verify /\ k.win[k.task.item].off # val
Verified(k, j) ==
    LET v == [k EXCEPT !.task.finish = TRUE]
    IN IF ~k.task.verify THEN k
       ELSE IF j = 0 THEN v ELSE [v EXCEPT !.ml[j].finish = TRUE]

\* Slip: a binary multi-get ends one value early.
ms_complete_nread_early(k, t) ==
    LET a == Adopt(k)
        v == [a EXCEPT !.task.miss = FALSE, !.readval = FALSE, !.rbuf = Tail(@)]
    IN IF ~mode.binary THEN v ELSE ms_reset_conn([v EXCEPT !.cur.ret = "END"])
\* ms_ascii_complete_nread and ms_bin_complete_nread: a binary get is over
\* with its value, a binary multi-get with its last one.  The body of an error
\* is taken for the value of a get; that of a failed set is skipped.
ms_complete_nread(k, t) ==
    LET a == Adopt(k)
        j == IF MultiGetDone(k) THEN MlPlace(k) ELSE 0
        v == [Verified(a, j) EXCEPT !.task.miss = FALSE, !.readval = FALSE,
                                    !.rbuf = Tail(@)]
        done == mode.ml = 1 \/ v.vindex = Len(v.ml)
        b == [v EXCEPT !.cur.ret = "END"]
    IN CASE t.t = "reason" -> ms_reset_conn([k EXCEPT !.readval = FALSE])
         [] t.t = "data" /\ ~mode.binary -> v
         [] t.t = "data" /\ mode.binary /\ done -> ms_reset_conn(b)
         [] OTHER -> b

\* A line of the text protocol: a VALUE names its key and is followed by its
\* data, any other line is the result.
ms_ascii_process_line(k, t) ==
    IF t.t = "VALUE" THEN [k EXCEPT !.readval = TRUE, !.key = t.key]
    ELSE [k EXCEPT !.cur.ret = t.t]

\* A binary header: with a body, be it the text of an error, the data follows;
\* without one its status is the result.
ms_bin_process_response(k, t) ==
    IF t.t = "VALUE" THEN [k EXCEPT !.readval = TRUE]
    ELSE [k EXCEPT !.cur.ret = t.t]

\* A result completes the operation.
ms_try_read_line(k, t) ==
    LET p == IF mode.binary THEN ms_bin_process_response(k, t)
             ELSE ms_ascii_process_line(k, t)
    IN IF p.readval THEN [p EXCEPT !.rbuf = Tail(@)] ELSE ms_reset_conn(p)

-----------------------------------------------------------------------------
(* The event handlers. *)

Frame == UNCHANGED <<mode, pc, finish_warmup, time_out>>
Turn(c, state) == cn[c].state = state
Fault(kind) == kind \in mode.faults /\ faults < MaxFaults /\ faults' = faults + 1
Idle(c) == Turn(c, "write") /\ ~cn[c].out /\ ~cn[c].sch

\* A thread sets its connection up and reports to init_lock.
Setup(c) ==
    /\ Turn(c, "new")
    /\ cn' = [cn EXCEPT ![c] = ms_setup_conn(seq - 1)]
    /\ seq' = seq + WinSize
    /\ locks' = [locks EXCEPT !.init = @ + 1]
    /\ UNCHANGED <<net, store, stats, unseen, faults, flaws>> /\ Frame

\* ms_warmup_server: the result of the set before, then the next set.
WarmResult(k) ==
    IF k.warm # WarmupNum /\ k.pre = [cmd |-> "SET", ret |-> "STORED"]
    THEN [k EXCEPT !.win[k.task.item].off = k.win[k.task.item].sfx, !.set_cursor = @ + 1]
    ELSE k
WarmTask(k) ==
    [k EXCEPT !.task.verify = FALSE, !.task.finish = TRUE, !.task.miss = TRUE,
              !.task.cmd = "SET", !.task.item = ms_get_next_set_item(k.set_cursor),
              !.warm = @ - 1]

ms_warmup_server(c) ==
    /\ Idle(c) /\ ~finish_warmup /\ cn[c].warm > 0
    /\ \E k \in ms_mcd_set(WarmTask(WarmResult(cn[c]))) : cn' = [cn EXCEPT ![c] = k]
    /\ UNCHANGED <<net, store, seq, locks, stats, unseen, faults, flaws>> /\ Frame

\* Slip: the counter is not decremented past the signal.
WarmupEndsAgain(c) ==
    /\ Idle(c) /\ ~finish_warmup /\ cn[c].warm = 0
    /\ cn' = [cn EXCEPT ![c] = WarmResult(cn[c])]
    /\ locks' = [locks EXCEPT !.warmup = @ + 1]
    /\ UNCHANGED <<net, store, seq, stats, unseen, faults, flaws>> /\ Frame
\* ... and after the last one the signal, once.
WarmupEnds(c) ==
    /\ Idle(c) /\ ~finish_warmup /\ cn[c].warm = 0
    /\ cn' = [cn EXCEPT ![c] = [WarmResult(cn[c]) EXCEPT !.warm = -2]]
    /\ locks' = [locks EXCEPT !.warmup = @ + 1]
    /\ UNCHANGED <<net, store, seq, stats, unseen, faults, flaws>> /\ Frame

\* ms_run_getset_task, first part.  In run-time mode the model stops taking
\* tasks after ExecNum of them; the code has MAX_EXEC_NUM.
Update(c) ==
    LET k == cn[c]
        first == k.remain = ExecNum
    IN /\ Idle(c) /\ finish_warmup /\ k.remain >= 0
       /\ mode.runtime /\ ~time_out => k.remain > 0
       /\ cn' = [cn EXCEPT ![c] = [(IF first THEN k ELSE ms_update_task_result(k))
                                      EXCEPT !.sch = TRUE]]
       /\ stats' = IF first THEN stats
                   ELSE [stats EXCEPT !.get_misses = @ + Missed(k),
                                      !.vef_miss = @ + VerifyMissed(k)]
       /\ UNCHANGED <<net, store, seq, locks, unseen, faults, flaws>> /\ Frame

\* "No task to do, exit": after the schedule, whatever it has prepared.
Exits(k) == IF k.remain = -1 \/ time_out THEN [k EXCEPT !.state = "closing", !.sch = FALSE]
            ELSE k

\* ms_single_getset_task_sch and one turn of the loop of ms_multi_getset_task_sch.
Scheduled(k) ==
    CASE k.task.cmd = "SET" -> ms_mcd_set(k)
      [] k.task.cmd = "GET" /\ mode.ml = 1 -> ms_mcd_get(k)
      [] OTHER ->
            LET m == Collected(k)
            IN IF Len(m.ml) >= mode.ml \/ m.remain = 0 THEN ms_mcd_mlget(m) ELSE {m}

Schedule(c) ==
    /\ cn[c].sch /\ cn[c].remain > 0
    /\ \E ch \in ms_get_task([cn[c] EXCEPT !.remain = @ - 1]) :
         \E k \in Scheduled(ch.k) :
            /\ cn' = [cn EXCEPT ![c] = IF k.sch THEN k ELSE Exits(k)]
            /\ seq' = ch.seq
    /\ UNCHANGED <<net, store, locks, stats, unseen, faults, flaws>> /\ Frame

\* The last time no task is run.
ScheduleNone(c) ==
    /\ cn[c].sch /\ cn[c].remain = 0
    /\ LET k == [cn[c] EXCEPT !.remain = @ - 1]
       IN \E k1 \in IF mode.ml > 1 /\ k.ml # <<>> THEN ms_mcd_mlget(k) ELSE {k} :
             cn' = [cn EXCEPT ![c] = Exits(k1)]
    /\ UNCHANGED <<net, store, seq, locks, stats, unseen, faults, flaws>> /\ Frame

Asked(k) == IF k.cur.cmd = "GET" THEN Len(k.req.keys) ELSE 0

\* ms_transmit; a send on a broken socket closes the connection.
ms_transmit(c) ==
    LET k == cn[c] IN
    /\ Turn(c, "write") /\ k.out
    /\ IF net[c][k.sock].up
       THEN /\ cn' = [cn EXCEPT ![c].out = FALSE, ![c].state = "read"]
            /\ net' = [net EXCEPT ![c][k.sock].req = k.req]
       ELSE /\ cn' = [cn EXCEPT ![c].state = "closing"]
            /\ UNCHANGED net
    /\ unseen' = [unseen EXCEPT ![c] = Asked(k)]
    /\ UNCHANGED <<store, seq, locks, stats, faults, flaws>> /\ Frame

\* ms_try_read_network: some of the answer has arrived; over UDP an answer is
\* one datagram unless it may be cut.
Wire(c) == net[c][cn[c].sock]
Arrived(c) ==
    IF mode.udp /\ "cut" \notin mode.faults THEN {Len(Wire(c).ans)} ELSE 1..Len(Wire(c).ans)
ms_try_read_network(c) ==
    /\ Turn(c, "read") /\ cn[c].rbuf = <<>> /\ Wire(c).ans # <<>>
    /\ \E n \in Arrived(c) :
         /\ cn' = [cn EXCEPT ![c].rbuf = SubSeq(Wire(c).ans, 1, n)]
         /\ net' = [net EXCEPT ![c][cn[c].sock].ans = SubSeq(@, n + 1, Len(@))]
         /\ flaws' = [flaws EXCEPT !.abort = @ \/ (mode.udp /\ Wire(c).ans[1].id # cn[c].id)]
    /\ UNCHANGED <<store, seq, locks, stats, unseen, faults>> /\ Frame

\* End of file.
ReadEof(c) ==
    /\ Turn(c, "read") /\ cn[c].rbuf = <<>> /\ Wire(c).ans = <<>> /\ ~Wire(c).up
    /\ cn' = [cn EXCEPT ![c].state = "closing"]
    /\ UNCHANGED <<net, store, seq, locks, stats, unseen, faults, flaws>> /\ Frame

\* conn_read with data in the buffer.  A data block is only looked for after
\* its header; a header that comes while data is awaited stays in the buffer.
Parse(c) ==
    LET k == cn[c]
        t == k.rbuf[1]
    IN /\ Turn(c, "read") /\ k.rbuf # <<>>
       /\ IF k.readval
          THEN /\ t.t \in {"data", "reason"}
               /\ cn' = [cn EXCEPT ![c] = ms_complete_nread(k, t)]
               /\ stats' = [stats EXCEPT !.vef_failed =
                               @ + IF t.t = "data" /\ Mismatch(Adopt(k), t.val) THEN 1 ELSE 0]
          ELSE /\ cn' = [cn EXCEPT ![c] = ms_try_read_line(k, t)]
               /\ UNCHANGED stats
       /\ unseen' = [unseen EXCEPT ![c] =
                        @ - IF k.readval /\ t.t = "data" /\ t.val # Text THEN 1 ELSE 0]
       /\ flaws' = [flaws EXCEPT
                       !.stray = @ \/ t.id # k.id,
                       !.abort = @ \/ (k.readval /\ t.t = "data" /\ Adopt(k).task.verify
                                       /\ k.win[Adopt(k).task.item].off = Invalid)]
       /\ UNCHANGED <<net, store, seq, locks, faults>> /\ Frame

\* ms_check_sock_timeout: the command is given up after SOCK_WAIT_TIMEOUT,
\* whether its answer or its datagram's turn to be sent is awaited.  Without
\* "late" the network delivers within that time what it does not lose.
Timer(c) ==
    /\ mode.udp
    /\ \/ /\ Turn(c, "read") /\ cn[c].rbuf = <<>>
          /\ "late" \in mode.faults \/ (Wire(c).req = NoRequest /\ Wire(c).ans = <<>>)
          /\ UNCHANGED <<unseen, faults>>
       \/ /\ Turn(c, "write") /\ cn[c].out /\ Fault("lose")
          /\ unseen' = [unseen EXCEPT ![c] = Asked(cn[c])]
    /\ cn' = [cn EXCEPT ![c] = ms_reset_conn(@)]
    /\ UNCHANGED <<net, store, seq, locks, stats, flaws>> /\ Frame

Reconnects == mode.reconnect /\ ~time_out

\* Slip: run_lock is not told.
CloseSilent(c) ==
    /\ cn' = [cn EXCEPT ![c].state = "closed", ![c].fds = {}]
    /\ net' = [net EXCEPT ![c] = [i \in Socks |-> Quiet]]
    /\ UNCHANGED locks
\* ms_conn_close
Close(c) ==
    /\ cn' = [cn EXCEPT ![c].state = "closed", ![c].fds = {}]
    /\ net' = [net EXCEPT ![c] = [i \in Socks |-> Quiet]]
    /\ locks' = [locks EXCEPT !.run = IF mode.runtime THEN @ ELSE @ + 1]

\* ms_reconn.  Alone, a connection tries until the server takes it back; in
\* the replication test it goes on with the sockets it has left.
ms_reconn(c) ==
    LET k == cn[c]
        left == IF mode.rep > 0 THEN k.fds \ {k.sock} ELSE k.fds
    IN /\ Turn(c, "closing") /\ Reconnects
       /\ IF left = {} THEN Close(c)
          ELSE /\ cn' = [cn EXCEPT ![c] = [ms_reset_conn(k) EXCEPT !.fds = left]]
               /\ net' = [net EXCEPT ![c][k.sock] = Quiet]
               /\ UNCHANGED locks
       /\ UNCHANGED <<store, seq, stats, unseen, faults, flaws>> /\ Frame

ms_conn_close(c) ==
    /\ Turn(c, "closing") /\ ~Reconnects
    /\ Close(c)
    /\ UNCHANGED <<store, seq, stats, unseen, faults, flaws>> /\ Frame

\* ms_reconn_socks, from the timer: the sockets given up by ms_reconn.
ms_reconn_socks(c) ==
    /\ mode.socks > 1 /\ cn[c].state \in {"write", "read"} /\ ~cn[c].sch
    /\ \E back \in SUBSET (Socks \ cn[c].fds) \ {{}} :
          cn' = [cn EXCEPT ![c].fds = @ \cup back]
    /\ UNCHANGED <<net, store, seq, locks, stats, unseen, faults, flaws>> /\ Frame

-----------------------------------------------------------------------------
(* The main thread (ms_monitor_slap_mode). *)

MonitorFrame == UNCHANGED <<mode, cn, net, store, seq, locks, stats, unseen, faults, flaws>>

\* Slip: the main thread does not wait for the warm-up.
WaitInitOnly ==
    /\ pc = "init" /\ locks.init = mode.conns
    /\ pc' = "run" /\ finish_warmup' = TRUE
    /\ UNCHANGED time_out /\ MonitorFrame
WaitInit ==
    /\ pc = "init" /\ locks.init = mode.conns
    /\ pc' = IF mode.sp = 0 THEN "warmup" ELSE "run"
    /\ finish_warmup' = (mode.sp # 0)
    /\ UNCHANGED time_out /\ MonitorFrame

WaitWarmup ==
    /\ pc = "warmup" /\ locks.warmup = mode.conns
    /\ pc' = "run" /\ finish_warmup' = TRUE
    /\ UNCHANGED time_out /\ MonitorFrame

\* The run time is over, or every connection is gone.
RunTimeOver ==
    /\ pc = "run" /\ mode.runtime
    /\ pc' = "done"
    /\ time_out' = ((\E c \in Conns : cn[c].state # "closed") \/ time_out)
    /\ UNCHANGED finish_warmup /\ MonitorFrame

WaitRun ==
    /\ pc = "run" /\ ~mode.runtime /\ locks.run = mode.conns
    /\ pc' = "done"
    /\ UNCHANGED <<finish_warmup, time_out>> /\ MonitorFrame

-----------------------------------------------------------------------------
(* The servers and the network. *)

Piece(r, kind, key, val) == [t |-> kind, id |-> r.id, key |-> key, val |-> val]
Hit(r, key) == <<Piece(r, "VALUE", key, Invalid), Piece(r, "data", key, store[key])>>

\* A binary miss has an answer of its own, with or without a text.
Miss(r) ==
    CASE ~mode.binary -> <<>>
      [] mode.binary /\ ~mode.text -> <<Piece(r, "NOT_FOUND", 0, Invalid)>>
      [] OTHER -> <<Piece(r, "VALUE", 0, Invalid), Piece(r, "data", 0, Text)>>

\* A text get ends with END.
Hits(r) ==
    LET part(j) == IF store[r.keys[j]] # Invalid THEN Hit(r, r.keys[j]) ELSE Miss(r)
    IN IF Len(r.keys) = 1 THEN part(1) ELSE part(1) \o part(2)
GetAnswer(r) == IF mode.binary THEN Hits(r) ELSE Append(Hits(r), Piece(r, "END", 0, Invalid))

Outside == UNCHANGED <<cn, seq, locks, stats>> /\ Frame

Serve(c, i) ==
    LET r == net[c][i].req IN
    /\ net[c][i].up
    /\ \/ /\ r.op = "SET"
          /\ store' = [store EXCEPT ![r.keys[1]] = r.val]
          /\ net' = [net EXCEPT ![c][i].req = NoRequest,
                                ![c][i].ans = Append(@, Piece(r, "STORED", 0, Invalid))]
       \/ /\ r.op = "GET"
          /\ net' = [net EXCEPT ![c][i].req = NoRequest, ![c][i].ans = @ \o GetAnswer(r)]
          /\ UNCHANGED store
    /\ UNCHANGED <<unseen, faults, flaws>> /\ Outside

Refusal(r) ==
    IF mode.binary /\ mode.text
    THEN <<Piece(r, "VALUE", 0, Invalid), Piece(r, "reason", 0, Text)>>
    ELSE <<Piece(r, "SERVER_ERROR", 0, Invalid)>>
ServeFails(c, i) ==
    /\ Fault("fail") /\ net[c][i].req.op = "SET"
    /\ net' = [net EXCEPT ![c][i].req = NoRequest,
                          ![c][i].ans = @ \o Refusal(net[c][i].req)]
    /\ UNCHANGED <<store, unseen, flaws>> /\ Outside

\* What still arrives of an answer when the server closes the connection: all,
\* or nothing if none of it has been read; with "cut" any part of it.
Arrives(c, ans) ==
    CASE "cut" \in mode.faults -> 0..Len(ans)
      [] "cut" \notin mode.faults /\ (cn[c].readval \/ cn[c].rbuf # <<>>) -> {Len(ans)}
      [] OTHER -> {0, Len(ans)}

Drop(c, i) ==
    LET n == net[c][i].ans IN
    /\ Fault("drop") /\ net[c][i].up /\ cn[c].state \notin {"new", "closed"}
    /\ i \in cn[c].fds
    /\ \E keep \in Arrives(c, n) :
          net' = [net EXCEPT ![c][i] = [req |-> NoRequest, ans |-> SubSeq(n, 1, keep),
                                        up |-> FALSE]]
    /\ UNCHANGED <<store, unseen, flaws>> /\ Outside

Evict ==
    /\ Fault("evict")
    /\ \E key \in {x \in 1..MaxKey : store[x] # Invalid} : store' = [store EXCEPT ![key] = Invalid]
    /\ UNCHANGED <<net, unseen, flaws>> /\ Outside

\* A datagram is lost: the request, or the answer from some piece on.
Lose(c, i) ==
    /\ Fault("lose")
    /\ \/ /\ net[c][i].req # NoRequest
          /\ net' = [net EXCEPT ![c][i].req = NoRequest]
       \/ /\ net[c][i].ans # <<>> /\ cn[c].rbuf = <<>>
          /\ \E keep \in IF "cut" \in mode.faults THEN 0..(Len(net[c][i].ans) - 1) ELSE {0} :
                net' = [net EXCEPT ![c][i].ans = SubSeq(@, 1, keep)]
    /\ UNCHANGED <<store, unseen, flaws>> /\ Outside

-----------------------------------------------------------------------------
Init ==
    /\ mode \in Modes
    /\ cn = [c \in Conns |-> Unborn]
    /\ net = [c \in Conns |-> [i \in Socks |-> Quiet]]
    /\ store = [x \in 1..MaxKey |-> Invalid]
    /\ seq = 1
    /\ pc = "init" /\ finish_warmup = FALSE /\ time_out = FALSE
    /\ locks = [init |-> 0, warmup |-> 0, run |-> 0]
    /\ stats = [get_misses |-> 0, vef_miss |-> 0, vef_failed |-> 0]
    /\ unseen = [c \in Conns |-> 0] /\ faults = 0
    /\ flaws = [stray |-> FALSE, abort |-> FALSE]

ConnStep(c) ==
    \/ Setup(c) \/ ms_warmup_server(c) \/ WarmupEnds(c)
    \/ Update(c) \/ Schedule(c) \/ ScheduleNone(c) \/ ms_transmit(c)
    \/ ms_try_read_network(c) \/ ReadEof(c) \/ Parse(c) \/ Timer(c)
    \/ ms_reconn(c) \/ ms_conn_close(c)

Monitor == WaitInit \/ WaitWarmup \/ RunTimeOver \/ WaitRun

Network ==
    \/ Evict
    \/ \E c \in Conns : \/ ms_reconn_socks(c)
                        \/ \E i \in Socks : ServeFails(c, i) \/ Drop(c, i) \/ Lose(c, i)

Next ==
    \/ Monitor
    \/ \E c \in Conns : ConnStep(c) \/ (\E i \in Socks : Serve(c, i))
    \/ Network

\* The event loops run every ready connection, the servers answer.
Fairness ==
    /\ WF_vars(Monitor)
    /\ \A c \in 1..2 : WF_vars(c \in Conns /\ ConnStep(c))
    /\ \A c \in 1..2, i \in 1..2 : WF_vars(c \in Conns /\ i \in Socks /\ Serve(c, i))

Spec == Init /\ [][Next]_vars /\ Fairness

-----------------------------------------------------------------------------
(* Properties. *)

\* The type of every variable (the state struct conn and ms_global keep).
TypeOK ==
    /\ mode \in Modes
    /\ \A c \in Conns :
         /\ cn[c].state \in {"new", "write", "read", "closing", "closed"}
         /\ \A i \in Items :
               /\ cn[c].win[i].key \in 0..MaxKey
               /\ cn[c].win[i].sfx - KeyOffset[i] \in 0..ExecNum
               /\ \/ cn[c].win[i].off = Invalid
                  \/ cn[c].win[i].off - KeyOffset[i] \in 0..(2 * ExecNum)
         /\ unseen[c] \in 0..mode.ml
         /\ cn[c].set_cursor \in 0..(CursorMod - 1)
         /\ cn[c].warm \in -2..WinSize /\ cn[c].remain \in -1..ExecNum
         /\ cn[c].task.item \in Items /\ cn[c].sock \in 0..mode.socks
         /\ cn[c].fds \subseteq Socks
         /\ Len(cn[c].ml) <= mode.ml /\ cn[c].vindex <= Len(cn[c].ml)
    /\ pc \in {"init", "warmup", "run", "done"}
    /\ finish_warmup \in BOOLEAN /\ time_out \in BOOLEAN
    /\ \A l \in DOMAIN locks : locks[l] \in 0..mode.conns
    /\ seq \in 1..(MaxKey + 1) /\ faults \in 0..MaxFaults

\* Whatever is parsed answers the command the connection waits for, and no
\* assertion of ms_conn.c fails: over lost sockets, reconnections, round-robin
\* and replicated sockets, multi-gets and UDP timeouts (ms_drive_machine).
\* The modes leave out binary multi-gets that miss on a server whose errors
\* have no text: the first miss ends the command, the rest of its answers is
\* taken for the next (ms_conn.c:1358).
OwnAnswer == ~flaws.stray /\ ~flaws.abort

\* Data verification never accuses a server that keeps what it was given:
\* the offset an item is checked against is the one its value was sent from
\* (ms_verify_value against ms_mcd_set, without --overwrite).  The text of a
\* binary miss is compared too, and does accuse (ms_conn.c:3185, 1926).
NoFalseAlarm == mode.ow = 0 /\ ~mode.text => stats.vef_failed = 0

\* When a command is accounted for, get_misses grows by the objects it asked
\* for and did not receive, whether the servers did not have them or the
\* answer was lost, each once; verify_misses by no more than that
\* (ms_update_single_get_result and its multi-get form).  A set that is the
\* last command also counts the gets collected and not sent before it.  A text
\* received for a missing object is no miss (ms_conn.c:3185).
Unreceived(c) ==
    IF cn[c].pre.cmd = "GET" THEN unseen[c]
    ELSE IF cn[c].remain = 0 THEN Len(cn[c].ml) ELSE 0
Accounted(c) == ~cn[c].sch /\ cn'[c].sch /\ cn[c].remain # ExecNum
MissesReal ==
    [][~mode.text =>
        LET counted == {c \in Conns : Accounted(c)}
            missed == stats'.get_misses - stats.get_misses
        IN /\ \A c \in counted : missed = Unreceived(c)
           /\ counted = {} => missed = 0
           /\ stats'.vef_miss - stats.vef_miss \in 0..missed]_vars

\* A run without sets starts with every object of every window on the
\* servers, and then never sets one: no connection takes a task before all
\* have warmed up (ms_warmup_server, ms_monitor_slap_mode).
WarmedUp ==
    finish_warmup /\ mode.sp = 0 /\ faults = 0 =>
        \A c \in Conns :
           /\ \A i \in Items : store[cn[c].win[i].key] = cn[c].win[i].off /\ cn[c].win[i].off # Invalid
           /\ cn[c].remain # ExecNum => cn[c].task.cmd = "GET"

\* Without failing sets the gets and sets done follow the proportion asked
\* for, within one command of each kind (ms_select_opt, ms_adjust_opt).
Lead(t) == t.gets * mode.sp - t.sets * mode.gp
InProportion ==
    mode.sp > 0 /\ faults = 0 =>
        \A c \in Conns : Lead(cn[c].task) \in (0 - mode.gp)..mode.sp

\* The connections' keys are theirs alone, so that what one window says of a
\* key is true of the servers: an item with a valid offset, whose set was
\* answered, is held with that value or not at all.
WindowsTrue ==
    mode.ow = 0 =>
        \A c \in Conns : \A i \in Items :
           LET it == cn[c].win[i]
           IN cn[c].state \notin {"new"} /\ it.off # Invalid =>
                 store[it.key] \in {it.off, Invalid}

\* The program ends: in execute-number mode when every connection has done
\* its share, was lost, or gave up (the waits of ms_monitor_slap_mode).
Finishes == <>(pc = "done")
=============================================================================
