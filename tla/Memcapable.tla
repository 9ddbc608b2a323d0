----------------------------- MODULE Memcapable -----------------------------
(***************************************************************************)
(* The conformance client clients/memcapable.c, run against the example    *)
(* server of ProtocolServer: the composition of the two programs over a    *)
(* pair of byte streams.                                                   *)
(*                                                                         *)
(* A test case is a script of sends and expected answers.  A loop of ten   *)
(* in the C code is Loops rounds here.  Next to the peers that run test    *)
(* cases, other peers (Probers) send requests without waiting for answers  *)
(* and may hang up at any time.                                            *)
(***************************************************************************)
EXTENDS ProtocolServer

CONSTANTS
    Probers,   \* the peers that run no test
    Probes,    \* a sequence of the sequences of requests a prober may send
    Disturbed, \* the numbers of the test cases that run next to the probers
    Loops,     \* rounds of a test's loop
    Runs       \* test cases a peer runs before it leaves

ASSUME ClientAssumption ==
    /\ Probers \subseteq Clients /\ Disturbed \subseteq 1..54
    /\ Loops \in Nat \ {0} /\ Runs \in Nat \ {0} /\ Loops < CounterMod
    /\ Len(Probes) \in Nat /\ \A i \in 1..Len(Probes) : Len(Probes[i]) \in Nat

Testers == Clients \ Probers

VARIABLES
    test,     \* per tester: the number of its test case; per prober: the number of its probe
    step,     \* per peer: its next step in the script
    last,     \* per tester: the cas of the last response it kept
    left,     \* per peer: test cases still to run
    verdict   \* per tester: "pass" or "fail", of the tests so far

clientVars == <<test, step, last, left, verdict>>
allVars == <<vars, clientVars>>

-----------------------------------------------------------------------------
(***************************************************************************)
(* Steps of a script.                                                      *)
(***************************************************************************)
\* An expected answer; keep says that the code looks at its cas later.
Expected == [bin |-> TRUE, op |-> "", quiet |-> FALSE, st |-> "", key |-> "",
             val |-> Text(<<>>), checked |-> FALSE, keep |-> FALSE]

Send(r) == [do |-> "send", r |-> r, e |-> Expected]
Recv1(e) == [do |-> "recv", r |-> Request, e |-> e]
Closed == [do |-> "closed", r |-> Request, e |-> Expected]

LastCas == 98        \* stands for the cas of the last kept response
WrongCas == 99       \* stands for that cas minus one: no item has it

raw_command(op, quiet, keys, val) ==
    [Request EXCEPT !.op = op, !.quiet = quiet, !.keys = keys, !.val = val]
\* Slip: the header does not count the flags and the expiration.
storage_command_short(op, quiet, key, val) == raw_command(op, quiet, <<key>>, val)
storage_command(op, quiet, key, val) ==
    [raw_command(op, quiet, <<key>>, val) EXCEPT !.extlen = 8]
flush_command(quiet, extra) ==
    [raw_command("flush", quiet, <<>>, Text(<<>>)) EXCEPT !.extlen = IF extra THEN 4 ELSE 0]
arithmetic_command(op, quiet, key, delta, initial) ==
    [raw_command(op, quiet, <<key>>, Text(<<>>)) EXCEPT
        !.extlen = 20, !.delta = delta, !.initial = initial]

\* memcached_binary_protocol_pedantic_check_request, which the server calls
\* and whose answer it does not use.
pedantic_check_request(r) ==
    CASE r.op \in {"get", "getk"} -> r.extlen = 0 /\ Len(r.keys) > 0 /\ r.val.words = <<>> /\ r.cas = 0
      [] r.op \in {"add", "set", "replace"} ->
           /\ Len(r.keys) > 0 /\ r.extlen = 8
           /\ r.op = "add" => r.cas = 0
      [] r.op = "delete" -> r.extlen = 0 /\ Len(r.keys) > 0 /\ r.val.words = <<>>
      [] r.op \in {"incr", "decr"} -> r.extlen = 20 /\ Len(r.keys) > 0 /\ r.val.words = <<>>
      [] r.op \in {"quit", "noop", "version"} ->
           r.extlen = 0 /\ r.keys = <<>> /\ r.val.words = <<>>
      [] r.op = "flush" -> r.extlen \in {0, 4} /\ r.keys = <<>> /\ r.val.words = <<>>
      [] r.op = "stat" -> r.extlen = 0 /\ r.val.words = <<>>
      [] r.op \in {"append", "prepend"} -> r.extlen = 0 /\ Len(r.keys) > 0
      [] OTHER -> TRUE

Packet(op, quiet, st) ==
    Recv1([Expected EXCEPT !.op = op, !.quiet = quiet, !.st = st])
Kept(op, quiet, st) ==
    Recv1([Expected EXCEPT !.op = op, !.quiet = quiet, !.st = st, !.keep = TRUE])
PacketValue(op, quiet, val) ==
    Recv1([Expected EXCEPT !.op = op, !.quiet = quiet, !.st = "SUCCESS",
                           !.val = val, !.checked = TRUE])

\* do_validate_response_header: the checks of the server's pedantic mode.
do_validate_response_header(u, e) ==
    /\ u.t = "hdr" /\ u.op = e.op /\ u.quiet = e.quiet /\ u.st = e.st
    /\ pedantic_check_response(u)

-----------------------------------------------------------------------------
(***************************************************************************)
(* The binary test cases.  key is the test's own key.                      *)
(***************************************************************************)
Value == Text(<<"value">>)
If(b, steps) == IF b THEN steps ELSE <<>>
Cas(r, cas) == [r EXCEPT !.cas = cas]

send_binary_noop == <<Send(raw_command("noop", FALSE, <<>>, Text(<<>>)))>>
receive_binary_noop == <<Packet("noop", FALSE, "SUCCESS")>>
test_binary_noop == send_binary_noop \o receive_binary_noop

test_binary_quit_impl(q) ==
    <<Send(raw_command("quit", q, <<>>, Text(<<>>)))>>
    \o If(~q, <<Packet("quit", FALSE, "SUCCESS")>>) \o <<Closed>>

\* A loud command answers; behind a quiet one a noop shows it said nothing.
Acknowledged(op, q) ==
    IF q THEN test_binary_noop ELSE <<Kept(op, FALSE, "SUCCESS")>>

test_binary_set_impl(key, q) ==
    LET cmd == storage_command("set", q, key, Value)
        loud == storage_command("set", FALSE, key, Value)
    IN FlattenSeq([i \in 1..Loops |-> <<Send(cmd)>> \o Acknowledged("set", q)])
       \o If(q, <<Send(loud), Kept("set", FALSE, "SUCCESS")>>)
       \o <<Send(Cas(cmd, LastCas))>> \o Acknowledged("set", q)
       \o <<Send(Cas(cmd, WrongCas)), Packet("set", q, "KEY_EEXISTS")>>
       \o test_binary_noop

test_binary_add_impl(key, q) ==
    LET cmd == Send(storage_command("add", q, key, Value))
    IN <<cmd>> \o Acknowledged("add", q)
       \o FlattenSeq([i \in 1..Loops |-> <<cmd, Packet("add", q, "KEY_EEXISTS")>>])

binary_set_item(key, val) ==
    <<Send(storage_command("set", FALSE, key, val)), Packet("set", FALSE, "SUCCESS")>>

test_binary_replace_impl(key, q) ==
    LET cmd == storage_command("replace", q, key, Value)
    IN <<Send(cmd), Kept("replace", q, "KEY_ENOENT")>> \o binary_set_item(key, Text(<<key>>))
       \o FlattenSeq([i \in 1..Loops |-> <<Send(cmd)>> \o Acknowledged("replace", q)])
       \o <<Send(Cas(cmd, LastCas))>> \o Acknowledged("replace", q)
       \o <<Send(Cas(cmd, WrongCas)), Packet("replace", q, "KEY_EEXISTS")>>

test_binary_delete_impl(key, q) ==
    LET cmd == Send(raw_command("delete", q, <<key>>, Text(<<>>)))
    IN <<cmd, Packet("delete", q, "KEY_ENOENT")>> \o binary_set_item(key, Text(<<key>>))
       \o <<cmd>> \o If(~q, <<Packet("delete", FALSE, "SUCCESS")>>) \o test_binary_noop

test_binary_get_impl(key, op, q) ==
    LET cmd == Send(raw_command(op, q, <<key>>, Text(<<>>)))
    IN <<cmd>> \o send_binary_noop
       \o If(~q, <<Packet(op, FALSE, "KEY_ENOENT")>>) \o receive_binary_noop
       \o binary_set_item(key, Text(<<key>>))
       \o <<cmd>> \o send_binary_noop \o <<Packet(op, q, "SUCCESS")>> \o receive_binary_noop

test_binary_incr_impl(key, q) ==
    LET cmd == Send(arithmetic_command("incr", q, key, 1, 0))
    IN FlattenSeq([i \in 1..Loops |->
           <<cmd>> \o (IF q THEN test_binary_noop
                       ELSE <<PacketValue("incr", FALSE, Counter(i - 1))>>)])

\* The last round would pass zero.
test_binary_decr_impl(key, q) ==
    LET cmd == Send(arithmetic_command("decr", q, key, 1, Loops))
        Then(n) == IF q THEN test_binary_noop
                   ELSE <<PacketValue("decr", FALSE, Counter(n))>>
    IN FlattenSeq([i \in 1..(Loops + 1) |-> <<cmd>> \o Then(Loops + 1 - i)])
       \o <<cmd>> \o If(~q, Then(0)) \o test_binary_noop

test_binary_version ==
    <<Send(raw_command("version", FALSE, <<>>, Text(<<>>))), Packet("version", FALSE, "SUCCESS")>>

test_binary_flush_impl(key, q) ==
    FlattenSeq([i \in 1..2 |->
        binary_set_item(key, Text(<<key>>)) \o <<Send(flush_command(q, i = 1))>>
        \o (IF q THEN test_binary_noop ELSE <<Packet("flush", FALSE, "SUCCESS")>>)
        \o <<Send(raw_command("get", FALSE, <<key>>, Text(<<>>))),
              Packet("get", FALSE, "KEY_ENOENT")>>])

test_binary_concat_impl(key, op, q) ==
    LET first == IF op = "append" THEN Text(<<"hello">>) ELSE Text(<<"world">>)
        then == IF op = "append" THEN Text(<<"world">>) ELSE Text(<<"hello">>)
    IN binary_set_item(key, first) \o <<Send(raw_command(op, q, <<key>>, then))>>
       \o (IF q THEN test_binary_noop ELSE <<Packet(op, FALSE, "SUCCESS")>>)
       \o <<Send(raw_command("get", FALSE, <<key>>, Text(<<>>))),
             PacketValue("get", FALSE, Text(<<"hello", "world">>))>>

test_binary_stat ==
    <<Send(raw_command("stat", FALSE, <<>>, Text(<<>>))), Packet("stat", FALSE, "SUCCESS")>>

-----------------------------------------------------------------------------
(***************************************************************************)
(* The ASCII test cases.  nr: the command ends in "noreply".               *)
(***************************************************************************)
Ascii(op, nr, keys, ntok) ==
    [Request EXCEPT !.proto = "ascii", !.op = op, !.quiet = nr, !.keys = keys, !.ntok = ntok]
AsciiStore(op, nr, key, val) ==
    [Ascii(op, nr, <<key>>, StorageTokens([op |-> op])) EXCEPT !.val = val]

receive_response(txt) == Recv1([Expected EXCEPT !.bin = FALSE, !.st = txt])
receive_error_response == receive_response("ERROR")
\* The VALUE line and the data block of one key.
ascii_get_value(key, val) ==
    Recv1([Expected EXCEPT !.bin = FALSE, !.st = "VALUE", !.key = key,
                           !.val = val, !.checked = TRUE])
ascii_gets_value(key, val) ==
    [ascii_get_value(key, val) EXCEPT !.e.keep = TRUE]
Number(n) == Recv1([Expected EXCEPT !.bin = FALSE, !.st = "NUMBER", !.val = Counter(n),
                                    !.checked = TRUE])

test_ascii_quit ==
    <<Send(Ascii("quit", FALSE, <<>>, 3)), receive_error_response,
      Send(Ascii("quit", TRUE, <<>>, 1)), receive_error_response,
      Send(Ascii("quit", FALSE, <<>>, 1)), Closed>>

test_ascii_version ==
    <<Send(Ascii("version", FALSE, <<>>, 3)), receive_error_response,
      Send(Ascii("version", TRUE, <<>>, 1)), receive_error_response,
      Send(Ascii("version", FALSE, <<>>, 1)), receive_response("VERSION")>>

\* After a noreply command, the version exchange shows it said nothing.
Replied(nr, e) == IF nr THEN test_ascii_version ELSE <<e>>

test_ascii_verbosity ==
    <<Send(Ascii("verbosity", FALSE, <<>>, 4)), receive_error_response,
      Send(Ascii("verbosity", TRUE, <<>>, 1)), receive_error_response,
      Send(Ascii("verbosity", TRUE, <<>>, 2))>> \o test_ascii_version
    \o <<Send(Ascii("verbosity", FALSE, <<>>, 1)), receive_error_response,
         Send(Ascii("verbosity", FALSE, <<>>, 2)), receive_response("OK"),
         Send(Ascii("verbosity", FALSE, <<>>, 2)), receive_response("OK")>>

test_ascii_set_impl(key, nr) ==
    <<Send(AsciiStore("set", nr, key, Value))>> \o If(~nr, <<receive_response("STORED")>>)
    \o test_ascii_version

\* With noreply the two adds follow each other unanswered.
test_ascii_add_impl(key, nr) ==
    LET cmd == Send(AsciiStore("add", nr, key, Value))
    IN <<cmd>> \o If(~nr, <<receive_response("STORED")>>)
       \o <<cmd>> \o If(~nr, <<receive_response("NOT_STORED")>>) \o test_ascii_version

ascii_set_item(key, val) ==
    <<Send(AsciiStore("set", FALSE, key, val)), receive_response("STORED")>>
ascii_get_item(key, val, exist) ==
    <<Send(Ascii("get", FALSE, <<key>>, 2))>> \o If(exist, <<ascii_get_value(key, val)>>)
    \o <<receive_response("END")>>
ascii_gets_item(key, val, exist) ==
    <<Send(Ascii("gets", FALSE, <<key>>, 2))>> \o If(exist, <<ascii_gets_value(key, val)>>)
    \o <<receive_response("END")>>

test_ascii_replace_impl(key, nr) ==
    LET cmd == Send(AsciiStore("replace", nr, key, Value))
    IN <<cmd>> \o Replied(nr, receive_response("NOT_STORED"))
       \o ascii_set_item(key, Value) \o ascii_get_item(key, Value, TRUE)
       \o <<cmd>> \o Replied(nr, receive_response("STORED")) \o test_ascii_version

\* The second cas repeats the first one's number, which is spent.
test_ascii_cas_impl(key, nr) ==
    LET cmd == Send(Cas(AsciiStore("cas", nr, key, Text(<<"value2">>)), LastCas))
    IN ascii_set_item(key, Value) \o ascii_gets_item(key, Value, TRUE)
       \o <<cmd>> \o Replied(nr, receive_response("STORED"))
       \o <<cmd>> \o Replied(nr, receive_response("EXISTS")) \o test_ascii_version

test_ascii_delete_impl(key, nr) ==
    LET cmd == Send(Ascii("delete", nr, <<key>>, 2))
    IN ascii_set_item(key, Value)
       \o <<Send(Ascii("delete", FALSE, <<>>, 1)), receive_error_response,
            Send(Ascii("delete", FALSE, <<"a">>, 6)), receive_error_response>>
       \o <<cmd>> \o Replied(nr, receive_response("DELETED")) \o ascii_get_item(key, Value, FALSE)
       \o <<cmd>> \o Replied(nr, receive_response("NOT_FOUND"))

test_ascii_get(key) ==
    ascii_set_item(key, Value)
    \o <<Send(Ascii("get", FALSE, <<>>, 1)), receive_error_response>>
    \o ascii_get_item(key, Value, TRUE) \o ascii_get_item("absent", Value, FALSE)
test_ascii_gets(key) ==
    ascii_set_item(key, Value)
    \o <<Send(Ascii("gets", FALSE, <<>>, 1)), receive_error_response>>
    \o ascii_gets_item(key, Value, TRUE) \o ascii_gets_item("absent", Value, FALSE)

\* Two of the five keys of the C test, and one that is absent.
test_ascii_mget(key) ==
    ascii_set_item(key, Value) \o ascii_set_item("second", Value)
    \o <<Send(Ascii("get", FALSE, <<key, "second", "absent">>, 4)),
         ascii_get_value(key, Value), ascii_get_value("second", Value),
         receive_response("END")>>

test_ascii_incr_impl(key, nr) ==
    LET cmd == Send(Ascii("incr", nr, <<key>>, 3))
        one == [cmd EXCEPT !.r.delta = 1]
    IN ascii_set_item(key, Text(<<"0">>))
       \o FlattenSeq([i \in 1..Loops |-> <<one>> \o Replied(nr, Number(i))])
       \o ascii_get_item(key, Text(<<"digits">>), TRUE)

test_ascii_decr_impl(key, nr) ==
    LET cmd == Send(Ascii("decr", nr, <<key>>, 3))
        one == [cmd EXCEPT !.r.delta = 1]
    IN ascii_set_item(key, Text(<<"9">>))
       \o FlattenSeq([i \in 1..Loops |-> <<one>> \o Replied(nr, Number(Loops - i))])
       \o ascii_get_item(key, Text(<<"0">>), TRUE)
       \o <<one>> \o Replied(nr, receive_response("NUMBER"))
       \o ascii_get_item(key, Text(<<"0">>), TRUE)

test_ascii_flush_impl(key, nr) ==
    ascii_set_item(key, Text(<<key>>)) \o ascii_get_item(key, Text(<<key>>), TRUE)
    \o <<Send(Ascii("flush", nr, <<>>, 1))>> \o Replied(nr, receive_response("OK"))
    \o ascii_get_item(key, Text(<<key>>), FALSE)

test_ascii_concat_impl(key, op, nr) ==
    LET first == IF op = "append" THEN Text(<<"hello">>) ELSE Text(<<"world">>)
        then == IF op = "append" THEN Text(<<"world">>) ELSE Text(<<"hello">>)
    IN ascii_set_item(key, first)
       \o <<Send(AsciiStore(op, nr, key, then))>> \o Replied(nr, receive_response("STORED"))
       \o ascii_get_item(key, Text(<<"hello", "world">>), TRUE)
       \o <<Send(AsciiStore(op, nr, "absent", then))>>
       \o Replied(nr, receive_response("NOT_STORED"))

test_ascii_stat ==
    <<Send(Ascii("stat", TRUE, <<>>, 1)), receive_error_response,
      Send(Ascii("stat", FALSE, <<>>, 1)), receive_response("END")>>
\* testcases: the table main() walks through.  A test that ends the
\* connection, and the last ASCII one, make it reconnect.
Case(script) == [script |-> script, reconnect |-> FALSE]
CaseReconnect(script) == [script |-> script, reconnect |-> TRUE]
testcases(key) == <<
    CaseReconnect(test_ascii_quit), Case(test_ascii_version), Case(test_ascii_verbosity),
    Case(test_ascii_set_impl(key, FALSE)), Case(test_ascii_set_impl(key, TRUE)),
    Case(test_ascii_get(key)), Case(test_ascii_gets(key)), Case(test_ascii_mget(key)),
    Case(test_ascii_flush_impl(key, FALSE)), Case(test_ascii_flush_impl(key, TRUE)),
    Case(test_ascii_add_impl(key, FALSE)), Case(test_ascii_add_impl(key, TRUE)),
    Case(test_ascii_replace_impl(key, FALSE)), Case(test_ascii_replace_impl(key, TRUE)),
    Case(test_ascii_cas_impl(key, FALSE)), Case(test_ascii_cas_impl(key, TRUE)),
    Case(test_ascii_delete_impl(key, FALSE)), Case(test_ascii_delete_impl(key, TRUE)),
    Case(test_ascii_incr_impl(key, FALSE)), Case(test_ascii_incr_impl(key, TRUE)),
    Case(test_ascii_decr_impl(key, FALSE)), Case(test_ascii_decr_impl(key, TRUE)),
    Case(test_ascii_concat_impl(key, "append", FALSE)),
    Case(test_ascii_concat_impl(key, "append", TRUE)),
    Case(test_ascii_concat_impl(key, "prepend", FALSE)),
    Case(test_ascii_concat_impl(key, "prepend", TRUE)),
    CaseReconnect(test_ascii_stat),
    Case(test_binary_noop), CaseReconnect(test_binary_quit_impl(FALSE)),
    CaseReconnect(test_binary_quit_impl(TRUE)),
    Case(test_binary_set_impl(key, FALSE)), Case(test_binary_set_impl(key, TRUE)),
    Case(test_binary_flush_impl(key, FALSE)), Case(test_binary_flush_impl(key, TRUE)),
    Case(test_binary_add_impl(key, FALSE)), Case(test_binary_add_impl(key, TRUE)),
    Case(test_binary_replace_impl(key, FALSE)), Case(test_binary_replace_impl(key, TRUE)),
    Case(test_binary_delete_impl(key, FALSE)), Case(test_binary_delete_impl(key, TRUE)),
    Case(test_binary_get_impl(key, "get", FALSE)), Case(test_binary_get_impl(key, "get", TRUE)),
    Case(test_binary_get_impl(key, "getk", FALSE)), Case(test_binary_get_impl(key, "getk", TRUE)),
    Case(test_binary_incr_impl(key, FALSE)), Case(test_binary_incr_impl(key, TRUE)),
    Case(test_binary_decr_impl(key, FALSE)), Case(test_binary_decr_impl(key, TRUE)),
    Case(test_binary_version),
    Case(test_binary_concat_impl(key, "append", FALSE)),
    Case(test_binary_concat_impl(key, "append", TRUE)),
    Case(test_binary_concat_impl(key, "prepend", FALSE)),
    Case(test_binary_concat_impl(key, "prepend", TRUE)), Case(test_binary_stat)>>
AsciiCases == 1..27

\* Every test has a key of its own; two of them here, used in turn.
TestKey(i) == IF i % 2 = 0 THEN "even" ELSE "odd"
CaseTable == [i \in 1..54 |-> testcases(TestKey(i))[i]]

-----------------------------------------------------------------------------
(***************************************************************************)
(* The peers' steps.                                                       *)
(***************************************************************************)
Script(c) == CaseTable[test[c]].script
Current(c) == Script(c)[step[c]]
Busy(c) == c \in Testers /\ left[c] > 0 /\ step[c] <= Len(Script(c)) /\ ~eof[c]
Socket(c) == cl[c].w
serverVars == <<server, store, serving, ibuf, pos, flaws, tail, owed>>

CasValue(c, r) ==
    IF r.cas = LastCas THEN [r EXCEPT !.cas = last[c]]
    ELSE r

\* retry_write: the whole request goes out.
ClientSend(c) ==
    /\ Busy(c) /\ Current(c).do = "send" /\ conn[c] \in {"pending", "up"}
    /\ win' = [win EXCEPT ![c] = @ \o Wire(CasValue(c, Current(c).r))]
    /\ step' = [step EXCEPT ![c] = @ + 1]
    /\ UNCHANGED <<serverVars, conn, eof, cl, test, last, left, verdict>>

\* How many units recv_packet or receive_line reads for the answer e.
Needs(c, e) ==
    IF Socket(c) = <<>> THEN 1
    ELSE IF (e.bin /\ Socket(c)[1].bodylen > 0) \/ e.st = "VALUE" THEN 2 ELSE 1

Matches(c, e) ==
    LET u == Socket(c)[1]
    IN IF e.bin
       THEN /\ do_validate_response_header(u, e)
            /\ e.checked => Socket(c)[2].val = e.val
       ELSE /\ u.t = "line" /\ u.st = e.st
            /\ e.st = "VALUE" => u.key = e.key /\ Socket(c)[2].val = e.val
            /\ e.st = "NUMBER" /\ e.checked => u.val = e.val

Reading(c) == Busy(c) /\ Current(c).do = "recv"
CanRead(c) == Len(Socket(c)) >= Needs(c, Current(c).e)

Consume(c) == cl' = [cl EXCEPT ![c].w = SubSeq(@, Needs(c, Current(c).e) + 1, Len(@))]

ClientRecv(c) ==
    /\ Reading(c) /\ CanRead(c) /\ Matches(c, Current(c).e)
    /\ step' = [step EXCEPT ![c] = @ + 1]
    /\ last' = [last EXCEPT ![c] = IF Current(c).e.keep THEN Socket(c)[1].cas ELSE @]
    /\ Consume(c)
    /\ UNCHANGED <<serverVars, conn, eof, win, test, left, verdict>>

\* The socket should be closed: read returns 0.
ClientClosed(c) ==
    /\ Busy(c) /\ Current(c).do = "closed" /\ conn[c] = "closed" /\ Socket(c) = <<>>
    /\ step' = [step EXCEPT ![c] = @ + 1]
    /\ UNCHANGED <<serverVars, conn, eof, win, cl, test, last, left, verdict>>

\* The server sits in a recv or a send on a blocking socket.
Sits ==
    /\ ~server.nonblock
    /\ \/ serving # Nobody /\ ibuf = <<>> /\ win[serving] = <<>> /\ ~eof[serving]
       \/ \E d \in Clients : Stuck(d)

\* The server has nothing left to do for c, or does nothing: poll() times out.
Quiet(c) == Dead \/ Sits \/ (serving = Nobody /\ win[c] = <<>> /\ conn[c] = "up")

\* A wrong answer, an end of file or a failed write where none is expected,
\* or two seconds without an answer: the test fails, main reconnects.
Fails1(c) ==
    \/ Reading(c) /\ CanRead(c) /\ ~Matches(c, Current(c).e)
    \/ Reading(c) /\ ~CanRead(c) /\ (conn[c] = "closed" \/ Quiet(c))
    \/ Busy(c) /\ Current(c).do = "send" /\ conn[c] = "closed"
    \/ Busy(c) /\ Current(c).do = "closed" /\ (Socket(c) # <<>> \/ Quiet(c))

HangUp(c) == eof' = [eof EXCEPT ![c] = TRUE]

ClientFails(c) ==
    /\ Fails1(c)
    /\ verdict' = [verdict EXCEPT ![c] = "fail"]
    /\ left' = [left EXCEPT ![c] = @ - 1]
    /\ test' = [test EXCEPT ![c] = @ + 1]
    /\ step' = [step EXCEPT ![c] = 1]
    /\ HangUp(c)
    /\ UNCHANGED <<serverVars, conn, win, cl, last>>

\* The test passed; main goes on with the next one.
ClientPasses(c) ==
    /\ c \in Testers /\ left[c] > 0 /\ step[c] > Len(Script(c)) /\ ~eof[c]
    /\ left' = [left EXCEPT ![c] = @ - 1]
    /\ test' = [test EXCEPT ![c] = @ + 1]
    /\ step' = [step EXCEPT ![c] = 1]
    /\ eof' = [eof EXCEPT ![c] = left[c] = 1 \/ CaseTable[test[c]].reconnect]
    /\ UNCHANGED <<serverVars, conn, win, cl, last, verdict>>

\* connect_server, once the server has let go of the old connection.
Connect(c) ==
    /\ left[c] > 0
    /\ conn[c] = "none" \/ (conn[c] = "closed" /\ eof[c])
    /\ conn' = [conn EXCEPT ![c] = "pending"]
    /\ eof' = [eof EXCEPT ![c] = FALSE]
    /\ win' = [win EXCEPT ![c] = <<>>]
    /\ cl' = [cl EXCEPT ![c].w = <<>>]
    /\ UNCHANGED <<serverVars, clientVars>>

\* A prober sends its requests in one write, reads what comes, and hangs up
\* without waiting for answers.
ProbeSend(c) ==
    /\ c \in Probers /\ left[c] > 0 /\ conn[c] \in {"pending", "up"} /\ step[c] = 1
    /\ win' = [win EXCEPT ![c] = Wires(Probes[test[c]])]
    /\ step' = [step EXCEPT ![c] = 2]
    /\ UNCHANGED <<serverVars, conn, eof, cl, test, last, left, verdict>>

ProbeRead(c) ==
    /\ c \in Probers /\ Socket(c) # <<>>
    /\ cl' = [cl EXCEPT ![c].w = <<>>]
    /\ UNCHANGED <<serverVars, conn, eof, win, clientVars>>

ProbeHangUp(c) ==
    /\ c \in Probers /\ left[c] > 0 /\ step[c] = 2
    /\ left' = [left EXCEPT ![c] = 0]
    /\ HangUp(c)
    /\ UNCHANGED <<serverVars, conn, win, cl, test, step, last, verdict>>

\* Nobody has anything left to do.
Over ==
    /\ \A c \in Clients : left[c] = 0 \/ Dead
    /\ Dead \/ (serving = Nobody /\ \A c \in Clients : conn[c] \in {"none", "closed"})
    /\ \A c \in Probers : Socket(c) = <<>>
    /\ UNCHANGED allVars

PeerStep(c) ==
    \/ ClientSend(c) \/ ClientRecv(c) \/ ClientClosed(c) \/ ClientFails(c)
    \/ ClientPasses(c) \/ Connect(c) \/ ProbeSend(c) \/ ProbeRead(c) \/ ProbeHangUp(c)

Init ==
    /\ ServerInit
    /\ test \in [Clients -> 1..(55 - Runs)]
    /\ \A c \in Probers : test[c] <= Len(Probes)
    /\ \A c \in Testers : server.iface = "v0" => test[c] \notin AsciiCases
    /\ step = [c \in Clients |-> 1]
    /\ last = [c \in Clients |-> 0]
    /\ left = [c \in Clients |->
                  IF c \in Testers THEN Runs
                  ELSE IF \E d \in Testers : test[d] \notin Disturbed THEN 0 ELSE 1]
    /\ \A c \in Probers : left[c] = 0 => test[c] = 1
    /\ verdict = [c \in Clients |-> "pass"]

Next ==
    \/ \E c \in Clients : ServerStep(c) /\ UNCHANGED clientVars
    \/ \E c \in Clients : PeerStep(c)
    \/ Over

Spec == Init /\ [][Next]_allVars
-----------------------------------------------------------------------------
(***************************************************************************)
(* Properties.                                                             *)
(***************************************************************************)
\* The variables hold values of their types; the server serves an open
\* connection, and no chunk is empty or longer than CHUNK_BUFFERSIZE.
TypeOK ==
    /\ serving \in Clients \cup {Nobody}
    /\ serving # Nobody => conn[serving] = "up"
    /\ pos \in 0..Len(ibuf) /\ (serving = Nobody => ibuf = <<>>)
    /\ \A c \in Clients :
        /\ conn[c] \in {"none", "pending", "up", "closed"}
        /\ cl[c].work \in {"determine", "ascii", "bin", "unsupported"}
        /\ server.nonblock => Len(Socket(c)) <= NetCap
        /\ \A i \in 1..Len(cl[c].out) :
             Unsent(cl[c].out[i]) > 0 /\ Len(cl[c].out[i].data) <= ChunkSize
    /\ flaws.memory <= MemFaults

\* What may fail a test: the server ran out of memory, read a counter out of a
\* text or used the uninitialised endptr, or it saved the start of the tester's
\* buffer and answered lines it had overwritten.
Flawed(c) ==
    flaws.memory > 0 \/ flaws.overread \/ flaws.endptr \/ c \in flaws.reread

\* On blocking sockets the answers that are spooled wait for the next request,
\* and every other connection for the one that is served.
Waits == ~server.nonblock /\ (server.iface = "v1" \/ \E c \in Probers : conn[c] # "none")

\* Every test of memcapable passes against the example server, whatever other
\* connections do and wherever the network cuts a request, but for the flaws
\* named above -- on non-blocking sockets; on blocking ones the default
\* interface passes as long as the tester is alone.
Conforms == \A c \in Testers : verdict[c] = "fail" => Flawed(c) \/ Waits

\* client_work hands the next call exactly the bytes that it received and that
\* no command has consumed: between two calls the saved input of a connection
\* is the tail of its stream.
SavedIsTailOf(c) == conn[c] = "up" /\ serving # c => cl[c].saved = tail[c]
SavedIsTail == \A c \in Clients : SavedIsTailOf(c)

\* The same, with the two exceptions there are: a binary request cut at the start
\* of a buffer, and an ASCII storage command cut behind another command.
TailKept ==
    ~flaws.endptr => \A c \in Clients : c \notin flaws.shifted => SavedIsTailOf(c)

\* What waits in the chunks of a connection is what its commands said and the
\* socket has not taken yet, in the order they said it, however often the socket
\* is full: spooling and draining lose, repeat and reorder nothing, until
\* spool_output finds room in a head chunk with chunks behind it, is given more
\* than fits where it copies first, or gets the rest of a packet sent in part.
OutputIntact ==
    \A c \in Clients : conn[c] = "up" /\ ~cl[c].mixed => Pending(cl[c].out) = owed[c]

\* The list of the store has one entry per key, each with a cas of its own
\* that the store has given out: put_item is only ever called for a key that
\* was deleted or absent.
OneEntryPerKey ==
    /\ \A i, j \in 1..Len(store.list) :
         i # j => store.list[i].key # store.list[j].key /\ store.list[i].cas # store.list[j].cas
    /\ \A i \in 1..Len(store.list) : store.list[i].cas \in 1..store.cas

\* Every binary request memcapable builds satisfies the pedantic check of
\* the library it tests.
RequestsLegal ==
    \A c \in Testers : \A i \in 1..Len(win[c]) :
        win[c][i].r.proto = "bin" => pedantic_check_request(win[c][i].r)

=============================================================================
