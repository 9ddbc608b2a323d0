---------------------------- MODULE MCMemcapable ----------------------------
(* Instances of Memcapable for TLC: one tester, one prober. *)
EXTENDS Memcapable

MCClients == {"tester", "prober"}
MCProbers == {"prober"}

\* Counters that fill the socket, and an unknown opcode; an ASCII get behind a
\* noreply command; a key out of bounds; a storage command behind another one;
\* more values than the socket takes, and a command behind them.
MCProbes == <<
    [i \in 1..3 |-> arithmetic_command("incr", FALSE, "probe", 1, 0)]
      \o <<raw_command("unknown", FALSE, <<>>, Text(<<>>))>>,
    <<Ascii("verbosity", TRUE, <<>>, 2), Ascii("get", FALSE, <<"probe">>, 2)>>,
    <<[Ascii("set", FALSE, <<>>, 5) EXCEPT !.val = Value]>>,
    <<AsciiStore("add", TRUE, "probe", Value),
      AsciiStore("set", FALSE, "other", Text(<<"other">>))>>,
    <<AsciiStore("set", FALSE, "probe", Value),
      Ascii("get", FALSE, <<"probe">>, 2), Ascii("get", FALSE, <<"probe", "probe">>, 3),
      Ascii("version", FALSE, <<>>, 1)>> >>

\* ASCII mget and cas; binary incr.
MCDisturbed == {8, 15, 45}
=============================================================================
