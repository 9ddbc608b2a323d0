----------------------------- MODULE MCCommands -----------------------------
(* Instances of Commands for TLC: two servers, two keys on one and a key on
   the other. *)
EXTENDS Commands

MCKeySeq == <<"a", "b", "c">>
MCHash == [k \in Keys |-> IF k = "b" THEN 1 ELSE 0]

Plainly == [binary |-> FALSE, no_block |-> FALSE, buffer |-> FALSE, noreply |-> FALSE,
            replicas |-> 0, randomize |-> FALSE, generate |-> FALSE, sasl |-> "off",
            faults |-> {}, ops |-> Ops]

MCModes == {
    [Plainly EXCEPT !.faults = {"crash", "drop", "full", "slow"}],
    [Plainly EXCEPT !.no_block = TRUE, !.buffer = TRUE, !.faults = {"crash", "drop", "full", "slow"}],
    [Plainly EXCEPT !.binary = TRUE, !.generate = TRUE],
    [Plainly EXCEPT !.binary = TRUE, !.no_block = TRUE, !.buffer = TRUE, !.ops = {"set", "get", "mget", "quit"}],
    [Plainly EXCEPT !.binary = TRUE, !.faults = {"crash", "drop", "full"},
                    !.ops = Ops \ {"mget", "flush", "dump"}],
    [Plainly EXCEPT !.binary = TRUE, !.faults = {"crash", "drop"}, !.ops = {"get", "mget", "quit"}],
    [Plainly EXCEPT !.binary = TRUE, !.replicas = 1, !.faults = {"crash", "drop"}, !.ops = {"get", "mget", "quit"}],
    [Plainly EXCEPT !.binary = TRUE, !.replicas = 1, !.faults = {"crash", "drop", "full"}, !.ops = {"set", "get", "quit"}],
    [Plainly EXCEPT !.binary = TRUE, !.sasl = "good"],
    [Plainly EXCEPT !.binary = TRUE, !.sasl = "bad", !.ops = {"set", "mget"}],
    [Plainly EXCEPT !.noreply = TRUE, !.ops = Ops \ {"version", "stat", "dump"}],
    [Plainly EXCEPT !.binary = TRUE, !.replicas = 1, !.randomize = TRUE,
                    !.ops = Ops \ {"add", "replace", "delete", "incr", "dump"}],
    [Plainly EXCEPT !.binary = TRUE, !.replicas = 1, !.ops = Ops \ {"delete"}],
    [Plainly EXCEPT !.binary = TRUE, !.noreply = TRUE, !.ops = {"set", "add", "replace", "get", "mget", "flush", "quit"}]
    }

\* Buffered requests on a blocking socket.
MCBuffered == {[Plainly EXCEPT !.buffer = TRUE]}
=============================================================================
