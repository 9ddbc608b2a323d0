------------------------------- MODULE MCSlap -------------------------------
(* The command lines of memslap that the runs explore. *)
EXTENDS Slap

Base == [conns |-> 1, runtime |-> FALSE, binary |-> FALSE, text |-> FALSE, udp |-> FALSE, ml |-> 1,
         gp |-> 5, sp |-> 5, ow |-> 0, verify |-> 1, reconnect |-> FALSE, socks |-> 1,
         rep |-> 0, faults |-> {}]
GetOnly(m) == [m EXCEPT !.gp = 10, !.sp = 0]

\* Where the items' keys start in the random characters.
MCKeyOffset == [i \in 1..WinSize |-> 20 * i]

MCModes == {
    [Base EXCEPT !.faults = {"drop", "cut", "fail", "evict"}],
    [Base EXCEPT !.gp = 9, !.sp = 1, !.binary = TRUE, !.faults = {"evict", "fail"}],
    [Base EXCEPT !.ow = 1, !.faults = {"fail"}],
    [Base EXCEPT !.ml = 2, !.faults = {"evict", "fail"}],
    [Base EXCEPT !.ml = 2, !.verify = 0, !.socks = 2, !.faults = {"drop"}],
    [Base EXCEPT !.runtime = TRUE, !.reconnect = TRUE, !.faults = {"drop", "evict"}],
    [Base EXCEPT !.ml = 2, !.runtime = TRUE, !.reconnect = TRUE, !.faults = {"drop"}],
    [Base EXCEPT !.runtime = TRUE, !.reconnect = TRUE, !.socks = 2, !.rep = 1, !.faults = {"drop"}],
    [Base EXCEPT !.udp = TRUE, !.faults = {"lose"}],
    [Base EXCEPT !.conns = 2, !.verify = 0],
    [Base EXCEPT !.binary = TRUE, !.text = TRUE, !.faults = {"evict", "fail"}],
    GetOnly([Base EXCEPT !.ml = 2, !.binary = TRUE]),
    GetOnly([Base EXCEPT !.ml = 2, !.binary = TRUE, !.text = TRUE, !.faults = {"evict"}]),
    GetOnly([Base EXCEPT !.ml = 2, !.faults = {"evict"}]),
    GetOnly([Base EXCEPT !.conns = 2])}
=============================================================================
