----------------------------- MODULE SlapProofs -----------------------------
(***************************************************************************)
(* Proofs about memslap: a connection parses only the answer to the command *)
(* it waits for, what its window says of a key is true of the servers, data *)
(* verification accuses no server falsely, and gets and sets follow their   *)
(* proportion, for any windows, command lines and faults that leave the     *)
(* answers in order.                                                        *)
(***************************************************************************)
EXTENDS Slap, FiniteSetTheorems, SequenceTheorems, TLAPS

\* What the state is made of.
Offsets == Nat \cup {Invalid}
Results == {"STORED", "SERVER_ERROR", "END", "NOT_FOUND"}
Tasks == [cmd : {"NULL", "SET", "GET"}, item : Items, verify : BOOLEAN, finish : BOOLEAN,
          miss : BOOLEAN, gets : Nat, sets : Nat, verified : Nat, overwrites : Nat]
Commands == [cmd : {"NULL", "SET", "GET"}, ret : Results \cup {"FAILURE"}]
Objects == [key : Nat, sfx : Nat, off : Offsets]
Marks == [item : Items, verify : BOOLEAN, finish : BOOLEAN, miss : BOOLEAN]
Requests == [op : {"none", "SET", "GET"}, keys : Seq(Nat), val : Offsets, id : Nat]
Pieces == [t : Results \cup {"VALUE", "data"}, id : Nat, key : Nat, val : Offsets]
Links == [state : {"new", "write", "read", "closing", "closed"}, sch : BOOLEAN,
          win : [Items -> Objects], set_cursor : Nat, warm : Int, remain : Int,
          task : Tasks, pre : Commands, cur : Commands, ml : Seq(Marks), vindex : Nat,
          sock : Nat, fds : SUBSET Nat, req : Requests, out : BOOLEAN,
          rbuf : Seq(Pieces), readval : BOOLEAN, key : Nat, id : Nat]
Wires == [req : Requests, ans : Seq(Pieces), up : BOOLEAN]

\* Command lines and faults that keep answers in order and whole: the UDP
\* timer expires only when nothing is on its way, an answer is not cut where
\* the connection goes on, a binary multi-get has no several answers, no error
\* of a server has a text to be taken for a value, and a verified multi-get
\* knows which of its sets arrived.
Orderly ==
    /\ ~mode.text
    /\ "late" \notin mode.faults
    /\ "lose" \in mode.faults => mode.udp
    /\ "cut" \in mode.faults => ~mode.udp /\ ~mode.reconnect
    /\ mode.binary => mode.ml = 1
    /\ mode.ml > 1 /\ mode.verify > 0 => mode.faults \cap {"drop", "lose"} = {}

\* The types of the variables that the invariant speaks of.
Typed ==
    /\ mode \in Modes
    /\ cn \in [Conns -> Links] /\ net \in [Conns -> [Socks -> Wires]]
    /\ store \in [1..MaxKey -> Offsets] /\ seq \in Nat
    /\ faults \in Nat

-----------------------------------------------------------------------------
(* The inductive invariant, for a connection k with the sockets n.         *)

\* Where a connection is between two events.
Busy(k) == k.state = "read" \/ (k.state = "write" /\ k.out)

Phases(m, k) ==
    /\ k.sch => k.state = "write" /\ ~k.out
    /\ k.out => k.state \in {"write", "closing", "closed"}
    /\ k.sock \in 0..m.socks /\ k.fds \subseteq 1..m.socks
    /\ Busy(k) => k.sock # 0
    /\ k.remain \in -1..ExecNum
    /\ k.remain = -1 => /\ k.state \in {"write", "closing", "closed"}
                        /\ k.state = "write" => ~k.sch /\ ~k.out
    /\ k.state = "write" /\ ~k.out /\ ~k.sch => k.pre = k.cur

\* Only the socket read from carries anything.
Still(w) == w.req = NoRequest /\ w.ans = <<>>
Wired(m, k, n) ==
    /\ \A i \in 1..m.socks : k.state # "read" \/ i # k.sock => Still(n[i])
    /\ \A i \in 1..m.socks : ~n[i].up => n[i].req = NoRequest
    /\ k.state # "read" => k.rbuf = <<>>
    /\ k.readval => k.state = "read" \/ (k.state \in {"closing", "closed"} /\ ~m.reconnect)
    /\ m.udp /\ k.state = "read" /\ (k.rbuf # <<>> \/ k.readval) => n[k.sock].ans = <<>>

\* Only a server that closes a connection breaks it.
Unbroken(m, k, n, over) ==
    "drop" \notin m.faults => /\ \A i \in 1..m.socks : n[i].up
                              /\ k.state = "closing" => k.remain = -1 \/ over

\* What the outstanding command asks for.
AsksSet(k) ==
    LET it == k.win[k.task.item]
    IN /\ k.req.keys = <<it.key>>
       /\ k.req.val = IF it.off = Invalid THEN it.sfx ELSE it.off
AsksGet(k) ==
    LET it == k.win[k.task.item]
    IN k.req.keys = <<it.key>> /\ it.off # Invalid
AsksGets(m, k) ==
    /\ Len(k.ml) >= m.ml \/ (k.remain = 0 /\ k.ml # <<>>)
    /\ Len(k.req.keys) = Len(k.ml)
    /\ \A j \in 1..Len(k.ml) : k.req.keys[j] = k.win[k.ml[j].item].key
Asks(m, k) ==
    /\ Busy(k) =>
          /\ k.req.id = k.id /\ k.req.op = k.cur.cmd /\ k.cur.cmd \in {"SET", "GET"}
          /\ k.cur.cmd = "SET" => AsksSet(k)
          /\ k.cur.cmd = "GET" /\ m.ml = 1 => AsksGet(k)
          /\ k.cur.cmd = "GET" /\ m.ml > 1 => AsksGets(m, k)
    /\ Busy(k) \/ (k.state = "closing" /\ k.remain >= 0) => k.cur.ret = "FAILURE"

\* The gets collected for a multi-get.
Marked(m, k) ==
    /\ Len(k.ml) <= m.ml /\ (m.ml = 1 => k.ml = <<>>)
    /\ k.sch => Len(k.ml) < m.ml
    /\ k.remain = ExecNum => k.ml = <<>>
    /\ m.verify = 0 => ~k.task.verify /\ \A j \in 1..Len(k.ml) : ~k.ml[j].verify

\* What is yet to be parsed: the rest of an answer, which may have been cut.
Rest(k, n) == k.rbuf \o n[k.sock].ans
Chained(m, rest) ==
    \A j \in 1..(Len(rest) - 1) :
        /\ rest[j].t \in {"VALUE", "data"} /\ (rest[j].t = "data" => ~m.binary)
        /\ rest[j].t = "VALUE" <=> rest[j + 1].t = "data"
Names(k, key) == \E i \in 1..Len(k.req.keys) : key = k.req.keys[i]
Answering(m, k, rest) ==
    \A j \in 1..Len(rest) :
        /\ rest[j].id = k.id
        /\ rest[j].t \in {"STORED", "SERVER_ERROR"} <=> k.cur.cmd = "SET"
        /\ rest[j].t = "VALUE" => /\ Names(k, rest[j].key)
                                  /\ "cut" \notin m.faults => j < Len(rest)
Valued(m, k, rest) ==
    /\ rest # <<>> => (k.readval <=> rest[1].t = "data")
    /\ k.readval => /\ k.cur.cmd = "GET"
                    /\ "cut" \notin m.faults => rest # <<>>
                    /\ ~m.binary => Names(k, k.key)
Answers(m, k, n) ==
    k.state = "read" =>
        /\ n[k.sock].req \in {NoRequest, k.req}
        /\ n[k.sock].req # NoRequest => Rest(k, n) = <<>> /\ ~k.readval
        /\ Chained(m, Rest(k, n)) /\ Answering(m, k, Rest(k, n)) /\ Valued(m, k, Rest(k, n))

\* The warm-up comes before the tasks.
Warming(m, k, fin) ==
    /\ k.warm \in -2..(IF m.sp = 0 THEN WinSize ELSE 0)
    /\ k.sch \/ k.remain # ExecNum => fin
    /\ k.state = "new" => k.remain = ExecNum
    /\ k.warm = -2 /\ k.remain = ExecNum => k.state = "write" /\ ~k.out
    /\ m.sp # 0 /\ k.remain = ExecNum => /\ k.state \in {"new", "write"} /\ ~k.out
                                         /\ k.cur = NoCommand /\ k.task.sets = 0
    /\ k.state # "new" /\ k.cur.cmd # "NULL" /\ k.remain = ExecNum => k.warm < WinSize

\* An item without a value is on no server, unless its set has been answered
\* and not been accounted for.
Live(k) == k.state \in {"write", "read"} /\ k.remain >= 0
Landed(k, n) ==
    /\ k.cur.cmd = "SET" /\ ~k.sch /\ ~k.out /\ ~(k.warm = -2 /\ k.remain = ExecNum)
    /\ k.state = "read" => Rest(k, n) # <<>> /\ Rest(k, n)[1].t = "STORED"
    /\ k.state = "write" => k.cur.ret = "STORED"
HasValue(k, key) == \A i \in Items : k.win[i].key = key => k.win[i].off # Invalid
Tracked(m, k, n, st) ==
    m.ml > 1 /\ m.verify > 0 /\ Live(k) =>
        /\ \A i \in Items : (k.win[i].off = Invalid /\ st[k.win[i].key] # Invalid) =>
                            (Landed(k, n) /\ k.task.item = i)
        /\ k.state = "read" =>
             /\ \A j \in 1..Len(Rest(k, n)) :
                   Rest(k, n)[j].t = "VALUE" => HasValue(k, Rest(k, n)[j].key)
             /\ k.readval => HasValue(k, k.key)

\* Without overwriting an item has one value, its suffix.
SuffixOf(k, key, val) == \A i \in Items : k.win[i].key = key => val = k.win[i].sfx
Plain(m, k, n, st) ==
    m.ow = 0 =>
        /\ k.state # "new" => \A i \in Items : /\ k.win[i].off \in {Invalid, k.win[i].sfx}
                                               /\ st[k.win[i].key] \in {Invalid, k.win[i].sfx}
        /\ k.cur.cmd = "SET" /\ Live(k) /\ k.remain < ExecNum /\ ~k.sch
              /\ (Busy(k) \/ k.cur.ret = "STORED") => k.win[k.task.item].off = Invalid
        /\ k.state = "read" =>
             /\ \A j \in 1..(Len(Rest(k, n)) - 1) :
                   Rest(k, n)[j].t = "VALUE" =>
                       SuffixOf(k, Rest(k, n)[j].key, Rest(k, n)[j + 1].val)
             /\ k.readval /\ Rest(k, n) # <<>> =>
                   SuffixOf(k, IF m.binary THEN k.req.keys[1] ELSE k.key, Rest(k, n)[1].val)

\* The proportion, and that a get finds an item to get: the items before the
\* cursor have values.
LeadOf(m, t) == t.gets * m.sp - t.sets * m.gp
Filled(V, cursor, sets) ==
    \/ Items \subseteq V
    \/ cursor < WinSize /\ 1..cursor \subseteq V /\ (sets > 0 => cursor > 0)
Valid(k) == {i \in Items : k.win[i].off # Invalid}
Paced(m, k, n, f, over) ==
    m.sp > 0 /\ f = 0 =>
        /\ \A i \in 1..m.socks : n[i].up
        /\ k.state = "closing" => k.remain = -1 \/ over
        /\ LeadOf(m, k.task) \in (0 - m.gp)..m.sp
        /\ Live(k) /\ k.cur.cmd = "SET" /\ ~k.sch =>
              /\ LeadOf(m, k.task) >= 0
              /\ Filled(Valid(k) \cup {k.task.item}, (k.set_cursor + 1) % CursorMod,
                        k.task.sets + 1)
              /\ k.state = "read" => \/ n[k.sock].req # NoRequest
                                     \/ Rest(k, n) # <<>> /\ Rest(k, n)[1].t = "STORED"
              /\ k.state = "write" /\ ~k.out => k.cur.ret = "STORED"
        /\ Live(k) /\ (k.cur.cmd # "SET" \/ k.sch) =>
              Filled(Valid(k), k.set_cursor, k.task.sets)

\* What holds of every connection.
Linked(m, k, n, st, f, fin, over) ==
    /\ Phases(m, k) /\ Wired(m, k, n) /\ Asks(m, k) /\ Marked(m, k) /\ Answers(m, k, n)
    /\ Warming(m, k, fin) /\ Tracked(m, k, n, st) /\ Plain(m, k, n, st)
    /\ Paced(m, k, n, f, over) /\ Unbroken(m, k, n, over)

\* The prefixes of keys: no key is used twice, and those to come are unused.
Spent(k) == IF k.state = "new" THEN 0
            ELSE WinSize + ExecNum - (IF k.remain < 0 THEN 0 ELSE k.remain)
AllSpent(m, links) == Spent(links[1]) + (IF m.conns = 2 THEN Spent(links[2]) ELSE 0)
KeysApart(m, links, s) ==
    /\ s \in 1..(AllSpent(m, links) + 1)
    /\ \A c \in 1..m.conns : links[c].state # "new" =>
          \A i \in Items : links[c].win[i].key \in 1..(s - 1)
    /\ \A c, d \in 1..m.conns, i, j \in Items :
          links[c].state # "new" /\ links[d].state # "new" /\ (c # d \/ i # j) =>
              links[c].win[i].key # links[d].win[j].key
Unused(s, st) == \A x \in s..MaxKey : st[x] = Invalid

\* The main thread lets no task begin before every connection is warm.
Warm(m, links) == {c \in 1..m.conns : links[c].warm = -2}
Warmed(m, links, fin, p, count) ==
    /\ count = Cardinality(Warm(m, links))
    /\ p \in {"init", "warmup"} => ~fin
    /\ p = "warmup" => m.sp = 0
    /\ fin /\ m.sp = 0 => Warm(m, links) = 1..m.conns

\* No answer was parsed for another command, no assertion has failed, and
\* without overwriting the servers are not accused.
NoFlaws == [stray |-> FALSE, abort |-> FALSE]
Locks == [init : Nat, warmup : Nat, run : Nat]
Trusting(m, s) ==
    /\ s = [get_misses |-> s.get_misses, vef_miss |-> s.vef_miss, vef_failed |-> s.vef_failed]
    /\ m.ow = 0 => s.vef_failed = 0

\* The inductive invariant.
IInv ==
    /\ Typed
    /\ \A c \in Conns : Linked(mode, cn[c], net[c], store, faults, finish_warmup, time_out)
    /\ KeysApart(mode, cn, seq) /\ Unused(seq, store)
    /\ Warmed(mode, cn, finish_warmup, pc, locks.warmup)
    /\ locks \in Locks /\ flaws = NoFlaws /\ Trusting(mode, stats)

-----------------------------------------------------------------------------
(* What is constant.                                                       *)

\* The bounds are numbers, and there is an item.
LEMMA Bounds ==
    /\ WinSize \in Nat /\ WinSize > 0 /\ ExecNum \in Nat /\ ExecNum > 0 /\ MaxFaults \in Nat
    /\ MaxKey \in Nat /\ CursorMod \in Nat /\ CursorMod > WinSize /\ 1 \in Items
    /\ Invalid \notin Nat /\ Invalid \in Int /\ Invalid \in Offsets /\ Nat \subseteq Offsets
BY SlapAssumption DEF SlapAssumption, MaxKey, CursorMod, Items, Invalid, Offsets

\* A command line has few connections, sockets and keys of a multi-get.
LEMMA ModeIs ==
    ASSUME mode \in Modes
    PROVE  /\ mode.conns \in {1, 2} /\ mode.socks \in {1, 2} /\ mode.ml \in {1, 2}
           /\ mode.gp \in 0..10 /\ mode.sp \in 0..10 /\ mode.ow \in {0, 1}
           /\ mode.verify \in {0, 1} /\ mode.rep \in 0..2
           /\ mode.runtime \in BOOLEAN /\ mode.binary \in BOOLEAN /\ mode.udp \in BOOLEAN
           /\ mode.reconnect \in BOOLEAN /\ mode.faults \subseteq FaultKinds
           /\ Conns = 1..mode.conns /\ Socks = 1..mode.socks
<1>1. mode \in Mode
    BY ModesAssumption DEF ModesAssumption
<1> QED  BY <1>1 DEF Mode, Conns, Socks

\* The fields of a connection and of what it is made of.
LEMMA LinkFields ==
    ASSUME NEW k \in Links
    PROVE  /\ k.state \in {"new", "write", "read", "closing", "closed"} /\ k.sch \in BOOLEAN
           /\ k.win \in [Items -> Objects] /\ k.set_cursor \in Nat /\ k.warm \in Int
           /\ k.remain \in Int /\ k.task \in Tasks /\ k.pre \in Commands /\ k.cur \in Commands
           /\ k.ml \in Seq(Marks) /\ k.vindex \in Nat /\ k.sock \in Nat /\ k.fds \subseteq Nat
           /\ k.req \in Requests /\ k.out \in BOOLEAN /\ k.rbuf \in Seq(Pieces)
           /\ k.readval \in BOOLEAN /\ k.key \in Nat /\ k.id \in Nat
BY DEF Links

\* An item and the fields of it.
LEMMA ItemFields ==
    ASSUME NEW k \in Links, NEW i \in Items
    PROVE  /\ k.win[i] \in Objects /\ k.win[i].key \in Nat /\ k.win[i].sfx \in Nat
           /\ k.win[i].off \in Offsets
<1>1. k.win \in [Items -> Objects]
    BY LinkFields
<1> QED  BY <1>1 DEF Objects

\* The fields of the task.
LEMMA TaskFields ==
    ASSUME NEW k \in Links
    PROVE  /\ k.task.cmd \in {"NULL", "SET", "GET"} /\ k.task.item \in Items
           /\ k.task.verify \in BOOLEAN /\ k.task.finish \in BOOLEAN /\ k.task.miss \in BOOLEAN
           /\ k.task.gets \in Nat /\ k.task.sets \in Nat /\ k.task.verified \in Nat
           /\ k.task.overwrites \in Nat
<1>1. k.task \in Tasks
    BY LinkFields
<1> QED  BY <1>1 DEF Tasks

\* Nothing asked and nothing said are what they are made of.
LEMMA Nothings ==
    /\ NoRequest \in Requests /\ NoRequest.op = "none" /\ NoRequest.keys = <<>>
    /\ NoCommand \in Commands /\ NoCommand.cmd = "NULL" /\ NoCommand.ret = "FAILURE"
    /\ Quiet \in Wires /\ Quiet.req = NoRequest /\ Quiet.ans = <<>> /\ Quiet.up
    /\ NoTask \in Tasks /\ NoTask.gets = 0 /\ NoTask.sets = 0 /\ NoTask.verify = FALSE
    /\ NoTask.item = 1
<1>1. <<>> \in Seq(Nat) /\ <<>> \in Seq(Pieces)
    BY EmptySeq
<1>2. NoRequest \in Requests /\ NoRequest.op = "none" /\ NoRequest.keys = <<>>
    BY <1>1, Bounds DEF NoRequest, Requests
<1>3. Quiet \in Wires /\ Quiet.req = NoRequest /\ Quiet.ans = <<>> /\ Quiet.up
    BY <1>1, <1>2 DEF Quiet, Wires
<1>4. NoTask \in Tasks /\ NoTask.gets = 0 /\ NoTask.sets = 0 /\ NoTask.verify = FALSE
      /\ NoTask.item = 1
    BY Bounds DEF NoTask, Tasks
<1>5. NoCommand \in Commands /\ NoCommand.cmd = "NULL" /\ NoCommand.ret = "FAILURE"
    BY DEF NoCommand, Commands
<1> QED  BY <1>2, <1>3, <1>4, <1>5

-----------------------------------------------------------------------------
(* From one connection to the whole.                                       *)

\* The frame of a connection's step: what the others know of their keys, of
\* the faults and of the main thread stays true.
LEMMA StillLinked ==
    ASSUME NEW m, NEW k, NEW n, NEW st, NEW f \in Nat, NEW fin, NEW over,
           Linked(m, k, n, st, f, fin, over), NEW st2, NEW f2 \in Nat, f2 >= f,
           k.state # "new" =>
               \A i \in Items : st2[k.win[i].key] \in {st[k.win[i].key], Invalid}
    PROVE  Linked(m, k, n, st2, f2, fin, over)
<1>1. Tracked(m, k, n, st2)
    BY DEF Linked, Tracked, Live
<1>2. Plain(m, k, n, st2)
    BY DEF Linked, Plain
<1>3. Paced(m, k, n, f2, over)
    BY DEF Linked, Paced
<1> QED  BY <1>1, <1>2, <1>3 DEF Linked

\* The flags of the main thread only rise.
LEMMA FlagsRise ==
    ASSUME NEW m, NEW k, NEW n, NEW st, NEW f, NEW fin, NEW over,
           Linked(m, k, n, st, f, fin, over), NEW fin2, fin => fin2, NEW over2, over => over2
    PROVE  Linked(m, k, n, st, f, fin2, over2)
<1>1. Warming(m, k, fin2)
    BY DEF Linked, Warming
<1>2. Paced(m, k, n, f, over2)
    BY DEF Linked, Paced
<1>3. Unbroken(m, k, n, over2)
    BY DEF Linked, Unbroken
<1> QED  BY <1>1, <1>2, <1>3 DEF Linked

\* A step of connection c.
LEMMA OneStep ==
    ASSUME IInv, NEW c \in Conns, NEW k \in Links, NEW n \in [Socks -> Wires],
           cn' = [cn EXCEPT ![c] = k], net' = [net EXCEPT ![c] = n],
           UNCHANGED <<mode, pc, finish_warmup, time_out>>,
           store' \in [1..MaxKey -> Offsets], seq' \in Nat, faults' \in Nat, faults' >= faults,
           \A d \in Conns \ {c} : cn[d].state # "new" =>
               \A i \in Items : store'[cn[d].win[i].key] \in {store[cn[d].win[i].key], Invalid},
           Linked(mode, k, n, store', faults', finish_warmup, time_out),
           KeysApart(mode, cn', seq'), Unused(seq', store'),
           Warmed(mode, cn', finish_warmup, pc, locks.warmup'),
           flaws' = NoFlaws, Trusting(mode, stats'), locks' \in Locks
    PROVE  IInv'
<1>1. cn \in [Conns -> Links] /\ net \in [Conns -> [Socks -> Wires]] /\ Conns' = Conns
      /\ Socks' = Socks /\ mode \in Modes /\ faults \in Nat
    BY DEF IInv, Typed, Conns, Socks
<1>2. Typed'
    BY <1>1 DEF IInv, Typed
<1>3. ASSUME NEW d \in Conns
      PROVE  Linked(mode, cn'[d], net'[d], store', faults', finish_warmup, time_out)
    <2>1. CASE d = c
        BY <1>1, <2>1
    <2>2. CASE d # c
        <3>1. cn'[d] = cn[d] /\ net'[d] = net[d]
            BY <1>1, <2>2
        <3>2. Linked(mode, cn[d], net[d], store, faults, finish_warmup, time_out)
            BY DEF IInv
        <3>3. cn[d].state # "new" =>
                 \A i \in Items : store'[cn[d].win[i].key] \in {store[cn[d].win[i].key], Invalid}
            BY <1>1, <2>2
        <3>4. faults' \in Nat /\ faults' >= faults /\ faults \in Nat
            BY <1>1
        <3>5. Linked(mode, cn[d], net[d], store', faults', finish_warmup, time_out)
            BY <3>2, <3>3, <3>4, StillLinked
        <3> QED  BY <3>1, <3>5
    <2> QED  BY <2>1, <2>2
<1> QED  BY <1>1, <1>2, <1>3 DEF IInv

\* What a connection holds of keys and of the warm-up.
LEMMA SpentOf ==
    ASSUME NEW k \in Links, k.remain \in -1..ExecNum
    PROVE  Spent(k) \in 0..(WinSize + ExecNum)
BY Bounds DEF Spent

\* No key is beyond the last one.
LEMMA KeysWithin ==
    ASSUME IInv
    PROVE  /\ seq \in 1..(MaxKey + 1) /\ AllSpent(mode, cn) \in 0..MaxKey
           /\ \A c \in Conns : cn[c].state # "new" =>
                 \A i \in Items : cn[c].win[i].key \in 1..(seq - 1)
           /\ \A c \in Conns : cn[c].remain \in -1..ExecNum
<1>1. mode \in Modes /\ cn \in [Conns -> Links] /\ seq \in Nat
    BY DEF IInv, Typed
<1>2. \A c \in Conns : cn[c].remain \in -1..ExecNum
    BY DEF IInv, Linked, Phases
<1>3. mode.conns \in {1, 2} /\ Conns = 1..mode.conns
    BY <1>1, ModeIs
<1>4. \A c \in Conns : Spent(cn[c]) \in 0..(WinSize + ExecNum)
    BY <1>1, <1>2, SpentOf
<1>5. AllSpent(mode, cn) \in 0..MaxKey
    <2>1. Spent(cn[1]) \in 0..(WinSize + ExecNum)
        BY <1>3, <1>4
    <2>2. mode.conns = 2 => Spent(cn[2]) \in 0..(WinSize + ExecNum)
        BY <1>3, <1>4
    <2> QED  BY <2>1, <2>2, <1>3, Bounds DEF AllSpent, MaxKey
<1> QED  BY <1>1, <1>2, <1>3, <1>5, Bounds DEF IInv, KeysApart

\* A step of connection c that takes no key.
LEMMA ApartStep ==
    ASSUME IInv, NEW c \in Conns, NEW k \in Links, NEW n \in [Socks -> Wires],
           cn' = [cn EXCEPT ![c] = k], net' = [net EXCEPT ![c] = n],
           UNCHANGED <<mode, seq, pc, finish_warmup, time_out>>,
           store' \in [1..MaxKey -> Offsets], faults' \in Nat, faults' >= faults,
           cn[c].state # "new", k.state # "new",
           Spent(k) >= Spent(cn[c]), k.remain \in -1..ExecNum,
           \A i \in Items : k.win[i].key = cn[c].win[i].key,
           \A x \in 1..MaxKey : \/ store'[x] \in {store[x], Invalid}
                                \/ \E i \in Items : x = cn[c].win[i].key,
           Linked(mode, k, n, store', faults', finish_warmup, time_out),
           Warmed(mode, cn', finish_warmup, pc, locks'.warmup),
           flaws' = NoFlaws, Trusting(mode, stats'), locks' \in Locks
    PROVE  IInv'
<1>1. mode \in Modes /\ cn \in [Conns -> Links] /\ seq \in Nat /\ Conns = 1..mode.conns
      /\ mode.conns \in {1, 2} /\ KeysApart(mode, cn, seq) /\ store \in [1..MaxKey -> Offsets]
    BY ModeIs DEF IInv, Typed
<1>2. /\ seq \in 1..(MaxKey + 1)
      /\ \A d \in Conns : cn[d].state # "new" =>
            \A i \in Items : cn[d].win[i].key \in 1..(seq - 1)
    BY KeysWithin
<1>3. \A d \in Conns \ {c} : cn[d].state # "new" =>
          \A i \in Items : store'[cn[d].win[i].key] \in {store[cn[d].win[i].key], Invalid}
    <2> SUFFICES ASSUME NEW d \in Conns \ {c}, cn[d].state # "new", NEW i \in Items
                 PROVE  store'[cn[d].win[i].key] \in {store[cn[d].win[i].key], Invalid}
        OBVIOUS
    <2>1. cn[d].win[i].key \in 1..MaxKey
        BY <1>2, Bounds
    <2>2. \A j \in Items : cn[d].win[i].key # cn[c].win[j].key
        BY <1>1 DEF KeysApart
    <2> QED  BY <2>1, <2>2
<1>4. cn'[c] = k /\ \A d \in Conns : d # c => cn'[d] = cn[d]
    BY <1>1
<1>5. KeysApart(mode, cn', seq')
    <2>1. Spent(cn'[c]) >= Spent(cn[c]) /\ Spent(cn[c]) \in Nat /\ Spent(k) \in Nat
        <3>1. cn[c] \in Links /\ cn[c].remain \in -1..ExecNum
            BY <1>1, KeysWithin
        <3>2. Spent(cn[c]) \in 0..(WinSize + ExecNum) /\ Spent(k) \in 0..(WinSize + ExecNum)
            BY <3>1, SpentOf
        <3> QED  BY <3>2, <1>4, Bounds
    <2>2. \A d \in Conns : Spent(cn'[d]) >= Spent(cn[d]) /\ Spent(cn[d]) \in Nat
                           /\ Spent(cn'[d]) \in Nat
        <3> SUFFICES ASSUME NEW d \in Conns
                     PROVE  Spent(cn'[d]) >= Spent(cn[d]) /\ Spent(cn[d]) \in Nat
                            /\ Spent(cn'[d]) \in Nat
            OBVIOUS
        <3>1. CASE d = c
            BY <3>1, <2>1, <1>4
        <3>2. CASE d # c
            <4>1. cn[d] \in Links /\ cn[d].remain \in -1..ExecNum
                BY <1>1, KeysWithin
            <4>2. Spent(cn[d]) \in 0..(WinSize + ExecNum)
                BY <4>1, SpentOf
            <4>3. Spent(cn[d]) \in Nat /\ cn'[d] = cn[d]
                BY <4>2, <3>2, <1>4, Bounds
            <4> QED  BY <4>3
        <3> QED  BY <3>1, <3>2
    <2>3. AllSpent(mode, cn') >= AllSpent(mode, cn) /\ AllSpent(mode, cn) \in Nat
          /\ AllSpent(mode, cn') \in Nat
        <3>1. Spent(cn'[1]) >= Spent(cn[1]) /\ Spent(cn[1]) \in Nat /\ Spent(cn'[1]) \in Nat
            BY <2>2, <1>1
        <3>2. mode.conns = 2 => Spent(cn'[2]) >= Spent(cn[2]) /\ Spent(cn[2]) \in Nat
                                /\ Spent(cn'[2]) \in Nat
            BY <2>2, <1>1
        <3> QED  BY <3>1, <3>2, <1>1 DEF AllSpent
    <2>4. seq' \in 1..(AllSpent(mode, cn') + 1)
        BY <2>3, <1>1 DEF KeysApart
    <2>5. \A d \in Conns : /\ cn'[d].state = "new" <=> cn[d].state = "new"
                           /\ \A i \in Items : cn'[d].win[i].key = cn[d].win[i].key
        BY <1>4
    <2>6. \A d \in 1..mode.conns : cn'[d].state # "new" =>
              \A i \in Items : cn'[d].win[i].key \in 1..(seq' - 1)
        BY <2>5, <1>2, <1>1
    <2>7. \A d, e \in 1..mode.conns, i, j \in Items :
              cn'[d].state # "new" /\ cn'[e].state # "new" /\ (d # e \/ i # j) =>
                  cn'[d].win[i].key # cn'[e].win[j].key
        <3> SUFFICES ASSUME NEW d \in 1..mode.conns, NEW e \in 1..mode.conns,
                            NEW i \in Items, NEW j \in Items,
                            cn'[d].state # "new", cn'[e].state # "new", d # e \/ i # j
                     PROVE  cn'[d].win[i].key # cn'[e].win[j].key
            OBVIOUS
        <3>1. cn[d].state # "new" /\ cn[e].state # "new"
            BY <2>5, <1>1
        <3>2. cn[d].win[i].key # cn[e].win[j].key
            BY <3>1, <1>1 DEF KeysApart
        <3> QED  BY <3>2, <2>5, <1>1
    <2> QED  BY <2>4, <2>6, <2>7 DEF KeysApart
<1>6. Unused(seq', store')
    <2> SUFFICES ASSUME NEW x \in seq..MaxKey
                 PROVE  store'[x] = Invalid
        BY DEF Unused
    <2>1. x \in 1..MaxKey /\ store[x] = Invalid
        BY <1>2, Bounds DEF IInv, Unused
    <2>2. \A i \in Items : x # cn[c].win[i].key
        BY <1>2, Bounds
    <2> QED  BY <2>1, <2>2
<1> QED  BY <1>1, <1>3, <1>5, <1>6, OneStep

\* A step of connection c that takes no key and leaves the warm-up alone.
LEMMA KeyStep ==
    ASSUME IInv, NEW c \in Conns, NEW k \in Links, NEW n \in [Socks -> Wires],
           cn' = [cn EXCEPT ![c] = k], net' = [net EXCEPT ![c] = n],
           UNCHANGED <<mode, seq, pc, finish_warmup, time_out>>,
           store' \in [1..MaxKey -> Offsets], faults' \in Nat, faults' >= faults,
           locks'.warmup = locks.warmup,
           cn[c].state # "new", k.state # "new", k.warm = cn[c].warm,
           Spent(k) >= Spent(cn[c]), k.remain \in -1..ExecNum,
           \A i \in Items : k.win[i].key = cn[c].win[i].key,
           \A x \in 1..MaxKey : \/ store'[x] \in {store[x], Invalid}
                                \/ \E i \in Items : x = cn[c].win[i].key,
           Linked(mode, k, n, store', faults', finish_warmup, time_out),
           flaws' = NoFlaws, Trusting(mode, stats'), locks' \in Locks
    PROVE  IInv'
<1>1. cn \in [Conns -> Links] /\ Conns = 1..mode.conns
    BY DEF IInv, Typed, Conns
<1>2. Warmed(mode, cn', finish_warmup, pc, locks'.warmup)
    <2>1. cn'[c] = k /\ \A d \in Conns : d # c => cn'[d] = cn[d]
        BY <1>1
    <2>2. Warm(mode, cn') = Warm(mode, cn)
        BY <2>1, <1>1 DEF Warm
    <2> QED  BY <2>2 DEF IInv, Warmed
<1> QED  BY <1>2, ApartStep

\* A step that changes the connection only.
LEMMA LinkStep ==
    ASSUME IInv, NEW c \in Conns, NEW k \in Links, cn' = [cn EXCEPT ![c] = k],
           UNCHANGED <<mode, net, store, seq, locks, pc, finish_warmup, time_out, faults>>,
           cn[c].state # "new", k.state # "new", k.warm = cn[c].warm,
           Spent(k) >= Spent(cn[c]), k.remain \in -1..ExecNum,
           \A i \in Items : k.win[i].key = cn[c].win[i].key,
           Linked(mode, k, net[c], store, faults, finish_warmup, time_out),
           flaws' = NoFlaws, Trusting(mode, stats')
    PROVE  IInv'
<1>1. net \in [Conns -> [Socks -> Wires]] /\ store \in [1..MaxKey -> Offsets] /\ faults \in Nat
      /\ locks \in Locks
    BY DEF IInv, Typed
<1>2. net[c] \in [Socks -> Wires] /\ net' = [net EXCEPT ![c] = net[c]]
    BY <1>1
<1>3. /\ store' \in [1..MaxKey -> Offsets] /\ faults' \in Nat /\ faults' >= faults
      /\ locks'.warmup = locks.warmup /\ locks' \in Locks
      /\ \A x \in 1..MaxKey : \/ store'[x] \in {store[x], Invalid}
                              \/ \E i \in Items : x = cn[c].win[i].key
    BY <1>1
<1>4. Linked(mode, k, net[c], store', faults', finish_warmup, time_out)
    BY <1>1
<1> QED  BY <1>2, <1>3, <1>4, KeyStep

-----------------------------------------------------------------------------
(* The beginning.                                                          *)

\* A connection just set up.
LEMMA SetupFields ==
    ASSUME mode \in Modes, NEW s \in Nat, NEW k, k = ms_setup_conn(s) \/ k = Unborn
    PROVE  /\ k \in Links /\ k.state \in {"new", "write"}
           /\ k = ms_setup_conn(s) => k.state = "write" /\ \A i \in Items : k.win[i].key = s + i
           /\ k = Unborn => k.state = "new"
           /\ ~k.sch /\ ~k.out /\ k.remain = ExecNum /\ k.task = NoTask /\ k.pre = NoCommand
           /\ k.cur = NoCommand /\ k.ml = <<>> /\ k.sock = 0 /\ k.fds = Socks /\ k.rbuf = <<>>
           /\ ~k.readval /\ k.warm = WarmupNum /\ k.set_cursor = 0
           /\ \A i \in Items : k.win[i].off = Invalid /\ k.win[i].sfx = KeyOffset[i]
<1>1. <<>> \in Seq(Marks) /\ <<>> \in Seq(Pieces)
    BY EmptySeq
<1>2. WarmupNum \in Int /\ Socks \subseteq Nat /\ 0 \in Nat
    BY ModeIs, Bounds DEF WarmupNum
<1>3. \A s2 \in Nat : [i \in Items |-> [key |-> s2 + i, sfx |-> KeyOffset[i], off |-> Invalid]]
                      \in [Items -> Objects]
    <2>1. \A i \in Items : i \in Nat /\ KeyOffset[i] \in Nat
        BY SlapAssumption DEF Items
    <2> QED  BY <2>1, Bounds DEF Objects
<1>4. CASE k = ms_setup_conn(s)
    <2>1. k \in Links
        BY <1>1, <1>2, <1>3, <1>4, Nothings, Bounds DEF ms_setup_conn, Links
    <2>2. k.state = "write"
        BY <1>4 DEF ms_setup_conn
    <2>3. k # Unborn
        BY <2>2 DEF Unborn, ms_setup_conn
    <2> QED  BY <1>4, <2>1, <2>2, <2>3 DEF ms_setup_conn
<1>5. CASE k = Unborn
    <2>1. k \in Links
        <3>1. ms_setup_conn(0) \in Links
            BY <1>1, <1>2, <1>3, Nothings, Bounds DEF ms_setup_conn, Links
        <3> QED  BY <3>1, <1>5 DEF Unborn, Links
    <2>2. k.state = "new"
        BY <1>5 DEF Unborn, ms_setup_conn
    <2>3. k # ms_setup_conn(s)
        BY <2>2 DEF ms_setup_conn
    <2> QED  BY <1>5, <2>1, <2>2, <2>3 DEF Unborn, ms_setup_conn
<1> QED  BY <1>4, <1>5

\* It satisfies the invariant, when its keys are on no server.
LEMMA SetupLinked ==
    ASSUME mode \in Modes, NEW s \in Nat, NEW k, k = ms_setup_conn(s) \/ k = Unborn,
           NEW n \in [Socks -> Wires], NEW st, NEW f, NEW fin, NEW over,
           \A i \in Socks : /\ Still(n[i]) /\ (f = 0 /\ mode.sp > 0 => n[i].up)
                            /\ "drop" \notin mode.faults => n[i].up,
           k = ms_setup_conn(s) => \A i \in Items : st[s + i] = Invalid
    PROVE  Linked(mode, k, n, st, f, fin, over)
<1>1. /\ k \in Links /\ k.state \in {"new", "write"}
      /\ k.state = "write" => \A i \in Items : k.win[i].key = s + i /\ st[s + i] = Invalid
      /\ ~k.sch /\ ~k.out /\ k.remain = ExecNum /\ k.task = NoTask /\ k.pre = NoCommand
      /\ k.cur = NoCommand /\ k.ml = <<>> /\ k.sock = 0 /\ k.fds = Socks /\ k.rbuf = <<>>
      /\ ~k.readval /\ k.warm = WarmupNum /\ k.set_cursor = 0
      /\ \A i \in Items : k.win[i].off = Invalid /\ k.win[i].sfx = KeyOffset[i]
    BY SetupFields
<1>2. Phases(mode, k)
    BY <1>1, ModeIs, Bounds DEF Phases, Busy
<1>3. Wired(mode, k, n)
    BY <1>1, ModeIs DEF Wired, Still
<1>4. Asks(mode, k)
    BY <1>1 DEF Asks, Busy
<1>5. Marked(mode, k)
    BY <1>1, ModeIs, Nothings DEF Marked
<1>6. Answers(mode, k, n)
    BY <1>1 DEF Answers
<1>7. Warming(mode, k, fin)
    BY <1>1, Nothings, Bounds DEF Warming, WarmupNum
<1>8. Tracked(mode, k, n, st)
    BY <1>1, Bounds DEF Tracked, Live
<1>9. Plain(mode, k, n, st)
    BY <1>1, Nothings DEF Plain, Busy
<1>10. Paced(mode, k, n, f, over)
    <2>1. LeadOf(mode, k.task) = 0
        BY <1>1, ModeIs, Nothings DEF LeadOf
    <2>2. Filled(Valid(k), k.set_cursor, k.task.sets)
        BY <1>1, Nothings, Bounds DEF Filled
    <2>3. LeadOf(mode, k.task) \in (0 - mode.gp)..mode.sp
        BY <2>1, ModeIs
    <2> QED  BY <1>1, <2>2, <2>3, ModeIs, Nothings DEF Paced, Live
<1>11. Unbroken(mode, k, n, over)
    BY <1>1, ModeIs DEF Unbroken
<1> QED  BY <1>2, <1>3, <1>4, <1>5, <1>6, <1>7, <1>8, <1>9, <1>10, <1>11 DEF Linked

\* The initial states satisfy the invariant.
LEMMA InitInv ==
    ASSUME Init PROVE IInv
<1>1. mode \in Modes
    BY DEF Init
<1>2. cn \in [Conns -> Links] /\ \A c \in Conns : cn[c] = Unborn
    BY <1>1, SetupFields DEF Init
<1>3. net \in [Conns -> [Socks -> Wires]]
      /\ \A c \in Conns : \A i \in Socks : net[c][i] = Quiet
    BY Nothings DEF Init
<1>4. Typed
    BY <1>1, <1>2, <1>3, Bounds DEF Init, Typed
<1>5. \A c \in Conns : cn[c].state = "new" /\ cn[c].warm = WarmupNum
    BY <1>1, <1>2, SetupFields
<1>6. ASSUME NEW c \in Conns
      PROVE  Linked(mode, cn[c], net[c], store, faults, finish_warmup, time_out)
    <2>1. net[c] \in [Socks -> Wires] /\ \A i \in Socks : Still(net[c][i]) /\ net[c][i].up
        BY <1>3, Nothings DEF Still
    <2>2. cn[c] = Unborn /\ Unborn # ms_setup_conn(0)
        BY <1>1, <1>2, SetupFields DEF Unborn, ms_setup_conn
    <2> QED  BY <1>1, <2>1, <2>2, SetupLinked
<1>7. KeysApart(mode, cn, seq)
    <2>1. mode.conns \in {1, 2} /\ Conns = 1..mode.conns
        BY <1>1, ModeIs
    <2>2. AllSpent(mode, cn) = 0
        BY <2>1, <1>5 DEF AllSpent, Spent
    <2> QED  BY <2>1, <2>2, <1>5 DEF KeysApart, Init
<1>8. Unused(seq, store)
    BY DEF Unused, Init
<1>9. Warmed(mode, cn, finish_warmup, pc, locks.warmup)
    <2>1. Warm(mode, cn) = {}
        BY <1>1, <1>5, ModeIs, Bounds DEF Warm, WarmupNum
    <2> QED  BY <2>1, FS_EmptySet DEF Warmed, Init
<1>10. locks \in Locks /\ flaws = NoFlaws /\ Trusting(mode, stats)
    BY DEF Init, Locks, NoFlaws, Trusting
<1> QED  BY <1>4, <1>6, <1>7, <1>8, <1>9, <1>10 DEF IInv

\* A thread sets its connection up: the next WinSize keys become its own.
LEMMA SetupInv ==
    ASSUME IInv, NEW c \in Conns, Setup(c)
    PROVE  IInv'
<1> DEFINE k == ms_setup_conn(seq - 1)
<1>1. mode \in Modes /\ cn \in [Conns -> Links] /\ seq \in Nat /\ Conns = 1..mode.conns
      /\ mode.conns \in {1, 2} /\ KeysApart(mode, cn, seq) /\ store \in [1..MaxKey -> Offsets]
      /\ net \in [Conns -> [Socks -> Wires]] /\ Socks = 1..mode.socks /\ faults \in Nat
    BY ModeIs DEF IInv, Typed
<1>2. cn[c].state = "new" /\ cn' = [cn EXCEPT ![c] = k] /\ seq' = seq + WinSize
    BY DEF Setup, Turn
<1>3. seq \in 1..(MaxKey + 1) /\ AllSpent(mode, cn) \in 0..MaxKey
    BY KeysWithin
<1>4. seq - 1 \in Nat /\ seq \in Nat
    BY <1>3
<1>5. k \in Links /\ k.state = "write" /\ k.remain = ExecNum /\ k.warm = WarmupNum
      /\ \A i \in Items : k.win[i].key = seq - 1 + i
    BY <1>1, <1>4, SetupFields
<1> HIDE DEF k
<1>6. cn'[c] = k /\ \A d \in Conns : d # c => cn'[d] = cn[d]
    BY <1>1, <1>2
<1>7. Spent(cn[c]) = 0 /\ Spent(k) = WinSize
    BY <1>2, <1>5, Bounds DEF Spent
<1>8. AllSpent(mode, cn') = AllSpent(mode, cn) + WinSize /\ AllSpent(mode, cn) + WinSize <= MaxKey
    <2>1. \A d \in Conns : Spent(cn[d]) \in 0..(WinSize + ExecNum)
        BY <1>1, SpentOf, KeysWithin
    <2>2. CASE mode.conns = 1
        <3>1. c = 1
            BY <2>2, <1>1
        <3> QED  BY <2>2, <3>1, <1>6, <1>7, Bounds DEF AllSpent, MaxKey
    <2>3. CASE mode.conns = 2
        <3>1. Spent(cn[1]) \in 0..(WinSize + ExecNum) /\ Spent(cn[2]) \in 0..(WinSize + ExecNum)
            BY <2>1, <2>3, <1>1
        <3>2. CASE c = 1
            BY <3>1, <3>2, <2>3, <1>1, <1>6, <1>7, Bounds DEF AllSpent, MaxKey
        <3>3. CASE c = 2
            BY <3>1, <3>3, <2>3, <1>1, <1>6, <1>7, Bounds DEF AllSpent, MaxKey
        <3> QED  BY <3>2, <3>3, <2>3, <1>1
    <2> QED  BY <2>2, <2>3, <1>1
<1>9. seq \in 1..(AllSpent(mode, cn) + 1)
      /\ \A d \in Conns : cn[d].state # "new" =>
            \A i \in Items : cn[d].win[i].key \in 1..(seq - 1)
    BY <1>1 DEF KeysApart
<1>10. \A i \in Items : k.win[i].key \in seq..(seq' - 1) /\ k.win[i].key \in 1..MaxKey
    BY <1>2, <1>3, <1>5, <1>8, <1>9, Bounds DEF Items
<1>11. KeysApart(mode, cn', seq')
    <2>1. seq' \in 1..(AllSpent(mode, cn') + 1)
        BY <1>2, <1>3, <1>8, <1>9, Bounds
    <2>2. \A d \in 1..mode.conns : cn'[d].state # "new" =>
              \A i \in Items : cn'[d].win[i].key \in 1..(seq' - 1)
        <3> SUFFICES ASSUME NEW d \in Conns, cn'[d].state # "new", NEW i \in Items
                     PROVE  cn'[d].win[i].key \in 1..(seq' - 1)
            BY <1>1
        <3>1. CASE d = c
            BY <3>1, <1>6, <1>10, <1>3
        <3>2. CASE d # c
            <4>1. cn[d].win[i].key \in 1..(seq - 1) /\ cn'[d] = cn[d]
                BY <3>2, <1>6, <1>9
            <4> QED  BY <4>1, <1>2, <1>3, Bounds
        <3> QED  BY <3>1, <3>2
    <2>3. \A d, e \in 1..mode.conns, i, j \in Items :
              cn'[d].state # "new" /\ cn'[e].state # "new" /\ (d # e \/ i # j) =>
                  cn'[d].win[i].key # cn'[e].win[j].key
        <3> SUFFICES ASSUME NEW d \in Conns, NEW e \in Conns, NEW i \in Items, NEW j \in Items,
                            cn'[d].state # "new", cn'[e].state # "new", d # e \/ i # j
                     PROVE  cn'[d].win[i].key # cn'[e].win[j].key
            BY <1>1
        <3>1. CASE d = c /\ e = c
            BY <3>1, <1>4, <1>5, <1>6 DEF Items
        <3>2. CASE d = c /\ e # c
            <4>1. cn'[e].win[j].key \in 1..(seq - 1) /\ cn'[d].win[i].key \in seq..(seq' - 1)
                BY <3>2, <1>6, <1>9, <1>10
            <4> QED  BY <4>1, <1>4
        <3>3. CASE d # c /\ e = c
            <4>1. cn'[d].win[i].key \in 1..(seq - 1) /\ cn'[e].win[j].key \in seq..(seq' - 1)
                BY <3>3, <1>6, <1>9, <1>10
            <4> QED  BY <4>1, <1>4
        <3>4. CASE d # c /\ e # c
            BY <3>4, <1>1, <1>6 DEF KeysApart
        <3> QED  BY <3>1, <3>2, <3>3, <3>4
    <2> QED  BY <2>1, <2>2, <2>3 DEF KeysApart
<1>12. Unused(seq', store')
    BY <1>2, <1>3, Bounds DEF IInv, Unused, Setup
<1>13. Linked(mode, k, net[c], store', faults', finish_warmup, time_out)
    <2>1. Linked(mode, cn[c], net[c], store, faults, finish_warmup, time_out)
        BY DEF IInv
    <2>2. \A i \in Socks : /\ Still(net[c][i]) /\ (faults = 0 /\ mode.sp > 0 => net[c][i].up)
                           /\ "drop" \notin mode.faults => net[c][i].up
        BY <1>1, <1>2, <2>1 DEF Linked, Wired, Paced, Unbroken
    <2>3. \A i \in Items : store[seq - 1 + i] = Invalid
        <3> SUFFICES ASSUME NEW i \in Items PROVE store[seq - 1 + i] = Invalid
            OBVIOUS
        <3>1. seq - 1 + i \in seq..MaxKey
            BY <1>4, <1>5, <1>10, Bounds
        <3> QED  BY <3>1 DEF IInv, Unused
    <2>4. net[c] \in [Socks -> Wires] /\ store' = store /\ faults' = faults
        BY <1>1 DEF Setup
    <2>5. Linked(mode, k, net[c], store, faults, finish_warmup, time_out)
        BY <1>1, <1>4, <2>2, <2>3, <2>4, SetupLinked DEF k
    <2> QED  BY <2>4, <2>5
<1>14. Warmed(mode, cn', finish_warmup, pc, locks'.warmup)
    <2>1. k.warm # -2
        BY <1>1, <1>5, Bounds, ModeIs DEF WarmupNum
    <2>2. cn[c].warm # -2
        BY <1>1, <1>2, ModeIs DEF IInv, Linked, Warming, Phases
    <2>3. Warm(mode, cn') = Warm(mode, cn)
        BY <1>1, <1>6, <2>1, <2>2 DEF Warm
    <2>4. locks'.warmup = locks.warmup
        BY DEF Setup, IInv, Locks
    <2> QED  BY <2>3, <2>4 DEF IInv, Warmed
<1>15. \A d \in Conns \ {c} : cn[d].state # "new" =>
           \A i \in Items : store'[cn[d].win[i].key] \in {store[cn[d].win[i].key], Invalid}
    BY DEF Setup
<1>16. /\ net[c] \in [Socks -> Wires] /\ net' = [net EXCEPT ![c] = net[c]]
       /\ store' \in [1..MaxKey -> Offsets] /\ seq' \in Nat /\ faults' \in Nat /\ faults' >= faults
       /\ UNCHANGED <<mode, pc, finish_warmup, time_out>>
       /\ flaws' = NoFlaws /\ Trusting(mode, stats')
    BY <1>1, <1>2, Bounds DEF Setup, Frame, IInv
<1>17. locks' \in Locks
    BY DEF Setup, IInv, Locks
<1> QED  BY <1>1, <1>2, <1>5, <1>11, <1>12, <1>13, <1>14, <1>15, <1>16, <1>17, OneStep

-----------------------------------------------------------------------------
(* The main thread and the servers' memory.                                *)

\* The main thread goes on when every connection has reported.
LEMMA MonitorInv ==
    ASSUME IInv, Monitor
    PROVE  IInv'
<1>1. UNCHANGED <<mode, cn, net, store, seq, locks, stats, unseen, faults, flaws>>
    BY DEF Monitor, MonitorFrame, WaitInit, WaitWarmup, RunTimeOver, WaitRun
<1>2. finish_warmup => finish_warmup'
    BY DEF Monitor, WaitInit, WaitWarmup, RunTimeOver, WaitRun, IInv, Warmed
<1>3. time_out => time_out'
    BY DEF Monitor, WaitInit, WaitWarmup, RunTimeOver, WaitRun
<1>4. ASSUME NEW c \in Conns
      PROVE  Linked(mode, cn[c], net[c], store, faults, finish_warmup', time_out')
    <2>1. Linked(mode, cn[c], net[c], store, faults, finish_warmup, time_out)
        BY DEF IInv
    <2> QED  BY <2>1, <1>2, <1>3, FlagsRise
<1>5. Warmed(mode, cn, finish_warmup', pc', locks.warmup)
    <2>1. mode.conns \in {1, 2} /\ locks.warmup = Cardinality(Warm(mode, cn))
        BY ModeIs DEF IInv, Typed, Warmed
    <2>2. Warm(mode, cn) \subseteq 1..mode.conns
        BY DEF Warm
    <2>3. CASE WaitInit
        BY <2>3, <2>1 DEF WaitInit, Warmed
    <2>4. CASE WaitWarmup
        <3>1. Cardinality(Warm(mode, cn)) = mode.conns
            BY <2>1, <2>4 DEF WaitWarmup
        <3>2. IsFiniteSet(1..mode.conns) /\ Cardinality(1..mode.conns) = mode.conns
            BY <2>1, FS_Interval
        <3>3. Warm(mode, cn) = 1..mode.conns
            BY <2>2, <3>1, <3>2, FS_Subset
        <3> QED  BY <3>3, <2>1, <2>4 DEF WaitWarmup, Warmed
    <2>5. CASE RunTimeOver \/ WaitRun
        BY <2>5 DEF RunTimeOver, WaitRun, Warmed, IInv
    <2> QED  BY <2>3, <2>4, <2>5 DEF Monitor
<1>6. Typed'
    BY <1>1 DEF IInv, Typed, Conns, Socks
<1>7. \A c \in Conns' : Linked(mode', cn'[c], net'[c], store', faults', finish_warmup', time_out')
    BY <1>1, <1>4 DEF Conns
<1>8. KeysApart(mode', cn', seq') /\ Unused(seq', store')
    BY <1>1 DEF IInv
<1>9. Warmed(mode', cn', finish_warmup', pc', locks'.warmup)
    BY <1>1, <1>5
<1> QED  BY <1>1, <1>6, <1>7, <1>8, <1>9 DEF IInv

\* A server forgets an object.
LEMMA EvictInv ==
    ASSUME IInv, Evict
    PROVE  IInv'
<1>1. /\ UNCHANGED <<mode, cn, net, seq, locks, stats, pc, finish_warmup, time_out, flaws>>
      /\ store \in [1..MaxKey -> Offsets] /\ faults \in Nat
    BY DEF Evict, Outside, Frame, IInv, Typed
<1>2. faults' \in Nat /\ faults' >= faults
    BY <1>1 DEF Evict, Fault
<1>3. /\ store' \in [1..MaxKey -> Offsets]
      /\ \A x \in 1..MaxKey : store'[x] \in {store[x], Invalid}
    BY <1>1, Bounds DEF Evict
<1>4. ASSUME NEW c \in Conns
      PROVE  Linked(mode, cn[c], net[c], store', faults', finish_warmup, time_out)
    <2>1. Linked(mode, cn[c], net[c], store, faults, finish_warmup, time_out)
        BY DEF IInv
    <2>2. cn[c].state # "new" =>
              \A i \in Items : store'[cn[c].win[i].key] \in {store[cn[c].win[i].key], Invalid}
        BY <1>3, KeysWithin, Bounds
    <2> QED  BY <1>1, <1>2, <2>1, <2>2, StillLinked
<1>5. Typed'
    BY <1>1, <1>2, <1>3 DEF IInv, Typed, Conns, Socks
<1>6. Unused(seq, store')
    <2> SUFFICES ASSUME NEW x \in seq..MaxKey PROVE store'[x] = Invalid
        BY DEF Unused
    <2>1. x \in 1..MaxKey /\ store[x] = Invalid
        BY KeysWithin, Bounds DEF IInv, Unused
    <2> QED  BY <2>1, <1>3
<1>7. \A c \in Conns' : Linked(mode', cn'[c], net'[c], store', faults', finish_warmup', time_out')
    BY <1>1, <1>4 DEF Conns
<1>8. KeysApart(mode', cn', seq') /\ Unused(seq', store')
    BY <1>1, <1>6 DEF IInv
<1>9. Warmed(mode', cn', finish_warmup', pc', locks'.warmup)
    BY <1>1 DEF IInv
<1> QED  BY <1>1, <1>5, <1>7, <1>8, <1>9 DEF IInv

-----------------------------------------------------------------------------
(* What is yet to be parsed.                                               *)

\* The rest of an answer is what is in the buffer and then what is on the way.
LEMMA RestIs ==
    ASSUME NEW k \in Links, NEW n, n[k.sock] \in Wires
    PROVE  /\ Rest(k, n) \in Seq(Pieces)
           /\ Len(Rest(k, n)) = Len(k.rbuf) + Len(n[k.sock].ans)
           /\ \A j \in 1..Len(Rest(k, n)) :
                 Rest(k, n)[j] = IF j <= Len(k.rbuf) THEN k.rbuf[j]
                                 ELSE n[k.sock].ans[j - Len(k.rbuf)]
           /\ k.rbuf = <<>> => Rest(k, n) = n[k.sock].ans
           /\ n[k.sock].ans = <<>> => Rest(k, n) = k.rbuf
           /\ Rest(k, n) = <<>> => k.rbuf = <<>> /\ n[k.sock].ans = <<>>
<1>1. k.rbuf \in Seq(Pieces) /\ n[k.sock].ans \in Seq(Pieces)
    BY LinkFields DEF Wires
<1>2. ASSUME NEW a \in Seq(Pieces), NEW b \in Seq(Pieces)
      PROVE  /\ a \o b \in Seq(Pieces) /\ Len(a \o b) = Len(a) + Len(b)
             /\ \A j \in 1..Len(a \o b) : (a \o b)[j] = IF j <= Len(a) THEN a[j] ELSE b[j - Len(a)]
             /\ a = <<>> => a \o b = b
             /\ b = <<>> => a \o b = a
             /\ a \o b = <<>> => a = <<>> /\ b = <<>>
    <2>1. /\ a \o b \in Seq(Pieces) /\ Len(a \o b) = Len(a) + Len(b)
          /\ \A j \in 1..Len(a \o b) : (a \o b)[j] = IF j <= Len(a) THEN a[j] ELSE b[j - Len(a)]
        BY ConcatProperties, SMT
    <2>2. /\ a = <<>> => a \o b = b
          /\ b = <<>> => a \o b = a
        BY ConcatEmptySeq
    <2>3. a \o b = <<>> => a = <<>> /\ b = <<>>
        BY ConcatEqualIffEmpty, SMT
    <2> QED  BY <2>1, <2>2, <2>3
<1> QED  BY <1>1, <1>2 DEF Rest

-----------------------------------------------------------------------------
(* Steps of a connection.                                                  *)

\* What is known of the connection that takes a step.
LEMMA Here ==
    ASSUME IInv, NEW c \in Conns
    PROVE  /\ mode \in Modes /\ cn \in [Conns -> Links] /\ net \in [Conns -> [Socks -> Wires]]
           /\ cn[c] \in Links /\ net[c] \in [Socks -> Wires] /\ Socks = 1..mode.socks
           /\ store \in [1..MaxKey -> Offsets] /\ faults \in Nat /\ seq \in Nat
           /\ Linked(mode, cn[c], net[c], store, faults, finish_warmup, time_out)
           /\ Busy(cn[c]) => cn[c].sock \in Socks /\ net[c][cn[c].sock] \in Wires
           /\ cn[c].remain \in -1..ExecNum
           /\ flaws = NoFlaws /\ Trusting(mode, stats) /\ locks \in Locks
<1>1. mode \in Modes /\ cn \in [Conns -> Links] /\ net \in [Conns -> [Socks -> Wires]]
      /\ store \in [1..MaxKey -> Offsets] /\ faults \in Nat /\ seq \in Nat
    BY DEF IInv, Typed
<1>2. Linked(mode, cn[c], net[c], store, faults, finish_warmup, time_out)
    BY DEF IInv
<1>3. Socks = 1..mode.socks
    BY DEF Socks
<1>4. cn[c] \in Links /\ net[c] \in [Socks -> Wires]
    BY <1>1
<1>5. Busy(cn[c]) => cn[c].sock \in Socks
    BY <1>1, <1>2, <1>3, ModeIs DEF Linked, Phases
<1>6. cn[c].remain \in -1..ExecNum
    BY <1>2 DEF Linked, Phases
<1> QED  BY <1>1, <1>2, <1>3, <1>4, <1>5, <1>6 DEF IInv

\* A command that was prepared has been sent.
LEMMA Sent ==
    ASSUME IInv, NEW c \in Conns, ms_transmit(c), net[c][cn[c].sock].up
    PROVE  IInv'
<1> DEFINE q == cn[c]
           k == [q EXCEPT !.out = FALSE, !.state = "read"]
           n == [net[c] EXCEPT ![q.sock].req = q.req]
<1>1. /\ mode \in Modes /\ cn \in [Conns -> Links] /\ net \in [Conns -> [Socks -> Wires]]
      /\ q \in Links /\ net[c] \in [Socks -> Wires] /\ Socks = 1..mode.socks
      /\ store \in [1..MaxKey -> Offsets] /\ faults \in Nat
      /\ Linked(mode, q, net[c], store, faults, finish_warmup, time_out)
      /\ q.remain \in -1..ExecNum
      /\ flaws = NoFlaws /\ Trusting(mode, stats) /\ locks \in Locks
    BY Here
<1>2. q.state = "write" /\ q.out /\ Busy(q) /\ q.sock \in Socks /\ net[c][q.sock] \in Wires
    BY Here DEF ms_transmit, Turn, Busy
<1>3. cn' = [cn EXCEPT ![c] = k] /\ net' = [net EXCEPT ![c] = n]
      /\ UNCHANGED <<mode, store, seq, locks, stats, faults, flaws, pc, finish_warmup, time_out>>
    BY <1>1, <1>2 DEF ms_transmit, Frame
<1>4. /\ k \in Links /\ k.state = "read" /\ ~k.out
      /\ k.sch = q.sch /\ k.win = q.win /\ k.set_cursor = q.set_cursor /\ k.warm = q.warm
      /\ k.remain = q.remain /\ k.task = q.task /\ k.pre = q.pre /\ k.cur = q.cur /\ k.ml = q.ml
      /\ k.vindex = q.vindex /\ k.sock = q.sock /\ k.fds = q.fds /\ k.req = q.req /\ k.rbuf = q.rbuf
      /\ k.readval = q.readval /\ k.key = q.key /\ k.id = q.id
    BY <1>1 DEF Links
<1>5. /\ n \in [Socks -> Wires] /\ n[q.sock].req = q.req /\ n[q.sock].ans = net[c][q.sock].ans
      /\ \A i \in Socks : n[i].up = net[c][i].up /\ (i # q.sock => n[i] = net[c][i])
      /\ n[q.sock] \in Wires
    BY <1>1, <1>2, LinkFields DEF Wires
<1> HIDE DEF q, k, n
<1>6. Phases(mode, k)
    BY <1>1, <1>2, <1>4 DEF Linked, Phases, Busy
<1>7. q.rbuf = <<>> /\ ~q.readval /\ \A i \in Socks : Still(net[c][i])
    BY <1>1, <1>2 DEF Linked, Wired
<1>8. Wired(mode, k, n)
    BY <1>1, <1>2, <1>4, <1>5, <1>7 DEF Linked, Wired, q
<1>9. Asks(mode, k)
    BY <1>1, <1>2, <1>4 DEF Linked, Asks, Busy, AsksSet, AsksGet, AsksGets
<1>10. Marked(mode, k)
    BY <1>1, <1>4 DEF Linked, Marked
<1>11. Rest(k, n) = <<>>
    <2>1. n[k.sock] \in Wires /\ n[k.sock].ans = <<>> /\ k.rbuf = <<>>
        BY <1>2, <1>4, <1>5, <1>7 DEF Still
    <2> QED  BY <2>1, <1>4, RestIs
<1>12. Answers(mode, k, n)
    <2>1. Len(Rest(k, n)) = 0
        BY <1>11, EmptySeq
    <2> QED  BY <2>1, <1>4, <1>5, <1>7, <1>11 DEF Answers, Chained, Answering, Valued
<1>13. Warming(mode, k, finish_warmup)
    BY <1>1, <1>2, <1>4 DEF Linked, Warming
<1>14. Tracked(mode, k, n, store)
    <2>1. ~Landed(q, net[c])
        BY <1>2 DEF Landed
    <2>2. 1..Len(Rest(k, n)) = {}
        BY <1>11, EmptySeq
    <2> QED  BY <2>1, <2>2, <1>1, <1>2, <1>4, <1>7 DEF Linked, Tracked, Live
<1>15. Plain(mode, k, n, store)
    <2>1. 1..(Len(Rest(k, n)) - 1) = {}
        BY <1>11, EmptySeq
    <2> QED  BY <2>1, <1>1, <1>2, <1>4, <1>7 DEF Linked, Plain, Live, Busy
<1>16. Paced(mode, k, n, faults, time_out)
    <2>1. k.cur.cmd = "SET" => k.req # NoRequest
        BY <1>1, <1>2, <1>4, Nothings DEF Linked, Asks
    <2>2. Valid(k) = Valid(q)
        BY <1>4 DEF Valid
    <2>3. ~q.sch
        BY <1>1, <1>2 DEF Linked, Phases
    <2> QED  BY <2>1, <2>2, <2>3, <1>1, <1>2, <1>4, <1>5 DEF Linked, Paced, Live
<1>20. Unbroken(mode, k, n, time_out)
    BY <1>1, <1>4, <1>5 DEF Linked, Unbroken
<1>17. Linked(mode, k, n, store, faults, finish_warmup, time_out)
    BY <1>6, <1>8, <1>9, <1>10, <1>12, <1>13, <1>14, <1>15, <1>16, <1>20 DEF Linked
<1>18. /\ q.state # "new" /\ k.state # "new" /\ k.warm = q.warm /\ k.remain \in -1..ExecNum
       /\ \A i \in Items : k.win[i].key = q.win[i].key
       /\ Spent(k) >= Spent(q)
    BY <1>1, <1>2, <1>4, SpentOf, Bounds DEF Spent
<1>19. /\ store' \in [1..MaxKey -> Offsets] /\ faults' \in Nat /\ faults' >= faults
       /\ \A x \in 1..MaxKey : store'[x] \in {store[x], Invalid}
       /\ locks'.warmup = locks.warmup /\ locks' \in Locks
       /\ Linked(mode, k, n, store', faults', finish_warmup, time_out)
       /\ flaws' = NoFlaws /\ Trusting(mode, stats')
    BY <1>1, <1>3, <1>17
<1> QED  BY <1>3, <1>4, <1>5, <1>18, <1>19, KeyStep DEF q

\* The connection is given up: its server has closed it and nothing of the
\* answer is left.
LEMMA Broken ==
    ASSUME IInv, Orderly, NEW c \in Conns, Busy(cn[c]), ~net[c][cn[c].sock].up,
           cn[c].state = "read" => cn[c].rbuf = <<>> /\ net[c][cn[c].sock].ans = <<>>,
           cn' = [cn EXCEPT ![c].state = "closing"],
           UNCHANGED <<mode, net, store, seq, locks, stats, faults, flaws, pc, finish_warmup,
                       time_out>>
    PROVE  IInv'
<1> DEFINE q == cn[c]
           k == [q EXCEPT !.state = "closing"]
           n == net[c]
<1>1. /\ mode \in Modes /\ cn \in [Conns -> Links] /\ net \in [Conns -> [Socks -> Wires]]
      /\ q \in Links /\ n \in [Socks -> Wires] /\ Socks = 1..mode.socks
      /\ store \in [1..MaxKey -> Offsets] /\ faults \in Nat
      /\ Linked(mode, q, n, store, faults, finish_warmup, time_out)
      /\ q.remain \in -1..ExecNum
      /\ flaws = NoFlaws /\ Trusting(mode, stats) /\ locks \in Locks
    BY Here
<1>2. Busy(q) /\ q.sock \in Socks /\ n[q.sock] \in Wires /\ ~n[q.sock].up
      /\ (q.state = "read" => q.rbuf = <<>> /\ n[q.sock].ans = <<>>)
    BY Here
<1>3. cn' = [cn EXCEPT ![c] = k]
    BY <1>1
<1>4. /\ k \in Links /\ k.state = "closing"
      /\ k.sch = q.sch /\ k.win = q.win /\ k.set_cursor = q.set_cursor /\ k.warm = q.warm
      /\ k.remain = q.remain /\ k.task = q.task /\ k.pre = q.pre /\ k.cur = q.cur /\ k.ml = q.ml
      /\ k.vindex = q.vindex /\ k.sock = q.sock /\ k.fds = q.fds /\ k.req = q.req /\ k.rbuf = q.rbuf
      /\ k.readval = q.readval /\ k.key = q.key /\ k.id = q.id /\ k.out = q.out
    BY <1>1 DEF Links
<1> HIDE DEF q, k, n
<1>5. Phases(mode, k)
    BY <1>1, <1>2, <1>4 DEF Linked, Phases, Busy
<1>6. \A i \in Socks : Still(n[i])
    BY <1>1, <1>2 DEF Linked, Wired, Still, Busy
<1>7. q.rbuf = <<>>
    BY <1>1, <1>2 DEF Linked, Wired, Busy
<1>8. q.readval => ~mode.reconnect
    <2>1. CASE q.state = "read"
        <3>1. Rest(q, n) = <<>>
            BY <1>1, <1>2, <2>1, RestIs
        <3> QED  BY <3>1, <1>1, <2>1 DEF Linked, Answers, Valued, Orderly
    <2>2. CASE q.state # "read"
        BY <2>2, <1>1, <1>2 DEF Linked, Wired, Busy
    <2> QED  BY <2>1, <2>2
<1>9. Wired(mode, k, n)
    BY <1>1, <1>4, <1>6, <1>7, <1>8 DEF Linked, Wired
<1>10. Asks(mode, k)
    BY <1>1, <1>2, <1>4 DEF Linked, Asks, Busy
<1>11. Marked(mode, k)
    BY <1>1, <1>2, <1>4 DEF Linked, Marked
<1>12. Answers(mode, k, n)
    BY <1>4 DEF Answers
<1>13. Warming(mode, k, finish_warmup)
    BY <1>1, <1>2, <1>4 DEF Linked, Warming, Busy
<1>14. Tracked(mode, k, n, store)
    BY <1>4 DEF Tracked, Live
<1>15. Plain(mode, k, n, store)
    BY <1>1, <1>2, <1>4 DEF Linked, Plain, Live, Busy
<1>16. Paced(mode, k, n, faults, time_out)
    BY <1>1, <1>2 DEF Linked, Paced
<1>17. Unbroken(mode, k, n, time_out)
    BY <1>1, <1>2 DEF Linked, Unbroken
<1>18. Linked(mode, k, n, store, faults, finish_warmup, time_out)
    BY <1>5, <1>9, <1>10, <1>11, <1>12, <1>13, <1>14, <1>15, <1>16, <1>17 DEF Linked
<1>19. /\ q.state # "new" /\ k.state # "new" /\ k.warm = q.warm /\ k.remain \in -1..ExecNum
       /\ \A i \in Items : k.win[i].key = q.win[i].key
       /\ Spent(k) >= Spent(q)
    BY <1>1, <1>2, <1>4, SpentOf, Bounds DEF Spent, Busy
<1>20. flaws' = NoFlaws /\ Trusting(mode, stats')
    BY <1>1
<1> QED  BY <1>3, <1>4, <1>18, <1>19, <1>20, LinkStep DEF q, n

\* A command cannot be sent.
LEMMA NotSent ==
    ASSUME IInv, Orderly, NEW c \in Conns, ms_transmit(c), ~net[c][cn[c].sock].up
    PROVE  IInv'
<1>1. Busy(cn[c]) /\ cn[c].state # "read"
    BY DEF ms_transmit, Turn, Busy
<1>2. /\ cn' = [cn EXCEPT ![c].state = "closing"]
      /\ UNCHANGED <<mode, net, store, seq, locks, stats, faults, flaws, pc, finish_warmup,
                     time_out>>
    BY DEF ms_transmit, Frame
<1> QED  BY <1>1, <1>2, Broken

\* The end of file of a connection.
LEMMA ReadEofInv ==
    ASSUME IInv, Orderly, NEW c \in Conns, ReadEof(c)
    PROVE  IInv'
<1>1. Busy(cn[c]) /\ ~net[c][cn[c].sock].up
      /\ cn[c].rbuf = <<>> /\ net[c][cn[c].sock].ans = <<>>
    BY DEF ReadEof, Turn, Busy, Wire
<1>2. /\ cn' = [cn EXCEPT ![c].state = "closing"]
      /\ UNCHANGED <<mode, net, store, seq, locks, stats, faults, flaws, pc, finish_warmup,
                     time_out>>
    BY DEF ReadEof, Frame
<1> QED  BY <1>1, <1>2, Broken

\* A connection closed for good has nothing on its way.
LEMMA CloseInv ==
    ASSUME IInv, NEW c \in Conns, cn[c].state = "closing", Close(c),
           UNCHANGED <<mode, store, seq, stats, faults, flaws, pc, finish_warmup, time_out>>
    PROVE  IInv'
<1> DEFINE q == cn[c]
           k == [q EXCEPT !.state = "closed", !.fds = {}]
           n == [i \in Socks |-> Quiet]
<1>1. /\ mode \in Modes /\ cn \in [Conns -> Links] /\ net \in [Conns -> [Socks -> Wires]]
      /\ q \in Links /\ Socks = 1..mode.socks
      /\ store \in [1..MaxKey -> Offsets] /\ faults \in Nat
      /\ Linked(mode, q, net[c], store, faults, finish_warmup, time_out)
      /\ q.remain \in -1..ExecNum
      /\ flaws = NoFlaws /\ Trusting(mode, stats) /\ locks \in Locks
    BY Here
<1>2. q.state = "closing" /\ ~Busy(q)
    BY DEF Busy
<1>3. cn' = [cn EXCEPT ![c] = k] /\ net' = [net EXCEPT ![c] = n] /\ locks'.warmup = locks.warmup /\ locks' \in Locks
    <2>1. cn' = [cn EXCEPT ![c] = k]
        BY <1>1 DEF Close
    <2>2. net' = [net EXCEPT ![c] = n]
        BY DEF Close
    <2>3. locks'.warmup = locks.warmup /\ locks' \in Locks
        BY <1>1 DEF Close, Locks
    <2> QED  BY <2>1, <2>2, <2>3
<1>4. /\ k \in Links /\ k.state = "closed" /\ k.fds = {}
      /\ k.sch = q.sch /\ k.win = q.win /\ k.set_cursor = q.set_cursor /\ k.warm = q.warm
      /\ k.remain = q.remain /\ k.task = q.task /\ k.pre = q.pre /\ k.cur = q.cur /\ k.ml = q.ml
      /\ k.vindex = q.vindex /\ k.sock = q.sock /\ k.req = q.req /\ k.rbuf = q.rbuf
      /\ k.readval = q.readval /\ k.key = q.key /\ k.id = q.id /\ k.out = q.out
    BY <1>1 DEF Links
<1>5. n \in [Socks -> Wires] /\ \A i \in Socks : n[i].up /\ Still(n[i])
    BY Nothings DEF Still
<1> HIDE DEF q, k, n
<1>6. Phases(mode, k)
    BY <1>1, <1>2, <1>4 DEF Linked, Phases, Busy
<1>7. Wired(mode, k, n)
    BY <1>1, <1>2, <1>4, <1>5 DEF Linked, Wired
<1>8. Asks(mode, k)
    BY <1>4 DEF Asks, Busy
<1>9. Marked(mode, k)
    BY <1>1, <1>2, <1>4 DEF Linked, Marked
<1>10. Answers(mode, k, n)
    BY <1>4 DEF Answers
<1>11. Warming(mode, k, finish_warmup)
    BY <1>1, <1>2, <1>4 DEF Linked, Warming
<1>12. Tracked(mode, k, n, store)
    BY <1>4 DEF Tracked, Live
<1>13. Plain(mode, k, n, store)
    BY <1>1, <1>2, <1>4 DEF Linked, Plain, Live
<1>14. Paced(mode, k, n, faults, time_out)
    BY <1>1, <1>4, <1>5 DEF Linked, Paced, Live
<1>15. Unbroken(mode, k, n, time_out)
    BY <1>1, <1>4, <1>5 DEF Unbroken
<1>16. Linked(mode, k, n, store, faults, finish_warmup, time_out)
    BY <1>6, <1>7, <1>8, <1>9, <1>10, <1>11, <1>12, <1>13, <1>14, <1>15 DEF Linked
<1>17. /\ q.state # "new" /\ k.state # "new" /\ k.warm = q.warm /\ k.remain \in -1..ExecNum
       /\ \A i \in Items : k.win[i].key = q.win[i].key
       /\ Spent(k) >= Spent(q)
    BY <1>1, <1>2, <1>4, SpentOf, Bounds DEF Spent
<1>18. /\ store' \in [1..MaxKey -> Offsets] /\ faults' \in Nat /\ faults' >= faults
       /\ \A x \in 1..MaxKey : store'[x] \in {store[x], Invalid}
       /\ Linked(mode, k, n, store', faults', finish_warmup, time_out)
       /\ flaws' = NoFlaws /\ Trusting(mode, stats')
    BY <1>1, <1>16
<1> QED  BY <1>3, <1>4, <1>5, <1>17, <1>18, KeyStep DEF q

\* ms_conn_close.
LEMMA ConnCloseInv ==
    ASSUME IInv, NEW c \in Conns, ms_conn_close(c)
    PROVE  IInv'
<1>1. cn[c].state = "closing" /\ Close(c)
      /\ UNCHANGED <<mode, store, seq, stats, faults, flaws, pc, finish_warmup, time_out>>
    BY DEF ms_conn_close, Turn, Frame
<1> QED  BY <1>1, CloseInv

\* ms_reset_conn.
LEMMA ResetFields ==
    ASSUME NEW q \in Links
    PROVE  LET k == ms_reset_conn(q)
           IN /\ k \in Links /\ k.state = "write" /\ ~k.out /\ k.rbuf = <<>> /\ k.pre = q.cur
              /\ k.sch = q.sch /\ k.win = q.win /\ k.set_cursor = q.set_cursor /\ k.warm = q.warm
              /\ k.remain = q.remain /\ k.task = q.task /\ k.cur = q.cur /\ k.ml = q.ml
              /\ k.vindex = q.vindex /\ k.sock = q.sock /\ k.fds = q.fds /\ k.req = q.req
              /\ k.readval = q.readval /\ k.key = q.key /\ k.id = q.id
<1>1. <<>> \in Seq(Pieces)
    BY EmptySeq
<1> QED  BY <1>1 DEF ms_reset_conn, Links

\* An operation ends without its answer: the timer of UDP, or a new socket.
LEMMA GivenUp ==
    ASSUME IInv, Orderly, NEW c \in Conns, NEW fds, fds \subseteq cn[c].fds,
           cn[c].state \in {"read", "write", "closing"},
           cn[c].state = "read" => /\ mode.udp /\ cn[c].rbuf = <<>>
                                   /\ Still(net[c][cn[c].sock]),
           cn[c].state = "closing" => mode.reconnect /\ ~time_out,
           cn[c].state = "write" => cn[c].out /\ faults' # 0,
           faults' \in Nat, faults' >= faults,
           NEW n \in [Socks -> Wires],
           \A i \in Socks : n[i] \in {net[c][i], Quiet},
           cn' = [cn EXCEPT ![c] = [ms_reset_conn(cn[c]) EXCEPT !.fds = fds]],
           net' = [net EXCEPT ![c] = n],
           UNCHANGED <<mode, store, seq, locks, stats, flaws, pc, finish_warmup, time_out>>
    PROVE  IInv'
<1> DEFINE q == cn[c]
           k == [ms_reset_conn(q) EXCEPT !.fds = fds]
<1>1. /\ mode \in Modes /\ q \in Links /\ Socks = 1..mode.socks /\ net[c] \in [Socks -> Wires]
      /\ store \in [1..MaxKey -> Offsets] /\ faults \in Nat
      /\ Linked(mode, q, net[c], store, faults, finish_warmup, time_out)
      /\ q.remain \in -1..ExecNum
      /\ flaws = NoFlaws /\ Trusting(mode, stats) /\ locks \in Locks
    BY Here
<1>2. cn' = [cn EXCEPT ![c] = k]
    OBVIOUS
<1>3. /\ k \in Links /\ k.state = "write" /\ ~k.out /\ k.rbuf = <<>> /\ k.pre = q.cur
      /\ k.sch = q.sch /\ k.win = q.win /\ k.set_cursor = q.set_cursor /\ k.warm = q.warm
      /\ k.remain = q.remain /\ k.task = q.task /\ k.cur = q.cur /\ k.ml = q.ml
      /\ k.vindex = q.vindex /\ k.sock = q.sock /\ k.fds = fds /\ k.req = q.req
      /\ k.readval = q.readval /\ k.key = q.key /\ k.id = q.id
    <2> DEFINE r == ms_reset_conn(q)
    <2>1. /\ r \in Links /\ r.state = "write" /\ ~r.out /\ r.rbuf = <<>> /\ r.pre = q.cur
          /\ r.sch = q.sch /\ r.win = q.win /\ r.set_cursor = q.set_cursor /\ r.warm = q.warm
          /\ r.remain = q.remain /\ r.task = q.task /\ r.cur = q.cur /\ r.ml = q.ml
          /\ r.vindex = q.vindex /\ r.sock = q.sock /\ r.fds = q.fds /\ r.req = q.req
          /\ r.readval = q.readval /\ r.key = q.key /\ r.id = q.id
        BY <1>1, ResetFields
    <2>2. fds \in SUBSET Nat
        BY <1>1, LinkFields
    <2>3. k = [r EXCEPT !.fds = fds]
        OBVIOUS
    <2> HIDE DEF r, q, k
    <2> QED  BY <2>1, <2>2, <2>3 DEF Links
<1>4. /\ q.state \in {"read", "write", "closing"} /\ fds \subseteq q.fds
      /\ q.state = "write" => q.out /\ faults' # 0
      /\ faults' \in Nat /\ faults' >= faults
      /\ q.state = "read" => mode.udp /\ q.rbuf = <<>> /\ Still(net[c][q.sock])
      /\ q.state = "closing" => mode.reconnect /\ ~time_out
    OBVIOUS
<1>5. q.state = "read" => q.sock \in Socks /\ net[c][q.sock] \in Wires
    BY Here DEF Busy
<1> HIDE DEF q, k
<1>6. \A i \in Socks : Still(net[c][i])
    BY <1>1, <1>4 DEF Linked, Wired
<1>7. \A i \in Socks : Still(n[i]) /\ (net[c][i].up => n[i].up)
    BY <1>6, Nothings DEF Still
<1>8. q.state = "read" => Rest(q, net[c]) = <<>>
    BY <1>1, <1>4, <1>5, RestIs DEF Still
<1>9. ~q.readval
    BY <1>1, <1>4, <1>8 DEF Linked, Wired, Answers, Valued, Orderly
<1>10. Phases(mode, k)
    BY <1>1, <1>3, <1>4 DEF Linked, Phases, Busy
<1>11. Wired(mode, k, n)
    BY <1>1, <1>3, <1>7, <1>9 DEF Wired, Still
<1>12. Asks(mode, k)
    BY <1>3 DEF Asks, Busy
<1>13. ~q.sch
    BY <1>1, <1>4 DEF Linked, Phases
<1>14. Marked(mode, k)
    BY <1>1, <1>3 DEF Linked, Marked
<1>15. Answers(mode, k, n)
    BY <1>3 DEF Answers
<1>16. Warming(mode, k, finish_warmup)
    BY <1>1, <1>3, <1>4 DEF Linked, Warming
<1>17. ~Landed(q, net[c]) \/ q.state = "closing"
    BY <1>4, <1>8 DEF Landed
<1>18. Tracked(mode, k, n, store)
    BY <1>1, <1>3, <1>4, <1>17 DEF Linked, Tracked, Live, Unbroken, Orderly
<1>19. q.remain >= 0 => q.cur.ret = "FAILURE"
    BY <1>1, <1>4 DEF Linked, Asks, Busy
<1>20. Plain(mode, k, n, store)
    BY <1>1, <1>3, <1>4, <1>19 DEF Linked, Plain, Live, Busy
<1>21. Paced(mode, k, n, faults', time_out)
    <2>1. Valid(k) = Valid(q)
        BY <1>3 DEF Valid
    <2>2. mode.sp > 0 /\ faults = 0 /\ q.state = "closing" => q.remain = -1
        BY <1>1, <1>4 DEF Linked, Paced
    <2>3. mode.sp > 0 /\ faults = 0 /\ q.state = "read" /\ q.remain >= 0 => q.cur.cmd # "SET"
        BY <1>1, <1>4, <1>8, <1>13 DEF Linked, Paced, Live, Still
    <2>4. faults' = 0 => faults = 0 /\ q.state # "write"
        BY <1>1, <1>4
    <2> QED  BY <2>1, <2>2, <2>3, <2>4, <1>1, <1>3, <1>4, <1>7 DEF Linked, Paced, Live
<1>22. Unbroken(mode, k, n, time_out)
    BY <1>1, <1>3, <1>7 DEF Linked, Unbroken
<1>23. Linked(mode, k, n, store, faults', finish_warmup, time_out)
    BY <1>10, <1>11, <1>12, <1>14, <1>15, <1>16, <1>18, <1>20, <1>21, <1>22 DEF Linked
<1>24. /\ q.state # "new" /\ k.state # "new" /\ k.warm = q.warm /\ k.remain \in -1..ExecNum
       /\ \A i \in Items : k.win[i].key = q.win[i].key
       /\ Spent(k) >= Spent(q)
    BY <1>1, <1>3, <1>4, SpentOf, Bounds DEF Spent
<1>25. /\ store' \in [1..MaxKey -> Offsets] /\ faults' \in Nat /\ faults' >= faults
       /\ \A x \in 1..MaxKey : store'[x] \in {store[x], Invalid}
       /\ locks'.warmup = locks.warmup /\ locks' \in Locks
       /\ Linked(mode, k, n, store', faults', finish_warmup, time_out)
       /\ flaws' = NoFlaws /\ Trusting(mode, stats')
    BY <1>1, <1>4, <1>23
<1> QED  BY <1>2, <1>3, <1>24, <1>25, KeyStep DEF q

\* The timer of UDP: nothing is on its way, or the command was not sent.
LEMMA TimerInv ==
    ASSUME IInv, Orderly, NEW c \in Conns, Timer(c)
    PROVE  IInv'
<1>1. /\ cn[c] \in Links /\ net[c] \in [Socks -> Wires] /\ cn \in [Conns -> Links]
      /\ net \in [Conns -> [Socks -> Wires]]
    BY Here
<1>2. /\ mode.udp /\ cn[c].state \in {"read", "write"}
      /\ cn[c].state = "read" => cn[c].rbuf = <<>> /\ Still(net[c][cn[c].sock])
      /\ cn[c].state = "write" => cn[c].out /\ faults' # 0
      /\ faults' \in Nat /\ faults' >= faults
    <2>1. faults \in Nat
        BY Here
    <2> QED  BY <2>1 DEF Timer, Turn, Orderly, Wire, Still, Fault
<1>3. ms_reset_conn(cn[c]) \in Links /\ ms_reset_conn(cn[c]).fds = cn[c].fds
    BY <1>1, ResetFields
<1>4. [ms_reset_conn(cn[c]) EXCEPT !.fds = cn[c].fds] = ms_reset_conn(cn[c])
    BY <1>3 DEF Links
<1>5. /\ cn' = [cn EXCEPT ![c] = [ms_reset_conn(cn[c]) EXCEPT !.fds = cn[c].fds]]
      /\ net' = [net EXCEPT ![c] = net[c]]
      /\ UNCHANGED <<mode, store, seq, locks, stats, flaws, pc, finish_warmup, time_out>>
    BY <1>1, <1>4 DEF Timer, Frame
<1> QED  BY <1>1, <1>2, <1>5, GivenUp

\* ms_reconn.
LEMMA ReconnInv ==
    ASSUME IInv, Orderly, NEW c \in Conns, ms_reconn(c)
    PROVE  IInv'
<1> DEFINE k == cn[c]
           left == IF mode.rep > 0 THEN k.fds \ {k.sock} ELSE k.fds
<1>1. /\ k.state = "closing" /\ mode.reconnect /\ ~time_out
      /\ UNCHANGED <<mode, store, seq, stats, unseen, faults, flaws, pc, finish_warmup, time_out>>
    BY DEF ms_reconn, Turn, Reconnects, Frame
<1>2. CASE left = {}
    <2>1. Close(c)
        BY <1>2 DEF ms_reconn
    <2> QED  BY <1>1, <2>1, CloseInv
<1>3. CASE left # {}
    <2>1. /\ cn' = [cn EXCEPT ![c] = [ms_reset_conn(cn[c]) EXCEPT !.fds = left]]
          /\ net' = [net EXCEPT ![c][k.sock] = Quiet] /\ UNCHANGED locks
        BY <1>3 DEF ms_reconn
    <2>2. net \in [Conns -> [Socks -> Wires]] /\ net[c] \in [Socks -> Wires]
        BY Here
    <2> DEFINE n == [net[c] EXCEPT ![k.sock] = Quiet]
    <2>3. n \in [Socks -> Wires] /\ net' = [net EXCEPT ![c] = n]
          /\ \A i \in Socks : n[i] \in {net[c][i], Quiet}
        BY <2>1, <2>2, Nothings
    <2>4. left \subseteq cn[c].fds
        OBVIOUS
    <2>5. faults' \in Nat /\ faults' >= faults /\ k.state # "write"
        <3>1. faults \in Nat
            BY Here
        <3> QED  BY <1>1, <3>1
    <2> HIDE DEF n, left
    <2> QED  BY <1>1, <2>1, <2>3, <2>4, <2>5, GivenUp
<1> QED  BY <1>2, <1>3

\* ms_reconn_socks.
LEMMA ReconnSocksInv ==
    ASSUME IInv, NEW c \in Conns, ms_reconn_socks(c)
    PROVE  IInv'
<1>1. PICK back \in SUBSET Socks : cn' = [cn EXCEPT ![c].fds = @ \cup back]
    BY DEF ms_reconn_socks
<1> DEFINE q == cn[c]
           k == [q EXCEPT !.fds = q.fds \cup back]
           n == net[c]
<1>2. /\ mode \in Modes /\ q \in Links /\ Socks = 1..mode.socks /\ n \in [Socks -> Wires]
      /\ Linked(mode, q, n, store, faults, finish_warmup, time_out)
      /\ q.remain \in -1..ExecNum /\ cn \in [Conns -> Links]
      /\ flaws = NoFlaws /\ Trusting(mode, stats) /\ locks \in Locks
    BY Here
<1>3. /\ UNCHANGED <<mode, net, store, seq, locks, stats, faults, flaws, pc, finish_warmup, time_out>>
      /\ q.state \in {"write", "read"}
    BY DEF ms_reconn_socks, Frame
<1>4. cn' = [cn EXCEPT ![c] = k]
    BY <1>1, <1>2
<1>5. q.fds \cup back \in SUBSET Nat
    <2>1. q.fds \subseteq Nat
        BY <1>2, LinkFields
    <2>2. back \subseteq Nat
        BY <1>2, ModeIs
    <2> QED  BY <2>1, <2>2
<1>6. /\ k \in Links /\ k.fds = q.fds \cup back /\ k.state = q.state /\ k.out = q.out
      /\ k.sch = q.sch /\ k.win = q.win /\ k.set_cursor = q.set_cursor /\ k.warm = q.warm
      /\ k.remain = q.remain /\ k.task = q.task /\ k.pre = q.pre /\ k.cur = q.cur /\ k.ml = q.ml
      /\ k.vindex = q.vindex /\ k.sock = q.sock /\ k.req = q.req /\ k.rbuf = q.rbuf
      /\ k.readval = q.readval /\ k.key = q.key /\ k.id = q.id
    BY <1>2, <1>5 DEF Links
<1> HIDE DEF q, k, n
<1>7. Phases(mode, k)
    BY <1>2, <1>6 DEF Linked, Phases, Busy
<1>8. Wired(mode, k, n)
    BY <1>2, <1>6 DEF Linked, Wired
<1>9. Asks(mode, k)
    BY <1>2, <1>6 DEF Linked, Asks, Busy, AsksSet, AsksGet, AsksGets
<1>10. Marked(mode, k)
    BY <1>2, <1>6 DEF Linked, Marked
<1>11. Rest(k, n) = Rest(q, n)
    BY <1>6 DEF Rest
<1>12. Answers(mode, k, n)
    BY <1>2, <1>6, <1>11 DEF Linked, Answers, Answering, Valued, Names
<1>13. Warming(mode, k, finish_warmup)
    BY <1>2, <1>6 DEF Linked, Warming
<1>14. Tracked(mode, k, n, store)
    BY <1>2, <1>6, <1>11 DEF Linked, Tracked, Live, Landed, HasValue
<1>15. Plain(mode, k, n, store)
    BY <1>2, <1>6, <1>11 DEF Linked, Plain, Live, Busy, SuffixOf
<1>16. Paced(mode, k, n, faults, time_out)
    BY <1>2, <1>6, <1>11 DEF Linked, Paced, Live, Valid
<1>17. Unbroken(mode, k, n, time_out)
    BY <1>2, <1>6 DEF Linked, Unbroken
<1>18. Linked(mode, k, n, store, faults, finish_warmup, time_out)
    BY <1>7, <1>8, <1>9, <1>10, <1>12, <1>13, <1>14, <1>15, <1>16, <1>17 DEF Linked
<1>19. /\ q.state # "new" /\ k.state # "new" /\ k.warm = q.warm /\ k.remain \in -1..ExecNum
       /\ \A i \in Items : k.win[i].key = q.win[i].key
       /\ Spent(k) >= Spent(q)
    BY <1>2, <1>3, <1>6, SpentOf, Bounds DEF Spent
<1>20. flaws' = NoFlaws /\ Trusting(mode, stats')
    BY <1>2, <1>3
<1> QED  BY <1>3, <1>4, <1>6, <1>18, <1>19, <1>20, LinkStep DEF q, n

-----------------------------------------------------------------------------
(* Steps of the servers and of the network.                                *)

\* A beginning of an answer, and what follows it.
LEMMA Cuts ==
    ASSUME NEW s \in Seq(Pieces), NEW e \in 0..Len(s)
    PROVE  /\ SubSeq(s, 1, e) \in Seq(Pieces) /\ Len(SubSeq(s, 1, e)) = e
           /\ \A j \in 1..e : SubSeq(s, 1, e)[j] = s[j]
           /\ SubSeq(s, e + 1, Len(s)) \in Seq(Pieces)
           /\ SubSeq(s, 1, e) \o SubSeq(s, e + 1, Len(s)) = s
           /\ e = 0 => SubSeq(s, 1, e) = <<>>
           /\ e = Len(s) => SubSeq(s, 1, e) = s /\ SubSeq(s, e + 1, Len(s)) = <<>>
<1>1. Len(s) \in Nat /\ \A j \in 1..Len(s) : s[j] \in Pieces
    BY LenProperties, ElementOfSeq
<1>2. e \in Nat /\ e <= Len(s)
    BY <1>1
<1>3. SubSeq(s, 1, e) \in Seq(Pieces) /\ Len(SubSeq(s, 1, e)) = (IF 1 <= e THEN e - 1 + 1 ELSE 0)
      /\ \A j \in 1..(e - 1 + 1) : SubSeq(s, 1, e)[j] = s[1 + j - 1]
    <2>1. \A j \in 1..e : s[j] \in Pieces
        BY <1>1, <1>2
    <2> QED  BY <2>1, <1>2, SubSeqProperties
<1>4. SubSeq(s, e + 1, Len(s)) \in Seq(Pieces)
    <2>1. \A j \in (e + 1)..Len(s) : s[j] \in Pieces
        BY <1>1, <1>2
    <2>2. e + 1 \in Int /\ Len(s) \in Int
        BY <1>1, <1>2
    <2> QED  BY <2>1, <2>2, SubSeqProperties
<1>5. SubSeq(s, 1, e) \o SubSeq(s, e + 1, Len(s)) = s
    <2>1. 1 \in 1..(Len(s) + 1) /\ e \in (1 - 1)..Len(s) /\ Len(s) \in e..Len(s)
        BY <1>1, <1>2
    <2>2. SubSeq(s, 1, e) \o SubSeq(s, e + 1, Len(s)) = SubSeq(s, 1, Len(s))
        BY <2>1, ConcatAdjacentSubSeq
    <2> QED  BY <2>2, SubSeqFull
<1>6. e = 0 => SubSeq(s, 1, e) = <<>>
    BY SubSeqEmpty
<1>7. e = Len(s) => SubSeq(s, 1, e) = s /\ SubSeq(s, e + 1, Len(s)) = <<>>
    <2>1. SubSeq(s, Len(s) + 1, Len(s)) = <<>>
        BY <1>1, SubSeqEmpty
    <2> QED  BY <2>1, SubSeqFull
<1>8. Len(SubSeq(s, 1, e)) = e
    BY <1>2, <1>3
<1>9. \A j \in 1..e : SubSeq(s, 1, e)[j] = s[j]
    <2> SUFFICES ASSUME NEW j \in 1..e PROVE SubSeq(s, 1, e)[j] = s[j]
        OBVIOUS
    <2>1. j \in 1..(e - 1 + 1) /\ 1 + j - 1 = j
        BY <1>2
    <2> QED  BY <2>1, <1>3
<1> QED  BY <1>3, <1>4, <1>5, <1>6, <1>7, <1>8, <1>9

\* A step that changes only what is on the wires and on the servers.
LEMMA WireStep ==
    ASSUME IInv, NEW c \in Conns, cn[c].state # "new", NEW n \in [Socks -> Wires],
           net' = [net EXCEPT ![c] = n], UNCHANGED <<cn, seq, locks, stats, flaws>>, Frame,
           store' \in [1..MaxKey -> Offsets], faults' \in Nat, faults' >= faults,
           \A x \in 1..MaxKey : \/ store'[x] \in {store[x], Invalid}
                                \/ \E i \in Items : x = cn[c].win[i].key,
           Wired(mode, cn[c], n), Answers(mode, cn[c], n), Tracked(mode, cn[c], n, store'),
           Plain(mode, cn[c], n, store'), Paced(mode, cn[c], n, faults', time_out),
           Unbroken(mode, cn[c], n, time_out)
    PROVE  IInv'
<1>1. /\ cn[c] \in Links /\ cn \in [Conns -> Links]
      /\ Linked(mode, cn[c], net[c], store, faults, finish_warmup, time_out)
      /\ cn[c].remain \in -1..ExecNum
      /\ flaws = NoFlaws /\ Trusting(mode, stats) /\ locks \in Locks
    BY Here
<1>2. Linked(mode, cn[c], n, store', faults', finish_warmup, time_out)
    BY <1>1 DEF Linked
<1>3. cn' = [cn EXCEPT ![c] = cn[c]]
    BY <1>1
<1>4. Spent(cn[c]) >= Spent(cn[c])
    BY <1>1, SpentOf, Bounds
<1>5. UNCHANGED <<mode, seq, pc, finish_warmup, time_out>> /\ locks'.warmup = locks.warmup /\ locks' \in Locks
      /\ flaws' = NoFlaws /\ Trusting(mode, stats')
    BY <1>1 DEF Frame
<1> QED  BY <1>1, <1>2, <1>3, <1>4, <1>5, KeyStep

\* Some of the answer has arrived.
LEMMA ReadNetworkInv ==
    ASSUME IInv, Orderly, NEW c \in Conns, ms_try_read_network(c)
    PROVE  IInv'
<1> DEFINE q == cn[c]
           w == net[c][q.sock]
<1>1. /\ mode \in Modes /\ q \in Links /\ Socks = 1..mode.socks /\ net[c] \in [Socks -> Wires]
      /\ store \in [1..MaxKey -> Offsets] /\ faults \in Nat /\ cn \in [Conns -> Links]
      /\ net \in [Conns -> [Socks -> Wires]]
      /\ Linked(mode, q, net[c], store, faults, finish_warmup, time_out)
      /\ q.remain \in -1..ExecNum
      /\ flaws = NoFlaws /\ Trusting(mode, stats) /\ locks \in Locks
    BY Here
<1>2. q.state = "read" /\ q.rbuf = <<>> /\ w.ans # <<>>
    BY DEF ms_try_read_network, Turn, Wire
<1>3. q.sock \in Socks /\ w \in Wires /\ w.ans \in Seq(Pieces)
    BY <1>2, Here DEF Busy, Wires
<1>4. Len(w.ans) \in Nat \ {0}
    BY <1>2, <1>3, EmptySeq
<1>5. PICK e \in Arrived(c) :
         /\ cn' = [cn EXCEPT ![c].rbuf = SubSeq(w.ans, 1, e)]
         /\ net' = [net EXCEPT ![c][q.sock].ans = SubSeq(@, e + 1, Len(@))]
         /\ flaws' = [flaws EXCEPT !.abort = @ \/ (mode.udp /\ w.ans[1].id # q.id)]
    BY DEF ms_try_read_network, Wire
<1>6. e \in 1..Len(w.ans) /\ (mode.udp => e = Len(w.ans))
    BY <1>4 DEF Arrived, Wire, Orderly
<1> DEFINE k == [q EXCEPT !.rbuf = SubSeq(w.ans, 1, e)]
           n == [net[c] EXCEPT ![q.sock].ans = SubSeq(w.ans, e + 1, Len(w.ans))]
<1>7. cn' = [cn EXCEPT ![c] = k] /\ net' = [net EXCEPT ![c] = n]
      /\ UNCHANGED <<mode, store, seq, locks, stats, faults, pc, finish_warmup, time_out>>
    <2>1. net' = [net EXCEPT ![c] = n]
        BY <1>1, <1>5
    <2>2. UNCHANGED <<mode, store, seq, locks, stats, faults, pc, finish_warmup, time_out>>
        BY DEF ms_try_read_network, Frame
    <2> QED  BY <1>1, <1>5, <2>1, <2>2
<1>8. /\ SubSeq(w.ans, 1, e) \in Seq(Pieces) /\ SubSeq(w.ans, e + 1, Len(w.ans)) \in Seq(Pieces)
      /\ SubSeq(w.ans, 1, e) \o SubSeq(w.ans, e + 1, Len(w.ans)) = w.ans
      /\ mode.udp => SubSeq(w.ans, e + 1, Len(w.ans)) = <<>>
    BY <1>3, <1>4, <1>6, Cuts
<1>9. /\ k \in Links /\ k.fds = q.fds /\ k.state = q.state /\ k.out = q.out
      /\ k.sch = q.sch /\ k.win = q.win /\ k.set_cursor = q.set_cursor /\ k.warm = q.warm
      /\ k.remain = q.remain /\ k.task = q.task /\ k.pre = q.pre /\ k.cur = q.cur /\ k.ml = q.ml
      /\ k.vindex = q.vindex /\ k.sock = q.sock /\ k.req = q.req
      /\ k.readval = q.readval /\ k.key = q.key /\ k.id = q.id
      /\ k.rbuf = SubSeq(w.ans, 1, e)
    BY <1>1, <1>8 DEF Links
<1>10. /\ n \in [Socks -> Wires] /\ n[q.sock].req = w.req
       /\ n[q.sock].ans = SubSeq(w.ans, e + 1, Len(w.ans))
       /\ \A i \in Socks : n[i].up = net[c][i].up /\ (i # q.sock => n[i] = net[c][i])
    BY <1>1, <1>3, <1>8 DEF Wires
<1>11. w = net[c][q.sock]
    OBVIOUS
<1> HIDE DEF q, k, n, w
<1>12. Rest(k, n) = w.ans /\ Rest(q, net[c]) = w.ans
    <2>1. Rest(k, n) = w.ans
        BY <1>8, <1>9, <1>10 DEF Rest
    <2> QED  BY <2>1, <1>1, <1>2, <1>3, <1>11, RestIs
<1>13. Phases(mode, k)
    BY <1>1, <1>9 DEF Linked, Phases, Busy
<1>14. Wired(mode, k, n)
    <2>1. Wired(mode, q, net[c])
        BY <1>1 DEF Linked
    <2>2. ASSUME NEW i \in 1..mode.socks, k.state # "read" \/ i # k.sock PROVE Still(n[i])
        <3>1. i # q.sock /\ i \in Socks /\ n[i] = net[c][i]
            BY <2>2, <1>1, <1>2, <1>9, <1>10
        <3> QED  BY <3>1, <2>1, <1>1 DEF Wired
    <2>3. ASSUME NEW i \in 1..mode.socks, ~n[i].up PROVE n[i].req = NoRequest
        <3>1. i \in Socks /\ ~net[c][i].up
            BY <2>3, <1>1, <1>10
        <3>2. net[c][i].req = NoRequest
            BY <3>1, <2>1, <1>1 DEF Wired
        <3> QED  BY <3>1, <3>2, <1>3, <1>10, <1>11
    <2>4. mode.udp => n[k.sock].ans = <<>>
        BY <1>8, <1>9, <1>10
    <2> QED  BY <2>1, <2>2, <2>3, <2>4, <1>2, <1>9 DEF Wired
<1>15. Asks(mode, k)
    BY <1>1, <1>9 DEF Linked, Asks, Busy, AsksSet, AsksGet, AsksGets
<1>16. Marked(mode, k)
    BY <1>1, <1>9 DEF Linked, Marked
<1>17. Answers(mode, k, n)
    <2>1. Answering(mode, k, w.ans)
        BY <1>1, <1>2, <1>9, <1>12 DEF Linked, Answers, Answering, Names
    <2>2. Valued(mode, k, w.ans)
        BY <1>1, <1>2, <1>9, <1>12 DEF Linked, Answers, Valued, Names
    <2>3. w.ans # <<>> /\ Chained(mode, w.ans) /\ n[k.sock].req = NoRequest
        BY <1>1, <1>2, <1>9, <1>10, <1>11, <1>12 DEF Linked, Answers
    <2> QED  BY <2>1, <2>2, <2>3, <1>12 DEF Answers
<1>18. Warming(mode, k, finish_warmup)
    BY <1>1, <1>9 DEF Linked, Warming
<1>19. Tracked(mode, k, n, store)
    BY <1>1, <1>9, <1>12 DEF Linked, Tracked, Live, Landed, HasValue
<1>20. Plain(mode, k, n, store)
    BY <1>1, <1>9, <1>12 DEF Linked, Plain, Live, Busy, SuffixOf
<1>21. Paced(mode, k, n, faults, time_out)
    BY <1>1, <1>9, <1>10, <1>11, <1>12 DEF Linked, Paced, Live, Valid
<1>22. Unbroken(mode, k, n, time_out)
    BY <1>1, <1>9, <1>10 DEF Linked, Unbroken
<1>23. Linked(mode, k, n, store, faults, finish_warmup, time_out)
    BY <1>13, <1>14, <1>15, <1>16, <1>17, <1>18, <1>19, <1>20, <1>21, <1>22 DEF Linked
<1>24. /\ q.state # "new" /\ k.state # "new" /\ k.warm = q.warm /\ k.remain \in -1..ExecNum
       /\ \A i \in Items : k.win[i].key = q.win[i].key
       /\ Spent(k) >= Spent(q)
    BY <1>1, <1>2, <1>9, SpentOf, Bounds DEF Spent
<1>25. w.ans[1].id = q.id
    BY <1>1, <1>2, <1>4, <1>12 DEF Linked, Answers, Answering
<1>26. flaws' = NoFlaws
    <2>1. flaws' = [flaws EXCEPT !.abort = @ \/ (mode.udp /\ w.ans[1].id # q.id)]
        BY <1>5 DEF w, q
    <2> QED  BY <2>1, <1>1, <1>25 DEF NoFlaws
<1>27. /\ store' \in [1..MaxKey -> Offsets] /\ faults' \in Nat /\ faults' >= faults
       /\ \A x \in 1..MaxKey : store'[x] \in {store[x], Invalid}
       /\ locks'.warmup = locks.warmup /\ locks' \in Locks
       /\ Linked(mode, k, n, store', faults', finish_warmup, time_out)
       /\ Trusting(mode, stats')
    BY <1>1, <1>7, <1>23
<1> QED  BY <1>7, <1>9, <1>10, <1>24, <1>26, <1>27, KeyStep DEF q

\* A request on the way is the one the connection waits for.
LEMMA Outstanding ==
    ASSUME IInv, NEW c \in Conns, NEW i \in Socks, net[c][i].req # NoRequest
    PROVE  /\ cn[c].state = "read" /\ Busy(cn[c]) /\ i = cn[c].sock /\ net[c][i].req = cn[c].req
           /\ cn[c].rbuf = <<>> /\ net[c][i].ans = <<>> /\ ~cn[c].readval
           /\ ~cn[c].sch /\ ~cn[c].out
           /\ cn[c].req.id = cn[c].id /\ cn[c].req.op = cn[c].cur.cmd
           /\ cn[c].cur.cmd \in {"SET", "GET"}
           /\ ~(cn[c].warm = -2 /\ cn[c].remain = ExecNum)
<1> DEFINE q == cn[c]
           n == net[c]
<1>1. /\ mode \in Modes /\ q \in Links /\ Socks = 1..mode.socks /\ n \in [Socks -> Wires]
      /\ Linked(mode, q, n, store, faults, finish_warmup, time_out)
    BY Here
<1> HIDE DEF q, n
<1>2. q.state = "read" /\ i = q.sock
    BY <1>1 DEF Linked, Wired, Still, n
<1>3. n[q.sock] \in Wires
    BY <1>1, <1>2
<1>4. n[i].req = q.req /\ Rest(q, n) = <<>> /\ ~q.readval
    BY <1>1, <1>2 DEF Linked, Answers, n
<1>5. q.rbuf = <<>> /\ n[i].ans = <<>>
    BY <1>1, <1>2, <1>3, <1>4, RestIs
<1>6. Busy(q) /\ ~q.sch /\ ~q.out /\ ~(q.warm = -2 /\ q.remain = ExecNum)
    BY <1>1, <1>2 DEF Linked, Phases, Busy, Warming
<1>7. q.req.id = q.id /\ q.req.op = q.cur.cmd /\ q.cur.cmd \in {"SET", "GET"}
    BY <1>1, <1>6 DEF Linked, Asks
<1> QED  BY <1>2, <1>4, <1>5, <1>6, <1>7 DEF q, n

\* A piece is made of what it is made of.
LEMMA PieceIs ==
    ASSUME NEW r \in Requests, NEW t \in Results \cup {"VALUE", "data"}, NEW key \in Nat,
           NEW val \in Offsets
    PROVE  /\ Piece(r, t, key, val) \in Pieces /\ Piece(r, t, key, val).t = t
           /\ Piece(r, t, key, val).id = r.id /\ Piece(r, t, key, val).key = key
           /\ Piece(r, t, key, val).val = val
BY DEF Piece, Pieces, Requests

\* The wires when the outstanding request is answered by s.
AnsweredBy(n, i, s) == [n EXCEPT ![i] = [@ EXCEPT !.req = NoRequest, !.ans = s]]
\* Only that socket changes, and it asks for nothing any more (Serve).
LEMMA Answered ==
    ASSUME IInv, NEW c \in Conns, NEW i \in Socks, net[c][i].req # NoRequest,
           NEW s \in Seq(Pieces)
    PROVE  LET n == AnsweredBy(net[c], i, s)
           IN /\ n \in [Socks -> Wires]
              /\ n[i].req = NoRequest /\ n[i].ans = s
              /\ \A j \in Socks : n[j].up = net[c][j].up /\ (j # i => n[j] = net[c][j])
              /\ Rest(cn[c], n) = s /\ Wired(mode, cn[c], n)
              /\ Unbroken(mode, cn[c], n, time_out)
<1> USE DEF AnsweredBy
<1> DEFINE n == AnsweredBy(net[c], i, s)
<1>1. /\ mode \in Modes /\ cn[c] \in Links /\ Socks = 1..mode.socks /\ net[c] \in [Socks -> Wires]
      /\ net \in [Conns -> [Socks -> Wires]]
      /\ Linked(mode, cn[c], net[c], store, faults, finish_warmup, time_out)
    BY Here
<1>2. net[c][i] \in Wires
    BY <1>1
<1>3. /\ n \in [Socks -> Wires]
      /\ n[i].req = NoRequest /\ n[i].ans = s
      /\ \A j \in Socks : n[j].up = net[c][j].up /\ (j # i => n[j] = net[c][j])
    <2>1. [net[c][i] EXCEPT !.req = NoRequest, !.ans = s] \in Wires
        BY <1>2, Nothings DEF Wires
    <2>2. n \in [Socks -> Wires]
        BY <1>1, <2>1
    <2>4. n[i] = [net[c][i] EXCEPT !.req = NoRequest, !.ans = s]
        BY <1>1
    <2>5. n[i].req = NoRequest /\ n[i].ans = s /\ n[i].up = net[c][i].up
        BY <2>4, <1>2 DEF Wires
    <2>6. \A j \in Socks : j # i => n[j] = net[c][j]
        BY <1>1
    <2> QED  BY <2>2, <2>5, <2>6
<1> HIDE DEF n, AnsweredBy
<1>4. cn[c].state = "read" /\ i = cn[c].sock /\ cn[c].rbuf = <<>> /\ ~cn[c].readval
    BY Outstanding
<1>5. Rest(cn[c], n) = s
    BY <1>1, <1>3, <1>4, RestIs
<1>6. Wired(mode, cn[c], n)
    BY <1>1, <1>3, <1>4 DEF Linked, Wired, Still
<1>7. Unbroken(mode, cn[c], n, time_out)
    BY <1>1, <1>3 DEF Linked, Unbroken
<1> QED  BY <1>3, <1>5, <1>6, <1>7 DEF n

\* The answer to a set is one line.
LEMMA OneLine ==
    ASSUME NEW m, NEW k, NEW n, k.state = "read", ~k.readval, n[k.sock].req = NoRequest,
           k.cur.cmd = "SET", NEW s \in Seq(Pieces), Rest(k, n) = s, Len(s) = 1, s # <<>>,
           s[1].t \in {"STORED", "SERVER_ERROR"}, s[1].id = k.id
    PROVE  Answers(m, k, n) /\ (\A j \in 1..Len(s) : s[j].t # "VALUE") /\ 1..(Len(s) - 1) = {}
<1>1. 1..(Len(s) - 1) = {} /\ 1..Len(s) = {1}
    OBVIOUS
<1>2. Chained(m, s)
    BY <1>1 DEF Chained
<1>3. Answering(m, k, s)
    BY <1>1 DEF Answering
<1>4. Valued(m, k, s)
    BY DEF Valued
<1> QED  BY <1>1, <1>2, <1>3, <1>4 DEF Answers

\* A server fails a set.
LEMMA ServeFailsInv ==
    ASSUME IInv, Orderly, NEW c \in Conns, NEW i \in Socks, ServeFails(c, i)
    PROVE  IInv'
<1> DEFINE q == cn[c]
           p == Piece(net[c][i].req, "SERVER_ERROR", 0, Invalid)
           s == <<p>>
           n == AnsweredBy(net[c], i, s)
<1>1. /\ mode \in Modes /\ q \in Links /\ Socks = 1..mode.socks /\ net[c] \in [Socks -> Wires]
      /\ net \in [Conns -> [Socks -> Wires]] /\ store \in [1..MaxKey -> Offsets] /\ faults \in Nat
      /\ Linked(mode, q, net[c], store, faults, finish_warmup, time_out)
    BY Here
<1>2. net[c][i].req.op = "SET" /\ net[c][i].req # NoRequest
    BY Nothings DEF ServeFails
<1>3. /\ q.state = "read" /\ i = q.sock /\ net[c][i].ans = <<>> /\ net[c][i].req = q.req
      /\ ~q.readval /\ q.req.id = q.id /\ q.cur.cmd = "SET" /\ ~q.sch
    BY <1>2, Outstanding
<1>4. p \in Pieces /\ p.t = "SERVER_ERROR" /\ p.id = q.id
    <2>1. net[c][i].req \in Requests /\ 0 \in Nat /\ Invalid \in Offsets
        BY <1>1, Bounds DEF Wires
    <2>2. "SERVER_ERROR" \in Results \cup {"VALUE", "data"}
        BY DEF Results
    <2>3. p \in Pieces /\ p.t = "SERVER_ERROR" /\ p.id = net[c][i].req.id
        BY <2>1, <2>2 DEF Piece, Pieces, Requests
    <2> QED  BY <2>3, <1>3
<1> HIDE DEF p
<1>5. s \in Seq(Pieces) /\ Len(s) = 1 /\ s[1] = p /\ s # <<>> /\ Append(<<>>, p) = s
    BY <1>4
<1> HIDE DEF s
<1>6. /\ net' = [net EXCEPT ![c] = n]
      /\ UNCHANGED <<cn, seq, locks, stats, store, flaws>> /\ Frame
      /\ faults' \in Nat /\ faults' > faults /\ faults' # 0 /\ faults' >= faults
    <2>1. net' = [net EXCEPT ![c][i].req = NoRequest, ![c][i].ans = @ \o s]
        BY DEF ServeFails, Refusal, Orderly, p, s
    <2>4. <<>> \o s = s
        BY <1>5, ConcatEmptySeq
    <2>2. net' = [net EXCEPT ![c] = n]
        BY <2>1, <2>4, <1>1, <1>3 DEF AnsweredBy
    <2>3. /\ UNCHANGED <<cn, seq, locks, stats, store, flaws>> /\ Frame
          /\ faults' \in Nat /\ faults' > faults /\ faults' # 0 /\ faults' >= faults
        BY <1>1 DEF ServeFails, Outside, Fault
    <2> QED  BY <2>2, <2>3
<1>7. /\ n \in [Socks -> Wires]
      /\ n[i].req = NoRequest /\ n[i].ans = s
      /\ Rest(q, n) = s /\ Wired(mode, q, n) /\ Unbroken(mode, q, n, time_out)
    BY <1>2, <1>5, Answered
<1> HIDE DEF q, n
<1>8. Answers(mode, q, n)
    BY <1>3, <1>4, <1>5, <1>7, OneLine
<1>13. (\A j \in 1..Len(s) : s[j].t # "VALUE") /\ 1..(Len(s) - 1) = {}
    BY <1>3, <1>4, <1>5, <1>7, OneLine
<1>9. Tracked(mode, q, n, store')
    <2>1. ~Landed(q, net[c])
        BY <1>1, <1>2, <1>3 DEF Linked, Answers, Landed
    <2> QED  BY <2>1, <1>1, <1>3, <1>6, <1>7, <1>13 DEF Linked, Tracked
<1>10. Plain(mode, q, n, store')
    BY <1>1, <1>3, <1>6, <1>7, <1>13 DEF Linked, Plain
<1>11. Paced(mode, q, n, faults', time_out)
    BY <1>6 DEF Paced
<1>12. store' \in [1..MaxKey -> Offsets] /\ \A x \in 1..MaxKey : store'[x] \in {store[x], Invalid}
    BY <1>1, <1>6
<1> QED  BY <1>3, <1>6, <1>7, <1>8, <1>9, <1>10, <1>11, <1>12, WireStep DEF q

\* A server stores the value of a set.
LEMMA ServeSet ==
    ASSUME IInv, NEW c \in Conns, NEW i \in Socks, Serve(c, i), net[c][i].req.op = "SET"
    PROVE  IInv'
<1> DEFINE q == cn[c]
           r == net[c][i].req
           x == q.win[q.task.item].key
           p == Piece(r, "STORED", 0, Invalid)
           s == <<p>>
           n == AnsweredBy(net[c], i, s)
<1>1. /\ mode \in Modes /\ q \in Links /\ Socks = 1..mode.socks /\ net[c] \in [Socks -> Wires]
      /\ net \in [Conns -> [Socks -> Wires]] /\ store \in [1..MaxKey -> Offsets] /\ faults \in Nat
      /\ Linked(mode, q, net[c], store, faults, finish_warmup, time_out)
    BY Here
<1>2. r.op = "SET" /\ r # NoRequest
    BY Nothings
<1>3. /\ q.state = "read" /\ i = q.sock /\ net[c][i].ans = <<>> /\ r = q.req /\ Busy(q)
      /\ ~q.readval /\ q.req.id = q.id /\ q.cur.cmd = "SET" /\ ~q.sch /\ ~q.out
      /\ ~(q.warm = -2 /\ q.remain = ExecNum)
    BY <1>2, Outstanding
<1>4. p \in Pieces /\ p.t = "STORED" /\ p.id = q.id
    <2>1. r \in Requests /\ 0 \in Nat /\ Invalid \in Offsets
        BY <1>1, Bounds DEF Wires
    <2>2. "STORED" \in Results \cup {"VALUE", "data"}
        BY DEF Results
    <2>3. p \in Pieces /\ p.t = "STORED" /\ p.id = r.id
        BY <2>1, <2>2 DEF Piece, Pieces, Requests
    <2> QED  BY <2>3, <1>3
<1> HIDE DEF p
<1>5. s \in Seq(Pieces) /\ Len(s) = 1 /\ s[1] = p /\ s # <<>> /\ Append(<<>>, p) = s
    BY <1>4
<1> HIDE DEF s
<1>6. /\ net' = [net EXCEPT ![c] = n] /\ store' = [store EXCEPT ![r.keys[1]] = r.val]
      /\ UNCHANGED <<cn, seq, locks, stats, faults, flaws>> /\ Frame
    <2>1. net' = [net EXCEPT ![c][i].req = NoRequest, ![c][i].ans = Append(@, p)]
        BY <1>2 DEF Serve, p
    <2>2. net' = [net EXCEPT ![c] = n]
        <3>1. Append(net[c][i].ans, p) = s
            BY <1>3, <1>5
        <3> QED  BY <2>1, <3>1, <1>1 DEF AnsweredBy
    <2>3. /\ store' = [store EXCEPT ![r.keys[1]] = r.val]
          /\ UNCHANGED <<cn, seq, locks, stats, faults, flaws>> /\ Frame
        BY <1>2 DEF Serve, Outside
    <2> QED  BY <2>2, <2>3
<1>7. /\ n \in [Socks -> Wires]
      /\ n[i].req = NoRequest /\ n[i].ans = s
      /\ \A j \in Socks : n[j].up = net[c][j].up
      /\ Rest(q, n) = s /\ Wired(mode, q, n) /\ Unbroken(mode, q, n, time_out)
    BY <1>2, <1>5, Answered
<1>8. /\ q.task.item \in Items /\ x \in 1..MaxKey /\ q.win[q.task.item].sfx \in Nat
      /\ q.win[q.task.item].off \in Offsets
      /\ \A j \in Items : j # q.task.item => q.win[j].key # x
    <2>1. q.task.item \in Items
        BY <1>1, TaskFields
    <2>2. x \in 1..MaxKey
        <3>1. seq \in 1..(MaxKey + 1) /\ \A j \in Items : q.win[j].key \in 1..(seq - 1)
            BY <1>3, KeysWithin
        <3>2. \A M \in Nat : \A z \in 1..(M + 1) : \A y \in 1..(z - 1) : y \in 1..M
            OBVIOUS
        <3>3. MaxKey \in Nat
            BY Bounds
        <3> QED  BY <3>1, <3>2, <3>3, <2>1
    <2>3. mode.conns \in {1, 2} /\ c \in 1..mode.conns
        BY <1>1, ModeIs
    <2>4. \A j \in Items : j # q.task.item => q.win[j].key # x
        BY <2>1, <2>3, <1>3 DEF IInv, KeysApart
    <2> QED  BY <2>1, <2>2, <2>4, <1>1, ItemFields
<1>9. r.keys[1] = x /\ r.val = IF q.win[q.task.item].off = Invalid THEN q.win[q.task.item].sfx
                               ELSE q.win[q.task.item].off
    BY <1>1, <1>3 DEF Linked, Asks, AsksSet
<1> HIDE DEF q, n, r, x
<1>10. /\ store' \in [1..MaxKey -> Offsets] /\ store'[x] = r.val
       /\ \A y \in 1..MaxKey : y # x => store'[y] = store[y]
    BY <1>1, <1>6, <1>8, <1>9, Bounds
<1>11. \A j \in Items : q.win[j].key \in 1..MaxKey
    BY <1>3, KeysWithin, Bounds DEF q
<1>12. \A j \in Items : j # q.task.item => store'[q.win[j].key] = store[q.win[j].key]
    BY <1>8, <1>10, <1>11
<1>13. /\ Answers(mode, q, n) /\ (\A j \in 1..Len(s) : s[j].t # "VALUE") /\ 1..(Len(s) - 1) = {}
    BY <1>3, <1>4, <1>5, <1>7, OneLine
<1>14. Landed(q, n)
    BY <1>3, <1>4, <1>5, <1>7 DEF Landed
<1>15. Tracked(mode, q, n, store')
    <2>1. ~Landed(q, net[c])
        BY <1>1, <1>2, <1>3 DEF Linked, Answers, Landed, r
    <2> QED  BY <2>1, <1>1, <1>3, <1>7, <1>12, <1>13, <1>14 DEF Linked, Tracked
<1>16. Plain(mode, q, n, store')
    <2>1. ASSUME mode.ow = 0, NEW j \in Items
          PROVE  store'[q.win[j].key] \in {Invalid, q.win[j].sfx}
        <3>1. CASE j = q.task.item
            BY <3>1, <2>1, <1>1, <1>3, <1>9, <1>10 DEF Linked, Plain, x
        <3>2. CASE j # q.task.item
            BY <3>2, <2>1, <1>1, <1>3, <1>12 DEF Linked, Plain
        <3> QED  BY <3>1, <3>2
    <2> QED  BY <2>1, <1>1, <1>3, <1>7, <1>13 DEF Linked, Plain
<1>17. Paced(mode, q, n, faults', time_out)
    BY <1>1, <1>3, <1>4, <1>5, <1>6, <1>7 DEF Linked, Paced
<1>18. /\ faults' \in Nat /\ faults' >= faults
       /\ \A y \in 1..MaxKey : \/ store'[y] \in {store[y], Invalid}
                               \/ \E j \in Items : y = q.win[j].key
    BY <1>1, <1>6, <1>8, <1>10 DEF x
<1> QED  BY <1>3, <1>6, <1>7, <1>10, <1>13, <1>15, <1>16, <1>17, <1>18, WireStep DEF q

\* Values found for the request r, each with its data.
Hitting(r, s) ==
    \A j \in 1..Len(s) :
        /\ s[j].id = r.id /\ s[j].t \in {"VALUE", "data"}
        /\ s[j].t = "VALUE" => /\ j < Len(s) /\ s[j + 1].t = "data"
                               /\ \E i \in 1..Len(r.keys) : s[j].key = r.keys[i]
                               /\ s[j + 1].val = store[s[j].key] /\ store[s[j].key] # Invalid
        /\ s[j].t = "data" => j > 1 /\ s[j - 1].t = "VALUE"

\* No values are values found.
LEMMA NoHit ==
    ASSUME NEW r
    PROVE  <<>> \in Seq(Pieces) /\ Hitting(r, <<>>)
BY EmptySeq DEF Hitting

\* The values a server finds for one key: the header and its data.
LEMMA HitIs ==
    ASSUME NEW r \in Requests, NEW i \in 1..Len(r.keys), r.keys[i] \in Nat,
           store[r.keys[i]] \in Offsets, store[r.keys[i]] # Invalid
    PROVE  LET s == Hit(r, r.keys[i])
           IN /\ s \in Seq(Pieces) /\ Hitting(r, s) /\ Len(s) = 2
              /\ s[1].t = "VALUE" /\ s[2].t = "data"
<1> DEFINE key == r.keys[i]
           p == Piece(r, "VALUE", key, Invalid)
           d == Piece(r, "data", key, store[key])
           s == <<p, d>>
<1>1. /\ p \in Pieces /\ p.t = "VALUE" /\ p.id = r.id /\ p.key = key
      /\ d \in Pieces /\ d.t = "data" /\ d.id = r.id /\ d.val = store[key]
    <2>1. "VALUE" \in Results \cup {"VALUE", "data"} /\ "data" \in Results \cup {"VALUE", "data"}
        OBVIOUS
    <2>2. p \in Pieces /\ p.t = "VALUE" /\ p.id = r.id /\ p.key = key
        <3>1. Invalid \in Offsets /\ key \in Nat
            BY Bounds
        <3> HIDE DEF key
        <3> QED  BY <2>1, <3>1 DEF Piece, Pieces, Requests
    <2>3. d \in Pieces /\ d.t = "data" /\ d.id = r.id /\ d.val = store[key]
        <3>1. key \in Nat /\ store[key] \in Offsets
            OBVIOUS
        <3> HIDE DEF key
        <3> QED  BY <2>1, <3>1 DEF Piece, Pieces, Requests
    <2> QED  BY <2>2, <2>3
<1> HIDE DEF p, d
<1>2. s \in Seq(Pieces) /\ Len(s) = 2 /\ s[1] = p /\ s[2] = d
    BY <1>1
<1>3. Hit(r, key) = s
    BY DEF Hit, p, d
<1> HIDE DEF s
<1>4. Hitting(r, s)
    BY <1>1, <1>2 DEF Hitting
<1> QED  BY <1>1, <1>2, <1>3, <1>4

\* The values found for two keys follow each other.
LEMMA HitsJoin ==
    ASSUME NEW r, NEW a \in Seq(Pieces), NEW b \in Seq(Pieces), Hitting(r, a), Hitting(r, b)
    PROVE  a \o b \in Seq(Pieces) /\ Hitting(r, a \o b)
<1> DEFINE s == a \o b
<1>1. /\ s \in Seq(Pieces) /\ Len(s) = Len(a) + Len(b)
      /\ \A j \in 1..Len(s) : s[j] = IF j <= Len(a) THEN a[j] ELSE b[j - Len(a)]
    BY ConcatProperties, SMT
<1>2. Len(a) \in Nat /\ Len(b) \in Nat
    BY LenProperties
<1> HIDE DEF s
<1>3. ASSUME NEW j \in 1..Len(s)
      PROVE  /\ s[j].id = r.id /\ s[j].t \in {"VALUE", "data"}
             /\ s[j].t = "VALUE" => /\ j < Len(s) /\ s[j + 1].t = "data"
                                    /\ \E i \in 1..Len(r.keys) : s[j].key = r.keys[i]
                                    /\ s[j + 1].val = store[s[j].key] /\ store[s[j].key] # Invalid
             /\ s[j].t = "data" => j > 1 /\ s[j - 1].t = "VALUE"
    <2>1. CASE j <= Len(a)
        <3>1. j \in 1..Len(a) /\ s[j] = a[j]
            BY <2>1, <1>1, <1>2
        <3>2. j > 1 => s[j - 1] = a[j - 1]
            BY <3>1, <1>1, <1>2
        <3>3. j < Len(a) => s[j + 1] = a[j + 1] /\ j < Len(s)
            BY <3>1, <1>1, <1>2
        <3> QED  BY <3>1, <3>2, <3>3 DEF Hitting
    <2>2. CASE j > Len(a)
        <3> DEFINE e == j - Len(a)
        <3>1. e \in 1..Len(b) /\ s[j] = b[e] /\ (e > 1 => j > 1 /\ s[j - 1] = b[e - 1])
              /\ (e < Len(b) => s[j + 1] = b[e + 1] /\ j < Len(s))
            BY <2>2, <1>1, <1>2
        <3> HIDE DEF e
        <3> QED  BY <3>1 DEF Hitting
    <2> QED  BY <2>1, <2>2, <1>2
<1>4. Hitting(r, s)
    BY <1>3 DEF Hitting
<1> QED  BY <1>1, <1>4 DEF s

\* The answer to a get of one or two keys.
LEMMA GetAnswerIs ==
    ASSUME mode \in Modes, ~mode.text, NEW r \in Requests, Len(r.keys) \in {1, 2},
           mode.binary => Len(r.keys) = 1,
           store \in [1..MaxKey -> Offsets],
           \A i \in 1..Len(r.keys) : r.keys[i] \in 1..MaxKey
    PROVE  LET s == GetAnswer(r)
           IN /\ s \in Seq(Pieces) /\ s # <<>> /\ s[1].t # "data" /\ Chained(mode, s)
              /\ \A j \in 1..Len(s) :
                    /\ s[j].id = r.id /\ s[j].t \notin {"STORED", "SERVER_ERROR"}
                    /\ s[j].t = "VALUE" =>
                          /\ j < Len(s) /\ \E i \in 1..Len(r.keys) : s[j].key = r.keys[i]
                          /\ s[j + 1].val = store[s[j].key] /\ store[s[j].key] # Invalid
<1> DEFINE part(j) == IF store[r.keys[j]] # Invalid THEN Hit(r, r.keys[j])
                      ELSE IF mode.binary THEN <<Piece(r, "NOT_FOUND", 0, Invalid)>> ELSE <<>>
<1>1. Hits(r) = IF Len(r.keys) = 1 THEN part(1) ELSE part(1) \o part(2)
    <2>1. Miss(r) = IF mode.binary THEN <<Piece(r, "NOT_FOUND", 0, Invalid)>> ELSE <<>>
        BY DEF Miss
    <2> QED  BY <2>1 DEF Hits
<1>2. \A i \in 1..Len(r.keys) : r.keys[i] \in Nat /\ store[r.keys[i]] \in Offsets
    BY Bounds
<1>3. CASE mode.binary
    <2>1. Len(r.keys) = 1 /\ 1 \in 1..Len(r.keys)
        <3>1. Len(r.keys) = 1
            BY <1>3, Zenon
        <3> QED  BY <3>1
    <2>2. CASE store[r.keys[1]] # Invalid
        <3> DEFINE s == Hit(r, r.keys[1])
        <3>1. GetAnswer(r) = s
            BY <1>1, <1>3, <2>1, <2>2 DEF GetAnswer
        <3>2. s \in Seq(Pieces) /\ Hitting(r, s) /\ Len(s) = 2 /\ s[1].t = "VALUE" /\ s[2].t = "data"
            BY <1>2, <2>1, <2>2, HitIs
        <3> HIDE DEF s
        <3>3. Chained(mode, s)
            <4>1. 1..(Len(s) - 1) = {1}
                BY <3>2
            <4> QED  BY <3>2, <4>1 DEF Chained
        <3>4. s # <<>>
            <4>1. Len(<<>>) = 0
                OBVIOUS
            <4>2. Len(s) # 0
                <5>1. Len(s) = 2
                    BY <3>2, Zenon
                <5> QED  BY <5>1
            <4> QED  BY <4>1, <4>2, Zenon
        <3> QED  BY <3>1, <3>2, <3>3, <3>4 DEF Hitting
    <2>3. CASE store[r.keys[1]] = Invalid
        <3> DEFINE p == Piece(r, "NOT_FOUND", 0, Invalid)
                   s == <<p>>
        <3>1. GetAnswer(r) = s
            BY <1>1, <1>3, <2>1, <2>3 DEF GetAnswer
        <3>2. p \in Pieces /\ p.t = "NOT_FOUND" /\ p.id = r.id
            BY Bounds, PieceIs DEF Results
        <3> HIDE DEF p
        <3>3. s \in Seq(Pieces) /\ Len(s) = 1 /\ s[1] = p /\ s # <<>>
            BY <3>2
        <3> HIDE DEF s
        <3>4. 1..(Len(s) - 1) = {} /\ 1..Len(s) = {1}
            BY <3>3
        <3>5. Chained(mode, s)
            BY <3>4 DEF Chained
        <3> QED  BY <3>1, <3>2, <3>3, <3>4, <3>5
    <2> QED  BY <2>2, <2>3
<1>4. CASE ~mode.binary
    <2>1. ASSUME NEW i \in 1..Len(r.keys)
          PROVE  part(i) \in Seq(Pieces) /\ Hitting(r, part(i))
        <3>1. CASE store[r.keys[i]] # Invalid
            BY <3>1, <1>2, HitIs
        <3>2. CASE store[r.keys[i]] = Invalid
            BY <3>2, <1>4, NoHit
        <3> QED  BY <3>1, <3>2
    <2> DEFINE h == Hits(r)
    <2>2. h \in Seq(Pieces) /\ Hitting(r, h)
        <3> HIDE DEF part
        <3>1. CASE Len(r.keys) = 1
            BY <3>1, <2>1, <1>1
        <3>2. CASE Len(r.keys) = 2
            <4>1. part(1) \in Seq(Pieces) /\ Hitting(r, part(1))
                  /\ part(2) \in Seq(Pieces) /\ Hitting(r, part(2))
                BY <3>2, <2>1
            <4>2. h = part(1) \o part(2)
                BY <3>2, <1>1
            <4> QED  BY <4>1, <4>2, HitsJoin
        <3> QED  BY <3>1, <3>2
    <2> DEFINE p == Piece(r, "END", 0, Invalid)
               s == Append(h, p)
    <2>3. GetAnswer(r) = s
        BY <1>4 DEF GetAnswer
    <2>4. p \in Pieces /\ p.t = "END" /\ p.id = r.id
        BY Bounds, PieceIs DEF Results
    <2> HIDE DEF h, p
    <2>5. s \in Seq(Pieces) /\ s # <<>> /\ Len(s) = Len(h) + 1 /\ s[Len(h) + 1] = p
          /\ \A j \in 1..Len(h) : s[j] = h[j]
        BY <2>2, <2>4, AppendProperties
    <2>6. Len(h) \in Nat
        BY <2>2, LenProperties
    <2> HIDE DEF s
    <2>7. ASSUME NEW j \in 1..Len(h)
          PROVE  /\ j \in 1..Len(s) /\ s[j] = h[j] /\ (j > 1 => s[j - 1] = h[j - 1])
                 /\ (j < Len(h) => s[j + 1] = h[j + 1]) /\ j < Len(s)
        BY <2>5, <2>6
    <2>8. Chained(mode, s)
        <3> SUFFICES ASSUME NEW j \in 1..(Len(s) - 1)
                     PROVE  /\ s[j].t \in {"VALUE", "data"} /\ (s[j].t = "data" => ~mode.binary)
                            /\ s[j].t = "VALUE" <=> s[j + 1].t = "data"
            BY DEF Chained
        <3>1. j \in 1..Len(h)
            BY <2>5, <2>6
        <3>2. s[j].t \in {"VALUE", "data"} /\ (s[j].t = "VALUE" => s[j + 1].t = "data")
            BY <3>1, <2>2, <2>7 DEF Hitting
        <3>3. s[j + 1].t = "data" => s[j].t = "VALUE"
            <4>1. CASE j = Len(h)
                BY <4>1, <2>4, <2>5
            <4>2. CASE j # Len(h)
                <5>1. j + 1 \in 1..Len(h) /\ j + 1 - 1 = j /\ s[j + 1] = h[j + 1] /\ s[j] = h[j]
                    BY <4>2, <3>1, <2>6, <2>7
                <5> QED  BY <5>1, <2>2 DEF Hitting
            <4> QED  BY <4>1, <4>2
        <3> QED  BY <3>2, <3>3, <1>4
    <2>9. s[1].t # "data"
        <3>1. CASE Len(h) = 0
            BY <3>1, <2>4, <2>5
        <3>2. CASE Len(h) > 0
            <4>1. 1 \in 1..Len(h) /\ s[1] = h[1]
                BY <3>2, <2>6, <2>7
            <4> QED  BY <4>1, <2>2 DEF Hitting
        <3> QED  BY <3>1, <3>2, <2>6
    <2>10. ASSUME NEW j \in 1..Len(s)
           PROVE  /\ s[j].id = r.id /\ s[j].t \notin {"STORED", "SERVER_ERROR"}
                  /\ s[j].t = "VALUE" =>
                        /\ j < Len(s) /\ \E i \in 1..Len(r.keys) : s[j].key = r.keys[i]
                        /\ s[j + 1].val = store[s[j].key] /\ store[s[j].key] # Invalid
        <3>1. CASE j = Len(h) + 1
            BY <3>1, <2>4, <2>5
        <3>2. CASE j # Len(h) + 1
            <4>1. j \in 1..Len(h)
                BY <3>2, <2>5, <2>6
            <4> QED  BY <4>1, <2>2, <2>7 DEF Hitting
        <3> QED  BY <3>1, <3>2
    <2> QED  BY <2>3, <2>5, <2>8, <2>9, <2>10
<1> QED  BY <1>3, <1>4

\* A server answers a get.
LEMMA ServeGet ==
    ASSUME IInv, Orderly, NEW c \in Conns, NEW i \in Socks, Serve(c, i), net[c][i].req.op = "GET"
    PROVE  IInv'
<1> DEFINE q == cn[c]
           r == net[c][i].req
           s == GetAnswer(r)
           n == AnsweredBy(net[c], i, s)
<1>1. /\ mode \in Modes /\ q \in Links /\ Socks = 1..mode.socks /\ net[c] \in [Socks -> Wires]
      /\ net \in [Conns -> [Socks -> Wires]] /\ store \in [1..MaxKey -> Offsets] /\ faults \in Nat
      /\ Linked(mode, q, net[c], store, faults, finish_warmup, time_out)
    BY Here
<1>2. r.op = "GET" /\ r # NoRequest
    BY Nothings
<1>3. /\ q.state = "read" /\ i = q.sock /\ net[c][i].ans = <<>> /\ r = q.req /\ Busy(q)
      /\ ~q.readval /\ q.req.id = q.id /\ q.cur.cmd = "GET" /\ ~q.sch /\ ~q.out
    BY <1>2, Outstanding
<1>4. \A j \in Items : q.win[j].key \in 1..MaxKey
    BY <1>3, KeysWithin, Bounds
<1>5. r \in Requests /\ r.id = q.id
    BY <1>1, <1>3 DEF Wires
<1>6. Len(r.keys) \in {1, 2} /\ (mode.binary => Len(r.keys) = 1)
      /\ \A j \in 1..Len(r.keys) : r.keys[j] \in 1..MaxKey
    <2>1. CASE mode.ml = 1
        <3>1. r.keys = <<q.win[q.task.item].key>> /\ q.task.item \in Items
            BY <2>1, <1>1, <1>3, TaskFields DEF Linked, Asks, AsksGet
        <3> DEFINE x == q.win[q.task.item].key
        <3>2. x \in 1..MaxKey /\ r.keys = <<x>>
            BY <3>1, <1>4
        <3> HIDE DEF x
        <3>3. Len(r.keys) = 1 /\ r.keys[1] = x
            BY <3>2
        <3> QED  BY <3>2, <3>3
    <2>2. CASE mode.ml # 1
        <3>1. mode.ml = 2 /\ ~mode.binary
            BY <2>2, <1>1, ModeIs DEF Orderly
        <3>2. AsksGets(mode, q) /\ Len(q.ml) <= 2
            BY <3>1, <1>1, <1>3 DEF Linked, Asks, Marked
        <3>3. q.ml \in Seq(Marks) /\ Len(q.ml) \in Nat
            BY <1>1, LinkFields, LenProperties
        <3>4. q.ml # <<>>
            BY <3>1, <3>2, <3>3, EmptySeq DEF AsksGets
        <3>5. Len(q.ml) \in {1, 2}
            <4>1. Len(q.ml) # 0
                BY <3>3, <3>4, EmptySeq
            <4>2. Len(q.ml) <= 2
                BY <3>2
            <4>3. \A z \in Nat : z # 0 /\ z <= 2 => z \in {1, 2}
                OBVIOUS
            <4> QED  BY <3>3, <4>1, <4>2, <4>3
        <3>6. \A j \in 1..Len(q.ml) : q.ml[j].item \in Items
            <4>1. \A j \in 1..Len(q.ml) : q.ml[j] \in Marks
                BY <3>3, ElementOfSeq
            <4> QED  BY <4>1 DEF Marks
        <3>7. ASSUME NEW j \in 1..Len(r.keys) PROVE r.keys[j] \in 1..MaxKey
            <4>1. j \in 1..Len(q.ml) /\ r.keys[j] = q.win[q.ml[j].item].key
                BY <1>3, <3>2 DEF AsksGets
            <4>2. q.ml[j].item \in Items
                BY <3>6, <4>1
            <4> QED  BY <1>4, <4>1, <4>2
        <3> QED  BY <1>3, <3>1, <3>2, <3>5, <3>7 DEF AsksGets
    <2> QED  BY <2>1, <2>2
<1>7. /\ s \in Seq(Pieces) /\ s # <<>> /\ s[1].t # "data" /\ Chained(mode, s)
      /\ \A j \in 1..Len(s) :
            /\ s[j].id = r.id /\ s[j].t \notin {"STORED", "SERVER_ERROR"}
            /\ s[j].t = "VALUE" =>
                  /\ j < Len(s) /\ \E e \in 1..Len(r.keys) : s[j].key = r.keys[e]
                  /\ s[j + 1].val = store[s[j].key] /\ store[s[j].key] # Invalid
    <2> HIDE DEF r
    <2> QED  BY <1>1, <1>5, <1>6, GetAnswerIs DEF Orderly
<1> HIDE DEF s
<1>8. /\ net' = [net EXCEPT ![c] = n]
      /\ UNCHANGED <<cn, store, seq, locks, stats, faults, flaws>> /\ Frame
    <2>1. net' = [net EXCEPT ![c][i].req = NoRequest, ![c][i].ans = @ \o s]
        BY <1>2 DEF Serve, s
    <2>2. <<>> \o s = s
        BY <1>7, ConcatEmptySeq
    <2>3. net' = [net EXCEPT ![c] = n]
        BY <2>1, <2>2, <1>1, <1>3 DEF AnsweredBy
    <2>4. UNCHANGED <<cn, store, seq, locks, stats, faults, flaws>> /\ Frame
        BY <1>2 DEF Serve, Outside
    <2> QED  BY <2>3, <2>4
<1>9. /\ n \in [Socks -> Wires]
      /\ n[i].req = NoRequest /\ n[i].ans = s
      /\ \A j \in Socks : n[j].up = net[c][j].up
      /\ Rest(q, n) = s /\ Wired(mode, q, n) /\ Unbroken(mode, q, n, time_out)
    BY <1>2, <1>7, Answered
<1>10. r = net[c][i].req
    OBVIOUS
<1> HIDE DEF q, n, r
<1>11. Answers(mode, q, n)
    <2>1. Answering(mode, q, s)
        BY <1>3, <1>5, <1>7 DEF Answering, Names
    <2>2. Valued(mode, q, s)
        BY <1>3, <1>7 DEF Valued
    <2> QED  BY <2>1, <2>2, <1>3, <1>7, <1>9 DEF Answers
<1>12. Tracked(mode, q, n, store')
    <2>1. ~Landed(q, net[c])
        BY <1>3 DEF Landed
    <2>2. ASSUME mode.ml > 1, mode.verify > 0, Live(q), NEW j \in 1..Len(s), s[j].t = "VALUE"
          PROVE  HasValue(q, s[j].key)
        <3>1. store[s[j].key] # Invalid
            BY <2>2, <1>7
        <3>2. \A e \in Items : q.win[e].off = Invalid => store[q.win[e].key] = Invalid
            BY <2>1, <2>2, <1>1 DEF Linked, Tracked
        <3> QED  BY <3>1, <3>2 DEF HasValue
    <2>3. \A e \in Items : q.win[e].off = Invalid /\ store'[q.win[e].key] # Invalid =>
              ~(mode.ml > 1 /\ mode.verify > 0 /\ Live(q))
        BY <2>1, <1>1, <1>8 DEF Linked, Tracked
    <2> QED  BY <2>2, <2>3, <1>3, <1>9 DEF Tracked
<1>13. Plain(mode, q, n, store')
    <2>1. ASSUME mode.ow = 0, NEW j \in 1..(Len(s) - 1), s[j].t = "VALUE"
          PROVE  SuffixOf(q, s[j].key, s[j + 1].val)
        <3>1. j \in 1..Len(s)
            BY <1>7, LenProperties
        <3>2. s[j + 1].val = store[s[j].key] /\ store[s[j].key] # Invalid
            BY <3>1, <2>1, <1>7
        <3>3. \A e \in Items : store[q.win[e].key] \in {Invalid, q.win[e].sfx}
            BY <2>1, <1>1, <1>3 DEF Linked, Plain
        <3> QED  BY <3>2, <3>3 DEF SuffixOf
    <2> QED  BY <2>1, <1>1, <1>3, <1>8, <1>9 DEF Linked, Plain
<1>14. Paced(mode, q, n, faults', time_out)
    BY <1>1, <1>3, <1>8, <1>9 DEF Linked, Paced
<1>15. /\ faults' \in Nat /\ faults' >= faults /\ store' \in [1..MaxKey -> Offsets]
       /\ \A y \in 1..MaxKey : store'[y] \in {store[y], Invalid}
    BY <1>1, <1>8
<1> QED  BY <1>3, <1>8, <1>9, <1>11, <1>12, <1>13, <1>14, <1>15, WireStep DEF q

\* A fault of the network: the request is lost, or the end of the answer.
LEMMA Shortened ==
    ASSUME IInv, Orderly, NEW c \in Conns, NEW i \in Socks, cn[c].state # "new",
           mode.faults \cap {"drop", "lose"} # {},
           NEW w \in Wires, w.req = NoRequest, w.up = net[c][i].up \/ "drop" \in mode.faults,
           NEW e \in 0..Len(net[c][i].ans), w.ans = SubSeq(net[c][i].ans, 1, e),
           "cut" \notin mode.faults /\ i = cn[c].sock =>
               \/ e = Len(net[c][i].ans)
               \/ e = 0 /\ ~cn[c].readval /\ cn[c].rbuf = <<>>,
           net' = [net EXCEPT ![c] = [@ EXCEPT ![i] = w]],
           faults' \in Nat, faults' > faults,
           UNCHANGED <<cn, store, seq, locks, stats, flaws>>, Frame
    PROVE  IInv'
<1> DEFINE q == cn[c]
           a == net[c][i].ans
           n == [net[c] EXCEPT ![i] = w]
<1>1. /\ mode \in Modes /\ q \in Links /\ Socks = 1..mode.socks /\ net[c] \in [Socks -> Wires]
      /\ net \in [Conns -> [Socks -> Wires]] /\ store \in [1..MaxKey -> Offsets] /\ faults \in Nat
      /\ Linked(mode, q, net[c], store, faults, finish_warmup, time_out)
    BY Here
<1>2. n \in [Socks -> Wires] /\ n[i] = w /\ (\A j \in Socks : j # i => n[j] = net[c][j])
      /\ net' = [net EXCEPT ![c] = n]
    BY <1>1
<1>3. a \in Seq(Pieces) /\ Len(a) \in Nat /\ e \in 0..Len(a)
    BY <1>1, LenProperties DEF Wires
<1>4. /\ w.ans \in Seq(Pieces) /\ Len(w.ans) = e /\ (\A j \in 1..e : w.ans[j] = a[j])
      /\ e = 0 => w.ans = <<>>
      /\ e = Len(a) => w.ans = a
    BY <1>3, Cuts
<1>5. a = <<>> => w.ans = <<>>
    BY <1>3, <1>4, EmptySeq
<1>6. /\ q.state # "new"
      /\ "cut" \notin mode.faults /\ i = q.sock => e = Len(a) \/ (e = 0 /\ ~q.readval /\ q.rbuf = <<>>)
    OBVIOUS
<1>7. a = net[c][i].ans
    OBVIOUS
<1> HIDE DEF q, a, n
<1>8. Wired(mode, q, n)
    <2>1. Wired(mode, q, net[c])
        BY <1>1 DEF Linked
    <2>2. \A j \in Socks : Still(net[c][j]) => Still(n[j])
        BY <1>2, <1>5, <1>7 DEF Still
    <2>3. \A j \in Socks : net[c][j].ans = <<>> => n[j].ans = <<>>
        BY <1>2, <1>5, <1>7
    <2>4. w.up => net[c][i].up \/ w.req = NoRequest
        OBVIOUS
    <2>5. \A j \in Socks : ~n[j].up => n[j].req = NoRequest
        <3> SUFFICES ASSUME NEW j \in Socks, ~n[j].up PROVE n[j].req = NoRequest
            OBVIOUS
        <3>1. CASE j = i
            BY <3>1, <1>2
        <3>2. CASE j # i
            BY <3>2, <2>1, <1>1, <1>2 DEF Wired
        <3> QED  BY <3>1, <3>2
    <2>6. q.state = "read" => q.sock \in Socks
        BY <1>1, ModeIs DEF Linked, Phases, Busy
    <2> QED  BY <2>1, <2>2, <2>3, <2>5, <2>6, <1>1 DEF Wired
<1>9. faults' # 0 /\ ~(mode.ml > 1 /\ mode.verify > 0)
    BY <1>1 DEF Orderly
<1>10. Answers(mode, q, n)
       /\ (q.state = "read" => /\ Len(Rest(q, n)) \in Nat
                               /\ Len(Rest(q, n)) <= Len(Rest(q, net[c]))
                               /\ Len(Rest(q, net[c])) \in Nat
                               /\ \A j \in 1..Len(Rest(q, n)) : Rest(q, n)[j] = Rest(q, net[c])[j])
    <2> SUFFICES ASSUME q.state = "read"
                 PROVE  /\ Answers(mode, q, n)
                        /\ Len(Rest(q, n)) \in Nat
                        /\ Len(Rest(q, n)) <= Len(Rest(q, net[c]))
                        /\ Len(Rest(q, net[c])) \in Nat
                        /\ \A j \in 1..Len(Rest(q, n)) : Rest(q, n)[j] = Rest(q, net[c])[j]
        BY DEF Answers
    <2>1. q.sock \in Socks
        BY <1>1, ModeIs DEF Linked, Phases, Busy
    <2>2. CASE i # q.sock
        <3>1. n[q.sock] = net[c][q.sock] /\ Rest(q, n) = Rest(q, net[c])
            BY <2>1, <2>2, <1>2 DEF Rest
        <3>2. Len(Rest(q, net[c])) \in Nat
            BY <2>1, <1>1, RestIs, LenProperties
        <3> QED  BY <3>1, <3>2, <1>1 DEF Linked, Answers
    <2>3. CASE i = q.sock
        <3> DEFINE rest == Rest(q, net[c])
                   short == Rest(q, n)
                   b == q.rbuf
        <3>1. /\ rest \in Seq(Pieces) /\ Len(rest) = Len(b) + Len(a)
              /\ \A j \in 1..Len(rest) : rest[j] = IF j <= Len(b) THEN b[j] ELSE a[j - Len(b)]
              /\ rest = <<>> => b = <<>> /\ a = <<>>
            BY <2>1, <2>3, <1>1, <1>7, RestIs
        <3>2. /\ short \in Seq(Pieces) /\ Len(short) = Len(b) + e
              /\ \A j \in 1..Len(short) : short[j] = IF j <= Len(b) THEN b[j] ELSE w.ans[j - Len(b)]
              /\ b = <<>> => short = w.ans
            <4>1. n[q.sock] = w /\ n[q.sock] \in Wires /\ Len(w.ans) = e
                BY <2>3, <1>2, <1>4
            <4> QED  BY <4>1, <1>1, RestIs
        <3>3. Len(b) \in Nat /\ b \in Seq(Pieces)
            BY <1>1, LinkFields, LenProperties
        <3>4. e = Len(a) => short = rest
            BY <1>2, <1>4, <1>7, <2>3 DEF Rest
        <3>5. Answering(mode, q, rest) /\ Chained(mode, rest) /\ Valued(mode, q, rest)
            BY <1>1 DEF Linked, Answers
        <3>6. n[q.sock].req = NoRequest
            BY <1>2, <2>3
        <3> HIDE DEF rest, short, b
        <3>7. Len(short) \in Nat /\ Len(short) <= Len(rest) /\ Len(rest) \in Nat
            BY <3>1, <3>2, <3>3, <1>3
        <3>8. \A j \in 1..Len(short) : short[j] = rest[j]
            <4> SUFFICES ASSUME NEW j \in 1..Len(short) PROVE short[j] = rest[j]
                OBVIOUS
            <4>1. j \in 1..Len(rest) /\ j \in Nat
                BY <3>7
            <4>2. CASE j <= Len(b)
                BY <4>1, <4>2, <3>1, <3>2
            <4>3. CASE ~(j <= Len(b))
                <5>1. j - Len(b) \in 1..e
                    BY <4>1, <4>3, <3>2, <3>3, <1>3
                <5>2. w.ans[j - Len(b)] = a[j - Len(b)]
                    BY <5>1, <1>4
                <5> QED  BY <5>2, <4>1, <4>3, <3>1, <3>2
            <4> QED  BY <4>2, <4>3
        <3>9. Chained(mode, short)
            <4> SUFFICES ASSUME NEW j \in 1..(Len(short) - 1)
                         PROVE  /\ short[j].t \in {"VALUE", "data"}
                                /\ (short[j].t = "data" => ~mode.binary)
                                /\ short[j].t = "VALUE" <=> short[j + 1].t = "data"
                BY DEF Chained
            <4>1. j \in 1..(Len(rest) - 1) /\ short[j] = rest[j] /\ short[j + 1] = rest[j + 1]
                BY <3>7, <3>8
            <4> QED  BY <4>1, <3>5 DEF Chained
        <3>10. CASE "cut" \notin mode.faults
            <4>1. CASE e = Len(a)
                BY <4>1, <3>4, <3>5, <3>6, <3>7, <3>8, <1>1 DEF Linked, Answers, rest, short
            <4>2. CASE e # Len(a)
                <5>1. e = 0 /\ ~q.readval /\ short = <<>>
                    BY <4>2, <3>10, <1>4, <1>6, <2>3, <3>2 DEF b
                <5>2. Len(short) = 0
                    BY <5>1, EmptySeq
                <5>3. Answering(mode, q, short) /\ Valued(mode, q, short)
                    BY <5>1, <5>2 DEF Answering, Valued
                <5> QED  BY <5>1, <5>3, <3>6, <3>7, <3>8, <3>9 DEF Answers, short, rest
            <4> QED  BY <4>1, <4>2
        <3>11. CASE "cut" \in mode.faults
            <4>1. Answering(mode, q, short)
                <5> SUFFICES ASSUME NEW j \in 1..Len(short)
                             PROVE  /\ short[j].id = q.id
                                    /\ short[j].t \in {"STORED", "SERVER_ERROR"} <=> q.cur.cmd = "SET"
                                    /\ short[j].t = "VALUE" => Names(q, short[j].key)
                    BY <3>11 DEF Answering
                <5>1. j \in 1..Len(rest) /\ short[j] = rest[j]
                    BY <3>7, <3>8
                <5> QED  BY <5>1, <3>5 DEF Answering
            <4>2. short # <<>> => rest # <<>> /\ short[1] = rest[1]
                <5> SUFFICES ASSUME short # <<>> PROVE rest # <<>> /\ short[1] = rest[1]
                    OBVIOUS
                <5>1. Len(short) \in Nat \ {0}
                    BY <3>2, EmptySeq
                <5>2. 1 \in 1..Len(short) /\ Len(rest) # 0
                    BY <5>1, <3>7
                <5> QED  BY <5>2, <3>8, EmptySeq
            <4>3. Valued(mode, q, short)
                BY <4>2, <3>5, <3>11 DEF Valued
            <4>4. n[q.sock].req \in {NoRequest, q.req}
                BY <3>6
            <4> QED  BY <4>1, <4>3, <4>4, <3>6, <3>7, <3>8, <3>9 DEF Answers, short, rest
        <3> QED  BY <3>10, <3>11
    <2> QED  BY <2>2, <2>3
<1>11. Tracked(mode, q, n, store')
    BY <1>9 DEF Tracked
<1>12. Plain(mode, q, n, store')
    <2> SUFFICES ASSUME mode.ow = 0 PROVE Plain(mode, q, n, store')
        BY DEF Plain
    <2>1. ASSUME q.state = "read", NEW j \in 1..(Len(Rest(q, n)) - 1), Rest(q, n)[j].t = "VALUE"
          PROVE  SuffixOf(q, Rest(q, n)[j].key, Rest(q, n)[j + 1].val)
        <3>1. j \in 1..Len(Rest(q, n)) /\ j + 1 \in 1..Len(Rest(q, n))
              /\ j \in 1..(Len(Rest(q, net[c])) - 1)
            BY <2>1, <1>10
        <3>2. Rest(q, n)[j] = Rest(q, net[c])[j] /\ Rest(q, n)[j + 1] = Rest(q, net[c])[j + 1]
            BY <3>1, <2>1, <1>10
        <3> QED  BY <2>1, <3>1, <3>2, <1>1 DEF Linked, Plain
    <2>2. ASSUME q.state = "read", q.readval, Rest(q, n) # <<>>
          PROVE  Rest(q, net[c]) # <<>> /\ Rest(q, n)[1] = Rest(q, net[c])[1]
        <3>1. q.sock \in Socks /\ n[q.sock] \in Wires
            BY <2>2, <1>1, <1>2, ModeIs DEF Linked, Phases, Busy
        <3>2. Rest(q, n) \in Seq(Pieces)
            BY <3>1, <1>1, RestIs
        <3>3. Len(Rest(q, n)) # 0
            BY <2>2, <3>2, EmptySeq
        <3>4. 1 \in 1..Len(Rest(q, n)) /\ Len(Rest(q, net[c])) # 0
            BY <3>3, <2>2, <1>10
        <3> QED  BY <3>4, <2>2, <1>10, EmptySeq
    <2> QED  BY <2>1, <2>2, <1>1, <1>6 DEF Linked, Plain
<1>13. Paced(mode, q, n, faults', time_out)
    BY <1>9 DEF Paced
<1>14. Unbroken(mode, q, n, time_out)
    BY <1>1, <1>2 DEF Linked, Unbroken
<1>15. faults' >= faults /\ \A x \in 1..MaxKey : store'[x] \in {store[x], Invalid}
    BY <1>1
<1> QED  BY <1>1, <1>2, <1>6, <1>8, <1>10, <1>11, <1>12, <1>13, <1>14, <1>15, WireStep DEF q

\* A server closes the connection.
LEMMA DropInv ==
    ASSUME IInv, Orderly, NEW c \in Conns, NEW i \in Socks, Drop(c, i)
    PROVE  IInv'
<1> DEFINE a == net[c][i].ans
<1>1. net[c] \in [Socks -> Wires] /\ net \in [Conns -> [Socks -> Wires]] /\ faults \in Nat
      /\ net[c][i] \in Wires
    BY Here
<1>2. PICK e \in Arrives(c, a) :
          net' = [net EXCEPT ![c][i] = [req |-> NoRequest, ans |-> SubSeq(a, 1, e), up |-> FALSE]]
    BY DEF Drop
<1>3. a \in Seq(Pieces) /\ Len(a) \in Nat
    BY <1>1, LenProperties DEF Wires
<1>4. e \in 0..Len(a) /\ ("cut" \notin mode.faults =>
          e = Len(a) \/ (e = 0 /\ ~cn[c].readval /\ cn[c].rbuf = <<>>))
    BY <1>2, <1>3 DEF Arrives
<1> DEFINE w == [req |-> NoRequest, ans |-> SubSeq(a, 1, e), up |-> FALSE]
<1>5. w \in Wires /\ w.req = NoRequest /\ w.ans = SubSeq(a, 1, e) /\ w.up = FALSE
    BY <1>3, <1>4, Cuts, Nothings DEF Wires
<1>6. net' = [net EXCEPT ![c] = [@ EXCEPT ![i] = w]]
    BY <1>2
<1>7. /\ "drop" \in mode.faults /\ faults' = faults + 1 /\ cn[c].state # "new"
      /\ UNCHANGED <<cn, store, seq, locks, stats, flaws>> /\ Frame
    BY DEF Drop, Fault, Outside
<1>8. mode.faults \cap {"drop", "lose"} # {} /\ faults' \in Nat /\ faults' > faults
    BY <1>1, <1>7
<1>9. e \in 0..Len(net[c][i].ans) /\ w.ans = SubSeq(net[c][i].ans, 1, e)
      /\ ("cut" \notin mode.faults /\ i = cn[c].sock =>
             e = Len(net[c][i].ans) \/ (e = 0 /\ ~cn[c].readval /\ cn[c].rbuf = <<>>))
    BY <1>4, <1>5
<1> HIDE DEF w, a
<1> QED  BY <1>5, <1>6, <1>7, <1>8, <1>9, Shortened

\* A datagram is lost.
LEMMA LoseInv ==
    ASSUME IInv, Orderly, NEW c \in Conns, NEW i \in Socks, Lose(c, i)
    PROVE  IInv'
<1> DEFINE a == net[c][i].ans
<1>1. /\ mode \in Modes /\ cn[c] \in Links
      /\ net[c] \in [Socks -> Wires] /\ net \in [Conns -> [Socks -> Wires]] /\ faults \in Nat
      /\ net[c][i] \in Wires /\ Wired(mode, cn[c], net[c]) /\ Socks = 1..mode.socks
    BY Here DEF Linked
<1>2. a \in Seq(Pieces) /\ Len(a) \in Nat
    BY <1>1, LenProperties DEF Wires
<1>3. /\ "lose" \in mode.faults /\ faults' = faults + 1
      /\ UNCHANGED <<cn, store, seq, locks, stats, flaws>> /\ Frame
    BY DEF Lose, Fault, Outside
<1>4. mode.udp /\ "cut" \notin mode.faults
    BY <1>3 DEF Orderly
<1>5. mode.faults \cap {"drop", "lose"} # {} /\ faults' \in Nat /\ faults' > faults
    BY <1>1, <1>3
<1>6. CASE net[c][i].req # NoRequest /\ net' = [net EXCEPT ![c][i].req = NoRequest]
    <2> DEFINE w == [net[c][i] EXCEPT !.req = NoRequest]
    <2>1. w \in Wires /\ w.req = NoRequest /\ w.ans = a /\ w.up = net[c][i].up
        BY <1>1, Nothings DEF Wires
    <2>2. net' = [net EXCEPT ![c] = [@ EXCEPT ![i] = w]]
        BY <1>1, <1>6
    <2>3. Len(a) \in 0..Len(a) /\ w.ans = SubSeq(a, 1, Len(a))
        BY <1>2, <2>1, Cuts
    <2>4. cn[c].state # "new"
        BY <1>6, Outstanding
    <2> HIDE DEF w
    <2>5. /\ Len(a) \in 0..Len(net[c][i].ans) /\ w.ans = SubSeq(net[c][i].ans, 1, Len(a))
          /\ Len(a) = Len(net[c][i].ans)
        BY <2>3
    <2> HIDE DEF a
    <2> QED  BY <1>3, <1>5, <2>1, <2>2, <2>4, <2>5, Shortened
<1>7. CASE /\ a # <<>> /\ cn[c].rbuf = <<>>
           /\ \E keep \in IF "cut" \in mode.faults THEN 0..(Len(a) - 1) ELSE {0} :
                 net' = [net EXCEPT ![c][i].ans = SubSeq(@, 1, keep)]
    <2>1. net' = [net EXCEPT ![c][i].ans = SubSeq(@, 1, 0)]
        BY <1>4, <1>7
    <2> DEFINE w == [net[c][i] EXCEPT !.ans = SubSeq(a, 1, 0)]
    <2>2. 0 \in 0..Len(a)
        BY <1>2
    <2>3. SubSeq(a, 1, 0) \in Seq(Pieces)
        BY <1>2, <2>2, Cuts
    <2>4. cn[c].state = "read" /\ i = cn[c].sock
        BY <1>1, <1>7 DEF Wired, Still
    <2>5. ~cn[c].readval
        BY <1>1, <1>4, <1>7, <2>4 DEF Wired
    <2>6. net[c][i].req = NoRequest
        BY <1>7, Outstanding
    <2>7. w \in Wires /\ w.req = NoRequest /\ w.ans = SubSeq(a, 1, 0) /\ w.up = net[c][i].up
        BY <1>1, <2>3, <2>6 DEF Wires
    <2>8. net' = [net EXCEPT ![c] = [@ EXCEPT ![i] = w]]
        BY <1>1, <2>1
    <2>9. 0 \in 0..Len(net[c][i].ans) /\ w.ans = SubSeq(net[c][i].ans, 1, 0)
        BY <2>2, <2>7
    <2> HIDE DEF w, a
    <2> QED  BY <1>3, <1>5, <1>7, <2>4, <2>5, <2>7, <2>8, <2>9, Shortened
<1> QED  BY <1>6, <1>7 DEF Lose

-----------------------------------------------------------------------------
(* Preparing a command, and the warm-up.                                   *)

\* The item after the cursor is an item, and so are those to get.
LEMMA NextItems ==
    ASSUME NEW cursor \in Nat
    PROVE  /\ ms_get_next_set_item(cursor) \in Items
           /\ ms_get_next_get_item(cursor) \subseteq Items
<1>1. \A x \in Nat, y \in Nat \ {0} : x % y \in 0..(y - 1)
    OBVIOUS
<1>2. cursor % WinSize \in 0..(WinSize - 1)
    BY <1>1, Bounds
<1>3. ms_get_next_set_item(cursor) \in Items
    BY <1>2, Bounds DEF ms_get_next_set_item, Items
<1>4. ms_get_next_get_item(cursor) \subseteq Items
    BY Bounds DEF ms_get_next_get_item, Items
<1> QED  BY <1>3, <1>4

\* A command goes to a socket of the connection.
LEMMA SockIs ==
    ASSUME mode \in Modes, NEW b \in Links, b.fds \subseteq Socks, NEW cmd,
           NEW i \in ms_update_conn_sock_event(b, cmd)
    PROVE  i \in Socks
<1>1. b.sock \in Nat /\ mode.socks \in {1, 2} /\ Socks = 1..mode.socks
    BY LinkFields, ModeIs
<1>2. CASE b.sock = 0 \/ mode.socks = 1
    BY <1>1, <1>2 DEF ms_update_conn_sock_event
<1>3. CASE b.sock # 0 /\ mode.socks # 1 /\ mode.rep = 0
    <2>1. mode.socks = 2 /\ b.sock % 2 \in 0..1
        BY <1>1, <1>3
    <2>2. i = (b.sock % 2) + 1
        BY <2>1, <1>3 DEF ms_update_conn_sock_event, ms_get_next_sock_index
    <2> QED  BY <2>1, <2>2, <1>1
<1>4. CASE b.sock # 0 /\ mode.socks # 1 /\ mode.rep # 0
    <2>1. i \in ms_get_rep_sock_index(b, cmd)
        BY <1>4, <1>1 DEF ms_update_conn_sock_event
    <2> QED  BY <2>1 DEF ms_get_rep_sock_index
<1> QED  BY <1>2, <1>3, <1>4

\* What a prepared command changes.
LEMMA PrepareIs ==
    ASSUME mode \in Modes, NEW b \in Links, b.fds \subseteq Socks, NEW cmd \in {"SET", "GET"},
           NEW keys \in Seq(Nat), NEW val \in Offsets, NEW k \in Prepare(b, cmd, keys, val)
    PROVE  /\ k \in Links /\ k.cur.cmd = cmd /\ k.cur.ret = "FAILURE" /\ k.sock \in Socks
           /\ k.out /\ ~k.sch /\ k.id = b.id + 1
           /\ k.req.op = cmd /\ k.req.keys = keys /\ k.req.val = val /\ k.req.id = k.id
           /\ k.state = b.state /\ k.win = b.win /\ k.set_cursor = b.set_cursor
           /\ k.warm = b.warm /\ k.remain = b.remain /\ k.task = b.task /\ k.pre = b.pre
           /\ k.ml = b.ml /\ k.vindex = b.vindex /\ k.fds = b.fds /\ k.rbuf = b.rbuf
           /\ k.readval = b.readval /\ k.key = b.key
<1>1. PICK i \in ms_update_conn_sock_event(b, cmd) :
          k = [b EXCEPT !.cur = [cmd |-> cmd, ret |-> "FAILURE"], !.sock = i, !.out = TRUE,
                        !.sch = FALSE, !.id = @ + 1,
                        !.req = [op |-> cmd, keys |-> keys, val |-> val, id |-> b.id + 1]]
    BY DEF Prepare
<1>2. i \in Socks
    BY SockIs
<1>3. i \in Nat /\ b.id + 1 \in Nat
    BY <1>2, LinkFields DEF Socks
<1>4. [cmd |-> cmd, ret |-> "FAILURE"] \in Commands
    BY DEF Commands
<1>5. [op |-> cmd, keys |-> keys, val |-> val, id |-> b.id + 1] \in Requests
    BY <1>3 DEF Requests
<1> QED  BY <1>1, <1>2, <1>3, <1>4, <1>5 DEF Links

\* What the result of a set of the warm-up changes.
LEMMA WarmResultIs ==
    ASSUME NEW q \in Links
    PROVE  LET r == WarmResult(q)
           IN /\ r \in Links /\ r.state = q.state /\ r.sch = q.sch /\ r.warm = q.warm
              /\ r.remain = q.remain /\ r.task = q.task /\ r.pre = q.pre /\ r.cur = q.cur
              /\ r.ml = q.ml /\ r.vindex = q.vindex /\ r.sock = q.sock /\ r.fds = q.fds
              /\ r.req = q.req /\ r.out = q.out /\ r.rbuf = q.rbuf /\ r.readval = q.readval
              /\ r.key = q.key /\ r.id = q.id
              /\ \A i \in Items : /\ r.win[i].key = q.win[i].key /\ r.win[i].sfx = q.win[i].sfx
                                  /\ r.win[i].off \in {q.win[i].off, q.win[i].sfx}
              /\ q.warm = WarmupNum => r = q
              /\ q.warm # WarmupNum /\ q.pre.cmd = "SET" /\ q.pre.ret = "STORED" =>
                    r.win[q.task.item].off = q.win[q.task.item].sfx
              /\ \A i \in Items : i # q.task.item => r.win[i] = q.win[i]
              /\ ~(q.pre.cmd = "SET" /\ q.pre.ret = "STORED") => r = q
<1>1. q.pre \in Commands /\ q.win \in [Items -> Objects] /\ q.task.item \in Items
      /\ q.set_cursor \in Nat
    BY LinkFields, TaskFields
<1>2. q.pre = [cmd |-> "SET", ret |-> "STORED"] <=> q.pre.cmd = "SET" /\ q.pre.ret = "STORED"
    BY <1>1 DEF Commands
<1>3. CASE ~(q.warm # WarmupNum /\ q.pre = [cmd |-> "SET", ret |-> "STORED"])
    BY <1>2, <1>3 DEF WarmResult
<1>4. CASE q.warm # WarmupNum /\ q.pre = [cmd |-> "SET", ret |-> "STORED"]
    <2> DEFINE i == q.task.item
               win == [q.win EXCEPT ![i] = [@ EXCEPT !.off = q.win[i].sfx]]
               r == [q EXCEPT !.win = win, !.set_cursor = @ + 1]
    <2>1. WarmResult(q) = r
        BY <1>4 DEF WarmResult
    <2>2. \A j \in Items : q.win[j] \in Objects /\ q.win[j].key \in Nat /\ q.win[j].sfx \in Nat
                           /\ q.win[j].off \in Offsets
        BY <1>1 DEF Objects
    <2>3. [q.win[i] EXCEPT !.off = q.win[i].sfx] \in Objects
        BY <1>1, <2>2, Bounds DEF Objects
    <2>4. win \in [Items -> Objects]
        BY <1>1, <2>3
    <2>5. /\ \A j \in Items : j # i => win[j] = q.win[j]
          /\ win[i].key = q.win[i].key /\ win[i].sfx = q.win[i].sfx
          /\ win[i].off = q.win[i].sfx
        BY <1>1, <2>2 DEF Objects
    <2> HIDE DEF win
    <2>6. q.set_cursor + 1 \in Nat
        BY <1>1
    <2>7. /\ r \in Links /\ r.state = q.state /\ r.sch = q.sch /\ r.warm = q.warm
          /\ r.remain = q.remain /\ r.task = q.task /\ r.pre = q.pre /\ r.cur = q.cur
          /\ r.ml = q.ml /\ r.vindex = q.vindex /\ r.sock = q.sock /\ r.fds = q.fds
          /\ r.req = q.req /\ r.out = q.out /\ r.rbuf = q.rbuf /\ r.readval = q.readval
          /\ r.key = q.key /\ r.id = q.id /\ r.win = win
        BY <2>4, <2>6 DEF Links
    <2> HIDE DEF r
    <2> QED  BY <1>1, <1>2, <1>4, <2>1, <2>5, <2>7
<1> QED  BY <1>3, <1>4

\* An idle connection before the tasks begin: after the result of its last set
\* every item that is on the servers has its value.
LEMMA WarmIdle ==
    ASSUME IInv, NEW c \in Conns, Idle(c), ~finish_warmup
    PROVE  LET q == cn[c]
               r == WarmResult(q)
           IN /\ q.state = "write" /\ ~q.out /\ ~q.sch /\ q.remain = ExecNum /\ ~q.readval
              /\ q.rbuf = <<>> /\ (mode.sp # 0 => r = q)
              /\ mode.ml > 1 /\ mode.verify > 0 =>
                    \A i \in Items : r.win[i].off = Invalid => store[r.win[i].key] = Invalid
              /\ mode.ow = 0 => \A i \in Items : /\ r.win[i].off \in {Invalid, r.win[i].sfx}
                                                 /\ store[r.win[i].key] \in {Invalid, r.win[i].sfx}
              /\ \A i \in Socks : Still(net[c][i]) /\ (~net[c][i].up => net[c][i].req = NoRequest)
<1> DEFINE q == cn[c]
           r == WarmResult(q)
<1>1. /\ mode \in Modes /\ q \in Links /\ Socks = 1..mode.socks
      /\ Linked(mode, q, net[c], store, faults, finish_warmup, time_out)
    BY Here
<1>2. q.state = "write" /\ ~q.out /\ ~q.sch
    BY DEF Idle, Turn
<1>3. /\ r.win = r.win
      /\ \A i \in Items : /\ r.win[i].key = q.win[i].key /\ r.win[i].sfx = q.win[i].sfx
                          /\ r.win[i].off \in {q.win[i].off, q.win[i].sfx}
      /\ q.warm = WarmupNum => r = q
      /\ q.warm # WarmupNum /\ q.pre.cmd = "SET" /\ q.pre.ret = "STORED" =>
            r.win[q.task.item].off = q.win[q.task.item].sfx
      /\ \A i \in Items : i # q.task.item => r.win[i] = q.win[i]
      /\ ~(q.pre.cmd = "SET" /\ q.pre.ret = "STORED") => r = q
    BY <1>1, WarmResultIs
<1> HIDE DEF q, r
<1>4. q.remain = ExecNum /\ q.pre = q.cur /\ q.rbuf = <<>> /\ ~q.readval
    BY <1>1, <1>2 DEF Linked, Warming, Phases, Wired
<1>5. mode.sp # 0 => r = q
    <2>1. mode.sp # 0 => q.cur.cmd = "NULL"
        BY <1>1, <1>2, <1>4, Nothings DEF Linked, Warming
    <2> QED  BY <2>1, <1>3, <1>4
<1>6. ASSUME mode.ml > 1, mode.verify > 0, NEW i \in Items, r.win[i].off = Invalid
      PROVE  store[r.win[i].key] = Invalid
    <2>1. q.win[i].off = Invalid
        BY <1>6, <1>1, <1>3, ItemFields, Bounds
    <2>2. r.win[i].key = q.win[i].key
        BY <1>3
    <2> SUFFICES ASSUME store[q.win[i].key] # Invalid PROVE FALSE
        BY <2>2
    <2>3. Live(q)
        BY <1>2, <1>4, Bounds DEF Live
    <2>4. Landed(q, net[c]) /\ q.task.item = i
        BY <2>1, <2>3, <1>1, <1>6 DEF Linked, Tracked
    <2>5. q.pre.cmd = "SET" /\ q.pre.ret = "STORED"
        BY <2>4, <1>2, <1>4 DEF Landed
    <2>6. q.warm # WarmupNum
        <3>1. q.warm < WinSize
            BY <2>5, <1>1, <1>2, <1>4 DEF Linked, Warming
        <3>2. mode.sp = 0
            BY <2>5, <1>1, <1>4, Nothings DEF Linked, Warming
        <3> QED  BY <3>1, <3>2, Bounds DEF WarmupNum
    <2>7. r.win[i].off = q.win[i].sfx
        BY <2>4, <2>5, <2>6, <1>3
    <2> QED  BY <2>7, <1>6, <1>1, ItemFields, Bounds
<1>7. mode.ow = 0 => \A i \in Items : /\ r.win[i].off \in {Invalid, r.win[i].sfx}
                                      /\ store[r.win[i].key] \in {Invalid, r.win[i].sfx}
    BY <1>1, <1>2, <1>3 DEF Linked, Plain
<1>8. \A i \in Socks : Still(net[c][i]) /\ (~net[c][i].up => net[c][i].req = NoRequest)
    BY <1>1, <1>2 DEF Linked, Wired
<1> QED  BY <1>2, <1>4, <1>5, <1>6, <1>7, <1>8 DEF q, r

\* A connection sends the next set of its warm-up.
LEMMA WarmupInv ==
    ASSUME IInv, NEW c \in Conns, ms_warmup_server(c)
    PROVE  IInv'
<1> DEFINE q == cn[c]
           r == WarmResult(q)
           b == WarmTask(r)
<1>1. /\ mode \in Modes /\ q \in Links /\ Socks = 1..mode.socks /\ net[c] \in [Socks -> Wires]
      /\ store \in [1..MaxKey -> Offsets] /\ faults \in Nat /\ seq \in Nat
      /\ cn \in [Conns -> Links] /\ net \in [Conns -> [Socks -> Wires]]
      /\ Linked(mode, q, net[c], store, faults, finish_warmup, time_out)
      /\ flaws = NoFlaws /\ Trusting(mode, stats) /\ locks \in Locks
    BY Here
<1>2. PICK k \in ms_mcd_set(b) : cn' = [cn EXCEPT ![c] = k]
    BY DEF ms_warmup_server
<1>3. ~finish_warmup /\ q.warm > 0 /\ Idle(c)
      /\ UNCHANGED <<net, store, seq, locks, stats, faults, flaws>> /\ Frame
    BY DEF ms_warmup_server
<1>4. /\ q.state = "write" /\ ~q.out /\ ~q.sch /\ q.remain = ExecNum /\ ~q.readval
      /\ q.rbuf = <<>>
      /\ mode.ml > 1 /\ mode.verify > 0 =>
            \A i \in Items : r.win[i].off = Invalid => store[r.win[i].key] = Invalid
      /\ mode.ow = 0 => \A i \in Items : /\ r.win[i].off \in {Invalid, r.win[i].sfx}
                                         /\ store[r.win[i].key] \in {Invalid, r.win[i].sfx}
      /\ \A i \in Socks : Still(net[c][i]) /\ (~net[c][i].up => net[c][i].req = NoRequest)
    BY <1>3, WarmIdle
<1>5. /\ r \in Links /\ r.state = q.state /\ r.sch = q.sch /\ r.warm = q.warm
      /\ r.remain = q.remain /\ r.ml = q.ml /\ r.fds = q.fds
      /\ r.rbuf = q.rbuf /\ r.readval = q.readval
      /\ \A i \in Items : r.win[i].key = q.win[i].key
    BY <1>1, WarmResultIs
<1> HIDE DEF q, r
<1>6. /\ b \in Links /\ b.state = r.state /\ b.sch = r.sch /\ b.warm = r.warm - 1
      /\ b.remain = r.remain /\ b.ml = r.ml /\ b.fds = r.fds
      /\ b.rbuf = r.rbuf /\ b.readval = r.readval /\ b.win = r.win /\ ~b.task.verify
      /\ b.task.item \in Items
    <2>1. r.set_cursor \in Nat /\ r.warm - 1 \in Int /\ r.task \in Tasks
        BY <1>5, LinkFields
    <2> DEFINE item == ms_get_next_set_item(r.set_cursor)
               t == [r.task EXCEPT !.verify = FALSE, !.finish = TRUE, !.miss = TRUE,
                                   !.cmd = "SET", !.item = item]
    <2>2. item \in Items
        BY <2>1, NextItems
    <2> HIDE DEF item
    <2>3. t \in Tasks /\ ~t.verify /\ t.item = item
        BY <2>1, <2>2 DEF Tasks
    <2>4. b = [r EXCEPT !.task = t, !.warm = @ - 1]
        BY <1>5, <2>1 DEF WarmTask, item, Links, Tasks
    <2> HIDE DEF t, b
    <2> QED  BY <1>5, <2>1, <2>2, <2>3, <2>4 DEF Links
<1> HIDE DEF b
<1>7. b.fds \subseteq Socks
    BY <1>1, <1>5, <1>6 DEF Linked, Phases
<1> DEFINE it == b.win[b.task.item]
           val == IF it.off = Invalid THEN it.sfx ELSE it.off
<1>8. it.key \in Nat /\ val \in Offsets /\ <<it.key>> \in Seq(Nat)
    <2>1. it.key \in Nat /\ it.sfx \in Nat /\ it.off \in Offsets
        BY <1>6, ItemFields
    <2> QED  BY <2>1, Bounds
<1>9. k \in Prepare(b, "SET", <<it.key>>, val)
    BY <1>2 DEF ms_mcd_set
<1>10. /\ k \in Links /\ k.cur.cmd = "SET" /\ k.cur.ret = "FAILURE" /\ k.sock \in Socks
       /\ k.out /\ ~k.sch
       /\ k.req.op = "SET" /\ k.req.keys = <<it.key>> /\ k.req.val = val /\ k.req.id = k.id
       /\ k.state = b.state /\ k.win = b.win /\ k.warm = b.warm /\ k.remain = b.remain
       /\ k.task = b.task /\ k.ml = b.ml /\ k.fds = b.fds /\ k.rbuf = b.rbuf
       /\ k.readval = b.readval
    <2> HIDE DEF it, val
    <2>1. "SET" \in {"SET", "GET"} /\ <<it.key>> \in Seq(Nat)
        BY <1>8
    <2> DEFINE keys == <<it.key>>
    <2>3. keys \in Seq(Nat) /\ k \in Prepare(b, "SET", keys, val)
        BY <1>8, <1>9
    <2> HIDE DEF keys
    <2>4. /\ k \in Links /\ k.cur.cmd = "SET" /\ k.cur.ret = "FAILURE" /\ k.sock \in Socks
          /\ k.out /\ ~k.sch
          /\ k.req.op = "SET" /\ k.req.keys = keys /\ k.req.val = val /\ k.req.id = k.id
          /\ k.state = b.state /\ k.win = b.win /\ k.warm = b.warm /\ k.remain = b.remain
          /\ k.task = b.task /\ k.ml = b.ml /\ k.fds = b.fds /\ k.rbuf = b.rbuf
          /\ k.readval = b.readval
        BY <1>1, <1>6, <1>7, <1>8, <2>3, PrepareIs
    <2> QED  BY <2>4 DEF keys
<1>11. /\ k.state = "write" /\ k.remain = ExecNum /\ k.warm = q.warm - 1 /\ ~k.readval
       /\ k.rbuf = <<>> /\ k.ml = q.ml /\ k.fds = q.fds /\ k.win = r.win
    BY <1>4, <1>5, <1>6, <1>10
<1>12. AsksSet(k)
    BY <1>10 DEF AsksSet
<1>13. q.warm \in Int /\ mode.sp = 0 /\ q.warm <= WinSize
    BY <1>1, <1>3, LinkFields, Bounds DEF Linked, Warming
<1> HIDE DEF it, val
<1>14. Phases(mode, k)
    BY <1>1, <1>7, <1>6, <1>10, <1>11, ModeIs, Bounds DEF Phases
<1>15. Wired(mode, k, net[c])
    BY <1>1, <1>4, <1>11 DEF Wired
<1>16. Asks(mode, k)
    BY <1>10, <1>11, <1>12 DEF Asks
<1>17. Marked(mode, k)
    BY <1>1, <1>4, <1>6, <1>10, <1>11 DEF Linked, Marked
<1>18. Answers(mode, k, net[c])
    BY <1>11 DEF Answers
<1>19. Warming(mode, k, finish_warmup)
    BY <1>3, <1>10, <1>11, <1>13, Bounds DEF Warming
<1>20. Tracked(mode, k, net[c], store)
    BY <1>4, <1>11 DEF Tracked
<1>21. Plain(mode, k, net[c], store)
    BY <1>4, <1>11, Bounds DEF Plain
<1>22. Paced(mode, k, net[c], faults, time_out)
    BY <1>13 DEF Paced
<1>23. Unbroken(mode, k, net[c], time_out)
    BY <1>1, <1>11 DEF Linked, Unbroken
<1>24. Linked(mode, k, net[c], store, faults, finish_warmup, time_out)
    BY <1>14, <1>15, <1>16, <1>17, <1>18, <1>19, <1>20, <1>21, <1>22, <1>23 DEF Linked
<1>25. /\ cn[c].state # "new" /\ k.state # "new" /\ k.remain \in -1..ExecNum
       /\ \A i \in Items : k.win[i].key = cn[c].win[i].key
       /\ Spent(k) >= Spent(cn[c])
    BY <1>4, <1>5, <1>11, Bounds DEF Spent, q
<1>26. Warmed(mode, cn', finish_warmup, pc, locks'.warmup)
    <2>1. cn'[c] = k /\ (\A d \in Conns : d # c => cn'[d] = cn[d]) /\ Conns = 1..mode.conns
        BY <1>1, <1>2 DEF Conns
    <2>2. k.warm # -2 /\ cn[c].warm # -2
        BY <1>3, <1>11, <1>13 DEF q
    <2>3. Warm(mode, cn') = Warm(mode, cn)
        BY <2>1, <2>2 DEF Warm
    <2> QED  BY <2>3, <1>3 DEF IInv, Warmed
<1>27. /\ net' = [net EXCEPT ![c] = net[c]] /\ UNCHANGED <<mode, seq, pc, finish_warmup, time_out>>
       /\ store' \in [1..MaxKey -> Offsets] /\ faults' \in Nat /\ faults' >= faults
       /\ \A x \in 1..MaxKey : \/ store'[x] \in {store[x], Invalid}
                               \/ \E i \in Items : x = cn[c].win[i].key
       /\ Linked(mode, k, net[c], store', faults', finish_warmup, time_out)
       /\ flaws' = NoFlaws /\ Trusting(mode, stats') /\ locks' \in Locks
    BY <1>1, <1>3, <1>24 DEF Frame
<1> QED  BY <1>1, <1>2, <1>10, <1>25, <1>26, <1>27, ApartStep

\* A connection tells the main thread that it is warm.
LEMMA WarmupEndsInv ==
    ASSUME IInv, NEW c \in Conns, WarmupEnds(c)
    PROVE  IInv'
<1> DEFINE q == cn[c]
           r == WarmResult(q)
           k == [r EXCEPT !.warm = -2]
<1>1. /\ mode \in Modes /\ q \in Links /\ Socks = 1..mode.socks /\ net[c] \in [Socks -> Wires]
      /\ store \in [1..MaxKey -> Offsets] /\ faults \in Nat /\ seq \in Nat
      /\ cn \in [Conns -> Links] /\ net \in [Conns -> [Socks -> Wires]]
      /\ Linked(mode, q, net[c], store, faults, finish_warmup, time_out)
      /\ flaws = NoFlaws /\ Trusting(mode, stats) /\ locks \in Locks
    BY Here
<1>2. /\ ~finish_warmup /\ q.warm = 0 /\ Idle(c) /\ cn' = [cn EXCEPT ![c] = k]
      /\ locks' = [locks EXCEPT !.warmup = @ + 1]
      /\ UNCHANGED <<net, store, seq, stats, faults, flaws>> /\ Frame
    BY DEF WarmupEnds
<1>3. /\ q.state = "write" /\ ~q.out /\ ~q.sch /\ q.remain = ExecNum /\ ~q.readval
      /\ q.rbuf = <<>> /\ (mode.sp # 0 => r = q)
      /\ mode.ml > 1 /\ mode.verify > 0 =>
            \A i \in Items : r.win[i].off = Invalid => store[r.win[i].key] = Invalid
      /\ mode.ow = 0 => \A i \in Items : /\ r.win[i].off \in {Invalid, r.win[i].sfx}
                                         /\ store[r.win[i].key] \in {Invalid, r.win[i].sfx}
      /\ \A i \in Socks : Still(net[c][i]) /\ (~net[c][i].up => net[c][i].req = NoRequest)
    BY <1>2, WarmIdle
<1>4. /\ r \in Links /\ r.state = q.state /\ r.sch = q.sch /\ r.warm = q.warm
      /\ r.remain = q.remain /\ r.task = q.task /\ r.pre = q.pre /\ r.cur = q.cur
      /\ r.ml = q.ml /\ r.sock = q.sock /\ r.fds = q.fds
      /\ r.out = q.out /\ r.rbuf = q.rbuf /\ r.readval = q.readval
      /\ \A i \in Items : r.win[i].key = q.win[i].key
    BY <1>1, WarmResultIs
<1> HIDE DEF q, r
<1>5. /\ k \in Links /\ k.state = q.state /\ k.sch = q.sch /\ k.warm = -2
      /\ k.remain = q.remain /\ k.task = q.task /\ k.pre = q.pre /\ k.cur = q.cur
      /\ k.ml = q.ml /\ k.sock = q.sock /\ k.fds = q.fds
      /\ k.out = q.out /\ k.rbuf = q.rbuf /\ k.readval = q.readval /\ k.win = r.win
      /\ k.set_cursor = r.set_cursor
    <2>1. \A w \in Int : /\ [r EXCEPT !.warm = w] \in Links
                          /\ [r EXCEPT !.warm = w].warm = w
        BY <1>4 DEF Links
    <2>2. -2 \in Int
        OBVIOUS
    <2>3. k \in Links /\ k.warm = -2
        BY <2>1, <2>2
    <2> QED  BY <1>4, <2>3 DEF Links
<1> HIDE DEF k
<1>6. Phases(mode, k)
    BY <1>1, <1>3, <1>5 DEF Linked, Phases, Busy
<1>7. Wired(mode, k, net[c])
    BY <1>1, <1>3, <1>5 DEF Wired
<1>8. Asks(mode, k)
    BY <1>3, <1>5 DEF Asks, Busy
<1>9. Marked(mode, k)
    BY <1>1, <1>5 DEF Linked, Marked
<1>10. Answers(mode, k, net[c])
    BY <1>3, <1>5 DEF Answers
<1>11. Warming(mode, k, finish_warmup)
    BY <1>1, <1>2, <1>3, <1>5, Bounds, ModeIs DEF Linked, Warming
<1>12. Tracked(mode, k, net[c], store)
    BY <1>3, <1>5 DEF Tracked
<1>13. Plain(mode, k, net[c], store)
    BY <1>3, <1>5, Bounds DEF Plain
<1>14. Paced(mode, k, net[c], faults, time_out)
    <2> SUFFICES ASSUME mode.sp > 0 PROVE Paced(mode, k, net[c], faults, time_out)
        BY DEF Paced
    <2>1. r = q
        BY <1>1, <1>3, ModeIs
    <2>2. Valid(k) = Valid(q) /\ k.set_cursor = q.set_cursor
        BY <2>1, <1>5 DEF Valid
    <2> QED  BY <2>2, <1>1, <1>3, <1>5 DEF Linked, Paced, Live
<1>15. Unbroken(mode, k, net[c], time_out)
    BY <1>1, <1>3, <1>5 DEF Linked, Unbroken
<1>16. Linked(mode, k, net[c], store, faults, finish_warmup, time_out)
    BY <1>6, <1>7, <1>8, <1>9, <1>10, <1>11, <1>12, <1>13, <1>14, <1>15 DEF Linked
<1>17. /\ cn[c].state # "new" /\ k.state # "new" /\ k.remain \in -1..ExecNum
       /\ \A i \in Items : k.win[i].key = cn[c].win[i].key
       /\ Spent(k) >= Spent(cn[c])
    BY <1>3, <1>4, <1>5, Bounds DEF Spent, q
<1>18. locks' \in Locks /\ locks'.warmup = locks.warmup + 1
    BY <1>1, <1>2 DEF Locks
<1>19. Warmed(mode, cn', finish_warmup, pc, locks'.warmup)
    <2>1. cn'[c] = k /\ (\A d \in Conns : d # c => cn'[d] = cn[d]) /\ Conns = 1..mode.conns
        BY <1>1, <1>2 DEF Conns
    <2>2. Warm(mode, cn') = Warm(mode, cn) \cup {c}
        BY <2>1, <1>5 DEF Warm
    <2>3. c \notin Warm(mode, cn)
        BY <1>2 DEF Warm, q
    <2>4. IsFiniteSet(Warm(mode, cn))
        <3>1. 1 \in Int /\ mode.conns \in Int
            BY <1>1, ModeIs
        <3>2. IsFiniteSet(1..mode.conns)
            BY <3>1, FS_Interval
        <3>3. Warm(mode, cn) \subseteq 1..mode.conns
            BY DEF Warm
        <3> QED  BY <3>2, <3>3, FS_Subset
    <2>5. Cardinality(Warm(mode, cn')) = Cardinality(Warm(mode, cn)) + 1
        BY <2>2, <2>3, <2>4, FS_AddElement
    <2> QED  BY <2>5, <1>2, <1>18 DEF IInv, Warmed
<1>20. /\ net' = [net EXCEPT ![c] = net[c]] /\ UNCHANGED <<mode, seq, pc, finish_warmup, time_out>>
       /\ store' \in [1..MaxKey -> Offsets] /\ faults' \in Nat /\ faults' >= faults
       /\ \A x \in 1..MaxKey : \/ store'[x] \in {store[x], Invalid}
                               \/ \E i \in Items : x = cn[c].win[i].key
       /\ Linked(mode, k, net[c], store', faults', finish_warmup, time_out)
       /\ flaws' = NoFlaws /\ Trusting(mode, stats')
    BY <1>1, <1>2, <1>16 DEF Frame
<1> QED  BY <1>1, <1>2, <1>5, <1>17, <1>18, <1>19, <1>20, ApartStep

-----------------------------------------------------------------------------
(* Accounting for the command before.                                      *)

\* What the result of the command before changes.
LEMMA TaskResultIs ==
    ASSUME NEW q \in Links
    PROVE  LET u == ms_update_task_result(q)
           IN /\ u \in Links /\ u.state = q.state /\ u.sch = q.sch /\ u.warm = q.warm
              /\ u.remain = q.remain /\ u.pre = q.pre /\ u.cur = q.cur
              /\ u.sock = q.sock /\ u.fds = q.fds /\ u.req = q.req /\ u.out = q.out
              /\ u.rbuf = q.rbuf /\ u.readval = q.readval /\ u.key = q.key /\ u.id = q.id
              /\ u.ml = IF MultiGetDone(q) THEN <<>> ELSE q.ml
              /\ u.task.verify = q.task.verify /\ u.task.gets = q.task.gets
              /\ u.task.item = q.task.item
              /\ \A i \in Items : /\ u.win[i].key = q.win[i].key /\ u.win[i].sfx = q.win[i].sfx
                                  /\ i # q.task.item => u.win[i] = q.win[i]
              /\ q.pre.cmd = "SET" /\ q.pre.ret = "STORED" =>
                    /\ u.win[q.task.item].off # Invalid
                    /\ q.win[q.task.item].off = Invalid =>
                          u.win[q.task.item].off = q.win[q.task.item].sfx
                    /\ u.task.sets = q.task.sets + 1
                    /\ u.set_cursor = (q.set_cursor + 1) % CursorMod
              /\ ~(q.pre.cmd = "SET" /\ q.pre.ret = "STORED") =>
                    u.win = q.win /\ u.task = q.task /\ u.set_cursor = q.set_cursor
<1> DEFINE s == SetResult(q)
           u == ms_update_task_result(q)
<1>1. /\ q.win \in [Items -> Objects] /\ q.task.item \in Items /\ q.set_cursor \in Nat
      /\ q.task \in Tasks /\ q.task.sets \in Nat
    BY LinkFields, TaskFields
<1>2. /\ s \in Links /\ s.state = q.state /\ s.sch = q.sch /\ s.warm = q.warm
      /\ s.remain = q.remain /\ s.pre = q.pre /\ s.cur = q.cur
      /\ s.sock = q.sock /\ s.fds = q.fds /\ s.req = q.req /\ s.out = q.out
      /\ s.rbuf = q.rbuf /\ s.readval = q.readval /\ s.key = q.key /\ s.id = q.id
      /\ s.ml = q.ml
      /\ s.task.verify = q.task.verify /\ s.task.gets = q.task.gets
      /\ s.task.item = q.task.item
      /\ \A i \in Items : /\ s.win[i].key = q.win[i].key /\ s.win[i].sfx = q.win[i].sfx
                          /\ i # q.task.item => s.win[i] = q.win[i]
      /\ q.pre.cmd = "SET" /\ q.pre.ret = "STORED" =>
            /\ s.win[q.task.item].off # Invalid
            /\ q.win[q.task.item].off = Invalid =>
                  s.win[q.task.item].off = q.win[q.task.item].sfx
            /\ s.task.sets = q.task.sets + 1
            /\ s.set_cursor = (q.set_cursor + 1) % CursorMod
      /\ ~(q.pre.cmd = "SET" /\ q.pre.ret = "STORED") =>
            s.win = q.win /\ s.task = q.task /\ s.set_cursor = q.set_cursor
    <2>1. CASE ~(q.pre.cmd = "SET" /\ q.pre.ret = "STORED")
        BY <2>1 DEF SetResult
    <2>2. CASE q.pre.cmd = "SET" /\ q.pre.ret = "STORED"
        <3> DEFINE i == q.task.item
                   off == IF q.win[i].off = Invalid THEN q.win[i].sfx ELSE q.win[i].off + 1
                   win == [q.win EXCEPT ![i] = [@ EXCEPT !.off = off]]
                   task == [q.task EXCEPT !.sets = @ + 1]
                   cursor == (q.set_cursor + 1) % CursorMod
                   r == [q EXCEPT !.win = win, !.set_cursor = cursor, !.task = task]
        <3>1. \A j \in Items : q.win[j] \in Objects /\ q.win[j].key \in Nat
                               /\ q.win[j].sfx \in Nat /\ q.win[j].off \in Offsets
            BY <1>1 DEF Objects
        <3>2. q.win[i].off = Invalid \/ q.win[i].off \in Nat
            BY <3>1, <1>1 DEF Offsets
        <3>3. off \in Nat /\ off # Invalid
            BY <3>1, <3>2, <1>1, Bounds
        <3>4. s = r
            <4>1. \A x : (IF x = Invalid THEN q.win[i].sfx ELSE x + 1) =
                         (IF x = Invalid THEN q.win[i].sfx ELSE x + 1)
                OBVIOUS
            <4> QED  BY <2>2 DEF SetResult
        <3>5. off = Invalid \/ q.win[i].off # Invalid \/ off = q.win[i].sfx
            OBVIOUS
        <3> HIDE DEF off
        <3>6. [q.win[i] EXCEPT !.off = off] \in Objects
            BY <1>1, <3>1, <3>3, Bounds DEF Objects
        <3>7. win \in [Items -> Objects]
            BY <1>1, <3>6
        <3>8. /\ \A j \in Items : j # i => win[j] = q.win[j]
              /\ win[i].key = q.win[i].key /\ win[i].sfx = q.win[i].sfx /\ win[i].off = off
            BY <1>1, <3>1 DEF Objects
        <3>9. task \in Tasks /\ task.verify = q.task.verify /\ task.gets = q.task.gets
              /\ task.item = q.task.item /\ task.sets = q.task.sets + 1
            BY <1>1 DEF Tasks
        <3>10. cursor \in Nat
            <4>1. \A x \in Nat, y \in Nat \ {0} : x % y \in 0..(y - 1)
                OBVIOUS
            <4>2. CursorMod \in Nat \ {0} /\ q.set_cursor + 1 \in Nat
                BY <1>1, Bounds
            <4>3. cursor \in 0..(CursorMod - 1)
                BY <4>1, <4>2
            <4> QED  BY <4>2, <4>3
        <3> HIDE DEF win, task, cursor
        <3>11. /\ r \in Links /\ r.state = q.state /\ r.sch = q.sch /\ r.warm = q.warm
               /\ r.remain = q.remain /\ r.pre = q.pre /\ r.cur = q.cur
               /\ r.sock = q.sock /\ r.fds = q.fds /\ r.req = q.req /\ r.out = q.out
               /\ r.rbuf = q.rbuf /\ r.readval = q.readval /\ r.key = q.key /\ r.id = q.id
               /\ r.ml = q.ml /\ r.win = win /\ r.task = task /\ r.set_cursor = cursor
            BY <3>7, <3>9, <3>10 DEF Links
        <3> HIDE DEF s, r
        <3> QED  BY <2>2, <3>3, <3>4, <3>5, <3>8, <3>9, <3>11, <1>1 DEF cursor
    <2> QED  BY <2>1, <2>2
<1> HIDE DEF s
<1>3. CASE ~MultiGetDone(q)
    BY <1>2, <1>3 DEF ms_update_task_result, s
<1>4. CASE MultiGetDone(q)
    <2>1. u = [s EXCEPT !.ml = <<>>, !.vindex = 0]
        BY <1>4 DEF ms_update_task_result, s
    <2>2. <<>> \in Seq(Marks) /\ 0 \in Nat
        BY EmptySeq
    <2>3. /\ u \in Links /\ u.state = s.state /\ u.sch = s.sch /\ u.warm = s.warm
          /\ u.remain = s.remain /\ u.pre = s.pre /\ u.cur = s.cur
          /\ u.sock = s.sock /\ u.fds = s.fds /\ u.req = s.req /\ u.out = s.out
          /\ u.rbuf = s.rbuf /\ u.readval = s.readval /\ u.key = s.key /\ u.id = s.id
          /\ u.ml = <<>> /\ u.task = s.task /\ u.win = s.win /\ u.set_cursor = s.set_cursor
        <3>1. s \in Links
            BY <1>2
        <3> HIDE DEF s
        <3> QED  BY <3>1, <2>1, <2>2 DEF Links
    <2> HIDE DEF u
    <2>4. ms_update_task_result(q) = u
        BY DEF u
    <2> QED  BY <1>2, <1>4, <2>3, <2>4
<1> QED  BY <1>3, <1>4

\* A connection accounts for the command before.
LEMMA UpdateInv ==
    ASSUME IInv, NEW c \in Conns, Update(c)
    PROVE  IInv'
<1> DEFINE q == cn[c]
           n == net[c]
           u == IF q.remain = ExecNum THEN q ELSE ms_update_task_result(q)
           k == [u EXCEPT !.sch = TRUE]
<1>1. /\ mode \in Modes /\ q \in Links /\ Socks = 1..mode.socks /\ n \in [Socks -> Wires]
      /\ Linked(mode, q, n, store, faults, finish_warmup, time_out)
      /\ flaws = NoFlaws /\ Trusting(mode, stats) /\ faults \in Nat /\ q.remain \in -1..ExecNum
    BY Here
<1>2. /\ q.state = "write" /\ ~q.out /\ ~q.sch /\ finish_warmup /\ q.remain >= 0
      /\ cn' = [cn EXCEPT ![c] = k]
      /\ UNCHANGED <<net, store, seq, locks, faults, flaws>> /\ Frame
    BY DEF Update, Idle, Turn
<1>3. Trusting(mode, stats')
    <2> DEFINE m == Missed(q)
               v == VerifyMissed(q)
    <2>1. stats' = stats \/ stats' = [stats EXCEPT !.get_misses = @ + m, !.vef_miss = @ + v]
        BY DEF Update
    <2> HIDE DEF m, v
    <2> QED  BY <2>1, <1>1 DEF Trusting
<1> HIDE DEF q, n
<1>4. /\ q.remain = ExecNum => u = q
      /\ q.remain # ExecNum => u = ms_update_task_result(q)
    OBVIOUS
<1>5. q.pre = q.cur /\ q.rbuf = <<>> /\ ~q.readval
    BY <1>1, <1>2 DEF Linked, Phases, Wired
<1>6. /\ u \in Links /\ u.state = q.state /\ u.warm = q.warm /\ u.remain = q.remain
      /\ u.pre = q.pre /\ u.cur = q.cur /\ u.sock = q.sock /\ u.fds = q.fds /\ u.out = q.out
      /\ u.rbuf = q.rbuf /\ u.readval = q.readval
      /\ u.task.verify = q.task.verify /\ u.task.gets = q.task.gets
      /\ \A i \in Items : /\ u.win[i].key = q.win[i].key /\ u.win[i].sfx = q.win[i].sfx
                          /\ i # q.task.item => u.win[i] = q.win[i]
    BY <1>1, <1>4, TaskResultIs
<1>7. /\ q.remain # ExecNum /\ q.cur.cmd = "SET" /\ q.cur.ret = "STORED" =>
            /\ u.win[q.task.item].off # Invalid
            /\ q.win[q.task.item].off = Invalid =>
                  u.win[q.task.item].off = q.win[q.task.item].sfx
            /\ u.task.sets = q.task.sets + 1
            /\ u.set_cursor = (q.set_cursor + 1) % CursorMod
      /\ q.remain = ExecNum \/ ~(q.cur.cmd = "SET" /\ q.cur.ret = "STORED") =>
            u.win = q.win /\ u.task = q.task /\ u.set_cursor = q.set_cursor
      /\ q.remain # ExecNum => u.ml = IF MultiGetDone(q) THEN <<>> ELSE q.ml
      /\ q.remain = ExecNum => u.ml = q.ml
    BY <1>1, <1>4, <1>5, TaskResultIs
<1> HIDE DEF u
<1>8. /\ k \in Links /\ k.state = u.state /\ k.warm = u.warm /\ k.remain = u.remain
      /\ k.pre = u.pre /\ k.cur = u.cur /\ k.sock = u.sock /\ k.fds = u.fds /\ k.out = u.out
      /\ k.rbuf = u.rbuf /\ k.readval = u.readval /\ k.task = u.task /\ k.win = u.win
      /\ k.set_cursor = u.set_cursor /\ k.ml = u.ml /\ k.sch
    BY <1>6 DEF Links
<1> HIDE DEF k
<1>9. Phases(mode, k)
    BY <1>1, <1>2, <1>6, <1>8 DEF Linked, Phases, Busy
<1>10. Wired(mode, k, n)
    BY <1>1, <1>2, <1>6, <1>8 DEF Linked, Wired
<1>11. Asks(mode, k)
    BY <1>2, <1>6, <1>8 DEF Asks, Busy
<1>12. Marked(mode, k)
    <2>1. mode.ml \in {1, 2} /\ q.ml \in Seq(Marks) /\ Len(q.ml) \in Nat /\ Marked(mode, q)
        BY <1>1, ModeIs, LinkFields, LenProperties DEF Linked
    <2>2. u.ml = <<>> \/ (u.ml = q.ml /\ (q.remain = ExecNum \/ ~MultiGetDone(q)))
        BY <1>7
    <2>3. Len(<<>>) = 0
        BY EmptySeq
    <2>4. CASE u.ml = <<>>
        <3>1. k.ml = <<>> /\ k.task.verify = q.task.verify
            BY <2>4, <1>6, <1>8
        <3>2. 1..0 = {}
            OBVIOUS
        <3> QED  BY <3>1, <3>2, <2>1, <2>3 DEF Marked
    <2>5. CASE u.ml = q.ml /\ q.remain # ExecNum /\ ~MultiGetDone(q)
        <3>1. Len(q.ml) < mode.ml
            BY <2>1, <2>3, <2>5 DEF MultiGetDone, Marked
        <3> QED  BY <3>1, <2>1, <2>5, <1>6, <1>8 DEF Marked
    <2>6. u.ml = q.ml /\ q.remain = ExecNum => u.ml = <<>>
        BY <2>1 DEF Marked
    <2> QED  BY <2>2, <2>4, <2>5, <2>6
<1>13. Answers(mode, k, n)
    BY <1>2, <1>6, <1>8 DEF Answers
<1>14. Warming(mode, k, finish_warmup)
    BY <1>1, <1>2, <1>6, <1>7, <1>8 DEF Linked, Warming
<1>15. q.cur.cmd = "SET" => q.remain # ExecNum \/ q.warm = -2
    <2>1. mode.sp # 0 /\ q.remain = ExecNum => q.cur.cmd # "SET"
        BY <1>1, Nothings DEF Linked, Warming
    <2>2. mode.sp = 0 => q.warm = -2
        BY <1>1, <1>2, ModeIs DEF IInv, Warmed, Warm, q
    <2> QED  BY <2>1, <2>2
<1>16. Tracked(mode, k, n, store)
    <2> SUFFICES ASSUME mode.ml > 1, mode.verify > 0, NEW i \in Items, k.win[i].off = Invalid,
                        store[k.win[i].key] # Invalid
                 PROVE  FALSE
        BY <1>2, <1>6, <1>8 DEF Tracked
    <2>1. Live(q)
        BY <1>2 DEF Live
    <2>2. q.task.item \in Items
        BY <1>1, TaskFields
    <2>3. q.win[i].off = Invalid
        BY <2>2, <1>6, <1>7, <1>8
    <2>4. Landed(q, n) /\ q.task.item = i
        BY <2>1, <2>3, <1>1, <1>6, <1>8 DEF Linked, Tracked
    <2>5. q.cur.cmd = "SET" /\ q.cur.ret = "STORED" /\ q.remain # ExecNum
        BY <2>4, <1>2, <1>15 DEF Landed
    <2> QED  BY <2>4, <2>5, <1>7, <1>8
<1>17. Plain(mode, k, n, store)
    <2> SUFFICES ASSUME mode.ow = 0 PROVE Plain(mode, k, n, store)
        BY DEF Plain
    <2>1. q.state # "new" /\ Live(q) /\ (q.remain # ExecNum => q.remain < ExecNum)
        BY <1>1, <1>2, Bounds DEF Live
    <2>2. \A i \in Items : /\ q.win[i].off \in {Invalid, q.win[i].sfx}
                           /\ store[q.win[i].key] \in {Invalid, q.win[i].sfx}
        BY <2>1, <1>1 DEF Linked, Plain
    <2>3. q.remain # ExecNum /\ q.cur.cmd = "SET" /\ q.cur.ret = "STORED" =>
              q.win[q.task.item].off = Invalid
        BY <2>1, <1>1, <1>2 DEF Linked, Plain
    <2>4. \A i \in Items : /\ k.win[i].off \in {Invalid, k.win[i].sfx}
                           /\ store[k.win[i].key] \in {Invalid, k.win[i].sfx}
        <3> SUFFICES ASSUME NEW i \in Items
                     PROVE  /\ k.win[i].off \in {Invalid, k.win[i].sfx}
                            /\ store[k.win[i].key] \in {Invalid, k.win[i].sfx}
            OBVIOUS
        <3>1. k.win[i].key = q.win[i].key /\ k.win[i].sfx = q.win[i].sfx
            BY <1>6, <1>8
        <3>2. k.win[i].off \in {Invalid, q.win[i].sfx}
            BY <2>2, <2>3, <1>6, <1>7, <1>8
        <3> QED  BY <3>1, <3>2, <2>2
    <2> QED  BY <2>4, <1>2, <1>6, <1>8 DEF Plain
<1>18. Paced(mode, k, n, faults, time_out)
    <2> SUFFICES ASSUME mode.sp > 0, faults = 0 PROVE Paced(mode, k, n, faults, time_out)
        BY DEF Paced
    <2>1. Live(q) /\ Paced(mode, q, n, faults, time_out)
        BY <1>1, <1>2 DEF Live, Linked
    <2>2. q.cur.cmd = "SET" => q.cur.ret = "STORED" /\ q.remain # ExecNum
        <3>1. q.cur.cmd = "SET" => q.cur.ret = "STORED"
            BY <2>1, <1>2 DEF Paced
        <3>2. q.remain = ExecNum => q.cur.cmd # "SET"
            BY <1>1, ModeIs, Nothings DEF Linked, Warming
        <3> QED  BY <3>1, <3>2
    <2>3. q.task.gets \in Nat /\ q.task.sets \in Nat /\ mode.sp \in 0..10 /\ mode.gp \in 0..10
          /\ q.task.item \in Items
        BY <1>1, TaskFields, ModeIs
    <2>4. LeadOf(mode, k.task) \in (0 - mode.gp)..mode.sp
          /\ Filled(Valid(k), k.set_cursor, k.task.sets)
        <3>1. CASE q.cur.cmd = "SET"
            <4>1. LeadOf(mode, q.task) >= 0 /\ LeadOf(mode, q.task) \in (0 - mode.gp)..mode.sp
                  /\ Filled(Valid(q) \cup {q.task.item}, (q.set_cursor + 1) % CursorMod,
                            q.task.sets + 1)
                BY <2>1, <2>2, <3>1, <1>2 DEF Paced
            <4>2. Valid(k) = Valid(q) \cup {q.task.item}
                BY <2>2, <2>3, <3>1, <1>6, <1>7, <1>8 DEF Valid
            <4>3. k.set_cursor = (q.set_cursor + 1) % CursorMod /\ k.task.sets = q.task.sets + 1
                  /\ k.task.gets = q.task.gets
                BY <2>2, <3>1, <1>6, <1>7, <1>8
            <4>4. \A x \in Nat : \A g \in Nat : (x + 1) * g = x * g + g
                OBVIOUS
            <4>5. (q.task.sets + 1) * mode.gp = q.task.sets * mode.gp + mode.gp
                <5>1. q.task.sets \in Nat /\ mode.gp \in Nat
                    BY <2>3
                <5> QED  BY <5>1, <4>4, Zenon
            <4>6. LeadOf(mode, k.task) = LeadOf(mode, q.task) - mode.gp
                <5>1. LeadOf(mode, k.task) =
                          q.task.gets * mode.sp - (q.task.sets * mode.gp + mode.gp)
                    BY <4>3, <4>5 DEF LeadOf
                <5>2. \A a, b, g \in Int : a - (b + g) = (a - b) - g
                    OBVIOUS
                <5>3. q.task.gets * mode.sp \in Int /\ q.task.sets * mode.gp \in Int
                      /\ mode.gp \in Int
                    BY <2>3
                <5> QED  BY <5>1, <5>2, <5>3 DEF LeadOf
            <4>7. \A l \in Int : l >= 0 /\ l \in (0 - mode.gp)..mode.sp =>
                      l - mode.gp \in (0 - mode.gp)..mode.sp
                BY <2>3
            <4>8. LeadOf(mode, q.task) \in Int
                BY <2>3 DEF LeadOf
            <4> HIDE DEF LeadOf
            <4> QED  BY <4>1, <4>2, <4>3, <4>6, <4>7, <4>8
        <3>2. CASE q.cur.cmd # "SET"
            <4>1. k.win = q.win /\ k.task = q.task /\ k.set_cursor = q.set_cursor
                BY <3>2, <1>7, <1>8
            <4>2. Valid(k) = Valid(q)
                BY <4>1 DEF Valid
            <4> QED  BY <4>1, <4>2, <2>1, <3>2 DEF Paced
        <3> QED  BY <3>1, <3>2
    <2> QED  BY <2>1, <2>4, <1>2, <1>6, <1>8 DEF Paced
<1>19. Unbroken(mode, k, n, time_out)
    BY <1>1, <1>2, <1>6, <1>8 DEF Linked, Unbroken
<1>20. Linked(mode, k, n, store, faults, finish_warmup, time_out)
    BY <1>9, <1>10, <1>11, <1>12, <1>13, <1>14, <1>16, <1>17, <1>18, <1>19 DEF Linked
<1>21. /\ q.state # "new" /\ k.state # "new" /\ k.warm = q.warm /\ k.remain \in -1..ExecNum
       /\ \A i \in Items : k.win[i].key = q.win[i].key
       /\ Spent(k) >= Spent(q)
    BY <1>1, <1>2, <1>6, <1>8, SpentOf, Bounds DEF Spent
<1>22. UNCHANGED <<mode, net, store, seq, locks, pc, finish_warmup, time_out, faults>>
       /\ flaws' = NoFlaws
    BY <1>1, <1>2 DEF Frame
<1> QED  BY <1>2, <1>3, <1>8, <1>20, <1>21, <1>22, LinkStep DEF q, n

-----------------------------------------------------------------------------
(* Choosing a task.                                                        *)

\* Remainders by the window and by the cursor's modulus.
LEMMA Remainders ==
    ASSUME NEW x \in Int, NEW y \in Nat \ {0}
    PROVE  x % y \in 0..(y - 1) /\ (x \in 0..(y - 1) => x % y = x)
OBVIOUS

\* The cursor goes on to an item that gets its value.
LEMMA CursorOn ==
    ASSUME NEW V, NEW cursor \in Nat, NEW sets \in Nat, Filled(V, cursor, sets)
    PROVE  Filled(V \cup {ms_get_next_set_item(cursor)}, (cursor + 1) % CursorMod, sets + 1)
<1> DEFINE i == ms_get_next_set_item(cursor)
<1>1. CASE Items \subseteq V
    BY <1>1 DEF Filled
<1>2. CASE cursor < WinSize /\ 1..cursor \subseteq V
    <2>1. WinSize \in Nat \ {0} /\ CursorMod \in Nat \ {0} /\ cursor \in 0..(WinSize - 1)
          /\ cursor + 1 \in 0..(CursorMod - 1) /\ cursor \in Int /\ cursor + 1 \in Int
        BY <1>2, Bounds
    <2>2. cursor % WinSize = cursor /\ (cursor + 1) % CursorMod = cursor + 1
        BY <2>1, Remainders
    <2>3. i = cursor + 1
        BY <2>2 DEF ms_get_next_set_item
    <2> HIDE DEF i
    <2>4. 1..(cursor + 1) \subseteq V \cup {i}
        BY <1>2, <2>3
    <2>5. CASE cursor + 1 < WinSize
        BY <2>2, <2>4, <2>5 DEF Filled, i
    <2>6. CASE cursor + 1 = WinSize
        BY <2>4, <2>6 DEF Filled, Items, i
    <2> QED  BY <1>2, <2>5, <2>6, Bounds
<1> QED  BY <1>1, <1>2 DEF Filled

\* The cursor goes back for an item that is written again.
LEMMA CursorBack ==
    ASSUME NEW V, NEW cursor \in Nat, NEW sets \in Nat \ {0}, Filled(V, cursor, sets),
           ~(Items \subseteq V), NEW j
    PROVE  Filled(V \cup {j}, (((cursor - 1) % CursorMod) + 1) % CursorMod, sets + 1)
<1>1. cursor < WinSize /\ 1..cursor \subseteq V /\ cursor > 0
    BY DEF Filled
<1>2. CursorMod \in Nat \ {0} /\ cursor \in 0..(CursorMod - 1) /\ cursor - 1 \in 0..(CursorMod - 1)
      /\ cursor \in Int /\ cursor - 1 \in Int
    BY <1>1, Bounds
<1>3. (cursor - 1) % CursorMod = cursor - 1 /\ cursor % CursorMod = cursor
    BY <1>2, Remainders
<1>4. (((cursor - 1) % CursorMod) + 1) % CursorMod = cursor
    BY <1>3
<1> QED  BY <1>1, <1>4 DEF Filled

\* What choosing a task leaves alone.
Aside(b, q) ==
    /\ b.state = q.state /\ b.sch = q.sch /\ b.warm = q.warm /\ b.remain = q.remain
    /\ b.pre = q.pre /\ b.cur = q.cur /\ b.ml = q.ml /\ b.vindex = q.vindex /\ b.sock = q.sock
    /\ b.fds = q.fds /\ b.req = q.req /\ b.out = q.out /\ b.rbuf = q.rbuf
    /\ b.readval = q.readval /\ b.key = q.key /\ b.id = q.id

\* The connection b is q with another window, cursor, and command of its task.
Picked(b, q, win, cursor, cmd, i) ==
    /\ b \in Links /\ Aside(b, q) /\ b.win = win /\ b.set_cursor = cursor
    /\ b.task.cmd = cmd /\ b.task.item = i /\ b.task.verify = q.task.verify
    /\ b.task.gets = q.task.gets /\ b.task.sets = q.task.sets

\* A command is picked, with an item.
LEMMA PickTask ==
    ASSUME NEW q \in Links, NEW cmd \in {"SET", "GET"}, NEW i \in Items
    PROVE  Picked([q EXCEPT !.task.item = i, !.task.cmd = cmd], q, q.win, q.set_cursor, cmd, i)
<1> DEFINE t == [q.task EXCEPT !.item = i, !.cmd = cmd]
           b == [q EXCEPT !.task = t]
<1>1. q.task \in Tasks
    BY LinkFields
<1>2. t \in Tasks /\ t.cmd = cmd /\ t.item = i /\ t.verify = q.task.verify
      /\ t.gets = q.task.gets /\ t.sets = q.task.sets
    BY <1>1 DEF Tasks
<1>3. [q EXCEPT !.task.item = i, !.task.cmd = cmd] = b
    BY <1>1 DEF Links, Tasks
<1> HIDE DEF t
<1>4. b \in Links /\ Aside(b, q) /\ b.win = q.win /\ b.set_cursor = q.set_cursor /\ b.task = t
    BY <1>2 DEF Links, Aside
<1> HIDE DEF b
<1> QED  BY <1>2, <1>3, <1>4 DEF Picked

\* ... and another count of overwrites,
LEMMA PickOverwrites ==
    ASSUME NEW q, NEW b, NEW win, NEW cursor, NEW cmd, NEW i,
           Picked(b, q, win, cursor, cmd, i), NEW o \in Nat
    PROVE  Picked([b EXCEPT !.task.overwrites = o], q, win, cursor, cmd, i)
<1> DEFINE t == [b.task EXCEPT !.overwrites = o]
           x == [b EXCEPT !.task = t]
<1>1. b \in Links /\ b.task \in Tasks
    BY LinkFields DEF Picked
<1>2. t \in Tasks /\ t.cmd = b.task.cmd /\ t.item = b.task.item /\ t.verify = b.task.verify
      /\ t.gets = b.task.gets /\ t.sets = b.task.sets
    BY <1>1 DEF Tasks
<1>3. [b EXCEPT !.task.overwrites = o] = x
    OBVIOUS
<1> HIDE DEF t
<1>4. x \in Links /\ Aside(x, b) /\ x.win = b.win /\ x.set_cursor = b.set_cursor /\ x.task = t
    BY <1>1, <1>2 DEF Links, Aside
<1> HIDE DEF x
<1> QED  BY <1>1, <1>2, <1>3, <1>4 DEF Picked, Aside

\* ... another item,
LEMMA PickItem ==
    ASSUME NEW q, NEW b, NEW win, NEW cursor, NEW cmd, NEW i,
           Picked(b, q, win, cursor, cmd, i), NEW j \in Items
    PROVE  Picked([b EXCEPT !.task.item = j], q, win, cursor, cmd, j)
<1> DEFINE t == [b.task EXCEPT !.item = j]
           x == [b EXCEPT !.task = t]
<1>1. b \in Links /\ b.task \in Tasks
    BY LinkFields DEF Picked
<1>2. t \in Tasks /\ t.cmd = b.task.cmd /\ t.item = j /\ t.verify = b.task.verify
      /\ t.gets = b.task.gets /\ t.sets = b.task.sets
    BY <1>1 DEF Tasks
<1>3. [b EXCEPT !.task.item = j] = x
    OBVIOUS
<1> HIDE DEF t
<1>4. x \in Links /\ Aside(x, b) /\ x.win = b.win /\ x.set_cursor = b.set_cursor /\ x.task = t
    BY <1>1, <1>2 DEF Links, Aside
<1> HIDE DEF x
<1> QED  BY <1>1, <1>2, <1>3, <1>4 DEF Picked, Aside

\* ... another cursor,
LEMMA PickCursor ==
    ASSUME NEW q, NEW b, NEW win, NEW cursor, NEW cmd, NEW i,
           Picked(b, q, win, cursor, cmd, i), NEW p \in Nat
    PROVE  Picked([b EXCEPT !.set_cursor = p], q, win, p, cmd, i)
<1> DEFINE x == [b EXCEPT !.set_cursor = p]
<1>1. b \in Links
    BY DEF Picked
<1>2. x \in Links /\ Aside(x, b) /\ x.win = b.win /\ x.set_cursor = p /\ x.task = b.task
    BY <1>1 DEF Links, Aside
<1> HIDE DEF x
<1>3. Picked(x, q, win, p, cmd, i)
    BY <1>1, <1>2 DEF Picked, Aside
<1> QED  BY <1>3 DEF x

\* ... or another window.
LEMMA PickWindow ==
    ASSUME NEW q \in Links, NEW w \in [Items -> Objects], NEW i \in Items
    PROVE  Picked([q EXCEPT !.win = w, !.task.item = i, !.task.cmd = "SET"], q, w,
                  q.set_cursor, "SET", i)
<1> DEFINE y == [q EXCEPT !.win = w]
           x == [y EXCEPT !.task.item = i, !.task.cmd = "SET"]
<1>1. y \in Links /\ Aside(y, q) /\ y.win = w /\ y.set_cursor = q.set_cursor /\ y.task = q.task
    BY DEF Links, Aside
<1>2. [q EXCEPT !.win = w, !.task.item = i, !.task.cmd = "SET"] = x
    OBVIOUS
<1> HIDE DEF y
<1>3. Picked(x, y, y.win, y.set_cursor, "SET", i)
    <2>1. "SET" \in {"SET", "GET"}
        OBVIOUS
    <2> QED  BY <1>1, <2>1, PickTask
<1> HIDE DEF x
<1>4. Picked(x, q, w, q.set_cursor, "SET", i)
    BY <1>1, <1>3 DEF Picked, Aside
<1> QED  BY <1>2, <1>4

\* What the choice b of a task for q, with the next free key s, promises.
Chose(q, b, s) ==
    /\ b \in Links /\ Aside(b, q)
    /\ b.task.cmd \in {"SET", "GET"} /\ b.task.item \in Items /\ b.task.verify = q.task.verify
    /\ b.task.gets = q.task.gets /\ b.task.sets = q.task.sets
    /\ \/ s = seq /\ b.win = q.win
       \/ /\ s = seq + 1 /\ b.task.cmd = "SET"
          /\ b.win = [q.win EXCEPT ![b.task.item] = ms_kick_out_item(@, seq)]
    /\ b.task.cmd = "GET" =>
          /\ s = seq /\ b.win = q.win /\ b.win[b.task.item].off # Invalid
          /\ b.set_cursor = q.set_cursor
          /\ mode.sp > 0 => LeadOf(mode, q.task) < 0
    /\ b.task.cmd = "SET" =>
          /\ mode.ow = 0 => b.win[b.task.item].off = Invalid
          /\ mode.sp > 0 /\ Filled(Valid(q), q.set_cursor, q.task.sets) =>
                /\ LeadOf(mode, q.task) >= 0
                /\ Filled(Valid(q) \cup {b.task.item}, (b.set_cursor + 1) % CursorMod,
                          q.task.sets + 1)

\* An item that is given a new key has no value.
LEMMA KickedOut ==
    ASSUME seq \in Nat, NEW q \in Links, NEW i \in Items
    PROVE  LET win == [q.win EXCEPT ![i] = ms_kick_out_item(@, seq)]
           IN /\ win \in [Items -> Objects] /\ win[i].key = seq /\ win[i].off = Invalid
              /\ \A j \in Items : j # i => win[j] = q.win[j]
<1>1. q.win \in [Items -> Objects] /\ q.win[i].sfx \in Nat
    BY LinkFields, ItemFields
<1>2. /\ ms_kick_out_item(q.win[i], seq) \in Objects
      /\ ms_kick_out_item(q.win[i], seq).key = seq
      /\ ms_kick_out_item(q.win[i], seq).off = Invalid
    BY <1>1, Bounds DEF ms_kick_out_item, Objects
<1> QED  BY <1>1, <1>2

\* Which kind of command is ahead of its share.
LEMMA LeadSign ==
    ASSUME mode \in Modes, NEW q \in Links
    PROVE  /\ LeadOf(mode, q.task) \in Int
           /\ SelectsSet(q.task) <=> mode.sp > 0 /\ LeadOf(mode, q.task) >= 0
           /\ SelectsSet(q.task) => ~ms_is_set_too_fast(q.task)
           /\ mode.sp > 0 /\ ~SelectsSet(q.task) => ~ms_is_get_too_fast(q.task)
           /\ ms_need_overwrite_item(q.task) => mode.ow # 0 /\ q.task.sets # 0
<1>1. q.task.gets \in Nat /\ q.task.sets \in Nat /\ q.task.overwrites \in Nat
      /\ mode.sp \in Nat /\ mode.gp \in Nat /\ mode.ow \in {0, 1}
    BY TaskFields, ModeIs
<1> DEFINE x == q.task.gets * mode.sp
           y == q.task.sets * mode.gp
<1>2. x \in Int /\ y \in Int
    BY <1>1
<1>3. /\ LeadOf(mode, q.task) = x - y
      /\ SelectsSet(q.task) <=> mode.sp > 0 /\ x >= y
      /\ ms_is_set_too_fast(q.task) => x < y
      /\ ms_is_get_too_fast(q.task) => x > y
    BY DEF LeadOf, SelectsSet, ms_is_set_too_fast, ms_is_get_too_fast
<1>4. ms_need_overwrite_item(q.task) => mode.ow # 0 /\ q.task.sets # 0
    BY <1>1 DEF ms_need_overwrite_item
<1> HIDE DEF x, y
<1> QED  BY <1>2, <1>3, <1>4

\* An item is given a new key.
LEMMA KickOutIs ==
    ASSUME seq \in Nat, NEW q \in Links, NEW i \in Items
    PROVE  LET ch == KickOut(q, i)
               w == [q.win EXCEPT ![i] = ms_kick_out_item(@, seq)]
           IN Picked(ch.k, q, w, q.set_cursor, "SET", i) /\ ch.seq = seq + 1 /\ w[i].off = Invalid
<1> DEFINE ch == KickOut(q, i)
           w == [q.win EXCEPT ![i] = ms_kick_out_item(@, seq)]
           x == [q EXCEPT !.win = w, !.task.item = i, !.task.cmd = "SET"]
<1>1. w \in [Items -> Objects] /\ w[i].off = Invalid
    BY KickedOut
<1>2. ch.k = x /\ ch.seq = seq + 1
    BY DEF KickOut, Chosen
<1> HIDE DEF w, ch
<1>3. Picked(x, q, w, q.set_cursor, "SET", i)
    BY <1>1, PickWindow
<1> QED  BY <1>1, <1>2, <1>3 DEF ch, w

\* A task chosen after a set was selected.
LEMMA ChoseSet ==
    ASSUME mode \in Modes, seq \in Nat, NEW q \in Links, SelectsSet(q.task),
           NEW ch \in AdjustSet(q)
    PROVE  Chose(q, ch.k, ch.seq)
<1> DEFINE i == ms_get_next_set_item(q.set_cursor)
           o == q.task.overwrites
           w == q.win
           p == q.set_cursor
           set == [q EXCEPT !.task.item = i, !.task.cmd = "SET"]
<1>1. /\ i \in Items /\ o \in Nat /\ p \in Nat /\ q.task.sets \in Nat /\ Valid(q) \subseteq Items
      /\ q.task \in Tasks
    BY LinkFields, TaskFields, NextItems DEF Valid
<1>2. /\ mode.sp > 0 /\ LeadOf(mode, q.task) >= 0 /\ ~ms_is_set_too_fast(q.task)
      /\ ms_need_overwrite_item(q.task) => mode.ow # 0 /\ q.task.sets # 0
    BY LeadSign
<1>3. Filled(Valid(q), p, q.task.sets) =>
          Filled(Valid(q) \cup {i}, (p + 1) % CursorMod, q.task.sets + 1)
    BY <1>1, CursorOn
<1>4. "SET" # "GET" /\ "SET" \in {"SET", "GET"}
    OBVIOUS
<1> HIDE DEF i
<1>5. Picked(set, q, w, p, "SET", i)
    BY <1>1, <1>4, PickTask
<1>6. CASE w[i].off # Invalid /\ ms_need_overwrite_item(q.task)
    <2>1. ch = Chosen([set EXCEPT !.task.overwrites = @ + 1], seq)
        BY <1>2, <1>6 DEF AdjustSet, i
    <2>2. set.task.overwrites = o
        BY <1>1 DEF Links, Tasks
    <2> HIDE DEF set
    <2>3. ch.k = [set EXCEPT !.task.overwrites = o + 1] /\ ch.seq = seq
        BY <2>1, <2>2 DEF Chosen
    <2>4. o + 1 \in Nat
        BY <1>1
    <2>5. Picked(ch.k, q, w, p, "SET", i)
        BY <1>5, <2>3, <2>4, PickOverwrites
    <2> QED  BY <1>1, <1>2, <1>3, <1>4, <1>6, <2>3, <2>5 DEF Chose, Picked
<1>7. CASE w[i].off # Invalid /\ ~ms_need_overwrite_item(q.task)
    <2>1. ch = KickOut(q, i)
        BY <1>2, <1>7 DEF AdjustSet, i
    <2> DEFINE win == [q.win EXCEPT ![i] = ms_kick_out_item(@, seq)]
    <2>2. Picked(ch.k, q, win, p, "SET", i) /\ ch.seq = seq + 1 /\ win[i].off = Invalid
        BY <1>1, <2>1, KickOutIs
    <2> QED  BY <1>1, <1>2, <1>3, <1>4, <2>2 DEF Chose, Picked
<1>8. CASE w[i].off = Invalid /\ ms_need_overwrite_item(q.task)
    <2> DEFINE back == [set EXCEPT !.set_cursor = (@ - 1) % CursorMod]
               p2 == (p - 1) % CursorMod
    <2>1. PICK j \in ms_get_next_get_item(back.set_cursor) :
              ch = Chosen([back EXCEPT !.task.item = j,
                              !.task.overwrites = IF q.win[j].off # Invalid THEN @ + 1 ELSE @],
                          seq)
        BY <1>2, <1>8 DEF AdjustSet, i
    <2>2. p2 \in Nat
        <3>1. p - 1 \in Int /\ CursorMod \in Nat \ {0}
            BY <1>1, Bounds
        <3>2. p2 \in 0..(CursorMod - 1)
            BY <3>1, Remainders
        <3> QED  BY <3>1, <3>2
    <2>3. set.set_cursor = p
        BY <1>5 DEF Picked
    <2> HIDE DEF set
    <2>4. back = [set EXCEPT !.set_cursor = p2]
        BY <2>3
    <2> HIDE DEF back
    <2>5. Picked([set EXCEPT !.set_cursor = p2], q, w, p2, "SET", i)
        BY <1>5, <2>2, PickCursor
    <2>6. Picked(back, q, w, p2, "SET", i)
        BY <2>4, <2>5
    <2>7. j \in Items
        BY <2>1, <2>2, <2>6, NextItems DEF Picked
    <2> DEFINE item == [back EXCEPT !.task.item = j]
               o2 == IF q.win[j].off # Invalid THEN item.task.overwrites + 1
                     ELSE item.task.overwrites
    <2>8. Picked(item, q, w, p2, "SET", j)
        BY <2>6, <2>7, PickItem
    <2>9. ch.k = [item EXCEPT !.task.overwrites = o2] /\ ch.seq = seq
        BY <2>1 DEF Chosen
    <2> HIDE DEF item
    <2>10. o2 \in Nat
        <3>1. item \in Links
            BY <2>8 DEF Picked
        <3>2. item.task.overwrites \in Nat
            BY <3>1, TaskFields
        <3> QED  BY <3>2
    <2> HIDE DEF o2
    <2>11. Picked(ch.k, q, w, p2, "SET", j)
        BY <2>8, <2>9, <2>10, PickOverwrites
    <2>12. Filled(Valid(q), p, q.task.sets) =>
               Filled(Valid(q) \cup {j}, (p2 + 1) % CursorMod, q.task.sets + 1)
        <3>1. q.task.sets \in Nat \ {0} /\ ~(Items \subseteq Valid(q))
            BY <1>1, <1>2, <1>8 DEF Valid
        <3> QED  BY <3>1, <1>1, CursorBack
    <2> HIDE DEF p2
    <2> QED  BY <1>1, <1>2, <1>4, <1>8, <2>7, <2>9, <2>11, <2>12 DEF Chose, Picked
<1>9. CASE w[i].off = Invalid /\ ~ms_need_overwrite_item(q.task)
    <2>1. ch = Chosen(set, seq)
        BY <1>2, <1>9 DEF AdjustSet, i
    <2> HIDE DEF set
    <2>2. ch.k = set /\ ch.seq = seq
        BY <2>1 DEF Chosen
    <2> QED  BY <1>1, <1>2, <1>3, <1>4, <1>5, <1>9, <2>2 DEF Chose, Picked
<1> QED  BY <1>6, <1>7, <1>8, <1>9

\* A task chosen after a get was selected.
LEMMA ChoseGet ==
    ASSUME mode \in Modes, seq \in Nat, NEW q \in Links, ~SelectsSet(q.task),
           NEW ch \in AdjustGet(q)
    PROVE  Chose(q, ch.k, ch.seq)
<1> DEFINE w == q.win
           p == q.set_cursor
<1>1. p \in Nat /\ q.task.sets \in Nat /\ q.task.gets \in Nat
    BY LinkFields, TaskFields
<1>2. PICK i \in ms_get_next_get_item(p) :
          ch = LET get == [q EXCEPT !.task.item = i, !.task.cmd = "GET"]
               IN CASE q.win[i].off = Invalid -> Chosen([get EXCEPT !.task.cmd = "SET"], seq)
                    [] q.win[i].off # Invalid /\ ms_is_get_too_fast(q.task) -> KickOut(q, i)
                    [] OTHER -> Chosen(get, seq)
    BY DEF AdjustGet
<1>3. i \in Items
    BY <1>1, <1>2, NextItems
<1>4. "SET" # "GET" /\ "SET" \in {"SET", "GET"} /\ "GET" \in {"SET", "GET"}
    OBVIOUS
<1>5. mode.sp > 0 => LeadOf(mode, q.task) < 0 /\ ~ms_is_get_too_fast(q.task)
    <2>1. mode.sp > 0 => /\ ~ms_is_get_too_fast(q.task) /\ ~(LeadOf(mode, q.task) >= 0)
                         /\ LeadOf(mode, q.task) \in Int
        BY LeadSign
    <2> HIDE DEF LeadOf
    <2> QED  BY <2>1
<1>6. mode.sp > 0 /\ Filled(Valid(q), p, q.task.sets) => w[i].off # Invalid
    <2> SUFFICES ASSUME mode.sp > 0, Filled(Valid(q), p, q.task.sets) PROVE i \in Valid(q)
        BY DEF Valid
    <2>1. q.task.sets > 0
        <3>1. CASE q.task.sets = 0
            <4>1. mode.sp \in Nat /\ mode.gp \in Nat
                BY ModeIs
            <4>2. \A x \in Nat : \A y \in Nat : x * y \in Nat /\ 0 * y = 0
                OBVIOUS
            <4>3. LeadOf(mode, q.task) = q.task.gets * mode.sp - 0 * mode.gp
                BY <3>1 DEF LeadOf
            <4>4. q.task.gets * mode.sp \in Nat /\ 0 * mode.gp = 0
                BY <1>1, <4>1, <4>2, Zenon
            <4> QED  BY <4>3, <4>4, <1>5
        <3> QED  BY <3>1, <1>1
    <2>2. CASE Items \subseteq Valid(q)
        BY <2>2, <1>3
    <2>3. CASE p < WinSize /\ 1..p \subseteq Valid(q) /\ p > 0
        BY <2>3, <1>2, <1>1 DEF ms_get_next_get_item
    <2> QED  BY <2>1, <2>2, <2>3 DEF Filled
<1>7. CASE w[i].off = Invalid
    <2>1. ch = Chosen([[q EXCEPT !.task.item = i, !.task.cmd = "GET"] EXCEPT !.task.cmd = "SET"], seq)
        BY <1>2, <1>7
    <2>2. [[q EXCEPT !.task.item = i, !.task.cmd = "GET"] EXCEPT !.task.cmd = "SET"] =
              [q EXCEPT !.task.item = i, !.task.cmd = "SET"]
        <3>1. q.task \in Tasks
            BY LinkFields
        <3>2. [[q.task EXCEPT !.item = i, !.cmd = "GET"] EXCEPT !.cmd = "SET"] =
                  [q.task EXCEPT !.item = i, !.cmd = "SET"]
            BY <3>1 DEF Tasks
        <3>3. \A t, t2 : [[q EXCEPT !.task = t] EXCEPT !.task = t2] = [q EXCEPT !.task = t2]
            BY DEF Links
        <3>4. \A t : [q EXCEPT !.task = t].task = t
            BY DEF Links
        <3> QED  BY <3>2, <3>3, <3>4 DEF Links
    <2>3. ch.k = [q EXCEPT !.task.item = i, !.task.cmd = "SET"] /\ ch.seq = seq
        BY <2>1, <2>2 DEF Chosen
    <2>4. Picked(ch.k, q, w, p, "SET", i)
        BY <1>3, <1>4, <2>3, PickTask
    <2> QED  BY <1>3, <1>4, <1>6, <1>7, <2>3, <2>4 DEF Chose, Picked
<1>8. CASE w[i].off # Invalid /\ ms_is_get_too_fast(q.task)
    <2>1. ch = KickOut(q, i)
        BY <1>2, <1>8
    <2> DEFINE win == [q.win EXCEPT ![i] = ms_kick_out_item(@, seq)]
    <2>2. Picked(ch.k, q, win, p, "SET", i) /\ ch.seq = seq + 1 /\ win[i].off = Invalid
        BY <1>3, <2>1, KickOutIs
    <2> QED  BY <1>3, <1>4, <1>5, <1>8, <2>2 DEF Chose, Picked
<1>9. CASE w[i].off # Invalid /\ ~ms_is_get_too_fast(q.task)
    <2>1. ch = Chosen([q EXCEPT !.task.item = i, !.task.cmd = "GET"], seq)
        BY <1>2, <1>9
    <2>2. ch.k = [q EXCEPT !.task.item = i, !.task.cmd = "GET"] /\ ch.seq = seq
        BY <2>1 DEF Chosen
    <2>3. Picked(ch.k, q, w, p, "GET", i)
        BY <1>3, <1>4, <2>2, PickTask
    <2> QED  BY <1>3, <1>4, <1>5, <1>9, <2>2, <2>3 DEF Chose, Picked
<1> QED  BY <1>7, <1>8, <1>9

\* What the task b for q, with the next free key s, promises.
Took(q, b, s) ==
    /\ b \in Links /\ Aside(b, q)
    /\ b.task.cmd \in {"SET", "GET"} /\ b.task.item \in Items
    /\ mode.verify = 0 => ~b.task.verify
    /\ b.task.sets = q.task.sets
    /\ \/ s = seq /\ b.win = q.win
       \/ /\ s = seq + 1 /\ b.task.cmd = "SET"
          /\ b.win = [q.win EXCEPT ![b.task.item] = ms_kick_out_item(@, seq)]
    /\ b.task.cmd = "GET" =>
          /\ s = seq /\ b.win = q.win /\ b.win[b.task.item].off # Invalid
          /\ b.set_cursor = q.set_cursor /\ b.task.gets = q.task.gets + 1
          /\ mode.sp > 0 => LeadOf(mode, q.task) < 0
    /\ b.task.cmd = "SET" =>
          /\ b.task.gets = q.task.gets
          /\ mode.ow = 0 => b.win[b.task.item].off = Invalid
          /\ mode.sp > 0 /\ Filled(Valid(q), q.set_cursor, q.task.sets) =>
                /\ LeadOf(mode, q.task) >= 0
                /\ Filled(Valid(q) \cup {b.task.item}, (b.set_cursor + 1) % CursorMod,
                          q.task.sets + 1)

\* A get is counted, and marked for verification.
LEMMA CountedIs ==
    ASSUME mode \in Modes, NEW b \in Links
    PROVE  LET k == Counted(b)
           IN /\ k \in Links /\ Aside(k, b) /\ k.win = b.win /\ k.set_cursor = b.set_cursor
              /\ k.task.cmd = b.task.cmd /\ k.task.item = b.task.item /\ k.task.sets = b.task.sets
              /\ k.task.gets = IF b.task.cmd = "GET" THEN b.task.gets + 1 ELSE b.task.gets
              /\ mode.verify = 0 => k.task.verify = b.task.verify
<1> DEFINE v == VerifyInit(b)
<1>1. b.task \in Tasks
    BY LinkFields
<1>2. /\ v \in Links /\ Aside(v, b) /\ v.win = b.win /\ v.set_cursor = b.set_cursor
      /\ v.task \in Tasks /\ v.task.cmd = b.task.cmd /\ v.task.item = b.task.item
      /\ v.task.sets = b.task.sets /\ v.task.gets = b.task.gets
      /\ mode.verify = 0 => v.task.verify = b.task.verify
    <2>1. CASE ~(mode.verify > 0 /\ b.task.verified < b.task.gets * mode.verify)
        BY <2>1, <1>1 DEF VerifyInit, Aside
    <2>2. CASE mode.verify > 0 /\ b.task.verified < b.task.gets * mode.verify
        <3> DEFINE t == [b.task EXCEPT !.verify = TRUE, !.finish = FALSE, !.verified = @ + 1]
        <3>1. v = [b EXCEPT !.task.verify = TRUE, !.task.finish = FALSE, !.task.verified = @ + 1]
            BY <2>2 DEF VerifyInit
        <3>2. v = [b EXCEPT !.task = t]
            BY <3>1, <1>1 DEF Links, Tasks
        <3>3. t \in Tasks /\ t.cmd = b.task.cmd /\ t.item = b.task.item
              /\ t.sets = b.task.sets /\ t.gets = b.task.gets
            <4> DEFINE u == b.task.verified + 1
            <4>1. u \in Nat
                BY <1>1 DEF Tasks
            <4>2. t = [b.task EXCEPT !.verify = TRUE, !.finish = FALSE, !.verified = u]
                OBVIOUS
            <4> HIDE DEF u, t
            <4> QED  BY <1>1, <4>1, <4>2 DEF Tasks
        <3> HIDE DEF t, v
        <3>4. v \in Links /\ Aside(v, b) /\ v.win = b.win /\ v.set_cursor = b.set_cursor
              /\ v.task = t
            BY <3>2, <3>3 DEF Links, Aside
        <3>5. mode.verify # 0
            BY <2>2, ModeIs
        <3> QED  BY <3>3, <3>4, <3>5
    <2> QED  BY <2>1, <2>2
<1> HIDE DEF v
<1>3. CASE b.task.cmd # "GET"
    BY <1>3 DEF Counted, Aside
<1>4. CASE b.task.cmd = "GET"
    <2> DEFINE t == [v.task EXCEPT !.gets = @ + 1]
               k == [v EXCEPT !.task = t]
    <2>1. Counted(b) = k
        BY <1>4 DEF Counted, v
    <2>2. t \in Tasks /\ t.cmd = v.task.cmd /\ t.item = v.task.item /\ t.sets = v.task.sets
          /\ t.gets = v.task.gets + 1 /\ t.verify = v.task.verify
        BY <1>2 DEF Tasks
    <2> HIDE DEF t
    <2>3. k \in Links /\ Aside(k, v) /\ k.win = v.win /\ k.set_cursor = v.set_cursor /\ k.task = t
        BY <1>2, <2>2 DEF Links, Aside
    <2> HIDE DEF k
    <2> QED  BY <1>2, <1>4, <2>1, <2>2, <2>3 DEF Aside
<1> QED  BY <1>3, <1>4

\* The task a connection takes.
LEMMA TaskIs ==
    ASSUME mode \in Modes, seq \in Nat, NEW q \in Links, NEW ch \in ms_get_task(q)
    PROVE  Took(q, ch.k, ch.seq)
<1> DEFINE t == [q.task EXCEPT !.verify = FALSE, !.finish = TRUE, !.miss = TRUE]
           k0 == [q EXCEPT !.task.verify = FALSE, !.task.finish = TRUE, !.task.miss = TRUE]
<1>1. q.task \in Tasks
    BY LinkFields
<1>2. k0 = [q EXCEPT !.task = t]
    BY <1>1 DEF Links, Tasks
<1>3. t \in Tasks /\ ~t.verify /\ t.gets = q.task.gets /\ t.sets = q.task.sets
    BY <1>1 DEF Tasks
<1> HIDE DEF t
<1>4. PICK ch0 \in (IF SelectsSet(k0.task) THEN AdjustSet(k0) ELSE AdjustGet(k0)) :
          ch = [ch0 EXCEPT !.k = Counted(@)]
    BY DEF ms_get_task
<1> HIDE DEF k0
<1>5. k0 \in Links /\ Aside(k0, q) /\ k0.win = q.win /\ k0.set_cursor = q.set_cursor /\ k0.task = t
    BY <1>2, <1>3 DEF Links, Aside
<1>6. Chose(k0, ch0.k, ch0.seq)
    BY <1>4, <1>5, ChoseSet, ChoseGet
<1>7. ch.seq = ch0.seq /\ ch.k = Counted(ch0.k)
    <2>1. \E k, s : ch0 = Chosen(k, s)
        <3>1. CASE SelectsSet(k0.task)
            <4>1. ch0 \in AdjustSet(k0)
                BY <3>1, <1>4
            <4> QED  BY <4>1 DEF AdjustSet, KickOut
        <3>2. CASE ~SelectsSet(k0.task)
            <4>1. ch0 \in AdjustGet(k0)
                BY <3>2, <1>4
            <4> QED  BY <4>1 DEF AdjustGet, KickOut
        <3> QED  BY <3>1, <3>2
    <2> QED  BY <2>1, <1>4 DEF Chosen
<1> DEFINE b == ch0.k
<1>8. b \in Links
    BY <1>6 DEF Chose
<1> HIDE DEF b
<1>9. LET k == Counted(b)
      IN /\ k \in Links /\ Aside(k, b) /\ k.win = b.win /\ k.set_cursor = b.set_cursor
         /\ k.task.cmd = b.task.cmd /\ k.task.item = b.task.item /\ k.task.sets = b.task.sets
         /\ k.task.gets = IF b.task.cmd = "GET" THEN b.task.gets + 1 ELSE b.task.gets
         /\ mode.verify = 0 => k.task.verify = b.task.verify
    BY <1>8, CountedIs
<1>10. LeadOf(mode, k0.task) = LeadOf(mode, q.task) /\ Valid(k0) = Valid(q)
    BY <1>3, <1>5 DEF LeadOf, Valid
<1>11. Chose(k0, b, ch0.seq) /\ ch.k = Counted(b)
    BY <1>6, <1>7 DEF b
<1> DEFINE k == Counted(b)
<1>12. /\ k \in Links /\ Aside(k, b) /\ k.win = b.win /\ k.set_cursor = b.set_cursor
       /\ k.task.cmd = b.task.cmd /\ k.task.item = b.task.item /\ k.task.sets = b.task.sets
       /\ k.task.gets = IF b.task.cmd = "GET" THEN b.task.gets + 1 ELSE b.task.gets
       /\ mode.verify = 0 => k.task.verify = b.task.verify
       /\ ch.k = k /\ ch.seq = ch0.seq
    BY <1>7, <1>9, <1>11
<1> HIDE DEF k
<1>13. Aside(k, q)
    BY <1>5, <1>11, <1>12 DEF Aside, Chose
<1> HIDE DEF LeadOf
<1> QED  BY <1>3, <1>5, <1>10, <1>11, <1>12, <1>13 DEF Chose, Took

-----------------------------------------------------------------------------
(* Preparing the task.                                                     *)

\* The command k that was prepared from b.
Prepared(b, k, cmd) ==
    /\ k \in Links /\ k.cur.cmd = cmd /\ k.cur.ret = "FAILURE" /\ k.sock \in Socks
    /\ k.out /\ ~k.sch /\ k.req.op = cmd /\ k.req.id = k.id
    /\ k.state = b.state /\ k.win = b.win /\ k.set_cursor = b.set_cursor
    /\ k.warm = b.warm /\ k.remain = b.remain /\ k.task = b.task /\ k.ml = b.ml
    /\ k.fds = b.fds /\ k.rbuf = b.rbuf /\ k.readval = b.readval

\* A set is prepared.
LEMMA SetPrepared ==
    ASSUME mode \in Modes, NEW b \in Links, b.fds \subseteq Socks, NEW k \in ms_mcd_set(b)
    PROVE  Prepared(b, k, "SET") /\ AsksSet(k)
<1> DEFINE it == b.win[b.task.item]
           val == IF it.off = Invalid THEN it.sfx ELSE it.off
           keys == <<it.key>>
<1>1. b.task.item \in Items
    BY TaskFields
<1>2. it.key \in Nat /\ it.sfx \in Nat /\ it.off \in Offsets
    BY <1>1, ItemFields
<1>3. keys \in Seq(Nat) /\ val \in Offsets
    BY <1>2, Bounds
<1>4. k \in Prepare(b, "SET", keys, val) /\ "SET" \in {"SET", "GET"}
    BY DEF ms_mcd_set
<1>5. keys = <<it.key>> /\ val = IF it.off = Invalid THEN it.sfx ELSE it.off
    OBVIOUS
<1> HIDE DEF keys, val
<1>6. Prepared(b, k, "SET") /\ k.req.keys = keys /\ k.req.val = val
    BY <1>3, <1>4, PrepareIs DEF Prepared
<1> QED  BY <1>5, <1>6 DEF Prepared, AsksSet

\* A get is prepared.
LEMMA GetPrepared ==
    ASSUME mode \in Modes, NEW b \in Links, b.fds \subseteq Socks, NEW k \in ms_mcd_get(b)
    PROVE  Prepared(b, k, "GET") /\ k.req.keys = <<b.win[b.task.item].key>>
<1> DEFINE keys == <<b.win[b.task.item].key>>
<1>1. b.task.item \in Items
    BY TaskFields
<1>2. b.win[b.task.item].key \in Nat
    BY <1>1, ItemFields
<1>3. keys \in Seq(Nat)
    BY <1>2
<1>4. k \in Prepare(b, "GET", keys, Invalid) /\ "GET" \in {"SET", "GET"} /\ Invalid \in Offsets
    BY Bounds DEF ms_mcd_get
<1>5. keys = <<b.win[b.task.item].key>>
    OBVIOUS
<1> HIDE DEF keys
<1>6. Prepared(b, k, "GET") /\ k.req.keys = keys
    BY <1>3, <1>4, PrepareIs DEF Prepared
<1> QED  BY <1>5, <1>6

\* A multi-get is prepared.
LEMMA GetsPrepared ==
    ASSUME mode \in Modes, NEW b \in Links, b.fds \subseteq Socks, NEW k \in ms_mcd_mlget(b)
    PROVE  /\ Prepared(b, k, "GET") /\ Len(k.req.keys) = Len(k.ml)
           /\ \A j \in 1..Len(k.ml) : k.req.keys[j] = k.win[k.ml[j].item].key
<1> DEFINE keys == [j \in 1..Len(b.ml) |-> b.win[b.ml[j].item].key]
<1>1. b.ml \in Seq(Marks) /\ Len(b.ml) \in Nat /\ \A j \in 1..Len(b.ml) : b.ml[j] \in Marks
    BY LinkFields, LenProperties, ElementOfSeq
<1>2. \A j \in 1..Len(b.ml) : b.win[b.ml[j].item].key \in Nat
    <2> SUFFICES ASSUME NEW j \in 1..Len(b.ml) PROVE b.win[b.ml[j].item].key \in Nat
        OBVIOUS
    <2>1. b.ml[j].item \in Items
        BY <1>1 DEF Marks
    <2> QED  BY <2>1, ItemFields
<1>3. keys \in Seq(Nat) /\ Len(keys) = Len(b.ml)
      /\ \A j \in 1..Len(b.ml) : keys[j] = b.win[b.ml[j].item].key
    <2>1. keys \in [1..Len(b.ml) -> Nat]
        BY <1>2
    <2>2. keys \in Seq(Nat)
        BY <1>1, <2>1, SeqDef
    <2>3. DOMAIN keys = 1..Len(b.ml)
        OBVIOUS
    <2>4. Len(keys) = Len(b.ml)
        BY <1>1, <2>2, <2>3, LenProperties
    <2> QED  BY <2>2, <2>4
<1>4. k \in Prepare(b, "GET", keys, Invalid) /\ "GET" \in {"SET", "GET"} /\ Invalid \in Offsets
    BY Bounds DEF ms_mcd_mlget
<1> HIDE DEF keys
<1>5. Prepared(b, k, "GET") /\ k.req.keys = keys
    BY <1>3, <1>4, PrepareIs DEF Prepared
<1> QED  BY <1>3, <1>5 DEF Prepared

\* The get of b is added to those collected by k.
Gathered(b, k) ==
    /\ Len(k.ml) = Len(b.ml) + 1 /\ Len(b.ml) \in Nat
    /\ \A j \in 1..Len(b.ml) : k.ml[j] = b.ml[j]
    /\ k.ml[Len(b.ml) + 1].verify = b.task.verify

\* Collecting a get changes only the gets collected (ms_multi_getset_task_sch).
LEMMA CollectedIs ==
    ASSUME NEW b \in Links
    PROVE  LET k == Collected(b)
           IN /\ k \in Links /\ Gathered(b, k) /\ k.state = b.state /\ k.win = b.win
              /\ k.set_cursor = b.set_cursor /\ k.warm = b.warm /\ k.remain = b.remain
              /\ k.task = b.task /\ k.fds = b.fds /\ k.rbuf = b.rbuf /\ k.readval = b.readval
              /\ k.sch = b.sch /\ k.out = b.out /\ k.sock = b.sock /\ k.cur = b.cur /\ k.pre = b.pre
<1> DEFINE mark == [item |-> b.task.item, verify |-> b.task.verify,
                    finish |-> b.task.finish, miss |-> b.task.miss]
           ml == Append(b.ml, mark)
           k == [b EXCEPT !.ml = ml]
<1>1. mark \in Marks /\ mark.verify = b.task.verify
    BY TaskFields DEF Marks
<1>2. b.ml \in Seq(Marks) /\ Len(b.ml) \in Nat
    BY LinkFields, LenProperties
<1>3. Collected(b) = k
    BY DEF Collected
<1> HIDE DEF mark
<1>4. /\ ml \in Seq(Marks) /\ Len(ml) = Len(b.ml) + 1 /\ ml[Len(b.ml) + 1] = mark
      /\ \A j \in 1..Len(b.ml) : ml[j] = b.ml[j]
    BY <1>1, <1>2, AppendProperties
<1> HIDE DEF ml
<1>5. /\ k \in Links /\ k.ml = ml /\ k.state = b.state /\ k.win = b.win
      /\ k.set_cursor = b.set_cursor /\ k.warm = b.warm /\ k.remain = b.remain
      /\ k.task = b.task /\ k.fds = b.fds /\ k.rbuf = b.rbuf /\ k.readval = b.readval
      /\ k.sch = b.sch /\ k.out = b.out /\ k.sock = b.sock /\ k.cur = b.cur /\ k.pre = b.pre
    BY <1>4 DEF Links
<1> HIDE DEF k
<1> QED  BY <1>1, <1>2, <1>3, <1>4, <1>5 DEF Gathered

\* What a schedule makes of the task b.
Readied(b, k) ==
    /\ k \in Links /\ k.state = b.state /\ k.win = b.win /\ k.set_cursor = b.set_cursor
    /\ k.warm = b.warm /\ k.remain = b.remain /\ k.task = b.task /\ k.fds = b.fds
    /\ k.rbuf = b.rbuf /\ k.readval = b.readval
    /\ \/ /\ ~k.sch /\ k.out /\ k.sock \in Socks /\ k.cur.ret = "FAILURE"
          /\ k.req.id = k.id /\ k.req.op = k.cur.cmd /\ k.cur.cmd = b.task.cmd
          /\ \/ k.cur.cmd = "SET" /\ AsksSet(k) /\ k.ml = b.ml
             \/ /\ k.cur.cmd = "GET" /\ mode.ml = 1 /\ k.ml = b.ml
                /\ k.req.keys = <<k.win[k.task.item].key>>
             \/ k.cur.cmd = "GET" /\ mode.ml > 1 /\ AsksGets(mode, k) /\ Gathered(b, k)
       \/ /\ b.task.cmd = "GET" /\ mode.ml > 1 /\ Gathered(b, k)
          /\ Len(k.ml) < mode.ml /\ k.remain # 0
          /\ k.sch = b.sch /\ k.out = b.out /\ k.sock = b.sock /\ k.cur = b.cur /\ k.pre = b.pre

\* The set or the get is prepared, or the get is collected (the schedules).
LEMMA ScheduledIs ==
    ASSUME mode \in Modes, NEW b \in Links, b.fds \subseteq Socks, b.task.cmd \in {"SET", "GET"},
           NEW k \in Scheduled(b)
    PROVE  Readied(b, k)
<1>1. mode.ml \in {1, 2}
    BY ModeIs
<1>2. CASE b.task.cmd = "SET"
    <2>1. k \in ms_mcd_set(b)
        BY <1>2 DEF Scheduled
    <2>2. Prepared(b, k, "SET") /\ AsksSet(k)
        BY <2>1, SetPrepared
    <2> QED  BY <1>2, <2>2 DEF Prepared, Readied
<1>3. CASE b.task.cmd = "GET" /\ mode.ml = 1
    <2>1. k \in ms_mcd_get(b)
        BY <1>3 DEF Scheduled
    <2>2. Prepared(b, k, "GET") /\ k.req.keys = <<b.win[b.task.item].key>>
        BY <2>1, GetPrepared
    <2> QED  BY <1>3, <2>2 DEF Prepared, Readied
<1>4. CASE b.task.cmd = "GET" /\ mode.ml > 1
    <2> DEFINE m == Collected(b)
    <2>1. k \in (IF Len(m.ml) >= mode.ml \/ m.remain = 0 THEN ms_mcd_mlget(m) ELSE {m})
        BY <1>4 DEF Scheduled
    <2>2. /\ m \in Links /\ Gathered(b, m) /\ m.state = b.state /\ m.win = b.win
          /\ m.set_cursor = b.set_cursor /\ m.warm = b.warm /\ m.remain = b.remain
          /\ m.task = b.task /\ m.fds = b.fds /\ m.rbuf = b.rbuf /\ m.readval = b.readval
          /\ m.sch = b.sch /\ m.out = b.out /\ m.sock = b.sock /\ m.cur = b.cur /\ m.pre = b.pre
        BY CollectedIs
    <2> HIDE DEF m
    <2>3. CASE Len(m.ml) >= mode.ml \/ m.remain = 0
        <3>1. k \in ms_mcd_mlget(m) /\ m.fds \subseteq Socks
            BY <2>1, <2>2, <2>3
        <3>2. /\ Prepared(m, k, "GET") /\ Len(k.req.keys) = Len(k.ml)
              /\ \A j \in 1..Len(k.ml) : k.req.keys[j] = k.win[k.ml[j].item].key
            BY <2>2, <3>1, GetsPrepared
        <3>3. k.ml # <<>>
            <4>1. Len(k.ml) = Len(b.ml) + 1 /\ Len(b.ml) \in Nat
                BY <2>2, <3>2 DEF Prepared, Gathered
            <4>2. Len(k.ml) # 0
                BY <4>1
            <4> QED  BY <4>2, EmptySeq
        <3>4. AsksGets(mode, k)
            BY <2>3, <3>2, <3>3 DEF Prepared, AsksGets
        <3>5. Gathered(b, k)
            BY <2>2, <3>2 DEF Prepared, Gathered
        <3> QED  BY <1>4, <2>2, <3>2, <3>4, <3>5 DEF Prepared, Readied
    <2>4. CASE ~(Len(m.ml) >= mode.ml \/ m.remain = 0)
        <3>1. k = m
            BY <2>1, <2>4
        <3>2. Len(m.ml) < mode.ml
            <4>1. Len(m.ml) = Len(b.ml) + 1 /\ Len(b.ml) \in Nat
                BY <2>2 DEF Gathered
            <4> QED  BY <4>1, <2>4, <1>1
        <3> QED  BY <1>4, <2>2, <2>4, <3>1, <3>2 DEF Readied
    <2> QED  BY <2>3, <2>4
<1> QED  BY <1>1, <1>2, <1>3, <1>4

\* A connection that ends, or goes on.
LEMMA ExitsIs ==
    ASSUME NEW k \in Links
    PROVE  LET x == Exits(k)
           IN /\ x \in Links /\ x.win = k.win /\ x.set_cursor = k.set_cursor /\ x.warm = k.warm
              /\ x.remain = k.remain /\ x.task = k.task /\ x.fds = k.fds /\ x.rbuf = k.rbuf
              /\ x.readval = k.readval /\ x.out = k.out /\ x.sock = k.sock /\ x.cur = k.cur
              /\ x.pre = k.pre /\ x.ml = k.ml /\ x.req = k.req /\ x.id = k.id
              /\ \/ x.state = k.state /\ x.sch = k.sch /\ ~(k.remain = -1 \/ time_out)
                 \/ x.state = "closing" /\ ~x.sch /\ (k.remain = -1 \/ time_out)
<1>1. CASE ~(k.remain = -1 \/ time_out)
    BY <1>1 DEF Exits
<1>2. CASE k.remain = -1 \/ time_out
    <2> DEFINE x == [k EXCEPT !.state = "closing", !.sch = FALSE]
    <2>1. Exits(k) = x
        BY <1>2 DEF Exits
    <2>2. /\ x \in Links /\ x.win = k.win /\ x.set_cursor = k.set_cursor /\ x.warm = k.warm
          /\ x.remain = k.remain /\ x.task = k.task /\ x.fds = k.fds /\ x.rbuf = k.rbuf
          /\ x.readval = k.readval /\ x.out = k.out /\ x.sock = k.sock /\ x.cur = k.cur
          /\ x.pre = k.pre /\ x.ml = k.ml /\ x.req = k.req /\ x.id = k.id
          /\ x.state = "closing" /\ ~x.sch
        BY DEF Links
    <2> HIDE DEF x
    <2> QED  BY <1>2, <2>1, <2>2
<1> QED  BY <1>1, <1>2

\* A connection that may still take a task leaves a key for it.
LEMMA KeyLeft ==
    ASSUME IInv, NEW c \in Conns, cn[c].state # "new", cn[c].remain > 0
    PROVE  /\ seq \in 1..MaxKey /\ store[seq] = Invalid
           /\ seq <= AllSpent(mode, cn) + 1 /\ AllSpent(mode, cn) \in Nat
<1>1. mode \in Modes /\ cn \in [Conns -> Links] /\ cn[c].remain \in -1..ExecNum
    BY Here
<1>2. mode.conns \in {1, 2} /\ Conns = 1..mode.conns
    BY <1>1, ModeIs
<1>3. \A d \in Conns : Spent(cn[d]) \in 0..(WinSize + ExecNum)
    BY <1>1, KeysWithin, SpentOf
<1>4. Spent(cn[c]) < WinSize + ExecNum
    BY <1>1, Bounds DEF Spent
<1>5. AllSpent(mode, cn) \in Nat /\ AllSpent(mode, cn) < MaxKey
    <2>1. CASE mode.conns = 1
        BY <2>1, <1>2, <1>3, <1>4, Bounds DEF AllSpent, MaxKey
    <2>2. CASE mode.conns = 2
        <3>1. Spent(cn[1]) \in 0..(WinSize + ExecNum) /\ Spent(cn[2]) \in 0..(WinSize + ExecNum)
              /\ c \in {1, 2}
            BY <2>2, <1>2, <1>3
        <3>2. CASE c = 1
            BY <3>1, <3>2, <2>2, <1>4, Bounds DEF AllSpent, MaxKey
        <3>3. CASE c = 2
            BY <3>1, <3>3, <2>2, <1>4, Bounds DEF AllSpent, MaxKey
        <3> QED  BY <3>1, <3>2, <3>3
    <2> QED  BY <2>1, <2>2, <1>2
<1>6. seq \in 1..(AllSpent(mode, cn) + 1)
    BY DEF IInv, KeysApart
<1>7. seq \in 1..MaxKey
    BY <1>5, <1>6, Bounds
<1>8. store[seq] = Invalid
    BY <1>7 DEF IInv, Unused
<1> QED  BY <1>5, <1>6, <1>7, <1>8

\* A step of connection c that may give one item the next key.
LEMMA KeyTaken ==
    ASSUME IInv, NEW c \in Conns, NEW k \in Links, NEW n \in [Socks -> Wires], NEW e \in Items,
           cn' = [cn EXCEPT ![c] = k], net' = [net EXCEPT ![c] = n],
           UNCHANGED <<mode, store, faults, locks, pc, finish_warmup, time_out>>,
           cn[c].state # "new", k.state # "new", k.warm = cn[c].warm,
           cn[c].remain > 0, k.remain = cn[c].remain - 1,
           \/ seq' = seq /\ \A i \in Items : k.win[i].key = cn[c].win[i].key
           \/ /\ seq' = seq + 1 /\ k.win[e].key = seq
              /\ \A i \in Items : i # e => k.win[i].key = cn[c].win[i].key,
           Linked(mode, k, n, store, faults, finish_warmup, time_out),
           flaws' = NoFlaws, Trusting(mode, stats')
    PROVE  IInv'
<1>1. /\ mode \in Modes /\ cn \in [Conns -> Links] /\ seq \in Nat /\ Conns = 1..mode.conns
      /\ mode.conns \in {1, 2} /\ KeysApart(mode, cn, seq) /\ store \in [1..MaxKey -> Offsets]
      /\ faults \in Nat /\ locks \in Locks /\ cn[c].remain \in -1..ExecNum
    BY Here, ModeIs DEF IInv
<1>2. /\ seq \in 1..MaxKey /\ store[seq] = Invalid
      /\ seq <= AllSpent(mode, cn) + 1 /\ AllSpent(mode, cn) \in Nat
    BY KeyLeft
<1>3. \A d \in Conns : cn[d].state # "new" => \A i \in Items : cn[d].win[i].key \in 1..(seq - 1)
    BY KeysWithin
<1>4. cn'[c] = k /\ \A d \in Conns : d # c => cn'[d] = cn[d]
    BY <1>1
<1>5. \A d \in Conns : cn'[d].state = "new" <=> cn[d].state = "new"
    BY <1>4
<1>6. seq' \in Nat /\ seq' >= seq /\ seq' <= seq + 1
    BY <1>1
<1>7. AllSpent(mode, cn') = AllSpent(mode, cn) + 1
    <2>1. k.remain \in -1..ExecNum
        BY <1>1, Bounds
    <2>2. \A d \in Conns : Spent(cn[d]) \in Int
        <3> SUFFICES ASSUME NEW d \in Conns PROVE Spent(cn[d]) \in Int
            OBVIOUS
        <3>1. cn[d] \in Links /\ cn[d].remain \in -1..ExecNum
            BY <1>1, KeysWithin
        <3>2. Spent(cn[d]) \in 0..(WinSize + ExecNum)
            BY <3>1, SpentOf
        <3> QED  BY <3>2, Bounds
    <2>3. Spent(k) = Spent(cn[c]) + 1
        BY <1>1, Bounds DEF Spent
    <2>4. \A d \in Conns : Spent(cn'[d]) = IF d = c THEN Spent(cn[d]) + 1 ELSE Spent(cn[d])
        BY <2>3, <1>4
    <2>5. CASE mode.conns = 1
        BY <2>4, <2>5, <2>2, <1>1 DEF AllSpent
    <2>6. CASE mode.conns = 2
        <3>1. c \in {1, 2} /\ Spent(cn[1]) \in Int /\ Spent(cn[2]) \in Int
            BY <2>2, <2>6, <1>1
        <3>2. /\ Spent(cn'[1]) = IF c = 1 THEN Spent(cn[1]) + 1 ELSE Spent(cn[1])
              /\ Spent(cn'[2]) = IF c = 2 THEN Spent(cn[2]) + 1 ELSE Spent(cn[2])
            BY <2>4, <2>6, <1>1
        <3> HIDE DEF Spent
        <3> QED  BY <3>1, <3>2, <2>6 DEF AllSpent
    <2> QED  BY <2>5, <2>6, <1>1
<1>8. \A d \in Conns, i \in Items : cn'[d].state # "new" =>
          \/ cn'[d].win[i].key = cn[d].win[i].key /\ cn[d].state # "new"
          \/ d = c /\ i = e /\ cn'[d].win[i].key = seq /\ seq' = seq + 1
    BY <1>4, <1>5
<1>9. KeysApart(mode, cn', seq')
    <2>1. seq' \in 1..(AllSpent(mode, cn') + 1)
        BY <1>2, <1>6, <1>7
    <2>2. \A d \in 1..mode.conns : cn'[d].state # "new" =>
              \A i \in Items : cn'[d].win[i].key \in 1..(seq' - 1)
        <3> SUFFICES ASSUME NEW d \in Conns, cn'[d].state # "new", NEW i \in Items
                     PROVE  cn'[d].win[i].key \in 1..(seq' - 1)
            BY <1>1
        <3>1. CASE cn'[d].win[i].key = cn[d].win[i].key /\ cn[d].state # "new"
            <4>1. cn[d].win[i].key \in 1..(seq - 1)
                BY <3>1, <1>3
            <4> QED  BY <3>1, <4>1, <1>1, <1>6
        <3>2. CASE cn'[d].win[i].key = seq /\ seq' = seq + 1
            BY <3>2, <1>2, Bounds
        <3> QED  BY <3>1, <3>2, <1>8
    <2>3. \A d, f \in 1..mode.conns, i, j \in Items :
              cn'[d].state # "new" /\ cn'[f].state # "new" /\ (d # f \/ i # j) =>
                  cn'[d].win[i].key # cn'[f].win[j].key
        <3> SUFFICES ASSUME NEW d \in Conns, NEW f \in Conns, NEW i \in Items, NEW j \in Items,
                            cn'[d].state # "new", cn'[f].state # "new", d # f \/ i # j
                     PROVE  cn'[d].win[i].key # cn'[f].win[j].key
            BY <1>1
        <3>1. CASE /\ cn'[d].win[i].key = cn[d].win[i].key /\ cn[d].state # "new"
                   /\ cn'[f].win[j].key = cn[f].win[j].key /\ cn[f].state # "new"
            BY <3>1, <1>1 DEF KeysApart
        <3>2. CASE /\ cn'[d].win[i].key = cn[d].win[i].key /\ cn[d].state # "new"
                   /\ cn'[f].win[j].key = seq
            <4>1. cn[d].win[i].key \in 1..(seq - 1)
                BY <3>2, <1>3
            <4> QED  BY <3>2, <4>1, <1>1
        <3>3. CASE /\ cn'[f].win[j].key = cn[f].win[j].key /\ cn[f].state # "new"
                   /\ cn'[d].win[i].key = seq
            <4>1. cn[f].win[j].key \in 1..(seq - 1)
                BY <3>3, <1>3
            <4> QED  BY <3>3, <4>1, <1>1
        <3> QED  BY <3>1, <3>2, <3>3, <1>8
    <2> QED  BY <2>1, <2>2, <2>3 DEF KeysApart
<1>10. Unused(seq', store')
    <2> SUFFICES ASSUME NEW y \in seq'..MaxKey PROVE store'[y] = Invalid
        BY DEF Unused
    <2>1. y \in seq..MaxKey
        BY <1>1, <1>6, Bounds
    <2> QED  BY <2>1 DEF IInv, Unused
<1>11. Warmed(mode, cn', finish_warmup, pc, locks'.warmup)
    <2>1. Warm(mode, cn') = Warm(mode, cn)
        BY <1>1, <1>4 DEF Warm
    <2> QED  BY <2>1 DEF IInv, Warmed
<1>12. \A d \in Conns \ {c} : cn[d].state # "new" =>
           \A i \in Items : store'[cn[d].win[i].key] \in {store[cn[d].win[i].key], Invalid}
    OBVIOUS
<1>13. /\ store' \in [1..MaxKey -> Offsets] /\ faults' \in Nat /\ faults' >= faults
       /\ locks' \in Locks /\ Linked(mode, k, n, store', faults', finish_warmup, time_out)
    BY <1>1
<1> QED  BY <1>1, <1>6, <1>9, <1>10, <1>11, <1>12, <1>13, OneStep

\* A connection takes a task and prepares it, or collects it.
LEMMA ScheduleInv ==
    ASSUME IInv, NEW c \in Conns, Schedule(c)
    PROVE  IInv'
<1> DEFINE q == cn[c]
           n == net[c]
           q1 == [q EXCEPT !.remain = @ - 1]
<1>1. /\ mode \in Modes /\ q \in Links /\ Socks = 1..mode.socks /\ n \in [Socks -> Wires]
      /\ Linked(mode, q, n, store, faults, finish_warmup, time_out) /\ seq \in Nat
      /\ flaws = NoFlaws /\ Trusting(mode, stats) /\ faults \in Nat /\ q.remain \in -1..ExecNum
      /\ net \in [Conns -> [Socks -> Wires]]
    BY Here
<1>2. q.sch /\ q.remain > 0
    BY DEF Schedule
<1>3. PICK ch \in ms_get_task(q1) : \E k \in Scheduled(ch.k) :
          /\ cn' = [cn EXCEPT ![c] = IF k.sch THEN k ELSE Exits(k)]
          /\ seq' = ch.seq
    BY DEF Schedule
<1>4. PICK k \in Scheduled(ch.k) :
          /\ cn' = [cn EXCEPT ![c] = IF k.sch THEN k ELSE Exits(k)]
          /\ seq' = ch.seq
    BY <1>3
<1>5. UNCHANGED <<mode, net, store, locks, faults, stats, flaws, pc, finish_warmup, time_out>>
    BY DEF Schedule, Frame
<1> DEFINE b == ch.k
           x == IF k.sch THEN k ELSE Exits(k)
<1>6. q1 \in Links /\ q1.remain = q.remain - 1 /\ q1.win = q.win /\ q1.task = q.task
      /\ q1.set_cursor = q.set_cursor /\ q1.state = q.state /\ q1.sch = q.sch /\ q1.out = q.out
      /\ q1.warm = q.warm /\ q1.fds = q.fds /\ q1.rbuf = q.rbuf /\ q1.readval = q.readval
      /\ q1.ml = q.ml /\ q1.sock = q.sock /\ q1.cur = q.cur
    <2> DEFINE r == q.remain - 1
    <2>1. r \in Int /\ q1 = [q EXCEPT !.remain = r]
        BY <1>1
    <2> HIDE DEF r, q
    <2>2. q \in Links
        BY <1>1
    <2>3. q1 = [q EXCEPT !.remain = r]
        BY <2>1
    <2> HIDE DEF q1
    <2>4. q1.remain = r
        BY <2>2, <2>3 DEF Links
    <2> QED  BY <2>1, <2>2, <2>3, <2>4 DEF Links, r
<1>7. q.state = "write" /\ ~q.out /\ Live(q) /\ finish_warmup /\ q.rbuf = <<>> /\ ~q.readval
      /\ ~Landed(q, n) /\ q.fds \subseteq Socks /\ q.sock \in 0..mode.socks
      /\ \A i \in Socks : Still(n[i])
    BY <1>1, <1>2 DEF Linked, Phases, Live, Warming, Wired, Landed
<1>8. cn' = [cn EXCEPT ![c] = x] /\ seq' = ch.seq
    BY <1>4
<1> HIDE DEF q, n, q1
<1>9. Took(q1, b, ch.seq)
    BY <1>1, <1>3, <1>6, TaskIs
<1>10. /\ b \in Links /\ b.fds = q.fds /\ b.task.cmd \in {"SET", "GET"} /\ b.task.item \in Items
       /\ b.state = "write" /\ b.sch /\ ~b.out /\ b.warm = q.warm /\ b.remain = q.remain - 1
       /\ b.rbuf = <<>> /\ ~b.readval /\ b.ml = q.ml /\ b.sock = q.sock /\ b.cur = q.cur
    BY <1>2, <1>6, <1>7, <1>9 DEF Took, Aside
<1>11. Readied(b, k)
    BY <1>1, <1>4, <1>7, <1>10, ScheduledIs
<1> HIDE DEF b
<1>12. /\ k \in Links /\ k.state = "write" /\ k.win = b.win /\ k.set_cursor = b.set_cursor
       /\ k.warm = q.warm /\ k.remain = q.remain - 1 /\ k.task = b.task /\ k.fds = q.fds
       /\ k.rbuf = <<>> /\ ~k.readval
       /\ k.sch => ~k.out /\ k.sock = q.sock /\ Len(k.ml) < mode.ml /\ b.task.cmd = "GET"
       /\ ~k.sch => /\ k.out /\ k.sock \in Socks /\ k.cur.ret = "FAILURE"
                    /\ k.req.id = k.id /\ k.req.op = k.cur.cmd /\ k.cur.cmd = b.task.cmd
                    /\ k.cur.cmd = "SET" => AsksSet(k)
                    /\ k.cur.cmd = "GET" /\ mode.ml = 1 => k.req.keys = <<k.win[k.task.item].key>>
                    /\ k.cur.cmd = "GET" /\ mode.ml > 1 => AsksGets(mode, k)
       /\ k.ml = q.ml \/ (mode.ml > 1 /\ Gathered(b, k))
    <2>1. /\ k \in Links /\ k.state = "write" /\ k.win = b.win /\ k.set_cursor = b.set_cursor
          /\ k.warm = q.warm /\ k.remain = q.remain - 1 /\ k.task = b.task /\ k.fds = q.fds
          /\ k.rbuf = <<>> /\ ~k.readval
        BY <1>10, <1>11 DEF Readied
    <2>2. CASE ~k.sch /\ k.out
        <3>1. k.out # b.out
            BY <2>2, <1>10
        <3>2. /\ k.out /\ k.sock \in Socks /\ k.cur.ret = "FAILURE"
              /\ k.req.id = k.id /\ k.req.op = k.cur.cmd /\ k.cur.cmd = b.task.cmd
              /\ \/ k.cur.cmd = "SET" /\ AsksSet(k) /\ k.ml = b.ml
                 \/ /\ k.cur.cmd = "GET" /\ mode.ml = 1 /\ k.ml = b.ml
                    /\ k.req.keys = <<k.win[k.task.item].key>>
                 \/ k.cur.cmd = "GET" /\ mode.ml > 1 /\ AsksGets(mode, k) /\ Gathered(b, k)
            BY <3>1, <1>11 DEF Readied
        <3>3. k.cur.cmd = "SET" => k.cur.cmd # "GET"
            OBVIOUS
        <3>4. mode.ml = 1 => ~(mode.ml > 1)
            OBVIOUS
        <3> QED  BY <2>1, <2>2, <3>2, <3>3, <3>4, <1>10
    <2>3. CASE ~(~k.sch /\ k.out)
        <3>1. /\ b.task.cmd = "GET" /\ mode.ml > 1 /\ Gathered(b, k) /\ Len(k.ml) < mode.ml
              /\ k.sch = b.sch /\ k.out = b.out /\ k.sock = b.sock
            BY <2>3, <1>11 DEF Readied
        <3>2. k.sch /\ ~k.out
            BY <3>1, <1>10
        <3> QED  BY <2>1, <3>1, <3>2, <1>10
    <2> QED  BY <2>2, <2>3
<1>13. /\ x \in Links /\ x.win = b.win /\ x.set_cursor = b.set_cursor /\ x.warm = q.warm
       /\ x.remain = q.remain - 1 /\ x.task = b.task /\ x.fds = q.fds /\ x.rbuf = <<>>
       /\ ~x.readval /\ x.ml = k.ml
       /\ \/ x.state = "write" /\ ~x.out /\ x.sch /\ x = k
          \/ x.state = "write" /\ x.out /\ ~x.sch /\ x = k
          \/ x.state = "closing" /\ x.out /\ ~x.sch /\ time_out /\ ~k.sch
             /\ x.sock = k.sock /\ x.cur = k.cur
    <2>1. CASE k.sch
        BY <1>12, <2>1
    <2>2. CASE ~k.sch
        <3> DEFINE y == Exits(k)
        <3>1. x = y
            BY <2>2
        <3>2. /\ y \in Links /\ y.win = k.win /\ y.set_cursor = k.set_cursor /\ y.warm = k.warm
              /\ y.remain = k.remain /\ y.task = k.task /\ y.fds = k.fds /\ y.rbuf = k.rbuf
              /\ y.readval = k.readval /\ y.out = k.out /\ y.sock = k.sock /\ y.cur = k.cur
              /\ y.ml = k.ml
              /\ \/ ~(k.remain = -1 \/ time_out)
                 \/ y.state = "closing" /\ ~y.sch /\ (k.remain = -1 \/ time_out)
            BY <1>12, ExitsIs
        <3>3. ~(k.remain = -1 \/ time_out) => y = k
            BY DEF Exits
        <3>4. k.remain # -1
            BY <1>1, <1>2, <1>12, Bounds
        <3> HIDE DEF x, y
        <3> QED  BY <3>1, <3>2, <3>3, <3>4, <2>2, <1>12
    <2> QED  BY <2>1, <2>2
<1> HIDE DEF x
<1>14. x.remain \in 0..ExecNum /\ x.remain # ExecNum
    BY <1>1, <1>2, <1>13, Bounds
<1>15. seq \in 1..MaxKey /\ store[seq] = Invalid
    BY <1>2, <1>7, KeyLeft DEF q
<1>16. \/ ch.seq = seq /\ x.win = q.win
       \/ /\ ch.seq = seq + 1 /\ b.task.cmd = "SET"
          /\ x.win = [q.win EXCEPT ![b.task.item] = ms_kick_out_item(@, seq)]
    BY <1>6, <1>9, <1>13 DEF Took, b
<1>17. \A i \in Items : \/ x.win[i] = q.win[i]
                        \/ /\ i = b.task.item /\ b.task.cmd = "SET"
                           /\ x.win[i].key = seq /\ x.win[i].off = Invalid
    BY <1>1, <1>10, <1>16, KickedOut
<1>18. /\ b.task.cmd = "GET" =>
             /\ x.win = q.win /\ x.win[b.task.item].off # Invalid /\ x.set_cursor = q.set_cursor
             /\ b.task.gets = q.task.gets + 1 /\ (mode.sp > 0 => LeadOf(mode, q.task) < 0)
       /\ b.task.sets = q.task.sets /\ (mode.verify = 0 => ~b.task.verify)
       /\ b.task.cmd = "SET" => /\ b.task.gets = q.task.gets
                                /\ mode.ow = 0 => x.win[b.task.item].off = Invalid
    BY <1>6, <1>9, <1>13 DEF Took, b
<1>19. Phases(mode, x)
    BY <1>1, <1>7, <1>12, <1>13, <1>14 DEF Linked, Phases, Busy
<1>20. Wired(mode, x, n)
    BY <1>1, <1>7, <1>13 DEF Linked, Wired
<1>21. Asks(mode, x)
    <2>1. CASE x.out /\ x = k
        <3>1. k.cur.cmd = "GET" => k.win[k.task.item].off # Invalid
            BY <2>1, <1>12, <1>13, <1>18
        <3>2. ~k.sch
            BY <2>1, <1>12
        <3>3. Asks(mode, k)
            BY <3>1, <3>2, <1>10, <1>12 DEF Asks, AsksGet
        <3> QED  BY <2>1, <3>3
    <2>2. CASE x.state = "write" /\ ~x.out
        BY <2>2 DEF Asks, Busy
    <2>3. CASE x.state = "closing" /\ ~k.sch /\ x.cur = k.cur
        BY <2>3, <1>12 DEF Asks, Busy
    <2> QED  BY <2>1, <2>2, <2>3, <1>13
<1>22. Marked(mode, x)
    <2>1. mode.ml \in {1, 2} /\ q.ml \in Seq(Marks) /\ Len(q.ml) \in Nat /\ Marked(mode, q)
        BY <1>1, ModeIs, LinkFields, LenProperties DEF Linked
    <2>2. Len(q.ml) < mode.ml
        BY <2>1, <1>2 DEF Marked
    <2>3. CASE k.ml = q.ml
        BY <2>1, <2>2, <2>3, <1>13, <1>14, <1>18 DEF Marked
    <2>4. CASE mode.ml > 1 /\ Gathered(b, k)
        <3>1. /\ Len(x.ml) = Len(q.ml) + 1
              /\ \A j \in 1..Len(q.ml) : x.ml[j] = q.ml[j]
              /\ x.ml[Len(q.ml) + 1].verify = b.task.verify
            BY <2>4, <1>10, <1>13 DEF Gathered
        <3>2. x.sch => Len(x.ml) < mode.ml
            BY <1>12, <1>13
        <3>3. mode.verify = 0 => \A j \in 1..Len(x.ml) : ~x.ml[j].verify
            BY <3>1, <2>1, <1>18 DEF Marked
        <3> QED  BY <3>1, <3>2, <3>3, <2>1, <2>2, <2>4, <1>13, <1>14, <1>18 DEF Marked
    <2> QED  BY <2>3, <2>4, <1>12
<1>23. Answers(mode, x, n)
    BY <1>13 DEF Answers
<1>24. Warming(mode, x, finish_warmup)
    BY <1>1, <1>7, <1>13, <1>14 DEF Linked, Warming
<1>25. Tracked(mode, x, n, store)
    BY <1>1, <1>7, <1>13, <1>15, <1>17 DEF Linked, Tracked
<1>26. Plain(mode, x, n, store)
    <2> SUFFICES ASSUME mode.ow = 0 PROVE Plain(mode, x, n, store)
        BY DEF Plain
    <2>1. \A i \in Items : /\ q.win[i].off \in {Invalid, q.win[i].sfx}
                           /\ store[q.win[i].key] \in {Invalid, q.win[i].sfx}
        BY <1>1, <1>7 DEF Linked, Plain
    <2>2. \A i \in Items : /\ x.win[i].off \in {Invalid, x.win[i].sfx}
                           /\ store[x.win[i].key] \in {Invalid, x.win[i].sfx}
        BY <2>1, <1>15, <1>17
    <2>3. x.cur.cmd = "SET" /\ Live(x) /\ ~x.sch => x.win[x.task.item].off = Invalid
        BY <1>12, <1>13, <1>18 DEF Live
    <2> QED  BY <2>2, <2>3, <1>13 DEF Plain
<1>27. Paced(mode, x, n, faults, time_out)
    <2> SUFFICES ASSUME mode.sp > 0, faults = 0 PROVE Paced(mode, x, n, faults, time_out)
        BY DEF Paced
    <2>1. Paced(mode, q, n, faults, time_out) /\ Filled(Valid(q), q.set_cursor, q.task.sets)
          /\ LeadOf(mode, q.task) \in (0 - mode.gp)..mode.sp
        BY <1>1, <1>2, <1>7 DEF Linked, Paced
    <2>2. q.task.gets \in Nat /\ q.task.sets \in Nat /\ mode.sp \in 0..10 /\ mode.gp \in 0..10
        BY <1>1, TaskFields, ModeIs
    <2>3. Valid(q1) = Valid(q)
        BY <1>6 DEF Valid
    <2>4. b.task.cmd = "SET" =>
              /\ LeadOf(mode, q.task) >= 0
              /\ Filled(Valid(q) \cup {b.task.item}, (x.set_cursor + 1) % CursorMod,
                        q.task.sets + 1)
        BY <2>1, <2>3, <1>6, <1>9, <1>13 DEF Took, b
    <2>5. b.task.cmd = "SET" => Valid(x) \cup {b.task.item} = Valid(q) \cup {b.task.item}
        BY <1>10, <1>16, <1>17 DEF Valid
    <2>6. b.task.cmd = "GET" => Valid(x) = Valid(q)
        BY <1>18 DEF Valid
    <2>7. b.task.cmd = "SET" => LeadOf(mode, x.task) = LeadOf(mode, q.task)
        BY <1>13, <1>18 DEF LeadOf
    <2>8. b.task.cmd = "GET" => LeadOf(mode, x.task) = LeadOf(mode, q.task) + mode.sp
        <3> SUFFICES ASSUME b.task.cmd = "GET"
                     PROVE  LeadOf(mode, x.task) = LeadOf(mode, q.task) + mode.sp
            OBVIOUS
        <3>1. \A y \in Nat : \A g \in Nat : (y + 1) * g = y * g + g
            OBVIOUS
        <3>2. (q.task.gets + 1) * mode.sp = q.task.gets * mode.sp + mode.sp
            <4>1. q.task.gets \in Nat /\ mode.sp \in Nat
                BY <2>2
            <4> QED  BY <4>1, <3>1, Zenon
        <3>3. LeadOf(mode, x.task) =
                  (q.task.gets * mode.sp + mode.sp) - q.task.sets * mode.gp
            BY <3>2, <1>13, <1>18 DEF LeadOf
        <3>4. \A y, z, g \in Int : (y + g) - z = (y - z) + g
            OBVIOUS
        <3>5. q.task.gets * mode.sp \in Int /\ q.task.sets * mode.gp \in Int /\ mode.sp \in Int
            BY <2>2
        <3> QED  BY <3>3, <3>4, <3>5 DEF LeadOf
    <2>9. \A l \in Int : l < 0 /\ l \in (0 - mode.gp)..mode.sp =>
              l + mode.sp \in (0 - mode.gp)..mode.sp
        BY <2>2
    <2>10. LeadOf(mode, q.task) \in Int
        BY <2>2 DEF LeadOf
    <2> HIDE DEF LeadOf
    <2>11. LeadOf(mode, x.task) \in (0 - mode.gp)..mode.sp
        BY <2>1, <2>7, <2>8, <2>9, <2>10, <1>10, <1>18
    <2>12. Live(x) /\ x.cur.cmd = "SET" /\ ~x.sch =>
              /\ LeadOf(mode, x.task) >= 0
              /\ Filled(Valid(x) \cup {x.task.item}, (x.set_cursor + 1) % CursorMod,
                        x.task.sets + 1)
        BY <2>4, <2>5, <2>7, <1>12, <1>13, <1>18 DEF Live
    <2>13. Live(x) /\ (x.cur.cmd # "SET" \/ x.sch) =>
              Filled(Valid(x), x.set_cursor, x.task.sets)
        BY <2>1, <2>6, <1>10, <1>12, <1>13, <1>18 DEF Live
    <2> QED  BY <2>1, <2>11, <2>12, <2>13, <1>13 DEF Paced
<1>28. Unbroken(mode, x, n, time_out)
    BY <1>1, <1>13 DEF Linked, Unbroken
<1>29. Linked(mode, x, n, store, faults, finish_warmup, time_out)
    BY <1>19, <1>20, <1>21, <1>22, <1>23, <1>24, <1>25, <1>26, <1>27, <1>28 DEF Linked
<1>30. \/ seq' = seq /\ \A i \in Items : x.win[i].key = q.win[i].key
       \/ /\ seq' = seq + 1 /\ x.win[b.task.item].key = seq
          /\ \A i \in Items : i # b.task.item => x.win[i].key = q.win[i].key
    BY <1>1, <1>8, <1>10, <1>16, KickedOut
<1>31. net' = [net EXCEPT ![c] = n]
    BY <1>1, <1>5 DEF n
<1>32. q.state # "new" /\ x.state # "new" /\ flaws' = NoFlaws /\ Trusting(mode, stats')
    BY <1>1, <1>5, <1>7, <1>13
<1> QED  BY <1>1, <1>2, <1>5, <1>8, <1>10, <1>13, <1>29, <1>30, <1>31, <1>32, KeyTaken DEF q

\* The last time a connection only sends what it has collected, and ends.
LEMMA ScheduleNoneInv ==
    ASSUME IInv, NEW c \in Conns, ScheduleNone(c)
    PROVE  IInv'
<1> DEFINE q == cn[c]
           n == net[c]
           r == q.remain - 1
           k == [q EXCEPT !.remain = r]
<1>1. /\ mode \in Modes /\ q \in Links /\ Socks = 1..mode.socks /\ n \in [Socks -> Wires]
      /\ Linked(mode, q, n, store, faults, finish_warmup, time_out) /\ seq \in Nat
      /\ flaws = NoFlaws /\ Trusting(mode, stats) /\ faults \in Nat
    BY Here
<1>2. q.sch /\ q.remain = 0 /\ r = -1
    BY DEF ScheduleNone
<1>3. PICK k1 \in IF mode.ml > 1 /\ k.ml # <<>> THEN ms_mcd_mlget(k) ELSE {k} :
          cn' = [cn EXCEPT ![c] = Exits(k1)]
    BY DEF ScheduleNone
<1>4. UNCHANGED <<mode, net, store, seq, locks, faults, stats, flaws, pc, finish_warmup, time_out>>
    BY DEF ScheduleNone, Frame
<1> DEFINE x == Exits(k1)
<1>5. cn' = [cn EXCEPT ![c] = x]
    BY <1>3
<1> HIDE DEF q, n, r
<1>6. r \in Int
    BY <1>2, Bounds DEF Invalid
<1>7. /\ k \in Links /\ k.remain = -1 /\ k.win = q.win /\ k.task = q.task /\ k.set_cursor = q.set_cursor
      /\ k.state = q.state /\ k.out = q.out /\ k.warm = q.warm /\ k.fds = q.fds
      /\ k.rbuf = q.rbuf /\ k.readval = q.readval /\ k.ml = q.ml /\ k.sock = q.sock
      /\ k.cur = q.cur
    BY <1>1, <1>2, <1>6 DEF Links
<1>8. q.state = "write" /\ ~q.out /\ finish_warmup /\ q.rbuf = <<>> /\ ~q.readval
      /\ q.fds \subseteq Socks /\ q.sock \in 0..mode.socks
      /\ \A i \in Socks : Still(n[i])
    BY <1>1, <1>2 DEF Linked, Phases, Warming, Wired
<1> HIDE DEF k
<1>9. /\ k1 \in Links /\ k1.remain = -1 /\ k1.win = q.win /\ k1.task = q.task
      /\ k1.set_cursor = q.set_cursor /\ k1.warm = q.warm /\ k1.fds = q.fds
      /\ k1.rbuf = <<>> /\ ~k1.readval /\ k1.ml = q.ml /\ k1.sock \in 0..mode.socks
    <2>1. CASE k1 = k
        BY <2>1, <1>7, <1>8
    <2>2. CASE k1 \in ms_mcd_mlget(k)
        <3>1. Prepared(k, k1, "GET")
            BY <1>1, <1>7, <1>8, <2>2, GetsPrepared
        <3>2. k1.sock \in 0..mode.socks
            BY <3>1, <1>1, ModeIs DEF Prepared
        <3> QED  BY <3>1, <3>2, <1>7, <1>8 DEF Prepared
    <2> QED  BY <1>3, <2>1, <2>2
<1>10. /\ x \in Links /\ x.remain = -1 /\ x.win = q.win /\ x.task = q.task
       /\ x.set_cursor = q.set_cursor /\ x.warm = q.warm /\ x.fds = q.fds
       /\ x.rbuf = <<>> /\ ~x.readval /\ x.ml = q.ml /\ x.sock \in 0..mode.socks
       /\ x.state = "closing" /\ ~x.sch
    BY <1>9, ExitsIs
<1> HIDE DEF x
<1>11. x.remain \in -1..ExecNum /\ x.remain # ExecNum /\ ~Live(x) /\ ~Busy(x)
    BY <1>10, Bounds DEF Live, Busy
<1>12. Phases(mode, x)
    BY <1>1, <1>8, <1>10, <1>11 DEF Phases
<1>13. Wired(mode, x, n)
    BY <1>1, <1>8, <1>10 DEF Linked, Wired
<1>14. Asks(mode, x)
    <2>1. ~(x.remain >= 0)
        BY <1>10
    <2> QED  BY <2>1, <1>11 DEF Asks
<1>15. Marked(mode, x)
    BY <1>1, <1>10, <1>11 DEF Linked, Marked
<1>16. Answers(mode, x, n)
    BY <1>10 DEF Answers
<1>17. Warming(mode, x, finish_warmup)
    BY <1>1, <1>8, <1>10, <1>11 DEF Linked, Warming
<1>18. Tracked(mode, x, n, store)
    BY <1>11 DEF Tracked
<1>19. Plain(mode, x, n, store)
    BY <1>1, <1>8, <1>10, <1>11 DEF Linked, Plain
<1>20. Paced(mode, x, n, faults, time_out)
    BY <1>1, <1>10, <1>11 DEF Linked, Paced
<1>21. Unbroken(mode, x, n, time_out)
    BY <1>1, <1>10 DEF Linked, Unbroken
<1>22. Linked(mode, x, n, store, faults, finish_warmup, time_out)
    BY <1>12, <1>13, <1>14, <1>15, <1>16, <1>17, <1>18, <1>19, <1>20, <1>21 DEF Linked
<1>23. /\ q.state # "new" /\ x.state # "new" /\ x.warm = q.warm /\ x.remain \in -1..ExecNum
       /\ \A i \in Items : x.win[i].key = q.win[i].key
       /\ Spent(x) >= Spent(q)
    BY <1>2, <1>8, <1>10, <1>11, Bounds DEF Spent
<1>24. flaws' = NoFlaws /\ Trusting(mode, stats')
    BY <1>1, <1>4
<1> QED  BY <1>4, <1>5, <1>10, <1>22, <1>23, <1>24, LinkStep DEF q, n

-----------------------------------------------------------------------------
(* Parsing an answer.                                                      *)

\* What is left of an answer after its first piece.
LEMMA RestOn ==
    ASSUME NEW q \in Links, NEW k \in Links, NEW n, n[q.sock] \in Wires, q.rbuf # <<>>,
           k.rbuf = Tail(q.rbuf), k.sock = q.sock
    PROVE  /\ Rest(q, n) \in Seq(Pieces) /\ Rest(k, n) \in Seq(Pieces)
           /\ Len(Rest(q, n)) \in Nat \ {0} /\ Len(Rest(k, n)) = Len(Rest(q, n)) - 1
           /\ Rest(q, n)[1] = q.rbuf[1] /\ q.rbuf[1] \in Pieces /\ Rest(q, n) # <<>>
           /\ \A j \in 1..Len(Rest(k, n)) : Rest(k, n)[j] = Rest(q, n)[j + 1]
<1>1. q.rbuf \in Seq(Pieces) /\ k.rbuf \in Seq(Pieces) /\ n[q.sock].ans \in Seq(Pieces)
    BY LinkFields DEF Wires
<1>2. /\ Len(q.rbuf) \in Nat \ {0} /\ Len(k.rbuf) = Len(q.rbuf) - 1
      /\ \A j \in 1..Len(k.rbuf) : k.rbuf[j] = q.rbuf[j + 1]
      /\ q.rbuf[1] \in Pieces /\ Len(n[q.sock].ans) \in Nat
    <2>1. Len(q.rbuf) \in Nat /\ Len(n[q.sock].ans) \in Nat
        BY <1>1, LenProperties
    <2>2. Len(q.rbuf) # 0
        BY <1>1, EmptySeq
    <2>3. Len(Tail(q.rbuf)) = Len(q.rbuf) - 1
          /\ \A j \in 1..Len(Tail(q.rbuf)) : Tail(q.rbuf)[j] = q.rbuf[j + 1]
        BY <1>1, HeadTailProperties
    <2>4. q.rbuf[1] \in Pieces
        BY <1>1, <2>1, <2>2, ElementOfSeq
    <2> QED  BY <2>1, <2>2, <2>3, <2>4
<1> DEFINE R == Rest(q, n)
           S == Rest(k, n)
           w == n[q.sock].ans
           a == q.rbuf
           b == k.rbuf
<1>3. /\ R \in Seq(Pieces) /\ Len(R) = Len(a) + Len(w)
      /\ \A j \in 1..Len(R) : R[j] = IF j <= Len(a) THEN a[j] ELSE w[j - Len(a)]
    BY RestIs
<1>4. /\ S \in Seq(Pieces) /\ Len(S) = Len(b) + Len(w)
      /\ \A j \in 1..Len(S) : S[j] = IF j <= Len(b) THEN b[j] ELSE w[j - Len(b)]
    <2>1. n[k.sock] \in Wires
        OBVIOUS
    <2>2. /\ Rest(k, n) \in Seq(Pieces)
          /\ Len(Rest(k, n)) = Len(k.rbuf) + Len(n[k.sock].ans)
          /\ \A j \in 1..Len(Rest(k, n)) :
                Rest(k, n)[j] = IF j <= Len(k.rbuf) THEN k.rbuf[j]
                                ELSE n[k.sock].ans[j - Len(k.rbuf)]
        BY <2>1, RestIs
    <2> HIDE DEF S
    <2> QED  BY <2>2 DEF S
<1>5. /\ Len(a) \in Nat \ {0} /\ Len(b) = Len(a) - 1 /\ Len(w) \in Nat
      /\ \A j \in 1..Len(b) : b[j] = a[j + 1]
      /\ a[1] \in Pieces
    BY <1>2
<1> HIDE DEF R, S, w, a, b
<1>6. Len(R) \in Nat \ {0} /\ Len(S) = Len(R) - 1
    BY <1>3, <1>4, <1>5
<1>7. R[1] = a[1]
    BY <1>3, <1>5, <1>6
<1>8. \A j \in 1..Len(S) : S[j] = R[j + 1]
    <2> SUFFICES ASSUME NEW j \in 1..Len(S) PROVE S[j] = R[j + 1]
        OBVIOUS
    <2>1. j + 1 \in 1..Len(R) /\ j \in Nat /\ j >= 1
        BY <1>6
    <2>2. CASE j <= Len(b)
        <3>1. j \in 1..Len(b) /\ j + 1 <= Len(a)
            BY <2>1, <2>2, <1>5
        <3> QED  BY <2>1, <3>1, <1>3, <1>4, <1>5
    <2>3. CASE ~(j <= Len(b))
        <3>1. j - Len(b) = (j + 1) - Len(a) /\ ~(j + 1 <= Len(a))
            BY <2>1, <2>3, <1>5
        <3>2. S[j] = w[j - Len(b)] /\ R[j + 1] = w[(j + 1) - Len(a)]
            BY <2>1, <2>3, <3>1, <1>3, <1>4
        <3> QED  BY <3>1, <3>2
    <2> QED  BY <2>2, <2>3
<1>9. R # <<>>
    <2>1. Len(<<>>) = 0
        BY EmptySeq
    <2> QED  BY <2>1, <1>6
<1> QED  BY <1>3, <1>4, <1>5, <1>6, <1>7, <1>8, <1>9 DEF R, S, a

\* What is known of a connection with an answer to parse.
LEMMA Parsing ==
    ASSUME IInv, NEW c \in Conns, cn[c].state = "read", cn[c].rbuf # <<>>
    PROVE  LET q == cn[c]
               n == net[c]
           IN /\ q.sock \in Socks /\ n[q.sock] \in Wires /\ n[q.sock].req = NoRequest
              /\ Rest(q, n) # <<>> /\ Rest(q, n)[1] = q.rbuf[1] /\ Len(Rest(q, n)) \in Nat \ {0}
              /\ q.rbuf[1] \in Pieces
              /\ Chained(mode, Rest(q, n)) /\ Answering(mode, q, Rest(q, n))
              /\ Valued(mode, q, Rest(q, n))
              /\ ~q.sch /\ ~q.out /\ q.remain \in 0..ExecNum /\ Live(q) /\ Busy(q)
              /\ q.cur.cmd \in {"SET", "GET"} /\ q.cur.ret = "FAILURE"
<1> DEFINE q == cn[c]
           n == net[c]
           k == [q EXCEPT !.rbuf = Tail(@)]
<1>1. /\ mode \in Modes /\ q \in Links /\ n \in [Socks -> Wires]
      /\ Linked(mode, q, n, store, faults, finish_warmup, time_out)
      /\ Busy(q) => q.sock \in Socks /\ n[q.sock] \in Wires
    BY Here
<1>2. Busy(q)
    BY DEF Busy
<1>3. k \in Links /\ k.rbuf = Tail(q.rbuf) /\ k.sock = q.sock
    <2>1. q.rbuf \in Seq(Pieces)
        BY <1>1, LinkFields
    <2>2. Tail(q.rbuf) \in Seq(Pieces)
        BY <2>1, HeadTailProperties
    <2> QED  BY <1>1, <2>2 DEF Links
<1>4. q.state = "read" /\ q.rbuf # <<>>
    OBVIOUS
<1> HIDE DEF q, n, k
<1>5. /\ Len(Rest(q, n)) \in Nat \ {0} /\ Rest(q, n)[1] = q.rbuf[1] /\ q.rbuf[1] \in Pieces
      /\ Rest(q, n) # <<>>
    BY <1>1, <1>2, <1>3, <1>4, RestOn
<1>6. /\ n[q.sock].req = NoRequest
      /\ Chained(mode, Rest(q, n)) /\ Answering(mode, q, Rest(q, n)) /\ Valued(mode, q, Rest(q, n))
    BY <1>1, <1>4, <1>5 DEF Linked, Answers
<1>7. ~q.sch /\ ~q.out /\ q.remain \in 0..ExecNum
    BY <1>1, <1>4 DEF Linked, Phases
<1>8. q.cur.cmd \in {"SET", "GET"} /\ q.cur.ret = "FAILURE"
    BY <1>1, <1>2 DEF Linked, Asks
<1> QED  BY <1>1, <1>2, <1>4, <1>5, <1>6, <1>7, <1>8 DEF q, n, Live

\* The last piece of an answer completes the operation.
LEMMA Completed ==
    ASSUME IInv, NEW c \in Conns, cn[c].state = "read", cn[c].rbuf # <<>>,
           Len(Rest(cn[c], net[c])) = 1, NEW k \in Links,
           k.state = "write", ~k.out, k.rbuf = <<>>, ~k.readval, k.pre = k.cur,
           k.cur.cmd = cn[c].cur.cmd, k.cur.cmd = "SET" => k.cur.ret = cn[c].rbuf[1].t,
           k.sch = cn[c].sch, k.win = cn[c].win, k.set_cursor = cn[c].set_cursor,
           k.warm = cn[c].warm, k.remain = cn[c].remain, k.ml = cn[c].ml, k.sock = cn[c].sock,
           k.fds = cn[c].fds, k.task.item = cn[c].task.item, k.task.sets = cn[c].task.sets,
           k.task.gets = cn[c].task.gets, k.task.verify = cn[c].task.verify
    PROVE  Linked(mode, k, net[c], store, faults, finish_warmup, time_out)
<1> DEFINE q == cn[c]
           n == net[c]
<1>1. /\ mode \in Modes /\ q \in Links /\ n \in [Socks -> Wires] /\ Socks = 1..mode.socks
      /\ Linked(mode, q, n, store, faults, finish_warmup, time_out)
    BY Here
<1>2. /\ q.sock \in Socks /\ n[q.sock] \in Wires /\ n[q.sock].req = NoRequest
      /\ Rest(q, n) # <<>> /\ Rest(q, n)[1] = q.rbuf[1] /\ Len(Rest(q, n)) \in Nat \ {0}
      /\ ~q.sch /\ ~q.out /\ q.remain \in 0..ExecNum /\ Live(q) /\ Busy(q)
      /\ q.cur.cmd \in {"SET", "GET"} /\ q.cur.ret = "FAILURE"
    BY Parsing
<1>3. /\ q.state = "read" /\ q.rbuf # <<>> /\ Len(Rest(q, n)) = 1
      /\ k.state = "write" /\ ~k.out /\ k.rbuf = <<>> /\ ~k.readval /\ k.pre = k.cur
      /\ k.cur.cmd = q.cur.cmd /\ (k.cur.cmd = "SET" => k.cur.ret = q.rbuf[1].t)
      /\ k.sch = q.sch /\ k.win = q.win /\ k.set_cursor = q.set_cursor
      /\ k.warm = q.warm /\ k.remain = q.remain /\ k.ml = q.ml /\ k.sock = q.sock
      /\ k.fds = q.fds /\ k.task.item = q.task.item /\ k.task.sets = q.task.sets
      /\ k.task.gets = q.task.gets /\ k.task.verify = q.task.verify
    OBVIOUS
<1> HIDE DEF q, n
<1>4. n[q.sock].ans = <<>>
    <2>1. Len(q.rbuf) \in Nat /\ Len(n[q.sock].ans) \in Nat /\ q.rbuf \in Seq(Pieces)
          /\ n[q.sock].ans \in Seq(Pieces)
        BY <1>1, <1>2, LinkFields, LenProperties DEF Wires
    <2>2. Len(q.rbuf) # 0
        BY <2>1, <1>3, EmptySeq
    <2>3. 1 = Len(q.rbuf) + Len(n[q.sock].ans)
        BY <1>1, <1>2, <1>3, RestIs
    <2>4. Len(n[q.sock].ans) = 0
        <3>1. \A x, y \in Nat : x # 0 /\ 1 = x + y => y = 0
            OBVIOUS
        <3> QED  BY <2>1, <2>2, <2>3, <3>1, Zenon
    <2> QED  BY <2>1, <2>4, EmptySeq
<1>5. \A i \in Socks : Still(n[i])
    BY <1>1, <1>2, <1>3, <1>4 DEF Linked, Wired, Still
<1>6. ~k.sch
    BY <1>2, <1>3
<1>7. Phases(mode, k)
    BY <1>1, <1>2, <1>3, <1>6 DEF Linked, Phases, Busy
<1>8. Wired(mode, k, n)
    BY <1>1, <1>3, <1>5 DEF Linked, Wired
<1>9. Asks(mode, k)
    BY <1>3 DEF Asks, Busy
<1>10. Marked(mode, k)
    BY <1>1, <1>3, <1>6 DEF Linked, Marked
<1>11. Answers(mode, k, n)
    BY <1>3 DEF Answers
<1>12. Warming(mode, k, finish_warmup)
    BY <1>1, <1>3, <1>6 DEF Linked, Warming
<1>13. Landed(q, n) => Landed(k, n)
    BY <1>2, <1>3, <1>6 DEF Landed
<1>14. Tracked(mode, k, n, store)
    BY <1>1, <1>2, <1>3, <1>13 DEF Linked, Tracked
<1>15. Plain(mode, k, n, store)
    BY <1>1, <1>2, <1>3, <1>6 DEF Linked, Plain
<1>16. Paced(mode, k, n, faults, time_out)
    <2>1. Valid(k) = Valid(q) /\ LeadOf(mode, k.task) = LeadOf(mode, q.task)
        BY <1>3 DEF Valid, LeadOf
    <2> HIDE DEF LeadOf
    <2> QED  BY <2>1, <1>1, <1>2, <1>3, <1>6 DEF Linked, Paced
<1>17. Unbroken(mode, k, n, time_out)
    BY <1>1, <1>3 DEF Linked, Unbroken
<1>18. Linked(mode, k, n, store, faults, finish_warmup, time_out)
    BY <1>7, <1>8, <1>9, <1>10, <1>11, <1>12, <1>14, <1>15, <1>16, <1>17 DEF Linked
<1> QED  BY <1>18 DEF n

\* A piece of an answer to a get is parsed, and the answer goes on.
LEMMA Continues ==
    ASSUME IInv, Orderly, NEW c \in Conns, cn[c].state = "read", cn[c].rbuf # <<>>,
           cn[c].cur.cmd = "GET", NEW k \in Links,
           k.rbuf = Tail(cn[c].rbuf), k.readval \in BOOLEAN,
           cn[c].rbuf[1].t \in {"VALUE", "data"}, k.readval <=> cn[c].rbuf[1].t = "VALUE",
           k.readval /\ ~mode.binary => k.key = cn[c].rbuf[1].key,
           Asks(mode, k), Marked(mode, k),
           k.state = cn[c].state, k.out = cn[c].out, k.cur = cn[c].cur, k.pre = cn[c].pre,
           k.sch = cn[c].sch, k.win = cn[c].win, k.set_cursor = cn[c].set_cursor,
           k.warm = cn[c].warm, k.remain = cn[c].remain, k.sock = cn[c].sock,
           k.fds = cn[c].fds, k.req = cn[c].req, k.id = cn[c].id,
           k.task.sets = cn[c].task.sets, k.task.gets = cn[c].task.gets
    PROVE  Linked(mode, k, net[c], store, faults, finish_warmup, time_out)
<1> DEFINE q == cn[c]
           n == net[c]
           R == Rest(q, n)
           S == Rest(k, n)
           t == q.rbuf[1]
<1>1. /\ mode \in Modes /\ q \in Links /\ n \in [Socks -> Wires] /\ Socks = 1..mode.socks
      /\ Linked(mode, q, n, store, faults, finish_warmup, time_out)
    BY Here
<1>2. /\ q.sock \in Socks /\ n[q.sock] \in Wires /\ n[q.sock].req = NoRequest
      /\ R # <<>> /\ R[1] = t /\ Len(R) \in Nat \ {0}
      /\ Chained(mode, R) /\ Answering(mode, q, R) /\ Valued(mode, q, R)
      /\ ~q.sch /\ ~q.out /\ q.remain \in 0..ExecNum /\ Live(q) /\ Busy(q)
    BY Parsing
<1>3. /\ q.state = "read" /\ q.rbuf # <<>> /\ q.cur.cmd = "GET"
      /\ k.rbuf = Tail(q.rbuf) /\ t.t \in {"VALUE", "data"} /\ (k.readval <=> t.t = "VALUE")
      /\ k.readval /\ ~mode.binary => k.key = t.key
      /\ Asks(mode, k) /\ Marked(mode, k)
      /\ k.state = q.state /\ k.out = q.out /\ k.cur = q.cur /\ k.pre = q.pre
      /\ k.sch = q.sch /\ k.win = q.win /\ k.set_cursor = q.set_cursor
      /\ k.warm = q.warm /\ k.remain = q.remain /\ k.sock = q.sock
      /\ k.fds = q.fds /\ k.req = q.req /\ k.id = q.id
      /\ k.task.sets = q.task.sets /\ k.task.gets = q.task.gets
    OBVIOUS
<1> HIDE DEF q, n
<1>4. /\ S \in Seq(Pieces) /\ Len(S) = Len(R) - 1 /\ \A j \in 1..Len(S) : S[j] = R[j + 1]
    <2> HIDE DEF R, S, t
    <2>1. q \in Links /\ n[q.sock] \in Wires /\ q.rbuf # <<>>
          /\ k.rbuf = Tail(q.rbuf) /\ k.sock = q.sock
        BY <1>1, <1>2, <1>3
    <2>2. /\ Rest(k, n) \in Seq(Pieces) /\ Len(Rest(k, n)) = Len(Rest(q, n)) - 1
          /\ \A j \in 1..Len(Rest(k, n)) : Rest(k, n)[j] = Rest(q, n)[j + 1]
        BY <2>1, RestOn
    <2> QED  BY <2>2 DEF R, S
<1>5. S # <<>> => 1 \in 1..Len(S) /\ 1 \in 1..(Len(R) - 1) /\ S[1] = R[2]
    <2>1. S # <<>> => Len(S) # 0
        BY <1>4, EmptySeq
    <2> QED  BY <2>1, <1>2, <1>4
<1>6. Len(R) # 1 => S # <<>>
    <2>1. Len(<<>>) = 0
        BY EmptySeq
    <2> QED  BY <2>1, <1>2, <1>4
<1> HIDE DEF R, S, t
<1>7. /\ \A j \in 1..Len(S) : j + 1 \in 1..Len(R) /\ S[j] = R[j + 1]
      /\ \A j \in 1..(Len(S) - 1) : /\ j \in 1..Len(S) /\ j + 1 \in 1..(Len(R) - 1)
                                    /\ S[j] = R[j + 1] /\ S[j + 1] = R[(j + 1) + 1]
      /\ \A j \in 1..Len(S) : j + 1 < Len(R) => j < Len(S)
    BY <1>2, <1>4
<1>8. Busy(k) /\ Live(k) /\ ~k.sch /\ k.cur.cmd = "GET"
    BY <1>2, <1>3 DEF Busy, Live
<1>9. Phases(mode, k)
    BY <1>1, <1>3 DEF Linked, Phases, Busy
<1>10. mode.udp => n[q.sock].ans = <<>>
    BY <1>1, <1>3 DEF Linked, Wired
<1>11. Wired(mode, k, n)
    BY <1>1, <1>2, <1>3, <1>10 DEF Linked, Wired
<1>12. Chained(mode, S)
    <2> SUFFICES ASSUME NEW j \in 1..(Len(S) - 1)
                 PROVE  /\ S[j].t \in {"VALUE", "data"} /\ (S[j].t = "data" => ~mode.binary)
                        /\ S[j].t = "VALUE" <=> S[j + 1].t = "data"
        BY DEF Chained
    <2>1. /\ j + 1 \in 1..(Len(R) - 1) /\ S[j] = R[j + 1] /\ S[j + 1] = R[(j + 1) + 1]
        BY <1>7
    <2> QED  BY <2>1, <1>2 DEF Chained
<1>13. Answering(mode, k, S)
    <2> SUFFICES ASSUME NEW j \in 1..Len(S)
                 PROVE  /\ S[j].id = k.id
                        /\ S[j].t \in {"STORED", "SERVER_ERROR"} <=> k.cur.cmd = "SET"
                        /\ S[j].t = "VALUE" => /\ Names(k, S[j].key)
                                               /\ "cut" \notin mode.faults => j < Len(S)
        BY DEF Answering
    <2>1. j + 1 \in 1..Len(R) /\ S[j] = R[j + 1] /\ (j + 1 < Len(R) => j < Len(S))
        BY <1>7
    <2>2. /\ R[j + 1].id = q.id
          /\ R[j + 1].t \in {"STORED", "SERVER_ERROR"} <=> q.cur.cmd = "SET"
          /\ R[j + 1].t = "VALUE" => /\ Names(q, R[j + 1].key)
                                     /\ "cut" \notin mode.faults => j + 1 < Len(R)
        BY <2>1, <1>2 DEF Answering
    <2> QED  BY <2>1, <2>2, <1>3 DEF Names
<1>14. t.t = "VALUE" => Names(q, t.key) /\ ("cut" \notin mode.faults => S # <<>>)
    <2>1. 1 \in 1..Len(R)
        BY <1>2
    <2> QED  BY <2>1, <1>2, <1>6 DEF Answering
<1>15. Valued(mode, k, S)
    <2>1. S # <<>> => (k.readval <=> S[1].t = "data")
        BY <1>2, <1>3, <1>5 DEF Chained
    <2>2. k.readval => t.t = "VALUE"
        BY <1>3
    <2> QED  BY <2>1, <2>2, <1>3, <1>14 DEF Valued, Names
<1>16. Answers(mode, k, n)
    BY <1>2, <1>3, <1>12, <1>13, <1>15 DEF Answers, S
<1>17. Warming(mode, k, finish_warmup)
    BY <1>1, <1>3 DEF Linked, Warming
<1>18. ~Landed(q, n)
    BY <1>3 DEF Landed
<1>19. Tracked(mode, k, n, store)
    <2> SUFFICES ASSUME mode.ml > 1, mode.verify > 0 PROVE Tracked(mode, k, n, store)
        BY DEF Tracked
    <2>1. /\ \A i \in Items : ~(q.win[i].off = Invalid /\ store[q.win[i].key] # Invalid)
          /\ \A j \in 1..Len(R) : R[j].t = "VALUE" => HasValue(q, R[j].key)
        BY <1>1, <1>2, <1>3, <1>18 DEF Linked, Tracked, R
    <2>2. ASSUME NEW j \in 1..Len(S), S[j].t = "VALUE" PROVE HasValue(k, S[j].key)
        <3>1. j + 1 \in 1..Len(R) /\ S[j] = R[j + 1]
            BY <1>7
        <3>2. HasValue(q, S[j].key)
            BY <2>1, <2>2, <3>1
        <3> QED  BY <3>2, <1>3 DEF HasValue
    <2>3. k.readval => HasValue(k, k.key)
        <3>1. ~mode.binary
            BY <1>1, ModeIs DEF Orderly
        <3>2. 1 \in 1..Len(R)
            BY <1>2
        <3> QED  BY <3>1, <3>2, <2>1, <1>2, <1>3 DEF HasValue
    <2> QED  BY <2>1, <2>2, <2>3, <1>3 DEF Tracked, S
<1>20. Plain(mode, k, n, store)
    <2> SUFFICES ASSUME mode.ow = 0 PROVE Plain(mode, k, n, store)
        BY DEF Plain
    <2>1. /\ \A i \in Items : /\ q.win[i].off \in {Invalid, q.win[i].sfx}
                              /\ store[q.win[i].key] \in {Invalid, q.win[i].sfx}
          /\ \A j \in 1..(Len(R) - 1) : R[j].t = "VALUE" => SuffixOf(q, R[j].key, R[j + 1].val)
        BY <1>1, <1>3 DEF Linked, Plain, R
    <2>2. \A j \in 1..(Len(S) - 1) : S[j].t = "VALUE" => SuffixOf(k, S[j].key, S[j + 1].val)
        <3> SUFFICES ASSUME NEW j \in 1..(Len(S) - 1), S[j].t = "VALUE"
                     PROVE  SuffixOf(k, S[j].key, S[j + 1].val)
            OBVIOUS
        <3>1. /\ j + 1 \in 1..(Len(R) - 1) /\ S[j] = R[j + 1] /\ S[j + 1] = R[(j + 1) + 1]
            BY <1>7
        <3>2. SuffixOf(q, R[j + 1].key, R[(j + 1) + 1].val)
            BY <3>1, <2>1
        <3> QED  BY <3>1, <3>2, <1>3 DEF SuffixOf
    <2>3. k.readval /\ S # <<>> =>
              SuffixOf(k, IF mode.binary THEN k.req.keys[1] ELSE k.key, S[1].val)
        <3> SUFFICES ASSUME k.readval, S # <<>>
                     PROVE  SuffixOf(k, IF mode.binary THEN k.req.keys[1] ELSE k.key, S[1].val)
            OBVIOUS
        <3>1. SuffixOf(q, t.key, S[1].val)
            <4>1. 1 \in 1..(Len(R) - 1) /\ R[1].t = "VALUE" /\ S[1] = R[1 + 1]
                BY <1>2, <1>3, <1>5
            <4> QED  BY <4>1, <2>1, <1>2
        <3>2. t.key = IF mode.binary THEN k.req.keys[1] ELSE k.key
            <4>1. CASE ~mode.binary
                BY <4>1, <1>3
            <4>2. CASE mode.binary
                <5>1. mode.ml = 1
                    BY <4>2 DEF Orderly
                <5>2. k.req.keys = <<k.win[k.task.item].key>>
                    BY <5>1, <1>3, <1>8 DEF Asks, AsksGet
                <5>3. Len(k.req.keys) = 1
                    BY <5>2
                <5>4. Names(q, t.key)
                    BY <1>3, <1>14
                <5>5. PICK i \in 1..Len(k.req.keys) : t.key = k.req.keys[i]
                    BY <5>4, <1>3 DEF Names
                <5> QED  BY <4>2, <5>3, <5>5
            <4> QED  BY <4>1, <4>2
        <3> QED  BY <3>1, <3>2, <1>3 DEF SuffixOf
    <2> QED  BY <2>1, <2>2, <2>3, <1>3, <1>8 DEF Plain, S
<1>21. Paced(mode, k, n, faults, time_out)
    <2>1. Valid(k) = Valid(q) /\ LeadOf(mode, k.task) = LeadOf(mode, q.task)
        BY <1>3 DEF Valid, LeadOf
    <2> HIDE DEF LeadOf
    <2> QED  BY <2>1, <1>1, <1>2, <1>3, <1>8 DEF Linked, Paced
<1>22. Unbroken(mode, k, n, time_out)
    BY <1>1, <1>3 DEF Linked, Unbroken
<1>23. Linked(mode, k, n, store, faults, finish_warmup, time_out)
    BY <1>3, <1>9, <1>11, <1>16, <1>17, <1>19, <1>20, <1>21, <1>22 DEF Linked
<1> QED  BY <1>23 DEF n

\* What taking a value changes nothing of.
Alike(b, q) ==
    /\ b \in Links /\ b.state = q.state /\ b.sch = q.sch /\ b.win = q.win
    /\ b.set_cursor = q.set_cursor /\ b.warm = q.warm /\ b.remain = q.remain /\ b.pre = q.pre
    /\ b.cur = q.cur /\ b.sock = q.sock /\ b.fds = q.fds /\ b.req = q.req /\ b.out = q.out
    /\ b.key = q.key /\ b.id = q.id
    /\ b.task.sets = q.task.sets /\ b.task.gets = q.task.gets
    /\ Len(b.ml) = Len(q.ml)
    /\ \A j \in 1..Len(q.ml) : b.ml[j].item = q.ml[j].item /\ b.ml[j].verify = q.ml[j].verify

\* A flag of a multi-get's item changes.
LEMMA FlagSet ==
    ASSUME NEW ml \in Seq(Marks), NEW j \in 1..Len(ml), NEW e \in Marks,
           e.item = ml[j].item, e.verify = ml[j].verify
    PROVE  LET w == [ml EXCEPT ![j] = e]
           IN /\ w \in Seq(Marks) /\ Len(w) = Len(ml)
              /\ \A i \in 1..Len(ml) : w[i].item = ml[i].item /\ w[i].verify = ml[i].verify
<1> DEFINE w == [ml EXCEPT ![j] = e]
<1>1. w \in Seq(Marks) /\ Len(w) = Len(ml)
      /\ \A i \in 1..Len(ml) : w[i] = IF i = j THEN e ELSE ml[i]
    BY ExceptSeq
<1> HIDE DEF w
<1>2. \A i \in 1..Len(ml) : w[i].item = ml[i].item /\ w[i].verify = ml[i].verify
    BY <1>1
<1> QED  BY <1>1, <1>2 DEF w

\* The value of a multi-get is for the place found for it.
LEMMA AdoptIs ==
    ASSUME NEW q \in Links, MultiGetDone(q), MlPlace(q) \in 1..Len(q.ml)
    PROVE  LET a == Adopt(q)
           IN /\ Alike(a, q) /\ a.rbuf = q.rbuf /\ a.readval = q.readval
              /\ a.task.item = q.ml[MlPlace(q)].item /\ a.task.verify = q.ml[MlPlace(q)].verify
<1> DEFINE j == MlPlace(q)
           e == [q.ml[j] EXCEPT !.miss = FALSE]
           w == [q.ml EXCEPT ![j] = e]
           v == q.vindex + 1
           t == [q.task EXCEPT !.item = q.ml[j].item, !.verify = q.ml[j].verify,
                               !.finish = q.ml[j].finish]
           r == [q EXCEPT !.vindex = v, !.ml = w, !.task = t]
<1>1. q.ml \in Seq(Marks) /\ q.task \in Tasks /\ q.vindex \in Nat
    BY LinkFields
<1>2. j \in 1..Len(q.ml)
    OBVIOUS
<1>3. Adopt(q) = r
    <2>1. Adopt(q) = [q EXCEPT !.vindex = @ + 1, !.ml[j].miss = FALSE, !.task.item = q.ml[j].item,
                               !.task.verify = q.ml[j].verify, !.task.finish = q.ml[j].finish]
        BY DEF Adopt
    <2> HIDE DEF j
    <2>2. q.task \in Tasks
        BY <1>1
    <2> QED  BY <2>1, <2>2 DEF Tasks
<1> HIDE DEF j
<1>4. q.ml[j] \in Marks
    BY <1>1, <1>2, ElementOfSeq
<1>5. e \in Marks /\ e.item = q.ml[j].item /\ e.verify = q.ml[j].verify
    BY <1>4 DEF Marks
<1> HIDE DEF e
<1>6. /\ w \in Seq(Marks) /\ Len(w) = Len(q.ml)
      /\ \A i \in 1..Len(q.ml) : w[i].item = q.ml[i].item /\ w[i].verify = q.ml[i].verify
    BY <1>1, <1>2, <1>5, FlagSet
<1>7. t \in Tasks /\ t.item = q.ml[j].item /\ t.verify = q.ml[j].verify
      /\ t.sets = q.task.sets /\ t.gets = q.task.gets
    BY <1>1, <1>4 DEF Tasks, Marks
<1>8. v \in Nat
    BY <1>1
<1> HIDE DEF w, t, v
<1>9. /\ r \in Links /\ r.ml = w /\ r.task = t /\ r.rbuf = q.rbuf /\ r.readval = q.readval
      /\ r.state = q.state /\ r.sch = q.sch /\ r.win = q.win
      /\ r.set_cursor = q.set_cursor /\ r.warm = q.warm /\ r.remain = q.remain /\ r.pre = q.pre
      /\ r.cur = q.cur /\ r.sock = q.sock /\ r.fds = q.fds /\ r.req = q.req /\ r.out = q.out
      /\ r.key = q.key /\ r.id = q.id
    BY <1>6, <1>7, <1>8 DEF Links
<1> HIDE DEF r
<1>10. Alike(r, q)
    BY <1>6, <1>7, <1>9 DEF Alike
<1> QED  BY <1>3, <1>7, <1>9, <1>10 DEF j

\* A value is verified.
LEMMA VerifiedIs ==
    ASSUME NEW q, NEW b, Alike(b, q), NEW j \in 0..Len(b.ml)
    PROVE  LET v == Verified(b, j)
           IN /\ Alike(v, q) /\ v.rbuf = b.rbuf /\ v.readval = b.readval
              /\ v.task.item = b.task.item /\ v.task.verify = b.task.verify
              /\ j = 0 => v.ml = b.ml
<1> DEFINE t == [b.task EXCEPT !.finish = TRUE]
           x == [b EXCEPT !.task = t]
           e == [b.ml[j] EXCEPT !.finish = TRUE]
           w == [b.ml EXCEPT ![j] = e]
           y == [x EXCEPT !.ml = w]
<1>1. b \in Links /\ b.ml \in Seq(Marks) /\ b.task \in Tasks
    BY LinkFields DEF Alike
<1>2. CASE ~b.task.verify
    BY <1>2 DEF Verified
<1>3. CASE b.task.verify
    <2>1. x = [b EXCEPT !.task.finish = TRUE]
        OBVIOUS
    <2>2. Verified(b, j) = IF j = 0 THEN x ELSE [x EXCEPT !.ml[j].finish = TRUE]
        BY <1>3, <2>1 DEF Verified
    <2>3. t \in Tasks /\ t.item = b.task.item /\ t.verify = b.task.verify
          /\ t.sets = b.task.sets /\ t.gets = b.task.gets
        BY <1>1 DEF Tasks
    <2> HIDE DEF t
    <2>4. /\ x \in Links /\ x.ml = b.ml /\ x.task = t /\ x.rbuf = b.rbuf /\ x.readval = b.readval
          /\ x.state = b.state /\ x.sch = b.sch /\ x.win = b.win
          /\ x.set_cursor = b.set_cursor /\ x.warm = b.warm /\ x.remain = b.remain
          /\ x.pre = b.pre /\ x.cur = b.cur /\ x.sock = b.sock /\ x.fds = b.fds /\ x.req = b.req
          /\ x.out = b.out /\ x.key = b.key /\ x.id = b.id
        BY <1>1, <2>3 DEF Links
    <2>5. Alike(x, q)
        BY <2>3, <2>4 DEF Alike
    <2>6. CASE j = 0
        BY <2>2, <2>3, <2>4, <2>5, <2>6
    <2>7. CASE j # 0
        <3>1. j \in 1..Len(b.ml)
            <4>1. Len(b.ml) \in Nat
                BY <1>1, LenProperties
            <4> QED  BY <2>7, <4>1
        <3>2. b.ml[j] \in Marks
            BY <1>1, <3>1, ElementOfSeq
        <3>3. e \in Marks /\ e.item = b.ml[j].item /\ e.verify = b.ml[j].verify
            BY <3>2 DEF Marks
        <3>4. Verified(b, j) = y
            BY <2>2, <2>4, <2>7
        <3> HIDE DEF e, x
        <3>5. /\ w \in Seq(Marks) /\ Len(w) = Len(b.ml)
              /\ \A i \in 1..Len(b.ml) : w[i].item = b.ml[i].item /\ w[i].verify = b.ml[i].verify
            BY <1>1, <3>1, <3>3, FlagSet
        <3> HIDE DEF w
        <3>6. /\ y \in Links /\ y.ml = w /\ y.task = x.task /\ y.rbuf = x.rbuf
              /\ y.readval = x.readval
              /\ y.state = x.state /\ y.sch = x.sch /\ y.win = x.win
              /\ y.set_cursor = x.set_cursor /\ y.warm = x.warm /\ y.remain = x.remain
              /\ y.pre = x.pre /\ y.cur = x.cur /\ y.sock = x.sock /\ y.fds = x.fds
              /\ y.req = x.req /\ y.out = x.out /\ y.key = x.key /\ y.id = x.id
            BY <2>4, <3>5 DEF Links
        <3> HIDE DEF y
        <3>7. Alike(y, q)
            BY <2>4, <2>5, <3>5, <3>6 DEF Alike
        <3> QED  BY <2>3, <2>4, <2>7, <3>4, <3>6, <3>7
    <2> QED  BY <2>6, <2>7
<1> QED  BY <1>2, <1>3

\* A value has been taken.
LEMMA TakenIs ==
    ASSUME NEW q, NEW b, Alike(b, q), b.rbuf # <<>>
    PROVE  LET v == [b EXCEPT !.task.miss = FALSE, !.readval = FALSE, !.rbuf = Tail(@)]
           IN /\ Alike(v, q) /\ v.rbuf = Tail(b.rbuf) /\ ~v.readval
              /\ v.task.item = b.task.item /\ v.task.verify = b.task.verify /\ v.ml = b.ml
<1> DEFINE t == [b.task EXCEPT !.miss = FALSE]
           r == Tail(b.rbuf)
           v == [b EXCEPT !.task = t, !.readval = FALSE, !.rbuf = r]
<1>1. b \in Links /\ b.rbuf \in Seq(Pieces) /\ b.task \in Tasks
    BY LinkFields DEF Alike
<1>2. [b EXCEPT !.task.miss = FALSE, !.readval = FALSE, !.rbuf = Tail(@)] = v
    OBVIOUS
<1>3. t \in Tasks /\ t.item = b.task.item /\ t.verify = b.task.verify
      /\ t.sets = b.task.sets /\ t.gets = b.task.gets
    BY <1>1 DEF Tasks
<1>4. r \in Seq(Pieces)
    BY <1>1, HeadTailProperties
<1> HIDE DEF t, r
<1>5. /\ v \in Links /\ v.ml = b.ml /\ v.task = t /\ v.rbuf = r /\ ~v.readval
      /\ v.state = b.state /\ v.sch = b.sch /\ v.win = b.win
      /\ v.set_cursor = b.set_cursor /\ v.warm = b.warm /\ v.remain = b.remain
      /\ v.pre = b.pre /\ v.cur = b.cur /\ v.sock = b.sock /\ v.fds = b.fds /\ v.req = b.req
      /\ v.out = b.out /\ v.key = b.key /\ v.id = b.id
    BY <1>1, <1>3, <1>4 DEF Links
<1> HIDE DEF v
<1>6. Alike(v, q)
    BY <1>3, <1>5 DEF Alike
<1> QED  BY <1>2, <1>3, <1>5, <1>6 DEF r

\* A value's place in a multi-get is one with the key received.
LEMMA MlPlaceIs ==
    ASSUME NEW q \in Links, ~mode.binary, Len(q.ml) <= 2,
           NEW i \in 1..Len(q.ml), q.win[q.ml[i].item].key = q.key
    PROVE  /\ MlPlace(q) \in 1..Len(q.ml)
           /\ q.win[q.ml[MlPlace(q)].item].key = q.key
<1> DEFINE same == {j \in 1..Len(q.ml) : q.win[q.ml[j].item].key = q.key}
           next == q.vindex + 1
<1>1. Len(q.ml) \in Nat
    BY LinkFields, LenProperties
<1>2. i \in same /\ same \subseteq {1, 2}
    BY <1>1
<1>3. MlPlace(q) = IF next \in same THEN next ELSE Min(same)
    BY <1>2 DEF MlPlace
<1>4. Min(same) \in same
    <2> HIDE DEF same
    <2>1. \E x \in same : \A y \in same : x <= y
        <3>1. CASE 1 \in same
            BY <3>1, <1>2
        <3>2. CASE 1 \notin same
            BY <3>2, <1>2
        <3> QED  BY <3>1, <3>2
    <2> QED  BY <2>1 DEF Min
<1>5. MlPlace(q) \in same
    BY <1>3, <1>4
<1> QED  BY <1>5

\* The item a value is taken for.
LEMMA Adopted ==
    ASSUME IInv, Orderly, NEW c \in Conns, cn[c].state = "read", cn[c].rbuf # <<>>,
           cn[c].readval
    PROVE  LET q == cn[c]
               a == Adopt(q)
               j == IF MultiGetDone(q) THEN MlPlace(q) ELSE 0
           IN /\ Alike(a, q) /\ a.rbuf = q.rbuf /\ a.readval = q.readval /\ j \in 0..Len(a.ml)
              /\ a.task.item \in Items
              /\ q.win[a.task.item].key = IF mode.binary THEN q.req.keys[1] ELSE q.key
              /\ a.task.verify => q.win[a.task.item].off # Invalid
              /\ mode.verify = 0 => ~a.task.verify
              /\ mode.ml = 1 => a = q /\ j = 0
              /\ q.cur.cmd = "GET" /\ q.rbuf[1].t = "data"
<1> DEFINE q == cn[c]
           n == net[c]
           a == Adopt(q)
           p == MlPlace(q)
           j == IF MultiGetDone(q) THEN p ELSE 0
<1>1. /\ mode \in Modes /\ q \in Links /\ n \in [Socks -> Wires]
      /\ Linked(mode, q, n, store, faults, finish_warmup, time_out)
    BY Here
<1>2. /\ Rest(q, n) # <<>> /\ Rest(q, n)[1] = q.rbuf[1] /\ Valued(mode, q, Rest(q, n))
      /\ Live(q) /\ Busy(q)
    BY Parsing
<1>3. q.state = "read" /\ q.readval
    OBVIOUS
<1>4. mode.ml \in {1, 2} /\ mode.verify \in {0, 1} /\ (mode.binary => mode.ml = 1)
    BY <1>1, ModeIs DEF Orderly
<1>5. q.ml \in Seq(Marks) /\ Len(q.ml) \in Nat /\ Len(q.ml) <= mode.ml
      /\ (mode.ml = 1 => q.ml = <<>>)
    BY <1>1, LinkFields, LenProperties DEF Linked, Marked
<1> HIDE DEF q, n
<1>6. q.cur.cmd = "GET" /\ q.rbuf[1].t = "data"
    BY <1>2, <1>3 DEF Valued
<1>7. ~mode.binary => Names(q, q.key)
    BY <1>2, <1>3 DEF Valued
<1>8. mode.verify = 0 => ~q.task.verify /\ \A i \in 1..Len(q.ml) : ~q.ml[i].verify
    BY <1>1 DEF Linked, Marked
<1>9. Asks(mode, q)
    BY <1>1 DEF Linked
<1>10. CASE mode.ml = 1
    <2>1. ~MultiGetDone(q)
        BY <1>5, <1>10 DEF MultiGetDone
    <2>2. a = q /\ j = 0
        BY <2>1 DEF Adopt
    <2>3. q.req.keys = <<q.win[q.task.item].key>> /\ q.win[q.task.item].off # Invalid
        BY <1>2, <1>6, <1>9, <1>10 DEF Asks, AsksGet
    <2>4. q.win[q.task.item].key = IF mode.binary THEN q.req.keys[1] ELSE q.key
        <3>1. Len(q.req.keys) = 1 /\ q.req.keys[1] = q.win[q.task.item].key
            BY <2>3
        <3>2. CASE mode.binary
            BY <3>1, <3>2
        <3>3. CASE ~mode.binary
            <4>1. PICK i \in 1..Len(q.req.keys) : q.key = q.req.keys[i]
                BY <1>7, <3>3 DEF Names
            <4> QED  BY <3>1, <3>3, <4>1
        <3> QED  BY <3>2, <3>3
    <2>5. Alike(q, q) /\ q.task.item \in Items
        BY <1>1, TaskFields DEF Alike
    <2> HIDE DEF a, j
    <2>6. 0 \in 0..Len(q.ml)
        BY <1>5
    <2>7. /\ Alike(a, q) /\ a.rbuf = q.rbuf /\ a.readval = q.readval /\ j \in 0..Len(a.ml)
          /\ a.task.item \in Items
          /\ q.win[a.task.item].key = IF mode.binary THEN q.req.keys[1] ELSE q.key
          /\ a.task.verify => q.win[a.task.item].off # Invalid
          /\ mode.verify = 0 => ~a.task.verify
        BY <2>2, <2>3, <2>4, <2>5, <2>6, <1>8
    <2> QED  BY <1>6, <2>2, <2>7 DEF a, j, q, p
<1>11. CASE mode.ml = 2
    <2>1. ~mode.binary
        BY <1>4, <1>11
    <2>2. AsksGets(mode, q)
        BY <1>2, <1>6, <1>9, <1>11 DEF Asks
    <2>3. MultiGetDone(q)
        BY <2>2, <1>11 DEF AsksGets, MultiGetDone
    <2>4. PICK i \in 1..Len(q.req.keys) : q.key = q.req.keys[i]
        BY <1>7, <2>1 DEF Names
    <2>5. i \in 1..Len(q.ml) /\ q.win[q.ml[i].item].key = q.key
        BY <2>2, <2>4 DEF AsksGets
    <2>6. p \in 1..Len(q.ml) /\ q.win[q.ml[p].item].key = q.key
        BY <1>1, <1>5, <1>11, <2>1, <2>5, MlPlaceIs
    <2>7. /\ Alike(a, q) /\ a.rbuf = q.rbuf /\ a.readval = q.readval
          /\ a.task.item = q.ml[p].item /\ a.task.verify = q.ml[p].verify
        BY <1>1, <2>3, <2>6, AdoptIs
    <2>8. j = p
        BY <2>3
    <2> HIDE DEF a, j, p
    <2>9. a.task.item \in Items
        BY <2>7, TaskFields DEF Alike
    <2>10. a.task.verify => q.win[a.task.item].off # Invalid
        <3> SUFFICES ASSUME a.task.verify PROVE q.win[a.task.item].off # Invalid
            OBVIOUS
        <3>1. mode.verify > 0
            BY <1>4, <1>8, <2>6, <2>7
        <3>2. HasValue(q, q.key)
            BY <3>1, <1>1, <1>2, <1>3, <1>11 DEF Linked, Tracked
        <3> QED  BY <3>2, <2>6, <2>7, <2>9 DEF HasValue
    <2>11. j \in 0..Len(a.ml)
        BY <1>5, <2>6, <2>7, <2>8 DEF Alike
    <2>12. /\ q.win[a.task.item].key = IF mode.binary THEN q.req.keys[1] ELSE q.key
           /\ mode.verify = 0 => ~a.task.verify
        BY <1>8, <2>1, <2>6, <2>7
    <2> QED  BY <1>6, <1>11, <2>7, <2>9, <2>10, <2>11, <2>12 DEF a, j, q, p
<1> QED  BY <1>4, <1>10, <1>11

\* What parsing a piece leaves true of the connection k that was q.
Parsed(c, q, k) ==
    /\ k \in Links /\ k.state # "new" /\ k.win = q.win /\ k.warm = q.warm /\ k.remain = q.remain
    /\ Linked(mode, k, net[c], store, faults, finish_warmup, time_out)

\* A value has been received, and there may be more.
LEMMA NreadText ==
    ASSUME IInv, Orderly, NEW c \in Conns, cn[c].state = "read", cn[c].rbuf # <<>>,
           cn[c].readval, ~mode.binary, NEW t, t.t = "data"
    PROVE  Parsed(c, cn[c], ms_complete_nread(cn[c], t))
<1> DEFINE q == cn[c]
           a == Adopt(q)
           j == IF MultiGetDone(q) THEN MlPlace(q) ELSE 0
           b == Verified(a, j)
           k == [b EXCEPT !.task.miss = FALSE, !.readval = FALSE, !.rbuf = Tail(@)]
<1>1. /\ mode \in Modes /\ q \in Links
      /\ Linked(mode, q, net[c], store, faults, finish_warmup, time_out)
    BY Here
<1>2. /\ Alike(a, q) /\ a.rbuf = q.rbuf /\ a.readval = q.readval /\ j \in 0..Len(a.ml)
      /\ mode.verify = 0 => ~a.task.verify
      /\ mode.ml = 1 => a = q /\ j = 0
      /\ q.cur.cmd = "GET" /\ q.rbuf[1].t = "data"
    BY Adopted
<1>3. q.state = "read" /\ q.rbuf # <<>> /\ Busy(q)
    BY DEF Busy
<1>4. ms_complete_nread(q, t) = k
    BY DEF ms_complete_nread
<1> HIDE DEF q, a, j
<1>5. /\ Alike(b, q) /\ b.rbuf = q.rbuf /\ b.task.item = a.task.item
      /\ b.task.verify = a.task.verify
    BY <1>2, VerifiedIs
<1> HIDE DEF b
<1>6. /\ Alike(k, q) /\ k.rbuf = Tail(q.rbuf) /\ ~k.readval
      /\ k.task.item = a.task.item /\ k.task.verify = a.task.verify
    <2>1. Alike(b, q) /\ b.rbuf # <<>>
        BY <1>3, <1>5
    <2>2. /\ Alike(k, q) /\ k.rbuf = Tail(b.rbuf) /\ ~k.readval
          /\ k.task.item = b.task.item /\ k.task.verify = b.task.verify
        BY <2>1, TakenIs
    <2> HIDE DEF k
    <2> QED  BY <2>2, <1>5
<1> HIDE DEF k
<1>7. /\ k \in Links /\ k.ml \in Seq(Marks) /\ q.ml \in Seq(Marks) /\ Len(k.ml) = Len(q.ml)
      /\ q.ml = <<>> => k.ml = <<>>
      /\ q.ml # <<>> => k.ml # <<>>
    <2>1. k \in Links /\ k.ml \in Seq(Marks) /\ q.ml \in Seq(Marks) /\ Len(k.ml) = Len(q.ml)
        BY <1>1, <1>6, LinkFields DEF Alike
    <2>2. \A s \in Seq(Marks) : s = <<>> <=> Len(s) = 0
        BY EmptySeq
    <2> QED  BY <2>1, <2>2
<1>8. mode.ml \in {1, 2}
    BY <1>1, ModeIs
<1>9. Asks(mode, k)
    <2>1. Asks(mode, q)
        BY <1>1 DEF Linked
    <2>2. k.req.id = k.id /\ k.req.op = k.cur.cmd /\ k.cur.cmd = "GET" /\ k.cur.ret = "FAILURE"
        BY <2>1, <1>2, <1>3, <1>6 DEF Asks, Alike
    <2>3. mode.ml = 1 => AsksGet(k)
        BY <2>1, <1>2, <1>3, <1>6 DEF Asks, AsksGet, Alike
    <2>4. mode.ml > 1 => AsksGets(mode, k)
        <3> SUFFICES ASSUME mode.ml > 1 PROVE AsksGets(mode, k)
            OBVIOUS
        <3>1. AsksGets(mode, q)
            BY <2>1, <1>2, <1>3 DEF Asks
        <3> QED  BY <3>1, <1>6, <1>7 DEF AsksGets, Alike
    <2> QED  BY <2>2, <2>3, <2>4 DEF Asks
<1>10. Marked(mode, k)
    BY <1>1, <1>2, <1>6, <1>7 DEF Linked, Marked, Alike
<1>11. Linked(mode, k, net[c], store, faults, finish_warmup, time_out)
    <2>1. /\ q.rbuf[1].t \in {"VALUE", "data"} /\ (k.readval <=> q.rbuf[1].t = "VALUE")
          /\ k.readval \in BOOLEAN
        BY <1>2, <1>6, <1>7, LinkFields
    <2> QED  BY <2>1, <1>2, <1>3, <1>6, <1>7, <1>9, <1>10, Continues DEF Alike, q
<1> QED  BY <1>3, <1>4, <1>6, <1>7, <1>11 DEF Alike, Parsed, q

\* A value has been received, and ends the answer.
LEMMA NreadBinary ==
    ASSUME IInv, Orderly, NEW c \in Conns, cn[c].state = "read", cn[c].rbuf # <<>>,
           cn[c].readval, mode.binary, NEW t, t.t = "data"
    PROVE  Parsed(c, cn[c], ms_complete_nread(cn[c], t))
<1> DEFINE q == cn[c]
           n == net[c]
           a == Adopt(q)
           j == IF MultiGetDone(q) THEN MlPlace(q) ELSE 0
           v == Verified(a, j)
           b == [v EXCEPT !.task.miss = FALSE, !.readval = FALSE, !.rbuf = Tail(@)]
           r == [b.cur EXCEPT !.ret = "END"]
           e == [b EXCEPT !.cur = r]
           k == ms_reset_conn(e)
<1>1. /\ mode \in Modes /\ q \in Links
      /\ Linked(mode, q, n, store, faults, finish_warmup, time_out)
    BY Here
<1>2. /\ Alike(a, q) /\ a.rbuf = q.rbuf /\ a.readval = q.readval /\ j \in 0..Len(a.ml)
      /\ mode.ml = 1 => a = q /\ j = 0
      /\ q.cur.cmd = "GET" /\ q.rbuf[1].t = "data"
    BY Adopted
<1>3. q.state = "read" /\ q.rbuf # <<>> /\ mode.ml = 1 /\ mode.binary
    BY DEF Orderly
<1>4. ms_complete_nread(q, t) = k
    BY <1>3 DEF ms_complete_nread
<1>5. /\ Rest(q, n)[1] = q.rbuf[1] /\ Len(Rest(q, n)) \in Nat \ {0} /\ Chained(mode, Rest(q, n))
    BY Parsing
<1> HIDE DEF q, n, a, j
<1>6. /\ Alike(v, q) /\ v.rbuf = q.rbuf /\ v.task.item = a.task.item
      /\ v.task.verify = a.task.verify /\ v.ml = a.ml
    BY <1>2, <1>3, VerifiedIs
<1> HIDE DEF v
<1>7. /\ Alike(b, q) /\ ~b.readval /\ b.task.item = a.task.item /\ b.task.verify = a.task.verify
      /\ b.ml = a.ml
    <2>1. Alike(v, q) /\ v.rbuf # <<>>
        BY <1>3, <1>6
    <2>2. /\ Alike(b, q) /\ ~b.readval
          /\ b.task.item = v.task.item /\ b.task.verify = v.task.verify /\ b.ml = v.ml
        BY <2>1, TakenIs
    <2> HIDE DEF b
    <2> QED  BY <2>2, <1>6
<1> HIDE DEF b
<1>8. r \in Commands /\ r.cmd = b.cur.cmd /\ b \in Links
    <2>1. b \in Links /\ b.cur \in Commands
        BY <1>7, LinkFields DEF Alike
    <2>2. "END" \in Results \cup {"FAILURE"}
        BY DEF Results
    <2> QED  BY <2>1, <2>2 DEF Commands
<1> HIDE DEF r
<1>9. /\ e \in Links /\ e.cur = r /\ e.ml = b.ml /\ e.task = b.task /\ e.readval = b.readval
      /\ e.sch = b.sch /\ e.win = b.win /\ e.set_cursor = b.set_cursor /\ e.warm = b.warm
      /\ e.remain = b.remain /\ e.sock = b.sock /\ e.fds = b.fds
    BY <1>8 DEF Links
<1> HIDE DEF e
<1>10. /\ k \in Links /\ k.state = "write" /\ ~k.out /\ k.rbuf = <<>> /\ k.pre = e.cur
       /\ k.sch = e.sch /\ k.win = e.win /\ k.set_cursor = e.set_cursor /\ k.warm = e.warm
       /\ k.remain = e.remain /\ k.task = e.task /\ k.cur = e.cur /\ k.ml = e.ml
       /\ k.sock = e.sock /\ k.fds = e.fds /\ k.readval = e.readval
    BY <1>9, ResetFields
<1> HIDE DEF k
<1>11. Len(Rest(q, n)) = 1
    <2>1. 1 \in 1..(Len(Rest(q, n)) - 1) => ~mode.binary
        BY <1>2, <1>5 DEF Chained
    <2>2. \A l \in Nat \ {0} : (1 \in 1..(l - 1) => ~mode.binary) => ~mode.binary \/ l = 1
        OBVIOUS
    <2>3. ~mode.binary \/ Len(Rest(q, n)) = 1
        BY <2>1, <2>2, <1>5
    <2> QED  BY <2>3, <1>3
<1>12. /\ k.cur.cmd = "GET" /\ ~k.readval /\ k.pre = k.cur /\ k.ml = q.ml
       /\ k.sch = q.sch /\ k.win = q.win /\ k.set_cursor = q.set_cursor /\ k.warm = q.warm
       /\ k.remain = q.remain /\ k.sock = q.sock /\ k.fds = q.fds
       /\ k.task.item = q.task.item /\ k.task.sets = q.task.sets
       /\ k.task.gets = q.task.gets /\ k.task.verify = q.task.verify
    BY <1>2, <1>3, <1>7, <1>8, <1>9, <1>10 DEF Alike
<1>13. Linked(mode, k, n, store, faults, finish_warmup, time_out)
    BY <1>2, <1>3, <1>10, <1>11, <1>12, Completed DEF q, n
<1> QED  BY <1>4, <1>10, <1>12, <1>13 DEF Parsed, q, n

\* A header has been received, and its data are awaited.
LEMMA HeadParsed ==
    ASSUME IInv, Orderly, NEW c \in Conns, cn[c].state = "read", cn[c].rbuf # <<>>,
           ~cn[c].readval, cn[c].rbuf[1].t = "VALUE"
    PROVE  Parsed(c, cn[c], ms_try_read_line(cn[c], cn[c].rbuf[1]))
<1> DEFINE q == cn[c]
           n == net[c]
           t == q.rbuf[1]
           key == IF mode.binary THEN q.key ELSE t.key
           r == Tail(q.rbuf)
           p == [q EXCEPT !.readval = TRUE, !.key = key]
           k == [p EXCEPT !.rbuf = r]
<1>1. /\ mode \in Modes /\ q \in Links
      /\ Linked(mode, q, n, store, faults, finish_warmup, time_out)
    BY Here
<1>2. q.state = "read" /\ q.rbuf # <<>> /\ ~q.readval /\ t.t = "VALUE"
    OBVIOUS
<1>3. /\ Rest(q, n)[1] = t /\ Len(Rest(q, n)) \in Nat \ {0} /\ t \in Pieces
      /\ Answering(mode, q, Rest(q, n)) /\ q.cur.cmd \in {"SET", "GET"} /\ Busy(q)
    BY Parsing
<1> HIDE DEF q, n
<1>4. key \in Nat
    BY <1>1, <1>3, LinkFields DEF Pieces
<1>5. r \in Seq(Pieces)
    <2>1. q.rbuf \in Seq(Pieces)
        BY <1>1, LinkFields
    <2> QED  BY <2>1, <1>2, HeadTailProperties
<1>6. ms_try_read_line(q, t) = k
    <2>1. CASE mode.binary
        <3>1. ms_bin_process_response(q, t) = [q EXCEPT !.readval = TRUE]
            BY <1>2 DEF ms_bin_process_response
        <3>2. [q EXCEPT !.readval = TRUE] = p /\ p.readval /\ p.rbuf = q.rbuf
            BY <2>1, <1>1 DEF Links
        <3> HIDE DEF p, t
        <3>3. ms_try_read_line(q, t) = [p EXCEPT !.rbuf = Tail(@)]
            BY <2>1, <3>1, <3>2 DEF ms_try_read_line
        <3> QED  BY <3>2, <3>3
    <2>2. CASE ~mode.binary
        <3>1. ms_ascii_process_line(q, t) = p
            BY <2>2, <1>2 DEF ms_ascii_process_line
        <3>2. p.readval /\ p.rbuf = q.rbuf
            BY <1>1 DEF Links
        <3> HIDE DEF p, t
        <3>3. ms_try_read_line(q, t) = [p EXCEPT !.rbuf = Tail(@)]
            BY <2>2, <3>1, <3>2 DEF ms_try_read_line
        <3> QED  BY <3>2, <3>3
    <2> QED  BY <2>1, <2>2
<1>7. ~mode.binary => key = t.key
    OBVIOUS
<1>8. r = Tail(q.rbuf)
    OBVIOUS
<1> HIDE DEF key, r
<1>9. /\ k \in Links /\ k.rbuf = r /\ k.readval = TRUE /\ k.key = key
      /\ k.state = q.state /\ k.out = q.out /\ k.cur = q.cur /\ k.pre = q.pre
      /\ k.sch = q.sch /\ k.win = q.win /\ k.set_cursor = q.set_cursor
      /\ k.warm = q.warm /\ k.remain = q.remain /\ k.sock = q.sock
      /\ k.fds = q.fds /\ k.req = q.req /\ k.id = q.id /\ k.task = q.task /\ k.ml = q.ml
    BY <1>1, <1>4, <1>5 DEF Links
<1> HIDE DEF k
<1>10. q.cur.cmd = "GET"
    <2>1. 1 \in 1..Len(Rest(q, n))
        BY <1>3
    <2> QED  BY <2>1, <1>2, <1>3 DEF Answering
<1>11. Asks(mode, k)
    BY <1>1, <1>9 DEF Linked, Asks, Busy, AsksSet, AsksGet, AsksGets
<1>12. Marked(mode, k)
    BY <1>1, <1>9 DEF Linked, Marked
<1>13. Linked(mode, k, n, store, faults, finish_warmup, time_out)
    <2>1. /\ t.t \in {"VALUE", "data"} /\ (k.readval <=> t.t = "VALUE") /\ k.readval \in BOOLEAN
        BY <1>2, <1>9
    <2> QED  BY <2>1, <1>2, <1>7, <1>8, <1>9, <1>10, <1>11, <1>12, Continues DEF q, n
<1> QED  BY <1>2, <1>6, <1>9, <1>13 DEF Parsed, q, n

\* The result of the operation has been received.
LEMMA LineParsed ==
    ASSUME IInv, Orderly, NEW c \in Conns, cn[c].state = "read", cn[c].rbuf # <<>>,
           ~cn[c].readval, cn[c].rbuf[1].t # "VALUE"
    PROVE  Parsed(c, cn[c], ms_try_read_line(cn[c], cn[c].rbuf[1]))
<1> DEFINE q == cn[c]
           n == net[c]
           t == q.rbuf[1]
           r == [q.cur EXCEPT !.ret = t.t]
           p == [q EXCEPT !.cur = r]
           k == ms_reset_conn(p)
<1>1. q \in Links
    BY Here
<1>2. q.state = "read" /\ q.rbuf # <<>> /\ ~q.readval /\ t.t # "VALUE"
    OBVIOUS
<1>3. /\ Rest(q, n)[1] = t /\ Len(Rest(q, n)) \in Nat \ {0} /\ t \in Pieces
      /\ Rest(q, n) # <<>> /\ Chained(mode, Rest(q, n)) /\ Valued(mode, q, Rest(q, n))
    BY Parsing
<1> HIDE DEF q, n
<1>4. t.t # "data"
    BY <1>2, <1>3 DEF Valued
<1>5. t.t \in Results
    BY <1>2, <1>3, <1>4 DEF Pieces
<1>6. ms_try_read_line(q, t) = k
    <2>1. ms_bin_process_response(q, t) = p /\ ms_ascii_process_line(q, t) = p
        BY <1>2 DEF ms_bin_process_response, ms_ascii_process_line
    <2>2. p.readval = q.readval
        BY <1>1 DEF Links
    <2> HIDE DEF p, t
    <2> QED  BY <2>1, <2>2, <1>2 DEF ms_try_read_line
<1>7. r \in Commands /\ r.cmd = q.cur.cmd /\ r.ret = t.t
    <2>1. q.cur \in Commands
        BY <1>1, LinkFields
    <2> QED  BY <2>1, <1>5 DEF Commands
<1> HIDE DEF r
<1>8. /\ p \in Links /\ p.cur = r /\ p.ml = q.ml /\ p.task = q.task /\ p.readval = q.readval
      /\ p.sch = q.sch /\ p.win = q.win /\ p.set_cursor = q.set_cursor /\ p.warm = q.warm
      /\ p.remain = q.remain /\ p.sock = q.sock /\ p.fds = q.fds
    BY <1>1, <1>7 DEF Links
<1> HIDE DEF p
<1>9. /\ k \in Links /\ k.state = "write" /\ ~k.out /\ k.rbuf = <<>> /\ k.pre = p.cur
      /\ k.sch = p.sch /\ k.win = p.win /\ k.set_cursor = p.set_cursor /\ k.warm = p.warm
      /\ k.remain = p.remain /\ k.task = p.task /\ k.cur = p.cur /\ k.ml = p.ml
      /\ k.sock = p.sock /\ k.fds = p.fds /\ k.readval = p.readval
    BY <1>8, ResetFields
<1> HIDE DEF k
<1>10. Len(Rest(q, n)) = 1
    <2>1. 1 \in 1..(Len(Rest(q, n)) - 1) => FALSE
        BY <1>2, <1>3, <1>4 DEF Chained
    <2>2. \A l \in Nat \ {0} : (1 \in 1..(l - 1) => FALSE) => l = 1
        OBVIOUS
    <2> QED  BY <2>1, <2>2, <1>3
<1>11. /\ k.cur.cmd = q.cur.cmd /\ k.cur.ret = t.t /\ ~k.readval /\ k.pre = k.cur /\ k.ml = q.ml
       /\ k.sch = q.sch /\ k.win = q.win /\ k.set_cursor = q.set_cursor /\ k.warm = q.warm
       /\ k.remain = q.remain /\ k.sock = q.sock /\ k.fds = q.fds
       /\ k.task.item = q.task.item /\ k.task.sets = q.task.sets
       /\ k.task.gets = q.task.gets /\ k.task.verify = q.task.verify
    BY <1>2, <1>7, <1>8, <1>9
<1>12. Linked(mode, k, n, store, faults, finish_warmup, time_out)
    BY <1>2, <1>9, <1>10, <1>11, Completed DEF q, n
<1> QED  BY <1>6, <1>9, <1>11, <1>12 DEF Parsed, q, n

\* No value is compared with another than the one its item had.
LEMMA NoMismatch ==
    ASSUME IInv, Orderly, NEW c \in Conns, cn[c].state = "read", cn[c].rbuf # <<>>,
           cn[c].readval, mode.ow = 0
    PROVE  ~Mismatch(Adopt(cn[c]), cn[c].rbuf[1].val)
<1> DEFINE q == cn[c]
           n == net[c]
           a == Adopt(q)
           i == a.task.item
<1>1. q \in Links /\ Linked(mode, q, n, store, faults, finish_warmup, time_out)
    BY Here
<1>2. /\ Alike(a, q) /\ i \in Items
      /\ q.win[i].key = IF mode.binary THEN q.req.keys[1] ELSE q.key
      /\ a.task.verify => q.win[i].off # Invalid
    BY Adopted
<1>3. Rest(q, n) # <<>> /\ Rest(q, n)[1] = q.rbuf[1]
    BY Parsing
<1>4. q.state = "read" /\ q.readval
    OBVIOUS
<1> HIDE DEF q, n, a
<1>5. /\ q.win[i].off \in {Invalid, q.win[i].sfx}
      /\ SuffixOf(q, IF mode.binary THEN q.req.keys[1] ELSE q.key, q.rbuf[1].val)
    BY <1>1, <1>2, <1>3, <1>4 DEF Linked, Plain
<1>6. q.rbuf[1].val = q.win[i].sfx
    BY <1>2, <1>5 DEF SuffixOf
<1> QED  BY <1>2, <1>5, <1>6 DEF Mismatch, Alike, q, a

\* A connection parses a piece of the answer.
LEMMA ParseInv ==
    ASSUME IInv, Orderly, NEW c \in Conns, Parse(c)
    PROVE  IInv'
<1> DEFINE q == cn[c]
           t == q.rbuf[1]
           k == IF q.readval THEN ms_complete_nread(q, t) ELSE ms_try_read_line(q, t)
<1>1. /\ q \in Links /\ cn \in [Conns -> Links] /\ q.remain \in -1..ExecNum
      /\ Linked(mode, q, net[c], store, faults, finish_warmup, time_out)
      /\ flaws = NoFlaws /\ Trusting(mode, stats)
    BY Here
<1>2. q.state = "read" /\ q.rbuf # <<>>
    BY DEF Parse, Turn
<1>3. cn' = [cn EXCEPT ![c] = k]
    BY DEF Parse
<1>4. UNCHANGED <<mode, net, store, seq, locks, pc, finish_warmup, time_out, faults>>
    BY DEF Parse, Frame
<1>10. q.readval => t.t = "data"
    BY <1>2, Adopted
<1>5. Parsed(c, q, k)
    <2>1. CASE q.readval /\ mode.binary
        BY <2>1, <1>2, <1>10, NreadBinary
    <2>2. CASE q.readval /\ ~mode.binary
        BY <2>2, <1>2, <1>10, NreadText
    <2>3. CASE ~q.readval /\ t.t = "VALUE"
        BY <2>3, <1>2, HeadParsed
    <2>4. CASE ~q.readval /\ t.t # "VALUE"
        BY <2>4, <1>2, LineParsed
    <2> QED  BY <2>1, <2>2, <2>3, <2>4
<1>6. flaws' = NoFlaws
    <2> DEFINE stray == t.id # q.id
               abort == q.readval /\ t.t = "data" /\ Adopt(q).task.verify
                                  /\ q.win[Adopt(q).task.item].off = Invalid
    <2>1. flaws' = [flaws EXCEPT !.stray = @ \/ stray, !.abort = @ \/ abort]
        BY DEF Parse
    <2>2. ~stray
        <3>1. /\ Rest(q, net[c])[1] = t /\ Len(Rest(q, net[c])) \in Nat \ {0}
              /\ Answering(mode, q, Rest(q, net[c]))
            BY <1>2, Parsing
        <3> HIDE DEF t, q
        <3>2. 1 \in 1..Len(Rest(q, net[c]))
            BY <3>1
        <3> QED  BY <3>1, <3>2 DEF Answering
    <2>3. ~abort
        BY <1>2, Adopted
    <2> HIDE DEF stray, abort
    <2> QED  BY <2>1, <2>2, <2>3, <1>1 DEF NoFlaws
<1>7. Trusting(mode, stats')
    <2> DEFINE m == IF t.t = "data" /\ Mismatch(Adopt(q), t.val) THEN 1 ELSE 0
    <2>1. \/ q.readval /\ stats' = [stats EXCEPT !.vef_failed = @ + m]
          \/ stats' = stats
        BY DEF Parse
    <2>2. q.readval /\ mode.ow = 0 => m = 0
        BY <1>2, NoMismatch
    <2> HIDE DEF m, q
    <2> QED  BY <2>1, <2>2, <1>1 DEF Trusting
<1> HIDE DEF q, k
<1>8. /\ k \in Links /\ q.state # "new" /\ k.state # "new" /\ k.warm = q.warm
      /\ k.remain \in -1..ExecNum
      /\ \A i \in Items : k.win[i].key = q.win[i].key
      /\ Spent(k) >= Spent(q)
    <2>1. k \in Links /\ k.state # "new" /\ k.win = q.win /\ k.warm = q.warm /\ k.remain = q.remain
        BY <1>5 DEF Parsed
    <2>2. Spent(q) \in 0..(WinSize + ExecNum)
        BY <1>1, SpentOf
    <2>3. Spent(k) = Spent(q)
        BY <2>1, <1>2 DEF Spent
    <2> HIDE DEF Spent
    <2> QED  BY <2>1, <2>2, <2>3, <1>1, <1>2, Bounds
<1>9. Linked(mode, k, net[c], store, faults, finish_warmup, time_out)
    BY <1>5 DEF Parsed
<1> QED  BY <1>3, <1>4, <1>6, <1>7, <1>8, <1>9, LinkStep DEF q

-----------------------------------------------------------------------------
(* The whole.                                                              *)

\* The command line is fixed.
LEMMA ModeKept ==
    ASSUME [Next]_vars
    PROVE  mode' = mode
<1>1. ASSUME Frame PROVE mode' = mode
    BY <1>1 DEF Frame
<1>2. ASSUME Outside PROVE mode' = mode
    BY <1>1, <1>2 DEF Outside
<1>3. CASE Monitor
    BY <1>3 DEF Monitor, MonitorFrame, WaitInit, WaitWarmup, RunTimeOver, WaitRun
<1>4. ASSUME NEW c \in Conns, ConnStep(c) PROVE mode' = mode
    <2>1. Setup(c) => Frame
        BY DEF Setup
    <2>2. ms_warmup_server(c) => Frame
        BY DEF ms_warmup_server
    <2>3. WarmupEnds(c) => Frame
        BY DEF WarmupEnds
    <2>4. Update(c) => Frame
        BY DEF Update
    <2>5. Schedule(c) => Frame
        BY DEF Schedule
    <2>6. ScheduleNone(c) => Frame
        BY DEF ScheduleNone
    <2>7. ms_transmit(c) => Frame
        BY DEF ms_transmit
    <2>8. ms_try_read_network(c) => Frame
        BY DEF ms_try_read_network
    <2>9. ReadEof(c) => Frame
        BY DEF ReadEof
    <2>10. Parse(c) => Frame
        BY DEF Parse
    <2>11. Timer(c) => Frame
        BY DEF Timer
    <2>12. ms_reconn(c) => Frame
        BY DEF ms_reconn
    <2>13. ms_conn_close(c) => Frame
        BY DEF ms_conn_close
    <2> QED  BY <1>1, <1>4, <2>1, <2>2, <2>3, <2>4, <2>5, <2>6, <2>7, <2>8, <2>9, <2>10, <2>11,
                <2>12, <2>13 DEF ConnStep
<1>5. ASSUME NEW c \in Conns, NEW i \in Socks, Serve(c, i) PROVE mode' = mode
    <2>1. Outside
        BY <1>5 DEF Serve
    <2> QED  BY <2>1, <1>2
<1>6. CASE Network
    <2>1. Evict => Outside
        BY DEF Evict
    <2>2. ASSUME NEW c \in Conns, ms_reconn_socks(c) PROVE Frame
        BY <2>2 DEF ms_reconn_socks
    <2>3. ASSUME NEW c \in Conns, NEW i \in Socks, ServeFails(c, i) \/ Drop(c, i) \/ Lose(c, i)
          PROVE  Outside
        <3>1. ServeFails(c, i) => Outside
            BY DEF ServeFails
        <3>2. Drop(c, i) => Outside
            BY DEF Drop
        <3>3. Lose(c, i) => Outside
            BY DEF Lose
        <3> QED  BY <2>3, <3>1, <3>2, <3>3
    <2> QED  BY <1>6, <1>1, <1>2, <2>1, <2>2, <2>3 DEF Network
<1>7. CASE UNCHANGED vars
    BY <1>7 DEF vars
<1> QED  BY <1>3, <1>4, <1>5, <1>6, <1>7 DEF Next

\* Every step keeps the invariant.
LEMMA NextInv ==
    ASSUME IInv, Orderly, [Next]_vars
    PROVE  IInv'
<1>1. CASE Monitor
    BY <1>1, MonitorInv
<1>2. CASE \E c \in Conns : ConnStep(c)
    <2> PICK c \in Conns : ConnStep(c)
        BY <1>2
    <2>1. CASE Setup(c)
        BY <2>1, SetupInv
    <2>2. CASE ms_warmup_server(c)
        BY <2>2, WarmupInv
    <2>3. CASE WarmupEnds(c)
        BY <2>3, WarmupEndsInv
    <2>4. CASE Update(c)
        BY <2>4, UpdateInv
    <2>5. CASE Schedule(c)
        BY <2>5, ScheduleInv
    <2>6. CASE ScheduleNone(c)
        BY <2>6, ScheduleNoneInv
    <2>7. CASE ms_transmit(c)
        <3>1. CASE net[c][cn[c].sock].up
            BY <2>7, <3>1, Sent
        <3>2. CASE ~net[c][cn[c].sock].up
            BY <2>7, <3>2, NotSent
        <3> QED  BY <3>1, <3>2
    <2>8. CASE ms_try_read_network(c)
        BY <2>8, ReadNetworkInv
    <2>9. CASE ReadEof(c)
        BY <2>9, ReadEofInv
    <2>10. CASE Parse(c)
        BY <2>10, ParseInv
    <2>11. CASE Timer(c)
        BY <2>11, TimerInv
    <2>12. CASE ms_reconn(c)
        BY <2>12, ReconnInv
    <2>13. CASE ms_conn_close(c)
        BY <2>13, ConnCloseInv
    <2> QED  BY <2>1, <2>2, <2>3, <2>4, <2>5, <2>6, <2>7, <2>8, <2>9, <2>10, <2>11, <2>12, <2>13
             DEF ConnStep
<1>3. CASE \E c \in Conns : \E i \in Socks : Serve(c, i)
    <2> PICK c \in Conns, i \in Socks : Serve(c, i)
        BY <1>3
    <2>1. net[c][i].req.op \in {"SET", "GET"}
        BY DEF Serve
    <2> QED  BY <2>1, ServeSet, ServeGet
<1>4. CASE Network
    <2>1. CASE Evict
        BY <2>1, EvictInv
    <2>2. CASE \E c \in Conns : \/ ms_reconn_socks(c)
                                \/ \E i \in Socks : ServeFails(c, i) \/ Drop(c, i) \/ Lose(c, i)
        <3> PICK c \in Conns : \/ ms_reconn_socks(c)
                               \/ \E i \in Socks : ServeFails(c, i) \/ Drop(c, i) \/ Lose(c, i)
            BY <2>2
        <3>1. CASE ms_reconn_socks(c)
            BY <3>1, ReconnSocksInv
        <3>2. CASE \E i \in Socks : ServeFails(c, i) \/ Drop(c, i) \/ Lose(c, i)
            <4> PICK i \in Socks : ServeFails(c, i) \/ Drop(c, i) \/ Lose(c, i)
                BY <3>2
            <4> QED  BY ServeFailsInv, DropInv, LoseInv
        <3> QED  BY <3>1, <3>2
    <2> QED  BY <1>4, <2>1, <2>2 DEF Network
<1>5. CASE UNCHANGED vars
    <2>1. /\ mode' = mode /\ cn' = cn /\ net' = net /\ store' = store /\ seq' = seq /\ pc' = pc
          /\ finish_warmup' = finish_warmup /\ time_out' = time_out /\ locks' = locks
          /\ stats' = stats /\ unseen' = unseen /\ faults' = faults /\ flaws' = flaws
        BY <1>5 DEF vars
    <2>2. Conns' = Conns /\ Socks' = Socks
        BY <2>1 DEF Conns, Socks
    <2>3. Typed'
        BY <2>1, <2>2 DEF IInv, Typed
    <2>4. ASSUME NEW c \in Conns
          PROVE  Linked(mode, cn[c], net[c], store, faults, finish_warmup, time_out)'
        BY <2>1, <2>2, <2>4 DEF IInv
    <2>5. /\ KeysApart(mode, cn, seq)' /\ Unused(seq, store)'
          /\ Warmed(mode, cn, finish_warmup, pc, locks.warmup)'
          /\ (locks \in Locks)' /\ (flaws = NoFlaws)' /\ Trusting(mode, stats)'
        BY <2>1 DEF IInv
    <2> QED  BY <2>2, <2>3, <2>4, <2>5 DEF IInv
<1> QED  BY <1>1, <1>2, <1>3, <1>4, <1>5 DEF Next

\* The inductive invariant holds in every run whose answers stay in order.
THEOREM Induction == Spec => [](Orderly => IInv)
<1>1. Init => (Orderly => IInv)
    BY InitInv
<1>2. (Orderly => IInv) /\ [Next]_vars => (Orderly => IInv)'
    <2>1. SUFFICES ASSUME Orderly => IInv, [Next]_vars, Orderly' PROVE IInv'
        OBVIOUS
    <2>2. Orderly
        BY <2>1, ModeKept DEF Orderly
    <2> QED  BY <2>1, <2>2, NextInv
<1> QED  BY <1>1, <1>2, PTL DEF Spec

\* Whatever ms_drive_machine parses answers the command its connection waits
\* for, and no assertion of ms_conn.c fails.
THEOREM AnswersOwn == Spec => [](Orderly => OwnAnswer)
<1>1. IInv => OwnAnswer
    BY DEF IInv, NoFlaws, OwnAnswer
<1> QED  BY <1>1, Induction, PTL

\* Without --overwrite, ms_verify_value accuses no server that keeps what it
\* was given.
THEOREM AccusesNone == Spec => [](Orderly => NoFalseAlarm)
<1>1. IInv => NoFalseAlarm
    BY DEF IInv, Trusting, NoFalseAlarm
<1> QED  BY <1>1, Induction, PTL

\* Without --overwrite, the servers hold an item with the value its window
\* says, or do not hold it.
THEOREM WindowsKept == Spec => [](Orderly => WindowsTrue)
<1>1. IInv => WindowsTrue
    BY DEF IInv, Linked, Plain, WindowsTrue
<1> QED  BY <1>1, Induction, PTL

\* Without faults the gets and sets of every connection follow the proportion
\* asked for, within one command of each kind.
THEOREM ProportionKept == Spec => [](Orderly => InProportion)
<1>1. IInv => InProportion
    BY DEF IInv, Linked, Paced, LeadOf, Lead, InProportion
<1> QED  BY <1>1, Induction, PTL
=============================================================================
