-------------------------- MODULE ConnectionOrder --------------------------
(***************************************************************************)
(* What the server executes and what the client takes for an answer, as     *)
(* long as io_wait does not purge inside the write loop of io_flush and     *)
(* repack_input_buffer exposes no input of an older connection (astray is   *)
(* empty): requests are executed once and in order, on the connections      *)
(* given up as on the one in use, and a call that waits for its answer gets *)
(* its own.  Where io_wait does purge there, the buffer is sent twice,      *)
(* which run ConnReentry shows; run ConnStale shows the older input.        *)
(***************************************************************************)
EXTENDS ConnectionProofs

\* io_wait has not called memcached_purge from within the write loop.
NoWait == \A i \in DOMAIN stack : stack[i].at # "wait"

-----------------------------------------------------------------------------
\* The requests whose command line is in s, and those answered in s.
IsCmd(c) == c.part = "cmd" /\ c.id # Quit
Cmds(s) == {s[i].id : i \in {j \in DOMAIN s : IsCmd(s[j])}}
LineId(l) == IF l < 0 THEN -l ELSE l
Lines(s) == {LineId(s[i]) : i \in {j \in DOMAIN s : s[j] # ERROR}}

\* They are in the order of the calls.
CmdsUp(s) ==
    \A i, j \in DOMAIN s :
        i < j /\ IsCmd(s[i]) /\ IsCmd(s[j]) => s[i].id < s[j].id
LinesUp(s) ==
    \A i, j \in DOMAIN s :
        i < j /\ s[i] # ERROR /\ s[j] # ERROR => LineId(s[i]) < LineId(s[j])
Up(s) == \A i, j \in DOMAIN s : i < j => s[i] < s[j]
Before(X, Y) == \A x \in X, y \in Y : x < y

\* What io_flush has still to send, and the requests on their way, from the
\* answers the client can read back to the chunks it has not yet written.
Pending == IF At("send") THEN Top.rest ELSE write_buffer
Parsing == IF parsing = Quit THEN {} ELSE {parsing}
Done == {executed[i] : i \in DOMAIN executed}

\* What a connection that was given up has received and has executed, what all
\* of them have, and all that was or may be executed apart from this connection.
Awaiting(c) == IF c.parsing = Quit THEN {} ELSE {c.parsing}
Held(c) == Awaiting(c) \cup Cmds(c.toServer)
Whole(c) == Held(c) \cup Elements(c.executed)
Elder == UNION {Whole(c) : c \in earlier}
Past == Done \cup Elder

Unanswered == Parsing \cup Cmds(toServer) \cup Cmds(Pending) \cup Cmds(op.todo)
UnderWay == Lines(read_buffer) \cup Lines(toClient) \cup Unanswered

\* One after the other from A to F.
Chain(A, B, C, D, E, F) ==
    /\ Before(A, B \cup C \cup D \cup E \cup F)
    /\ Before(B, C \cup D \cup E \cup F)
    /\ Before(C, D \cup E \cup F)
    /\ Before(D, E \cup F)
    /\ Before(E, F)

\* In order, G executed or given up before and n the number of the next call.
Stages(A, B, C, D, E, F, G, n) ==
    /\ Chain(A, B, C, D, E, F)
    /\ Before(G, C \cup D \cup E \cup F)
    /\ Before(A \cup B \cup C \cup D \cup E \cup F \cup G, {n})

\* Each stage is in the order of the calls, and so are the stages.
InOrder ==
    /\ LinesUp(read_buffer) /\ LinesUp(toClient)
    /\ CmdsUp(toServer) /\ CmdsUp(Pending) /\ CmdsUp(op.todo)
    /\ Up(executed)
    /\ Stages(Lines(read_buffer), Lines(toClient), Parsing, Cmds(toServer),
              Cmds(Pending), Cmds(op.todo), Past, nextId)

\* The requests cursor_active has counted are those before this one.
Counting == pc = "write" /\ op.kind \in {"set", "sync"}
Counted == IF Counting THEN op.id ELSE nextId

\* cursor_active is enough for the answers from any request under way to the
\* last one, and never so much that it wraps.
InStep ==
    /\ \A x \in UnderWay : Counted - x <= cursor_active
    /\ cursor_active < Counted + (IF pc = "quit" THEN 1 ELSE 0)
    /\ ~fd => /\ read_buffer = <<>> /\ toClient = <<>> /\ toServer = <<>>
              /\ Unanswered = {}

\* What the client's control says of the call under way.
CallControl ==
    /\ Counting \/ pc = "answer" => op.id \in Ids /\ op.id = nextId - 1
    /\ op.kind \in {"none", "flush", "quit"} => op.id = Quit
    /\ op.todo # <<>> => Cmds(Tail(op.todo)) = {}
    /\ stack # <<>> => Cmds(op.todo) = {}
    /\ pc = "answer" => op.todo = <<>> /\ (fd => cursor_active > 0)
    /\ pc \in {"idle", "quit"} => stack = <<>>

\* memcached_purge reads no more than cursor_active says.
PurgeControl ==
    Len(stack) >= 2 =>
        /\ stack[2].at = "purge" =>
              (Len(stack) = 2 /\ ret = "fail") \/ cursor_active > 0
        /\ stack[2].at = "drain" => ~fd \/ cursor_active > stack[2].n

\* What io_flush has sent and has to send is write_buffer.
FlushWhole == At("send") => Top.sent + Len(Top.rest) = Len(write_buffer)

\* A call that waited for its answer got its own.
Own == last.id # Quit /\ last.rc = "SUCCESS" => last.got = last.id

\* A connection that was given up, e what the server has executed on the others:
\* what it has is newer than what had been executed by then, and older than
\* what has been since.
OldInOrder(c, e) ==
    /\ c.before <= Len(e)
    /\ CmdsUp(c.toServer) /\ Before(Awaiting(c), Cmds(c.toServer))
    /\ Up(c.executed) /\ Before(Elements(c.executed), Held(c))
    /\ \A i \in 1..c.before : Before({e[i]}, Whole(c))
    /\ \A i \in (c.before + 1)..Len(e) : Before(Whole(c), {e[i]})

EarlierInv ==
    \A c \in earlier :
        /\ OldInOrder(c, executed)
        /\ \A d \in earlier : c # d => Whole(c) \cap Whole(d) = {}

OrderInv ==
    /\ InOrder /\ InStep /\ CallControl /\ PurgeControl
    /\ FlushWhole /\ Own

-----------------------------------------------------------------------------
(* The operators on chunks and lines.                                      *)

\* Positions in a piece and in the whole.
LEMMA Shifted ==
    \A i, a, b \in Nat \ {0}, j \in Nat :
        a < b /\ a <= j - i + 1 /\ b <= j - i + 1 =>
            i + a - 1 \in 1..j /\ i + b - 1 \in 1..j /\ i + a - 1 < i + b - 1
OBVIOUS

\* A piece of a sequence of chunks holds some of its commands, in order.
LEMMA CmdsPiece ==
    ASSUME NEW s \in Seq(Chunk), NEW i \in Nat \ {0}, NEW j \in Nat,
           j <= Len(s)
    PROVE  /\ \A x \in Cmds(SubSeq(s, i, j)) :
                 \E m \in i..j : IsCmd(s[m]) /\ x = s[m].id
           /\ Cmds(SubSeq(s, i, j)) \subseteq Cmds(s)
           /\ CmdsUp(s) => CmdsUp(SubSeq(s, i, j))
<1> PICK t : t = SubSeq(s, i, j)
  OBVIOUS
<1>1. Len(s) \in Nat /\ DOMAIN s = 1..Len(s)
  BY LenProperties
<1>2. \A k \in i..j : s[k] \in Chunk
  BY <1>1, ElementOfSeq
<1>3. /\ t \in Seq(Chunk)
      /\ \A k \in 1..Len(t) : k <= j - i + 1 /\ t[k] = s[i + k - 1]
  <2>1. /\ t \in Seq(Chunk) /\ Len(t) = IF i <= j THEN j - i + 1 ELSE 0
        /\ \A k \in 1..(j - i + 1) : t[k] = s[i + k - 1]
    BY <1>2, SubSeqProperties
  <2> QED
    BY <2>1
<1>4. DOMAIN t = 1..Len(t) /\ Len(t) \in Nat
  BY <1>3, LenProperties
<1>5. ASSUME NEW x \in Cmds(t)
      PROVE  \E m \in i..j : IsCmd(s[m]) /\ x = s[m].id
  <2>1. PICK k \in DOMAIN t : IsCmd(t[k]) /\ x = t[k].id
    BY DEF Cmds
  <2>2. k \in 1..Len(t) /\ k <= j - i + 1 /\ t[k] = s[i + k - 1]
    BY <1>3, <1>4
  <2>3. i + k - 1 \in i..j
    BY <1>4, <2>2
  <2> QED
    BY <2>1, <2>2, <2>3
<1>6. Cmds(t) \subseteq Cmds(s)
  <2>1. \A m \in i..j : m \in DOMAIN s
    BY <1>1
  <2> QED
    BY <1>5, <2>1 DEF Cmds
<1>7. ASSUME CmdsUp(s) PROVE CmdsUp(t)
  <2> SUFFICES ASSUME NEW a \in DOMAIN t, NEW b \in DOMAIN t, a < b,
                      IsCmd(t[a]), IsCmd(t[b])
               PROVE  t[a].id < t[b].id
    BY DEF CmdsUp
  <2>0. a \in Nat \ {0} /\ b \in Nat \ {0}
    BY <1>4
  <2> PICK c \in Int : c = i + a - 1
    BY <2>0
  <2> PICK d \in Int : d = i + b - 1
    BY <2>0
  <2>1. t[a] = s[c] /\ t[b] = s[d]
    BY <1>3, <1>4
  <2>2. c \in DOMAIN s /\ d \in DOMAIN s /\ c < d
    <3>1. a <= j - i + 1 /\ b <= j - i + 1
      BY <1>3, <1>4
    <3>2. c \in 1..j /\ d \in 1..j /\ c < d
      BY <2>0, <3>1, Shifted, Zenon
    <3>3. \A m \in 1..j : m \in DOMAIN s
      BY <1>1
    <3> QED
      BY <3>2, <3>3, Zenon
  <2> QED
    BY <1>7, <2>1, <2>2 DEF CmdsUp
<1> QED
  BY <1>5, <1>6, <1>7

\* One more chunk.
LEMMA CmdsAppend ==
    ASSUME NEW s \in Seq(Chunk), NEW c \in Chunk
    PROVE  /\ Cmds(Append(s, c)) \subseteq
                 Cmds(s) \cup (IF IsCmd(c) THEN {c.id} ELSE {})
           /\ CmdsUp(s) /\ (IsCmd(c) => Before(Cmds(s), {c.id}))
                 => CmdsUp(Append(s, c))
<1> PICK t : t = Append(s, c)
  OBVIOUS
<1>1. Len(s) \in Nat /\ DOMAIN s = 1..Len(s)
  BY LenProperties
<1>2. /\ t \in Seq(Chunk) /\ Len(t) = Len(s) + 1
      /\ \A i \in 1..Len(s) : t[i] = s[i]
      /\ t[Len(s) + 1] = c
  BY AppendProperties
<1>3. DOMAIN t = 1..(Len(s) + 1)
  BY <1>2, LenProperties
<1>4. ASSUME NEW k \in DOMAIN t
      PROVE  (k \in DOMAIN s /\ t[k] = s[k]) \/ (k = Len(s) + 1 /\ t[k] = c)
  BY <1>1, <1>2, <1>3
<1>5. Cmds(t) \subseteq Cmds(s) \cup (IF IsCmd(c) THEN {c.id} ELSE {})
  BY <1>4 DEF Cmds
<1>6. ASSUME CmdsUp(s), IsCmd(c) => Before(Cmds(s), {c.id}) PROVE CmdsUp(t)
  <2> SUFFICES ASSUME NEW a \in DOMAIN t, NEW b \in DOMAIN t, a < b,
                      IsCmd(t[a]), IsCmd(t[b])
               PROVE  t[a].id < t[b].id
    BY DEF CmdsUp
  <2>1. a \in DOMAIN s /\ t[a] = s[a]
    BY <1>1, <1>3, <1>4
  <2>2. CASE b \in DOMAIN s /\ t[b] = s[b]
    BY <1>6, <2>1, <2>2 DEF CmdsUp
  <2>3. CASE t[b] = c
    BY <1>6, <2>1, <2>3 DEF Before, Cmds
  <2> QED
    BY <1>4, <2>2, <2>3
<1> QED
  BY <1>5, <1>6

\* All chunks but the first.
LEMMA CmdsTail ==
    ASSUME NEW s \in Seq(Chunk), s # <<>>
    PROVE  /\ Cmds(Tail(s)) \subseteq Cmds(s)
           /\ IsCmd(Head(s)) => Head(s).id \in Cmds(s)
           /\ CmdsUp(s) => CmdsUp(Tail(s))
           /\ CmdsUp(s) /\ IsCmd(Head(s)) =>
                 Before({Head(s).id}, Cmds(Tail(s)))
<1> PICK t : t = Tail(s)
  OBVIOUS
<1> PICK h : h = Head(s)
  OBVIOUS
<1>1. Len(s) \in Nat \ {0} /\ DOMAIN s = 1..Len(s)
  BY EmptySeq, LenProperties
<1>2. /\ t \in Seq(Chunk) /\ Len(t) = Len(s) - 1
      /\ \A i \in 1..Len(t) : t[i] = s[i + 1]
      /\ h = s[1] /\ 1 \in DOMAIN s
  BY <1>1, HeadTailProperties
<1>3. DOMAIN t = 1..(Len(s) - 1)
  BY <1>1, <1>2, LenProperties
<1>4. ASSUME NEW k \in DOMAIN t
      PROVE  k + 1 \in DOMAIN s /\ 1 < k + 1 /\ t[k] = s[k + 1]
  BY <1>1, <1>2, <1>3
<1>5. Cmds(t) \subseteq Cmds(s) /\ (IsCmd(h) => h.id \in Cmds(s))
  BY <1>2, <1>4 DEF Cmds
<1>6. ASSUME CmdsUp(s) PROVE CmdsUp(t)
  <2> SUFFICES ASSUME NEW a \in DOMAIN t, NEW b \in DOMAIN t, a < b,
                      IsCmd(t[a]), IsCmd(t[b])
               PROVE  t[a].id < t[b].id
    BY DEF CmdsUp
  <2>1. a + 1 < b + 1
    BY <1>3
  <2> QED
    BY <1>4, <1>6, <2>1 DEF CmdsUp
<1>7. ASSUME CmdsUp(s), IsCmd(h) PROVE Before({h.id}, Cmds(t))
  <2> SUFFICES ASSUME NEW y \in Cmds(t) PROVE h.id < y
    BY DEF Before
  <2>1. PICK k \in DOMAIN t : IsCmd(t[k]) /\ y = t[k].id
    BY DEF Cmds
  <2> QED
    BY <1>2, <1>4, <1>7, <2>1 DEF CmdsUp
<1> QED
  BY <1>5, <1>6, <1>7

\* Two sequences of chunks, one behind the other.
LEMMA CmdsConcat ==
    ASSUME NEW s \in Seq(Chunk), NEW t \in Seq(Chunk)
    PROVE  /\ Cmds(s \o t) \subseteq Cmds(s) \cup Cmds(t)
           /\ CmdsUp(s) /\ CmdsUp(t) /\ Before(Cmds(s), Cmds(t))
                 => CmdsUp(s \o t)
<1> PICK u : u = s \o t
  OBVIOUS
<1> PICK n : n = Len(s)
  OBVIOUS
<1>1. /\ n \in Nat /\ DOMAIN s = 1..n
      /\ Len(t) \in Nat /\ DOMAIN t = 1..Len(t)
  BY LenProperties
<1>2. /\ u \in Seq(Chunk) /\ Len(u) = n + Len(t)
      /\ \A i \in 1..(n + Len(t)) : u[i] = IF i <= n THEN s[i] ELSE t[i - n]
  BY ConcatProperties
<1>3. DOMAIN u = 1..(n + Len(t))
  BY <1>2, LenProperties
<1>4. ASSUME NEW k \in DOMAIN u
      PROVE  \/ k <= n /\ k \in DOMAIN s /\ u[k] = s[k]
             \/ k > n /\ k - n \in DOMAIN t /\ u[k] = t[k - n]
  BY <1>1, <1>2, <1>3
<1>5. Cmds(u) \subseteq Cmds(s) \cup Cmds(t)
  BY <1>4 DEF Cmds
<1>6. ASSUME CmdsUp(s), CmdsUp(t), Before(Cmds(s), Cmds(t)) PROVE CmdsUp(u)
  <2> SUFFICES ASSUME NEW a \in DOMAIN u, NEW b \in DOMAIN u, a < b,
                      IsCmd(u[a]), IsCmd(u[b])
               PROVE  u[a].id < u[b].id
    BY DEF CmdsUp
  <2>1. CASE b <= n
    BY <1>1, <1>3, <1>4, <1>6, <2>1 DEF CmdsUp
  <2>2. CASE a <= n /\ b > n
    <3>1. a \in DOMAIN s /\ u[a] = s[a]
      BY <1>1, <1>3, <1>4, <2>2
    <3>2. b - n \in DOMAIN t /\ u[b] = t[b - n]
      BY <1>1, <1>3, <1>4, <2>2
    <3>3. u[a].id \in Cmds(s) /\ u[b].id \in Cmds(t)
      BY <3>1, <3>2 DEF Cmds
    <3> QED
      BY <1>6, <3>3 DEF Before
  <2>3. CASE a > n
    <3>1. a - n \in DOMAIN t /\ b - n \in DOMAIN t /\ a - n < b - n
          /\ u[a] = t[a - n] /\ u[b] = t[b - n]
      BY <1>1, <1>3, <1>4, <2>3
    <3> QED
      BY <1>6, <3>1 DEF CmdsUp
  <2> QED
    BY <1>1, <1>3, <2>1, <2>2, <2>3
<1> QED
  BY <1>5, <1>6

\* The same of lines: a piece of them.
LEMMA LinesPiece ==
    ASSUME NEW s \in Seq(Line), NEW i \in Nat \ {0}, NEW j \in Nat,
           j <= Len(s)
    PROVE  /\ \A x \in Lines(SubSeq(s, i, j)) :
                 \E m \in i..j : s[m] # ERROR /\ x = LineId(s[m])
           /\ Lines(SubSeq(s, i, j)) \subseteq Lines(s)
           /\ LinesUp(s) => LinesUp(SubSeq(s, i, j))
<1> PICK t : t = SubSeq(s, i, j)
  OBVIOUS
<1>1. Len(s) \in Nat /\ DOMAIN s = 1..Len(s)
  BY LenProperties
<1>2. \A k \in i..j : s[k] \in Line
  BY <1>1, ElementOfSeq
<1>3. /\ t \in Seq(Line)
      /\ \A k \in 1..Len(t) : k <= j - i + 1 /\ t[k] = s[i + k - 1]
  <2>1. /\ t \in Seq(Line) /\ Len(t) = IF i <= j THEN j - i + 1 ELSE 0
        /\ \A k \in 1..(j - i + 1) : t[k] = s[i + k - 1]
    BY <1>2, SubSeqProperties
  <2> QED
    BY <2>1
<1>4. DOMAIN t = 1..Len(t) /\ Len(t) \in Nat
  BY <1>3, LenProperties
<1>5. ASSUME NEW x \in Lines(t)
      PROVE  \E m \in i..j : s[m] # ERROR /\ x = LineId(s[m])
  <2>1. PICK k \in DOMAIN t : t[k] # ERROR /\ x = LineId(t[k])
    BY DEF Lines
  <2>2. k \in 1..Len(t) /\ k <= j - i + 1 /\ t[k] = s[i + k - 1]
    BY <1>3, <1>4
  <2>3. i + k - 1 \in i..j
    BY <1>4, <2>2
  <2> QED
    BY <2>1, <2>2, <2>3
<1>6. Lines(t) \subseteq Lines(s)
  <2>1. \A m \in i..j : m \in DOMAIN s
    BY <1>1
  <2> QED
    BY <1>5, <2>1 DEF Lines
<1>7. ASSUME LinesUp(s) PROVE LinesUp(t)
  <2> SUFFICES ASSUME NEW a \in DOMAIN t, NEW b \in DOMAIN t, a < b,
                      t[a] # ERROR, t[b] # ERROR
               PROVE  LineId(t[a]) < LineId(t[b])
    BY DEF LinesUp
  <2>0. a \in Nat \ {0} /\ b \in Nat \ {0}
    BY <1>4
  <2> PICK c \in Int : c = i + a - 1
    BY <2>0
  <2> PICK d \in Int : d = i + b - 1
    BY <2>0
  <2>1. t[a] = s[c] /\ t[b] = s[d]
    BY <1>3, <1>4
  <2>2. c \in DOMAIN s /\ d \in DOMAIN s /\ c < d
    <3>1. a <= j - i + 1 /\ b <= j - i + 1
      BY <1>3, <1>4
    <3>2. c \in 1..j /\ d \in 1..j /\ c < d
      BY <2>0, <3>1, Shifted, Zenon
    <3>3. \A m \in 1..j : m \in DOMAIN s
      BY <1>1
    <3> QED
      BY <3>2, <3>3, Zenon
  <2> QED
    BY <1>7, <2>1, <2>2 DEF LinesUp
<1> QED
  BY <1>5, <1>6, <1>7

\* One more line.
LEMMA LinesAppend ==
    ASSUME NEW s \in Seq(Line), NEW c \in Line
    PROVE  /\ Lines(Append(s, c)) \subseteq
                 Lines(s) \cup (IF c # ERROR THEN {LineId(c)} ELSE {})
           /\ LinesUp(s) /\ (c # ERROR => Before(Lines(s), {LineId(c)}))
                 => LinesUp(Append(s, c))
<1> PICK t : t = Append(s, c)
  OBVIOUS
<1>1. Len(s) \in Nat /\ DOMAIN s = 1..Len(s)
  BY LenProperties
<1>2. /\ t \in Seq(Line) /\ Len(t) = Len(s) + 1
      /\ \A i \in 1..Len(s) : t[i] = s[i]
      /\ t[Len(s) + 1] = c
  BY AppendProperties
<1>3. DOMAIN t = 1..(Len(s) + 1)
  BY <1>2, LenProperties
<1>4. ASSUME NEW k \in DOMAIN t
      PROVE  (k \in DOMAIN s /\ t[k] = s[k]) \/ (k = Len(s) + 1 /\ t[k] = c)
  BY <1>1, <1>2, <1>3
<1>5. Lines(t) \subseteq Lines(s) \cup (IF c # ERROR THEN {LineId(c)} ELSE {})
  BY <1>4 DEF Lines
<1>6. ASSUME LinesUp(s), c # ERROR => Before(Lines(s), {LineId(c)}) PROVE LinesUp(t)
  <2> SUFFICES ASSUME NEW a \in DOMAIN t, NEW b \in DOMAIN t, a < b,
                      t[a] # ERROR, t[b] # ERROR
               PROVE  LineId(t[a]) < LineId(t[b])
    BY DEF LinesUp
  <2>1. a \in DOMAIN s /\ t[a] = s[a]
    BY <1>1, <1>3, <1>4
  <2>2. CASE b \in DOMAIN s /\ t[b] = s[b]
    BY <1>6, <2>1, <2>2 DEF LinesUp
  <2>3. CASE t[b] = c
    BY <1>6, <2>1, <2>3 DEF Before, Lines
  <2> QED
    BY <1>4, <2>2, <2>3
<1> QED
  BY <1>5, <1>6

\* All lines but the first.
LEMMA LinesTail ==
    ASSUME NEW s \in Seq(Line), s # <<>>
    PROVE  /\ Lines(Tail(s)) \subseteq Lines(s)
           /\ Head(s) # ERROR => LineId(Head(s)) \in Lines(s)
           /\ LinesUp(s) => LinesUp(Tail(s))
           /\ LinesUp(s) /\ Head(s) # ERROR =>
                 Before({LineId(Head(s))}, Lines(Tail(s)))
<1> PICK t : t = Tail(s)
  OBVIOUS
<1> PICK h : h = Head(s)
  OBVIOUS
<1>1. Len(s) \in Nat \ {0} /\ DOMAIN s = 1..Len(s)
  BY EmptySeq, LenProperties
<1>2. /\ t \in Seq(Line) /\ Len(t) = Len(s) - 1
      /\ \A i \in 1..Len(t) : t[i] = s[i + 1]
      /\ h = s[1] /\ 1 \in DOMAIN s
  BY <1>1, HeadTailProperties
<1>3. DOMAIN t = 1..(Len(s) - 1)
  BY <1>1, <1>2, LenProperties
<1>4. ASSUME NEW k \in DOMAIN t
      PROVE  k + 1 \in DOMAIN s /\ 1 < k + 1 /\ t[k] = s[k + 1]
  BY <1>1, <1>2, <1>3
<1>5. Lines(t) \subseteq Lines(s) /\ (h # ERROR => LineId(h) \in Lines(s))
  BY <1>2, <1>4 DEF Lines
<1>6. ASSUME LinesUp(s) PROVE LinesUp(t)
  <2> SUFFICES ASSUME NEW a \in DOMAIN t, NEW b \in DOMAIN t, a < b,
                      t[a] # ERROR, t[b] # ERROR
               PROVE  LineId(t[a]) < LineId(t[b])
    BY DEF LinesUp
  <2>1. a + 1 < b + 1
    BY <1>3
  <2> QED
    BY <1>4, <1>6, <2>1 DEF LinesUp
<1>7. ASSUME LinesUp(s), h # ERROR PROVE Before({LineId(h)}, Lines(t))
  <2> SUFFICES ASSUME NEW y \in Lines(t) PROVE LineId(h) < y
    BY DEF Before
  <2>1. PICK k \in DOMAIN t : t[k] # ERROR /\ y = LineId(t[k])
    BY DEF Lines
  <2> QED
    BY <1>2, <1>4, <1>7, <2>1 DEF LinesUp
<1> QED
  BY <1>5, <1>6, <1>7

\* Two sequences of lines, one behind the other.
LEMMA LinesConcat ==
    ASSUME NEW s \in Seq(Line), NEW t \in Seq(Line)
    PROVE  /\ Lines(s \o t) \subseteq Lines(s) \cup Lines(t)
           /\ LinesUp(s) /\ LinesUp(t) /\ Before(Lines(s), Lines(t))
                 => LinesUp(s \o t)
<1> PICK u : u = s \o t
  OBVIOUS
<1> PICK n : n = Len(s)
  OBVIOUS
<1>1. /\ n \in Nat /\ DOMAIN s = 1..n
      /\ Len(t) \in Nat /\ DOMAIN t = 1..Len(t)
  BY LenProperties
<1>2. /\ u \in Seq(Line) /\ Len(u) = n + Len(t)
      /\ \A i \in 1..(n + Len(t)) : u[i] = IF i <= n THEN s[i] ELSE t[i - n]
  BY ConcatProperties
<1>3. DOMAIN u = 1..(n + Len(t))
  BY <1>2, LenProperties
<1>4. ASSUME NEW k \in DOMAIN u
      PROVE  \/ k <= n /\ k \in DOMAIN s /\ u[k] = s[k]
             \/ k > n /\ k - n \in DOMAIN t /\ u[k] = t[k - n]
  BY <1>1, <1>2, <1>3
<1>5. Lines(u) \subseteq Lines(s) \cup Lines(t)
  BY <1>4 DEF Lines
<1>6. ASSUME LinesUp(s), LinesUp(t), Before(Lines(s), Lines(t)) PROVE LinesUp(u)
  <2> SUFFICES ASSUME NEW a \in DOMAIN u, NEW b \in DOMAIN u, a < b,
                      u[a] # ERROR, u[b] # ERROR
               PROVE  LineId(u[a]) < LineId(u[b])
    BY DEF LinesUp
  <2>1. CASE b <= n
    BY <1>1, <1>3, <1>4, <1>6, <2>1 DEF LinesUp
  <2>2. CASE a <= n /\ b > n
    <3>1. a \in DOMAIN s /\ u[a] = s[a]
      BY <1>1, <1>3, <1>4, <2>2
    <3>2. b - n \in DOMAIN t /\ u[b] = t[b - n]
      BY <1>1, <1>3, <1>4, <2>2
    <3>3. LineId(u[a]) \in Lines(s) /\ LineId(u[b]) \in Lines(t)
      BY <3>1, <3>2 DEF Lines
    <3> QED
      BY <1>6, <3>3 DEF Before
  <2>3. CASE a > n
    <3>1. a - n \in DOMAIN t /\ b - n \in DOMAIN t /\ a - n < b - n
          /\ u[a] = t[a - n] /\ u[b] = t[b - n]
      BY <1>1, <1>3, <1>4, <2>3
    <3> QED
      BY <1>6, <3>1 DEF LinesUp
  <2> QED
    BY <1>1, <1>3, <2>1, <2>2, <2>3
<1> QED
  BY <1>5, <1>6

\* Two pieces of a sequence of lines that follow each other.
LEMMA LinesPieces ==
    ASSUME NEW s \in Seq(Line), NEW i \in Nat \ {0}, NEW k \in Nat,
           k <= Len(s), LinesUp(s)
    PROVE  Before(Lines(SubSeq(s, i, k)), Lines(SubSeq(s, k + 1, Len(s))))
<1> SUFFICES ASSUME NEW x \in Lines(SubSeq(s, i, k)),
                    NEW y \in Lines(SubSeq(s, k + 1, Len(s)))
             PROVE  x < y
  BY DEF Before
<1>1. Len(s) \in Nat /\ DOMAIN s = 1..Len(s) /\ k + 1 \in Nat \ {0}
  BY LenProperties
<1>2. PICK a \in i..k : s[a] # ERROR /\ x = LineId(s[a])
  BY LinesPiece
<1>3. PICK b \in (k + 1)..Len(s) : s[b] # ERROR /\ y = LineId(s[b])
  BY <1>1, LinesPiece
<1>4. a \in DOMAIN s /\ b \in DOMAIN s /\ a < b
  BY <1>1
<1> QED
  BY <1>2, <1>3, <1>4 DEF LinesUp

\* Two pieces of a sequence of chunks that follow each other.
LEMMA CmdsPieces ==
    ASSUME NEW s \in Seq(Chunk), NEW k \in Nat, k <= Len(s), CmdsUp(s)
    PROVE  Before(Cmds(SubSeq(s, 1, k)), Cmds(SubSeq(s, k + 1, Len(s))))
<1> SUFFICES ASSUME NEW x \in Cmds(SubSeq(s, 1, k)),
                    NEW y \in Cmds(SubSeq(s, k + 1, Len(s)))
             PROVE  x < y
  BY DEF Before
<1>1. /\ Len(s) \in Nat /\ DOMAIN s = 1..Len(s) /\ k + 1 \in Nat \ {0}
      /\ 1 \in Nat \ {0}
  BY LenProperties
<1>2. PICK a \in 1..k : IsCmd(s[a]) /\ x = s[a].id
  BY <1>1, CmdsPiece
<1>3. PICK b \in (k + 1)..Len(s) : IsCmd(s[b]) /\ y = s[b].id
  BY <1>1, CmdsPiece
<1>4. a \in DOMAIN s /\ b \in DOMAIN s /\ a < b
  BY <1>1
<1> QED
  BY <1>2, <1>3, <1>4 DEF CmdsUp

\* Nothing is in order, and so are the chunks of one request.
LEMMA Nothing ==
    /\ Cmds(<<>>) = {} /\ CmdsUp(<<>>)
    /\ Lines(<<>>) = {} /\ LinesUp(<<>>)
    /\ Cmds(<<QuitChunk>>) = {} /\ CmdsUp(<<QuitChunk>>)
<1>1. ~IsCmd(QuitChunk)
  BY DEF IsCmd, QuitChunk
<1> PICK t : t = <<QuitChunk>>
  OBVIOUS
<1>2. DOMAIN t = {1} /\ t[1] = QuitChunk
  OBVIOUS
<1>3. Cmds(t) = {} /\ CmdsUp(t)
  BY <1>1, <1>2 DEF Cmds, CmdsUp
<1> QED
  BY <1>3 DEF Cmds, CmdsUp, Lines, LinesUp

\* What the chunks of one request hold.
LEMMA OneRequest ==
    ASSUME NEW id \in Ids
    PROVE  /\ Cmds(Chunks(id)) = {id} /\ CmdsUp(Chunks(id))
           /\ Cmds(Tail(Chunks(id))) = {}
<1> PICK s : s = Chunks(id)
  OBVIOUS
<1> PICK t : t = Tail(s)
  OBVIOUS
<1>1. /\ DOMAIN s = {1, 2} /\ IsCmd(s[1]) /\ ~IsCmd(s[2]) /\ s[1].id = id
      /\ DOMAIN t = {1} /\ t[1] = s[2]
  BY DEF Chunks, IsCmd, Ids, Quit
<1>2. Cmds(s) = {id} /\ CmdsUp(s) /\ Cmds(t) = {}
  BY <1>1 DEF Cmds, CmdsUp
<1> QED
  BY <1>2

-----------------------------------------------------------------------------
(* The stages of a request, and what steps do to them.                     *)

\* Everything the invariant compares is a number.
LEMMA StagesTyped ==
    ASSUME IndInv
    PROVE  /\ read_buffer \in Seq(Line) /\ toClient \in Seq(Line)
           /\ toServer \in Seq(Chunk) /\ Pending \in Seq(Chunk)
           /\ op.todo \in Seq(Chunk) /\ executed \in Seq(Ids)
           /\ Cmds(toServer) \subseteq Nat /\ Cmds(Pending) \subseteq Nat
           /\ Cmds(op.todo) \subseteq Nat /\ Parsing \subseteq Nat
           /\ Lines(read_buffer) \subseteq Nat /\ Lines(toClient) \subseteq Nat
           /\ Past \subseteq Nat /\ nextId \in Nat \ {0} /\ cursor_active \in Nat
<1>1. /\ read_buffer \in Seq(Line) /\ toClient \in Seq(Line)
      /\ toServer \in Seq(Chunk) /\ write_buffer \in Seq(Chunk)
      /\ op \in Calls /\ executed \in Seq(Ids) /\ parsing \in Ids \cup {Quit}
      /\ nextId \in 1..(MaxOps + 1) /\ cursor_active \in 0..(CursorMod - 1)
      /\ earlier \subseteq Old
  BY DEF IndInv, TypeOK, InputOK
<1>2. op.todo \in Seq(Chunk)
  BY <1>1 DEF Calls
<1>3. Pending \in Seq(Chunk)
  <2>1. CASE At("send")
    BY <2>1, TopFrame DEF Pending, At, Frames
  <2>2. CASE ~At("send")
    BY <1>1, <2>2 DEF Pending
  <2> QED
    BY <2>1, <2>2
<1>4. ASSUME NEW s \in Seq(Chunk) PROVE Cmds(s) \subseteq Nat
  <2>1. \A i \in DOMAIN s : s[i] \in Chunk
    BY LenProperties, ElementOfSeq
  <2>2. \A c \in Chunk : c.id \in Nat
    BY ConnectionAssumption DEF Chunk, Ids, Quit
  <2> QED
    BY <2>1, <2>2 DEF Cmds
<1>5. ASSUME NEW s \in Seq(Line) PROVE Lines(s) \subseteq Nat
  <2>1. \A i \in DOMAIN s : s[i] \in Line
    BY LenProperties, ElementOfSeq
  <2>2. \A l \in Line : LineId(l) \in Nat
    BY ConnectionAssumption DEF Line, LineId, Ids, ERROR, Refused
  <2> QED
    BY <2>1, <2>2 DEF Lines
<1>6. Past \subseteq Nat
  <2>1. ASSUME NEW s \in Seq(Ids) PROVE Elements(s) \subseteq Nat
    <3>1. \A i \in DOMAIN s : s[i] \in Ids
      BY LenProperties, ElementOfSeq
    <3> QED
      BY <3>1 DEF Elements, Ids
  <2>2. Done \subseteq Nat
    BY <1>1, <2>1 DEF Done, Elements
  <2>3. ASSUME NEW c \in earlier PROVE Whole(c) \subseteq Nat
    <3>1. /\ c.toServer \in Seq(Chunk) /\ c.parsing \in Ids \cup {Quit}
          /\ c.executed \in Seq(Ids)
      BY <1>1 DEF Old
    <3>2. Cmds(c.toServer) \subseteq Nat /\ Elements(c.executed) \subseteq Nat
      BY <1>4, <2>1, <3>1
    <3>3. Awaiting(c) \subseteq Nat
      BY <3>1 DEF Awaiting, Ids
    <3> QED
      BY <3>2, <3>3 DEF Whole, Held
  <2> QED
    BY <2>2, <2>3 DEF Past, Elder
<1>7. Parsing \subseteq Nat
  BY <1>1 DEF Parsing, Ids
<1>8. nextId \in Nat \ {0} /\ cursor_active \in Nat
  BY <1>1, ConnectionAssumption
<1>9. /\ Cmds(toServer) \subseteq Nat /\ Cmds(Pending) \subseteq Nat
      /\ Cmds(op.todo) \subseteq Nat
  BY <1>1, <1>2, <1>3, <1>4
<1>10. Lines(read_buffer) \subseteq Nat /\ Lines(toClient) \subseteq Nat
  BY <1>1, <1>5
<1> QED
  BY <1>1, <1>2, <1>3, <1>6, <1>7, <1>8, <1>9, <1>10

\* Requests that are lost leave the others in order.
LEMMA StagesShrink ==
    ASSUME NEW A, NEW B, NEW C, NEW D, NEW E, NEW F, NEW G, NEW n \in Nat,
           NEW A1 \in SUBSET A, NEW B1 \in SUBSET B, NEW C1 \in SUBSET C,
           NEW D1 \in SUBSET D, NEW E1 \in SUBSET E, NEW F1 \in SUBSET F,
           NEW G1, \/ G1 \subseteq G
                   \/ G1 \subseteq G \cup C \cup D /\ C1 = {} /\ D1 = {},
           Stages(A, B, C, D, E, F, G, n)
    PROVE  Stages(A1, B1, C1, D1, E1, F1, G1, n)
BY DEF Stages, Chain, Before

\* Nothing is executed and no connection given up.
LEMMA PastKeeps == UNCHANGED <<executed, earlier>> => Past' = Past
BY DEF Past, Done, Elder

\* What is kept of a connection that was given up is some of what it had.
LEMMA KeptWhole ==
    ASSUME NEW c \in Old, NEW m \in Kept(c)
    PROVE  /\ Whole(m) \subseteq Whole(c) /\ Held(m) \subseteq Held(c)
           /\ m.before = c.before /\ m.executed = c.executed
           /\ m.toServer \in {c.toServer, <<>>} /\ m.parsing \in {c.parsing, Quit}
           /\ \/ m.toServer = c.toServer /\ m.parsing = c.parsing
              \/ Held(m) = {}
<1>1. m = c \/ m = Idled(c)
  BY DEF Kept
<1>2. CASE m = Idled(c)
  <2>1. /\ m.toServer = <<>> /\ m.parsing = Quit
        /\ m.before = c.before /\ m.executed = c.executed
    BY <1>2 DEF Idled, Old
  <2>2. Held(m) = {}
    BY <2>1, Nothing, Zenon DEF Held, Awaiting
  <2> QED
    BY <2>1, <2>2 DEF Whole
<1> QED
  BY <1>1, <1>2

\* What the server has not looked at goes with the connection.
LEMMA LeftBehind ==
    ASSUME IndInv, Leave, executed' = executed
    PROVE  /\ toServer' = <<>> /\ parsing' = Quit
           /\ Past' \subseteq Past \cup Parsing \cup Cmds(toServer)
<1> PICK c : c = [toServer |-> IF peer THEN toServer ELSE <<>>,
                  parsing |-> parsing, before |-> Len(executed),
                  executed |-> <<>>]
  OBVIOUS
<1>1. toServer' = <<>> /\ parsing' = Quit /\ earlier' = earlier \cup Kept(c)
  BY DEF Leave
<1>2. c \in Old
  BY LenProperties DEF IndInv, TypeOK, Old
<1>3. Whole(c) \subseteq Parsing \cup Cmds(toServer)
  <2>1. Elements(c.executed) = {}
    BY DEF Elements
  <2>2. Cmds(c.toServer) \subseteq Cmds(toServer)
    BY Nothing
  <2> QED
    BY <2>1, <2>2 DEF Whole, Held, Awaiting, Parsing
<1>4. \A m \in Kept(c) : Whole(m) \subseteq Parsing \cup Cmds(toServer)
  BY <1>2, <1>3, KeptWhole
<1> QED
  BY <1>1, <1>4 DEF Past, Done, Elder

-----------------------------------------------------------------------------
(* The stack.                                                              *)

\* A frame returns.
LEMMA AfterPop ==
    ASSUME IndInv, PurgeControl, stack # <<>>, NEW r \in {"ok", "fail"}, Pop(r),
           r = "fail" \/ cursor_active' = cursor_active
    PROVE  PurgeControl' /\ ~At("send")' /\ (stack' # <<>> => stack # <<>>)
<1>1. stack \in Seq(Frames) /\ Len(stack) \in 1..3
  BY TopFrame DEF IndInv, TypeOK
<1>2. /\ stack' \in Seq(Frames) /\ Len(stack') = Len(stack) - 1
      /\ \A i \in 1..Len(stack') : stack'[i] = stack[i]
      /\ ret' = r
  BY <1>1, PopTop DEF Pop
<1>3. PurgeControl'
  <2>1. CASE Len(stack) = 3
    BY <1>2, <2>1 DEF PurgeControl, IndInv, Shape
  <2>2. CASE Len(stack) # 3
    <3>1. ~(Len(stack') >= 2)
      BY <1>1, <1>2, <2>2
    <3> QED
      BY <3>1 DEF PurgeControl
  <2> QED
    BY <2>1, <2>2
<1>4. ~At("send")'
  <2> SUFFICES ASSUME stack' # <<>> PROVE Last(stack').at # "send"
    BY DEF At, Top
  <2>1. Last(stack') = stack'[Len(stack')] /\ Len(stack') \in Nat \ {0}
    BY <1>2, TopAndFront
  <2>2. Last(stack') = stack[Len(stack')]
    BY <1>2, <2>1
  <2>3. CASE Len(stack') = 1
    BY <1>1, <1>2, <2>2, <2>3 DEF IndInv, Shape
  <2>4. CASE Len(stack') = 2
    BY <1>1, <1>2, <2>2, <2>4 DEF IndInv, Shape
  <2> QED
    BY <1>1, <1>2, <2>1, <2>3, <2>4
<1> QED
  BY <1>3, <1>4

\* The top frame goes on as f.
LEMMA AfterBecome ==
    ASSUME IndInv, PurgeControl, stack # <<>>, NEW f \in Frames, Become(f),
           \/ /\ Top.at \notin {"purge", "drain"} /\ f.at = "send"
              /\ cursor_active' = cursor_active
           \/ /\ Top.at \in {"purge", "drain"} /\ f.at = "drain"
              /\ ~fd' \/ cursor_active' > f.n
    PROVE  PurgeControl' /\ Top' = f /\ stack' # <<>>
<1>1. stack \in Seq(Frames) /\ Len(stack) \in 1..3
      /\ (Top.at \in {"purge", "drain"} <=> Len(stack) = 2)
  BY TopFrame DEF IndInv, TypeOK
<1>2. /\ stack' \in Seq(Frames) /\ Len(stack') = Len(stack)
      /\ \A i \in 1..(Len(stack) - 1) : stack'[i] = stack[i]
      /\ stack'[Len(stack)] = f
  BY <1>1, BecomeTop DEF Become
<1>3. stack' # <<>>
  BY <1>1, <1>2
<1>4. Top' = f
  BY <1>2, <1>3, TopAndFront DEF Top
<1>5. PurgeControl'
  <2>1. CASE Len(stack) = 3
    BY <1>1, <1>2, <2>1 DEF PurgeControl, IndInv, Shape
  <2>2. CASE Len(stack) = 2
    BY <1>1, <1>2, <2>2 DEF PurgeControl
  <2>3. CASE Len(stack) = 1
    BY <1>2, <2>3 DEF PurgeControl
  <2> QED
    BY <1>1, <2>1, <2>2, <2>3
<1> QED
  BY <1>3, <1>4, <1>5

\* memcached_purge begins.
LEMMA AfterPush ==
    ASSUME IndInv, stack # <<>>, NeedPurge, NEW f \in Frames, StartPurge(f),
           cursor_active' = cursor_active
    PROVE  PurgeControl' /\ ~At("send")' /\ stack' # <<>>
<1>1. stack \in Seq(Frames) /\ Len(stack) = 1
  <2>1. ~purging
    BY DEF NeedPurge
  <2>2. Len(stack) \in 1..3 /\ (Len(stack) > 1 => purging)
    BY TopFrame
  <2>3. Len(stack) = 1
    BY <2>1, <2>2
  <2> QED
    BY <2>3 DEF IndInv, TypeOK
<1> PICK g \in Frames : g = Frame("purge")
  BY FrameTyped
<1> PICK h \in Frames : h = Frame("flush")
  BY FrameTyped
<1>2. g.at = "purge" /\ h.at = "flush"
  BY FrameTyped
<1>3. stack' = Front(stack) \o <<f, g, h>>
  BY DEF StartPurge
<1>4. stack' \in Seq(Frames) /\ Len(stack') = 3 /\ stack'[2] = g /\ stack'[3] = h
  BY <1>1, <1>3, PushTwo, SMTT(40)
<1>5. cursor_active > 0
  <2>1. MsgWatermark \in Nat \ {0} /\ BytesWatermark \in Nat
        /\ cursor_active \in Nat /\ io_bytes_sent \in Nat
    BY ConnectionAssumption DEF IndInv, TypeOK
  <2>2. /\ ~(cursor_active < MsgWatermark /\ io_bytes_sent < BytesWatermark)
        /\ ~(io_bytes_sent >= BytesWatermark /\ cursor_active < 2)
    BY DEF NeedPurge
  <2> QED
    BY <2>1, <2>2
<1>6. PurgeControl'
  BY <1>2, <1>4, <1>5 DEF PurgeControl
<1>7. stack' # <<>>
  BY <1>4
<1>8. Last(stack') = h
  BY <1>4, <1>7, TopAndFront
<1> QED
  BY <1>2, <1>6, <1>7, <1>8 DEF At, Top

\* Outside io_flush there is no purge.
LEMMA NoPurge ==
    ASSUME stack' = <<>> \/ stack' = <<Frame("flush")>>
    PROVE  PurgeControl' /\ ~At("send")'
<1>1. CASE stack' = <<>>
  BY <1>1 DEF PurgeControl, At
<1>2. CASE stack' = <<Frame("flush")>>
  <2> PICK h : h = Frame("flush")
    OBVIOUS
  <2>1. h.at = "flush"
    BY FrameTyped
  <2>2. stack' = <<h>> /\ Len(stack') = 1 /\ Last(stack') = h
    BY <1>2 DEF Last
  <2> QED
    BY <2>1, <2>2 DEF PurgeControl, At, Top
<1> QED
  BY <1>1, <1>2

-----------------------------------------------------------------------------
(* What the steps do to the requests under way.                            *)

\* Nothing moves.
LEMMA Quiet ==
    ASSUME IndInv, InOrder, InStep, CallControl, Own,
           UNCHANGED <<fd, cursor_active, read_buffer, pc, last, nextId, net,
                       parsing, executed, earlier>>,
           op' = op \/ op' = [op EXCEPT !.flush = FALSE],
           stack' # <<>> => stack # <<>> \/ (op.todo = <<>> /\ pc = "write"),
           Pending' = Pending
    PROVE  InOrder' /\ InStep' /\ CallControl' /\ Own'
<1>1. /\ op'.todo = op.todo /\ op'.id = op.id /\ op'.kind = op.kind
  BY DEF IndInv, TypeOK, Calls
<1>2. /\ Cmds(op.todo)' = Cmds(op.todo) /\ CmdsUp(op.todo)' = CmdsUp(op.todo)
      /\ Cmds(Pending)' = Cmds(Pending) /\ CmdsUp(Pending)' = CmdsUp(Pending)
      /\ Cmds(toServer)' = Cmds(toServer)
      /\ CmdsUp(toServer)' = CmdsUp(toServer)
      /\ Parsing' = Parsing /\ Past' = Past
      /\ Lines(read_buffer)' = Lines(read_buffer)
      /\ Lines(toClient)' = Lines(toClient)
      /\ LinesUp(read_buffer)' = LinesUp(read_buffer)
      /\ LinesUp(toClient)' = LinesUp(toClient)
      /\ Up(executed)' = Up(executed)
  BY <1>1, PastKeeps DEF Cmds, CmdsUp, Lines, LinesUp, Up, Parsing, net
<1>3. UnderWay' = UnderWay /\ Unanswered' = Unanswered
  BY <1>2, Zenon DEF UnderWay, Unanswered
<1>4. Counted' = Counted /\ Counting' = Counting
  BY <1>1 DEF Counted, Counting
<1>5. InOrder'
  BY <1>2, Zenon DEF InOrder
<1>6. InStep'
  BY <1>3, <1>4 DEF InStep, net
<1>7. CallControl'
  BY <1>1, <1>2, <1>4, Nothing DEF CallControl
<1>8. Own'
  BY DEF Own
<1> QED
  BY <1>5, <1>6, <1>7, <1>8

\* Some and perhaps one more are some.
LEMMA SumPositive == \A n \in Nat, m \in {0, 1} : n > 0 => 0 < n + m
OBVIOUS

\* The connection is closed.
LEMMA Closed ==
    ASSUME IndInv, IndInv', InOrder, CallControl', fd' = FALSE,
           cursor_active' = 0, write_buffer' = <<>>, read_buffer' = <<>>, Hangup,
           executed' = executed, nextId' = nextId, ~At("send")',
           Cmds(op.todo)' = {}, CmdsUp(op.todo)'
    PROVE  InOrder' /\ InStep'
<1>1. /\ Pending' = <<>> /\ toServer' = <<>> /\ toClient' = <<>>
      /\ parsing' = Quit
      /\ Past' \subseteq Past \cup Parsing \cup Cmds(toServer)
  BY LeftBehind DEF Pending, Hangup
<1>2. /\ Cmds(Pending)' = {} /\ CmdsUp(Pending)' /\ Cmds(toServer)' = {}
      /\ CmdsUp(toServer)' /\ Lines(read_buffer)' = {} /\ Lines(toClient)' = {}
      /\ LinesUp(read_buffer)' /\ LinesUp(toClient)'
  BY <1>1, Nothing, Zenon DEF Cmds, CmdsUp, Lines, LinesUp
<1>3. Parsing' = {} /\ (Up(executed)' <=> Up(executed))
  BY <1>1 DEF Parsing, Up
<1>4. UnderWay' = {} /\ Unanswered' = {}
  BY <1>2, <1>3, Zenon DEF UnderWay, Unanswered
<1>5. nextId \in Nat
  BY StagesTyped
<1>6. Stages({}, {}, {}, {}, {}, {}, Past', nextId)
  <2> PICK G : G = Past'
    OBVIOUS
  <2>1. Stages({}, {}, {}, {}, {}, {}, G, nextId)
    BY <1>1, <1>5, StagesShrink DEF InOrder
  <2> QED
    BY <2>1
<1>7. InOrder'
  BY <1>2, <1>3, <1>6, Zenon DEF InOrder
<1>8. Counted' > 0 /\ Counted' \in Nat
  <2>1. nextId' \in Nat \ {0}
    BY StagesTyped
  <2>2. Counting' => op'.id \in Nat \ {0}
    BY DEF CallControl, Ids
  <2> QED
    BY <2>1, <2>2 DEF Counted
<1>9. cursor_active' < Counted' + (IF pc' = "quit" THEN 1 ELSE 0)
  <2> PICK n \in Nat : n = Counted' /\ n > 0
    BY <1>8
  <2> PICK m \in {0, 1} : m = IF pc' = "quit" THEN 1 ELSE 0
    OBVIOUS
  <2>1. 0 < n + m
    BY SumPositive, Zenon
  <2> QED
    BY <2>1, Zenon
<1>10. InStep'
  BY <1>1, <1>4, <1>9, Zenon DEF InStep
<1> QED
  BY <1>7, <1>10

\* The response read is the oldest there is.
LEMMA ReadOldest ==
    ASSUME IndInv, InOrder, NEW o \in Responses, o.strikes = 0
    PROVE  /\ fd /\ o.got # ERROR
           /\ LineId(o.got) \in Lines(read_buffer) \cup Lines(toClient)
           /\ Lines(o.rb) \subseteq Lines(read_buffer) \cup Lines(toClient)
           /\ Lines(o.tc) \subseteq Lines(toClient)
           /\ LinesUp(o.rb) /\ LinesUp(o.tc)
           /\ Before(Lines(o.rb), Lines(o.tc))
           /\ Before({LineId(o.got)}, Lines(o.rb) \cup Lines(o.tc))
           /\ read_buffer = <<>> \/ Lines(o.rb) \subseteq Lines(read_buffer)
<1>1. /\ read_buffer \in Seq(Line) /\ toClient \in Seq(Line)
      /\ LinesUp(read_buffer) /\ LinesUp(toClient)
      /\ Before(Lines(read_buffer), Lines(toClient))
  BY StagesTyped DEF InOrder, Stages, Chain, Before
<1>2. ASSUME NEW l, NEW rb, NEW tc, NEW fresh, o = Parsed(l, rb, tc, fresh)
      PROVE  l # ERROR /\ o.got = l /\ o.rb = rb /\ o.tc = tc
  BY <1>2 DEF Parsed, Outcome
<1>3. ASSUME NEW rc, NEW k \in 1..2 PROVE o # Broken(rc, k)
  BY DEF Broken, Outcome
<1>4. CASE fd /\ read_buffer # <<>>
  <2>1. o = Parsed(Head(read_buffer), Tail(read_buffer), toClient, FALSE)
    BY <1>4 DEF Responses
  <2> PICK h : h = Head(read_buffer)
    OBVIOUS
  <2>2. h # ERROR /\ o.got = h /\ o.rb = Tail(read_buffer) /\ o.tc = toClient
    BY <1>2, <2>1
  <2>3. /\ Lines(Tail(read_buffer)) \subseteq Lines(read_buffer)
        /\ LineId(h) \in Lines(read_buffer)
        /\ LinesUp(Tail(read_buffer))
        /\ Before({LineId(h)}, Lines(Tail(read_buffer)))
    BY <1>1, <1>4, <2>2, LinesTail
  <2> QED
    BY <1>1, <1>4, <2>2, <2>3 DEF Before
<1>5. CASE fd /\ read_buffer = <<>> /\ toClient # <<>>
  <2> DEFINE k == IF Len(toClient) < RBufMax THEN Len(toClient) ELSE RBufMax
  <2>1. o = Parsed(Head(toClient), SubSeq(toClient, 2, k),
                   SubSeq(toClient, k + 1, Len(toClient)), TRUE)
    BY <1>5 DEF Responses
  <2>2. k \in Nat \ {0} /\ k <= Len(toClient) /\ Len(toClient) \in Nat
    BY <1>1, <1>5, EmptySeq, ConnectionAssumption
  <2> HIDE DEF k
  <2> PICK h : h = Head(toClient)
    OBVIOUS
  <2>3. /\ h # ERROR /\ o.got = h /\ o.rb = SubSeq(toClient, 2, k)
        /\ o.tc = SubSeq(toClient, k + 1, Len(toClient))
    BY <1>2, <2>1
  <2>4. /\ Lines(Tail(toClient)) \subseteq Lines(toClient)
        /\ LineId(h) \in Lines(toClient) /\ h = toClient[1]
    <3>1. h = toClient[1]
      BY <1>1, <1>5, HeadTailProperties
    <3>2. LineId(h) \in Lines(toClient)
      BY <1>1, <1>5, <2>3, LinesTail
    <3>3. Lines(Tail(toClient)) \subseteq Lines(toClient)
      BY <1>1, <1>5, LinesTail
    <3> QED
      BY <3>1, <3>2, <3>3
  <2>5. /\ Lines(o.rb) \subseteq Lines(toClient) /\ LinesUp(o.rb)
        /\ Lines(o.tc) \subseteq Lines(toClient) /\ LinesUp(o.tc)
    BY <1>1, <2>2, <2>3, LinesPiece
  <2>6. Before(Lines(o.rb), Lines(o.tc))
    BY <1>1, <2>2, <2>3, LinesPieces
  <2>7. ASSUME NEW i \in Nat \ {0}, i > 1, NEW j \in Nat, j <= Len(toClient),
               NEW y \in Lines(SubSeq(toClient, i, j))
        PROVE  LineId(h) < y
    <3>1. PICK m \in i..j : toClient[m] # ERROR /\ y = LineId(toClient[m])
      BY <1>1, <2>7, LinesPiece
    <3>2. m \in DOMAIN toClient /\ 1 \in DOMAIN toClient /\ 1 < m
      BY <1>1, <2>2, <2>7, LenProperties
    <3> QED
      BY <1>1, <2>3, <2>4, <3>1, <3>2 DEF LinesUp
  <2>8. Before({LineId(h)}, Lines(o.rb) \cup Lines(o.tc))
    BY <2>2, <2>3, <2>7, SMTT(40) DEF Before
  <2> QED
    BY <1>5, <2>3, <2>4, <2>5, <2>6, <2>8
<1>6. CASE ~fd
  <2>1. o = Broken("ERRNO", 1)
    BY <1>6 DEF Responses
  <2> QED
    BY <1>3, <2>1
<1>7. CASE fd /\ read_buffer = <<>> /\ toClient = <<>>
  <2>1. o = Broken("UNKNOWN_READ_FAILURE", 2) \/ o = Broken("TIMEOUT", 1)
    BY <1>7 DEF Responses
  <2> QED
    BY <1>3, <2>1
<1> QED
  BY <1>4, <1>5, <1>6, <1>7 DEF IndInv, TypeOK

\* cursor_active counts without wrapping where it has room.
LEMMA CursorSteps ==
    /\ \A c \in 1..(CursorMod - 1) : Decrement(c) = c - 1 /\ c \in Nat
    /\ \A c \in 0..(CursorMod - 2) : Increment(c) = c + 1
BY ConnectionAssumption DEF Decrement, Increment

\* A response is read, and the others move up.
LEMMA Read ==
    ASSUME IndInv, InOrder, InStep, NEW o \in Responses, NEW k \in 0..1,
           AfterResponse(o, k), o.strikes = 0, cursor_active > 0,
           executed' = executed, nextId' = nextId, Counted' = Counted,
           Counted \in Nat, Pending' = Pending, op'.todo \in {op.todo, <<>>}
    PROVE  InOrder' /\ InStep'
<1>1. /\ read_buffer' = o.rb /\ toClient' = o.tc /\ fd' = fd
      /\ toServer' = toServer /\ parsing' = parsing /\ Past' = Past
      /\ cursor_active' = Decrement(cursor_active)
  BY PastKeeps DEF AfterResponse
<1>2. cursor_active' = cursor_active - 1 /\ cursor_active \in Nat
  <2>1. cursor_active \in 1..(CursorMod - 1)
    BY ConnectionAssumption, SMTT(40) DEF IndInv, TypeOK
  <2> QED
    BY <1>1, <2>1, CursorSteps
<1> PICK A : A = Lines(read_buffer)
  OBVIOUS
<1> PICK B : B = Lines(toClient)
  OBVIOUS
<1> PICK A1 : A1 = Lines(o.rb)
  OBVIOUS
<1> PICK B1 : B1 = Lines(o.tc)
  OBVIOUS
<1> PICK x : x = LineId(o.got)
  OBVIOUS
<1>3. /\ fd /\ x \in A \cup B /\ A1 \subseteq A \cup B /\ B1 \subseteq B
      /\ LinesUp(o.rb) /\ LinesUp(o.tc) /\ Before(A1, B1)
      /\ Before({x}, A1 \cup B1) /\ (A = {} \/ A1 \subseteq A)
  BY ReadOldest, Nothing
<1> PICK C : C = Parsing
  OBVIOUS
<1> PICK D : D = Cmds(toServer)
  OBVIOUS
<1> PICK E : E = Cmds(Pending)
  OBVIOUS
<1> PICK F : F = Cmds(op.todo)
  OBVIOUS
<1> PICK F1 : F1 = Cmds(op.todo)'
  OBVIOUS
<1>4. /\ A \subseteq Nat /\ B \subseteq Nat /\ C \subseteq Nat /\ D \subseteq Nat
      /\ E \subseteq Nat /\ F \subseteq Nat /\ nextId \in Nat
  BY StagesTyped
<1>5. F1 \subseteq F /\ CmdsUp(op.todo)'
  BY Nothing DEF InOrder, Cmds, CmdsUp
<1>6. /\ Lines(read_buffer)' = A1 /\ Lines(toClient)' = B1 /\ Parsing' = C
      /\ Cmds(toServer)' = D /\ Cmds(Pending)' = E
      /\ LinesUp(read_buffer)' /\ LinesUp(toClient)'
      /\ CmdsUp(toServer)' = CmdsUp(toServer) /\ CmdsUp(Pending)' = CmdsUp(Pending)
      /\ Up(executed)' = Up(executed)
  BY <1>1, <1>3, Zenon DEF Lines, LinesUp, Parsing, Cmds, CmdsUp, Up
<1>7. Stages(A, B, C, D, E, F, Past, nextId)
  BY DEF InOrder
<1>8. Stages(A1, B1, C, D, E, F1, Past, nextId)
  <2>1. Before(A1, C \cup D \cup E \cup F)
    BY <1>3, <1>7 DEF Stages, Chain, Before
  <2> QED
    BY <1>3, <1>5, <1>7, <2>1 DEF Stages, Chain, Before
<1>9. InOrder'
  BY <1>1, <1>5, <1>6, <1>8, Zenon DEF InOrder
<1>10. /\ UnderWay = A \cup B \cup (C \cup D \cup E \cup F)
       /\ UnderWay' = A1 \cup B1 \cup (C \cup D \cup E \cup F1)
  BY <1>6, Zenon DEF UnderWay, Unanswered
<1>11. ASSUME NEW y \in UnderWay' PROVE Counted - y <= cursor_active - 1
  <2>1. x \in Nat /\ y \in Nat
    BY <1>3, <1>4, <1>5, <1>10
  <2>2. x < y
    BY <1>3, <1>5, <1>7, <1>10 DEF Stages, Chain, Before
  <2>3. Counted - x <= cursor_active
    BY <1>3, <1>10 DEF InStep
  <2> QED
    BY <1>2, <2>1, <2>2, <2>3
<1>12. cursor_active' < Counted' + (IF pc' = "quit" THEN 1 ELSE 0)
  <2>1. cursor_active < Counted + 1
    BY <1>2 DEF InStep
  <2> QED
    BY <1>2, <2>1
<1>13. \A y \in UnderWay' : Counted' - y <= cursor_active'
  BY <1>2, <1>11
<1>14. fd'
  BY <1>1, <1>3
<1> QED
  BY <1>9, <1>12, <1>13, <1>14, Zenon DEF InStep

-----------------------------------------------------------------------------
(* The steps, one by one: io_flush and memcached_purge.                    *)

\* The write loop of io_flush begins with the whole buffer.
LEMMA BeginSendOrder ==
    ASSUME IndInv, PurgeControl, stack # <<>>, Top.at \in {"flush", "purged"},
           BeginSend, cursor_active' = cursor_active,
           write_buffer' = write_buffer
    PROVE  PurgeControl' /\ FlushWhole' /\ Pending' = Pending
<1>1. ~At("send") /\ Pending = write_buffer
  BY DEF At, Pending
<1>2. CASE write_buffer = <<>>
  <2>1. PurgeControl' /\ ~At("send")'
    BY <1>2, AfterPop DEF BeginSend
  <2> QED
    BY <1>1, <2>1 DEF FlushWhole, Pending
<1>3. CASE write_buffer # <<>>
  <2>1. write_buffer \in Seq(Chunk) /\ Len(write_buffer) \in Nat
    BY LenProperties DEF IndInv, TypeOK
  <2> PICK f : f = [Frame("send") EXCEPT !.rest = write_buffer]
    OBVIOUS
  <2>2. Frame("send") \in Frames /\ Frame("send").sent = 0
    BY FrameTyped DEF Frame
  <2>3. f \in Frames /\ f.at = "send" /\ f.rest = write_buffer /\ f.sent = 0
    BY <2>1, <2>2, FrameTyped DEF Frames
  <2>4. Become(f)
    BY <1>3 DEF BeginSend
  <2>5. PurgeControl' /\ Top' = f /\ stack' # <<>>
    BY <2>3, <2>4, AfterBecome
  <2>6. At("send")'
    BY <2>3, <2>5 DEF At
  <2> QED
    BY <1>1, <2>1, <2>3, <2>5, <2>6 DEF FlushWhole, Pending
<1> QED
  BY <1>2, <1>3

\* io_flush is entered.
LEMMA FlushEnterOrder ==
    ASSUME IndInv, OrderInv, FlushEnter PROVE OrderInv'
<1>1. stack # <<>> /\ Top.at = "flush" /\ cursor_active' = cursor_active
      /\ write_buffer' = write_buffer /\ ~At("send") /\ Pending = write_buffer
  BY DEF FlushEnter, At, Pending
<1>2. PurgeControl' /\ FlushWhole' /\ Pending' = Pending
  <2>1. CASE NeedPurge
    <3> PICK f \in Frames : f = Frame("purged")
      BY FrameTyped
    <3>1. StartPurge(f)
      BY <2>1 DEF FlushEnter
    <3>2. PurgeControl' /\ ~At("send")'
      BY <1>1, <2>1, <3>1, AfterPush
    <3> QED
      BY <1>1, <3>2 DEF FlushWhole, Pending
  <2>2. CASE ~NeedPurge
    BY <1>1, <2>2, BeginSendOrder DEF FlushEnter, OrderInv
  <2> QED
    BY <2>1, <2>2
<1>3. InOrder' /\ InStep' /\ CallControl' /\ Own'
  BY <1>1, <1>2, Quiet DEF FlushEnter, OrderInv, net, server
<1> QED
  BY <1>2, <1>3 DEF OrderInv

\* The purge at the head of io_flush is over.
LEMMA FlushPurgedOrder ==
    ASSUME IndInv, OrderInv, FlushPurged PROVE OrderInv'
<1>1. stack # <<>> /\ Top.at = "purged" /\ cursor_active' = cursor_active
      /\ write_buffer' = write_buffer /\ ~At("send") /\ Pending = write_buffer
  BY DEF FlushPurged, At, Pending, client
<1>2. PurgeControl' /\ FlushWhole' /\ Pending' = Pending
  <2>1. CASE ret = "ok"
    BY <1>1, <2>1, BeginSendOrder DEF FlushPurged, OrderInv
  <2>2. CASE ret # "ok"
    <3>1. Pop("fail")
      BY <2>2 DEF FlushPurged
    <3>2. PurgeControl' /\ ~At("send")'
      BY <1>1, <3>1, AfterPop DEF OrderInv
    <3> QED
      BY <1>1, <3>2 DEF FlushWhole, Pending
  <2> QED
    BY <2>1, <2>2
<1>3. InOrder' /\ InStep' /\ CallControl' /\ Own'
  BY <1>1, <1>2, Quiet DEF FlushPurged, OrderInv, net, server, client
<1> QED
  BY <1>2, <1>3 DEF OrderInv

\* memcached_purge knows how many responses to read.
LEMMA PurgeFlushedOrder ==
    ASSUME IndInv, OrderInv, PurgeFlushed PROVE OrderInv'
<1>1. stack # <<>> /\ Top.at = "purge" /\ cursor_active' = cursor_active
      /\ write_buffer' = write_buffer /\ ~At("send") /\ Pending = write_buffer
      /\ fd' = fd /\ Len(stack) = 2 /\ stack[2] = Top
  BY TopFrame DEF PurgeFlushed, At, Pending
<1>2. PurgeControl' /\ ~At("send")'
  <2>1. CASE Pop("fail") \/ Pop("ok")
    BY <1>1, <2>1, AfterPop DEF OrderInv
  <2>2. CASE ret = "ok"
             /\ Become([Frame("drain") EXCEPT !.n = Decrement(cursor_active)])
    <3>1. cursor_active > 0
      BY <1>1, <2>2 DEF OrderInv, PurgeControl
    <3>2. cursor_active \in 1..(CursorMod - 1) /\ CursorMod \in Nat
      BY <3>1, ConnectionAssumption DEF IndInv, TypeOK
    <3>3. Decrement(cursor_active) = cursor_active - 1
      BY <3>2, CursorSteps
    <3> PICK f : f = [Frame("drain") EXCEPT !.n = cursor_active - 1]
      OBVIOUS
    <3>4. f \in Frames /\ f.at = "drain" /\ f.n = cursor_active - 1
      <4>1. Frame("drain") \in Frames /\ Frame("drain").at = "drain"
        BY FrameTyped
      <4>2. cursor_active - 1 \in 0..(CursorMod - 1)
        BY <3>2
      <4> QED
        BY <4>1, <4>2 DEF Frames
    <3>5. Become(f) /\ cursor_active' > f.n
      BY <1>1, <2>2, <3>2, <3>3, <3>4
    <3>6. PurgeControl' /\ Top' = f
      BY <1>1, <3>4, <3>5, AfterBecome DEF OrderInv
    <3> QED
      BY <3>4, <3>6 DEF At
  <2> QED
    BY <2>1, <2>2 DEF PurgeFlushed
<1>3. FlushWhole' /\ Pending' = Pending
  BY <1>1, <1>2 DEF FlushWhole, Pending
<1>4. InOrder' /\ InStep' /\ CallControl' /\ Own'
  BY <1>1, <1>3, Quiet DEF PurgeFlushed, OrderInv, net, server
<1> QED
  BY <1>2, <1>3, <1>4 DEF OrderInv

\* memcached_purge is over.
LEMMA PurgeDoneOrder ==
    ASSUME IndInv, OrderInv, PurgeDone PROVE OrderInv'
<1>1. stack # <<>> /\ Top.at = "drain" /\ cursor_active' = cursor_active
      /\ write_buffer' = write_buffer /\ ~At("send") /\ Pending = write_buffer
      /\ Top \in Frames
  BY TopFrame DEF PurgeDone, At, Pending
<1>2. PurgeControl' /\ ~At("send")'
  <2> PICK r \in {"ok", "fail"} : r = Top.rc
    BY <1>1 DEF Frames
  <2>1. Pop(r)
    BY DEF PurgeDone
  <2> QED
    BY <1>1, <2>1, AfterPop DEF OrderInv
<1>3. FlushWhole' /\ Pending' = Pending
  BY <1>1, <1>2 DEF FlushWhole, Pending
<1>4. InOrder' /\ InStep' /\ CallControl' /\ Own'
  BY <1>1, <1>3, Quiet DEF PurgeDone, OrderInv, net, server
<1> QED
  BY <1>2, <1>3, <1>4 DEF OrderInv

\* A call that is written flushes the buffer.
LEMMA WriteFlushOrder ==
    ASSUME IndInv, OrderInv, WriteFlush PROVE OrderInv'
<1>1. stack = <<>> /\ stack' = <<Frame("flush")>> /\ op.todo = <<>>
      /\ write_buffer' = write_buffer /\ ~At("send") /\ Pending = write_buffer
      /\ op' = [op EXCEPT !.flush = FALSE] /\ pc = "write"
  BY DEF WriteFlush, Writing, At, Pending, client
<1>2. PurgeControl' /\ ~At("send")'
  BY <1>1, NoPurge
<1>3. FlushWhole' /\ Pending' = Pending
  BY <1>1, <1>2 DEF FlushWhole, Pending
<1>4. InOrder' /\ InStep' /\ CallControl' /\ Own'
  BY <1>1, <1>3, Quiet DEF WriteFlush, OrderInv, net, server, client
<1> QED
  BY <1>2, <1>3, <1>4 DEF OrderInv

-----------------------------------------------------------------------------
(* The steps that close the connection.                                    *)

\* A call that is interrupted goes on or is over.
LEMMA ClosedOrder ==
    ASSUME IndInv, IndInv', OrderInv, fd' = FALSE, cursor_active' = 0,
           write_buffer' = <<>>, read_buffer' = <<>>, Hangup,
           executed' = executed, nextId' = nextId,
           \/ /\ op' = op /\ pc' = pc /\ Cmds(op.todo) = {}
              /\ stack' # <<>> => stack # <<>>
           \/ op' = NoOp /\ pc' = "idle" /\ stack' = <<>>,
           PurgeControl', ~At("send")', Own'
    PROVE  OrderInv'
<1>1. /\ Cmds(op.todo)' = {} /\ CmdsUp(op.todo)'
      /\ op'.todo # <<>> => Cmds(Tail(op'.todo)) = {}
  <2>1. CASE op' = op /\ pc' = pc /\ Cmds(op.todo) = {}
    BY <2>1 DEF OrderInv, InOrder, CallControl, Cmds, CmdsUp
  <2>2. CASE op' = NoOp
    <3>1. op'.todo = <<>>
      BY <2>2 DEF NoOp
    <3> QED
      BY <3>1, Nothing, Zenon DEF Cmds, CmdsUp
  <2> QED
    BY <2>1, <2>2
<1>2. CallControl'
  <2>1. CASE op' = op /\ pc' = pc /\ (stack' # <<>> => stack # <<>>)
    BY <1>1, <2>1 DEF OrderInv, CallControl, Counting, Cmds
  <2>2. CASE op' = NoOp /\ pc' = "idle" /\ stack' = <<>>
    <3>1. op'.id = Quit /\ op'.todo = <<>> /\ ~Counting' /\ pc' # "answer"
      BY <2>2 DEF NoOp, Counting
    <3> QED
      BY <1>1, <2>2, <3>1 DEF CallControl, Cmds
  <2> QED
    BY <2>1, <2>2
<1>3. InOrder' /\ InStep'
  BY <1>1, <1>2, Closed DEF OrderInv
<1>4. FlushWhole'
  BY DEF FlushWhole
<1> QED
  BY <1>2, <1>3, <1>4 DEF OrderInv

\* write() fails.
LEMMA SendErrorOrder ==
    ASSUME IndInv, IndInv', OrderInv, SendError PROVE OrderInv'
<1>1. stack # <<>> /\ Pop("fail")
  BY DEF SendError, At
<1>2. PurgeControl' /\ ~At("send")' /\ (stack' # <<>> => stack # <<>>)
  BY <1>1, AfterPop DEF OrderInv
<1>3. Cmds(op.todo) = {}
  BY <1>1 DEF OrderInv, CallControl
<1>4. /\ fd' = FALSE /\ cursor_active' = 0 /\ write_buffer' = <<>>
      /\ read_buffer' = <<>> /\ Hangup /\ op' = op /\ pc' = pc
      /\ executed' = executed /\ nextId' = nextId /\ last' = last
  BY DEF SendError, CloseServer
<1>5. Own'
  BY <1>4 DEF OrderInv, Own
<1> QED
  BY <1>2, <1>3, <1>4, <1>5, ClosedOrder

\* A response that closes the connection stores nothing.
LEMMA StruckOut ==
    ASSUME NEW o \in Responses, o.strikes # 0 PROVE o.rc # "STORED"
BY DEF Responses, Parsed, Broken, Outcome

\* One response less to read.
LEMMA DrainOn ==
    \A f \in Frames, r \in {"ok", "fail"} :
        f.n > 0 =>
            /\ [f EXCEPT !.n = @ - 1, !.rc = r] \in Frames
            /\ [f EXCEPT !.n = @ - 1, !.rc = r].at = f.at
            /\ [f EXCEPT !.n = @ - 1, !.rc = r].n = f.n - 1
<1> TAKE f \in Frames, r \in {"ok", "fail"}
<1> HAVE f.n > 0
<1>1. f.n - 1 \in 0..(CursorMod - 1)
  BY ConnectionAssumption, SMTT(40) DEF Frames
<1> QED
  BY <1>1 DEF Frames

\* The purge meets an error.
LEMMA PurgeStruckOrder ==
    ASSUME IndInv, IndInv', OrderInv, NEW o \in Responses, PurgeRead(o),
           o.strikes # 0
    PROVE  OrderInv'
<1>1. stack # <<>> /\ Top.at = "drain" /\ Top \in Frames /\ Top.n > 0
  BY TopFrame DEF PurgeRead, At
<1>2. Cmds(op.todo) = {}
  BY <1>1 DEF OrderInv, CallControl
<1>3. /\ fd' = FALSE /\ cursor_active' = 0 /\ write_buffer' = <<>>
      /\ read_buffer' = <<>> /\ Hangup /\ op' = op /\ pc' = pc
      /\ executed' = executed /\ nextId' = nextId /\ last' = last
  BY DEF PurgeRead, AfterResponse
<1>4. PurgeControl' /\ ~At("send")'
  <2> PICK r \in {"ok", "fail"} :
         r = IF o.rc \in {"PROTOCOL_ERROR", "UNKNOWN_READ_FAILURE"}
             THEN "fail" ELSE Top.rc
    BY <1>1 DEF Frames
  <2> PICK f : f = [Top EXCEPT !.n = @ - 1, !.rc = r]
    OBVIOUS
  <2>1. f \in Frames /\ f.at = "drain"
    BY <1>1, DrainOn
  <2>2. Become(f)
    BY DEF PurgeRead
  <2>3. PurgeControl' /\ Top' = f
    BY <1>1, <1>3, <2>1, <2>2, AfterBecome DEF OrderInv
  <2> QED
    BY <2>1, <2>3 DEF At
<1>5. Own'
  BY <1>3 DEF OrderInv, Own
<1> QED
  BY <1>1, <1>2, <1>3, <1>4, <1>5, ClosedOrder

\* The call that waits for its answer meets an error.
LEMMA AnswerStruckOrder ==
    ASSUME IndInv, IndInv', OrderInv, NEW o \in Responses,
           AnswerOld(o) \/ Answer(o), o.strikes # 0
    PROVE  OrderInv'
<1>1. o.rc # "STORED"
  BY StruckOut
<1>2. /\ fd' = FALSE /\ cursor_active' = 0 /\ write_buffer' = <<>>
      /\ read_buffer' = <<>> /\ Hangup /\ op' = NoOp /\ pc' = "idle"
      /\ executed' = executed /\ nextId' = nextId /\ stack' = <<>>
  BY <1>1 DEF AnswerOld, Answer, Answering, AfterResponse, Idle
<1>3. PurgeControl' /\ ~At("send")'
  BY <1>2, NoPurge
<1>4. Own'
  <2>1. last'.rc = "ERROR"
    BY <1>1 DEF AnswerOld, Answer, Idle
  <2> QED
    BY <2>1 DEF Own
<1> QED
  BY <1>2, <1>3, <1>4, ClosedOrder

\* memcached_send gives up.
LEMMA GiveUpOrder ==
    ASSUME IndInv, IndInv', OrderInv, CloseServer(failures, 1), Hangup,
           Idle("ERROR", ERROR), executed' = executed, nextId' = nextId
    PROVE  OrderInv'
<1>1. /\ fd' = FALSE /\ cursor_active' = 0 /\ write_buffer' = <<>>
      /\ read_buffer' = <<>> /\ op' = NoOp /\ pc' = "idle" /\ stack' = <<>>
      /\ last'.rc = "ERROR"
  BY DEF CloseServer, Idle
<1>2. PurgeControl' /\ ~At("send")' /\ Own'
  BY <1>1, NoPurge DEF Own
<1> QED
  BY <1>1, <1>2, ClosedOrder

\* memcached_quit_server closes.
LEMMA QuitCloseOrder ==
    ASSUME IndInv, IndInv', OrderInv, QuitClose PROVE OrderInv'
<1>1. /\ fd' = FALSE /\ cursor_active' = 0 /\ write_buffer' = <<>>
      /\ read_buffer' = <<>> /\ op' = NoOp /\ pc' = "idle" /\ stack' = <<>>
      /\ last'.rc \in {"QUIT", "ERROR"} /\ Hangup
      /\ executed' = executed /\ nextId' = nextId
  BY DEF QuitClose, CloseServer, Idle
<1>2. PurgeControl' /\ ~At("send")' /\ Own'
  BY <1>1, NoPurge DEF Own
<1> QED
  BY <1>1, <1>2, ClosedOrder

-----------------------------------------------------------------------------
(* The steps that read a response.                                         *)

\* A line that says STORED names its request.
LEMMA StoredId == \A l \in Int : l > 0 => LineId(l) = l
BY DEF LineId

\* What is read is a line.
LEMMA GotTyped ==
    ASSUME IndInv, NEW o \in Responses PROVE o.got \in Int
<1>1. /\ read_buffer \in Seq(Line) /\ toClient \in Seq(Line)
      /\ Line \subseteq Int
  BY DEF IndInv, TypeOK, InputOK, Line, Ids, ERROR, Refused
<1>2. /\ read_buffer # <<>> => Head(read_buffer) \in Int
      /\ toClient # <<>> => Head(toClient) \in Int
  BY <1>1, HeadTailProperties
<1> QED
  BY <1>2 DEF Responses, Parsed, Broken, Outcome, ERROR

\* What is read without an error.
LEMMA ReadOn ==
    ASSUME IndInv, InOrder, NEW o \in Responses, NEW k \in 0..1,
           AfterResponse(o, k), o.strikes = 0, cursor_active > 0
    PROVE  /\ fd /\ fd' /\ write_buffer' = write_buffer
           /\ cursor_active' = cursor_active - 1
           /\ o.rc \notin {"PROTOCOL_ERROR", "UNKNOWN_READ_FAILURE"}
<1>1. fd
  BY ReadOldest
<1>2. cursor_active \in 1..(CursorMod - 1)
  BY ConnectionAssumption DEF IndInv, TypeOK
<1>3. cursor_active' = cursor_active - 1
  BY <1>2, CursorSteps DEF AfterResponse
<1>4. o.rc \notin {"PROTOCOL_ERROR", "UNKNOWN_READ_FAILURE"}
  BY ResponseTyped DEF IndInv
<1> QED
  BY <1>1, <1>3, <1>4 DEF AfterResponse

\* The purge reads a response.
LEMMA PurgeReadOrder ==
    ASSUME IndInv, OrderInv, NEW o \in Responses, PurgeRead(o), o.strikes = 0
    PROVE  OrderInv'
<1>1. stack # <<>> /\ Top.at = "drain" /\ Top \in Frames /\ Top.n > 0
      /\ Len(stack) = 2 /\ stack[2] = Top /\ ~At("send")
  BY TopFrame DEF PurgeRead, At
<1>2. fd
  BY ReadOldest DEF OrderInv
<1>3. cursor_active > Top.n /\ Top.n \in Nat /\ cursor_active \in Nat
  BY <1>1, <1>2, StagesTyped DEF OrderInv, PurgeControl, Frames
<1>4. cursor_active > 0
  BY <1>1, <1>3
<1> PICK k \in 0..1 :
       k = IF o.rc \in {"PROTOCOL_ERROR", "UNKNOWN_READ_FAILURE"} THEN 1 ELSE 0
  OBVIOUS
<1>5. AfterResponse(o, k)
  BY DEF PurgeRead
<1>6. /\ fd' /\ write_buffer' = write_buffer
      /\ cursor_active' = cursor_active - 1
      /\ o.rc \notin {"PROTOCOL_ERROR", "UNKNOWN_READ_FAILURE"}
  BY <1>4, <1>5, ReadOn DEF OrderInv
<1>7. PurgeControl' /\ ~At("send")'
  <2> PICK r \in {"ok", "fail"} : r = Top.rc
    BY <1>1 DEF Frames
  <2> PICK f : f = [Top EXCEPT !.n = @ - 1, !.rc = r]
    OBVIOUS
  <2>1. f \in Frames /\ f.at = "drain" /\ f.n = Top.n - 1
    BY <1>1, DrainOn
  <2>2. Become(f)
    BY <1>6 DEF PurgeRead
  <2>3. cursor_active' > f.n
    BY <1>3, <1>6, <2>1
  <2>4. PurgeControl' /\ Top' = f
    BY <1>1, <2>1, <2>2, <2>3, AfterBecome DEF OrderInv
  <2> QED
    BY <2>1, <2>4 DEF At
<1>8. Pending' = Pending /\ FlushWhole'
  BY <1>1, <1>6, <1>7 DEF Pending, FlushWhole
<1>9. pc' = pc /\ op' = op /\ nextId' = nextId /\ executed' = executed
      /\ last' = last
  BY DEF PurgeRead
<1>10. Counted' = Counted /\ Counted \in Nat /\ (Counting' <=> Counting)
  BY <1>9, StagesTyped DEF Counted, Counting, OrderInv, CallControl, Ids
<1>11. InOrder' /\ InStep'
  BY <1>4, <1>5, <1>8, <1>9, <1>10, Read DEF OrderInv
<1>12. CallControl'
  <2>1. cursor_active' > 0
    BY <1>1, <1>3, <1>6
  <2> QED
    BY <1>1, <1>9, <1>10, <2>1 DEF OrderInv, CallControl, Cmds
<1>13. Own'
  BY <1>9 DEF OrderInv, Own
<1> QED
  BY <1>7, <1>8, <1>11, <1>12, <1>13 DEF OrderInv

\* memcached_response reads a response that is not the call's own.
LEMMA AnswerOldOrder ==
    ASSUME IndInv, OrderInv, NEW o \in Responses, AnswerOld(o), o.strikes = 0
    PROVE  OrderInv'
<1>1. /\ pc = "answer" /\ stack = <<>> /\ stack' = <<>> /\ cursor_active > 1
      /\ AfterResponse(o, 0) /\ nextId' = nextId /\ executed' = executed
  BY DEF AnswerOld, Answering
<1>2. 0 \in 0..1 /\ cursor_active > 0 /\ cursor_active \in Nat
  BY <1>1, StagesTyped
<1>3. write_buffer' = write_buffer /\ cursor_active' = cursor_active - 1
  BY <1>1, <1>2, ReadOn DEF OrderInv
<1>4. PurgeControl' /\ ~At("send")' /\ ~At("send")
  BY <1>1, NoPurge DEF At
<1>5. Pending' = Pending /\ FlushWhole'
  BY <1>3, <1>4 DEF Pending, FlushWhole
<1>6. op.todo = <<>> /\ op.id \in Ids /\ op.id = nextId - 1
      /\ (op.kind \in {"none", "flush", "quit"} => op.id = Quit)
  BY <1>1 DEF OrderInv, CallControl
<1>7. \/ op' = op /\ pc' = "answer" /\ last' = last
      \/ op' = NoOp /\ pc' = "idle" /\ last'.rc = "ERROR"
  BY <1>1 DEF AnswerOld
<1>8. op'.todo = <<>>
  BY <1>6, <1>7 DEF NoOp
<1>9. Counted' = Counted /\ Counted \in Nat
  BY <1>1, <1>7, StagesTyped DEF Counted, Counting
<1>10. InOrder' /\ InStep'
  BY <1>1, <1>2, <1>5, <1>8, <1>9, Read DEF OrderInv
<1>11. CallControl'
  <2>1. cursor_active' > 0
    BY <1>1, <1>2, <1>3
  <2>2. ~Counting'
    BY <1>7 DEF Counting
  <2>3. CASE op' = op /\ pc' = "answer"
    BY <1>1, <1>6, <2>1, <2>2, <2>3 DEF CallControl
  <2>4. CASE op' = NoOp /\ pc' = "idle"
    <3>1. op'.id = Quit
      BY <2>4 DEF NoOp
    <3> QED
      BY <1>1, <1>8, <2>2, <2>4, <3>1 DEF CallControl
  <2> QED
    BY <1>7, <2>3, <2>4
<1>12. Own'
  BY <1>7 DEF OrderInv, Own
<1> QED
  BY <1>4, <1>5, <1>10, <1>11, <1>12 DEF OrderInv

\* memcached_response reads the last response, which is the call's own.
LEMMA AnswerOrder ==
    ASSUME IndInv, OrderInv, NEW o \in Responses, Answer(o), o.strikes = 0
    PROVE  OrderInv'
<1>1. /\ pc = "answer" /\ stack = <<>> /\ stack' = <<>> /\ cursor_active <= 1
      /\ AfterResponse(o, 0) /\ nextId' = nextId /\ executed' = executed
      /\ op' = NoOp /\ pc' = "idle"
      /\ last' = [id |-> op.id,
                  rc |-> IF o.rc = "STORED" THEN "SUCCESS" ELSE "ERROR",
                  got |-> o.got]
  BY DEF Answer, Answering, Idle
<1>2. fd /\ o.got # ERROR
      /\ LineId(o.got) \in Lines(read_buffer) \cup Lines(toClient)
  BY ReadOldest DEF OrderInv
<1>3. 0 \in 0..1 /\ cursor_active = 1
  BY <1>1, <1>2, StagesTyped DEF OrderInv, CallControl
<1>4. write_buffer' = write_buffer /\ cursor_active' = cursor_active - 1
  BY <1>1, <1>3, ReadOn DEF OrderInv
<1>5. PurgeControl' /\ ~At("send")' /\ ~At("send")
  BY <1>1, NoPurge DEF At
<1>6. Pending' = Pending /\ FlushWhole'
  BY <1>4, <1>5 DEF Pending, FlushWhole
<1>7. op.todo = <<>> /\ op.id = nextId - 1
  BY <1>1 DEF OrderInv, CallControl
<1>8. op'.todo = <<>> /\ op'.id = Quit
  BY <1>1 DEF NoOp
<1>9. Counted' = Counted /\ Counted = nextId /\ nextId \in Nat
  BY <1>1, StagesTyped DEF Counted, Counting
<1>10. InOrder' /\ InStep'
  BY <1>1, <1>3, <1>6, <1>8, <1>9, Read DEF OrderInv
<1>11. CallControl'
  BY <1>1, <1>8 DEF CallControl, Counting
<1>12. Own'
  <2> SUFFICES ASSUME o.rc = "STORED" PROVE o.got = op.id
    BY <1>1 DEF Own
  <2> PICK x : x = LineId(o.got)
    OBVIOUS
  <2>1. x \in Nat
    BY <1>2, StagesTyped
  <2>2. nextId - x <= 1
    BY <1>2, <1>3, <1>9 DEF OrderInv, InStep, UnderWay
  <2>3. x < nextId
    BY <1>2 DEF OrderInv, InOrder, Stages, Before
  <2>4. o.got > 0
    BY DEF Responses, Parsed, Broken, Outcome
  <2>5. x = o.got
    BY <1>2, <2>4, GotTyped, StoredId
  <2>6. x = nextId - 1
    BY <1>9, <2>1, <2>2, <2>3
  <2> QED
    BY <1>7, <2>5, <2>6
<1> QED
  BY <1>5, <1>6, <1>10, <1>11, <1>12 DEF OrderInv

-----------------------------------------------------------------------------
(* The steps of the wire and of the calls.                                 *)

\* Requests move, none comes, and the connection is open.
LEMMA StillInStep ==
    ASSUME InStep, fd', cursor_active' = cursor_active, pc' = pc,
           Counted' = Counted, UnderWay' \subseteq UnderWay
    PROVE  InStep'
BY DEF InStep

\* The client's control is not touched.
LEMMA Outside ==
    ASSUME CallControl, PurgeControl, FlushWhole, Own,
           UNCHANGED <<control, fd, cursor_active, write_buffer>>
    PROVE  /\ CallControl' /\ PurgeControl' /\ FlushWhole' /\ Own'
           /\ Pending' = Pending /\ Counted' = Counted /\ pc' = pc
           /\ op' = op /\ nextId' = nextId
<1>1. /\ pc' = pc /\ op' = op /\ stack' = stack /\ ret' = ret /\ last' = last
      /\ nextId' = nextId
  BY DEF control
<1>2. Counted' = Counted /\ (Counting' <=> Counting)
  BY <1>1 DEF Counted, Counting
<1>3. Top' = Top /\ (At("send")' <=> At("send"))
  BY <1>1 DEF Top, At
<1>4. Pending' = Pending /\ FlushWhole'
  BY <1>3 DEF Pending, FlushWhole
<1>5. CallControl'
  BY <1>1, <1>2 DEF CallControl, Cmds
<1>6. PurgeControl' /\ Own'
  BY <1>1 DEF PurgeControl, Own
<1> QED
  BY <1>1, <1>2, <1>4, <1>5, <1>6

\* What was on the wire or in the server is lost.
LEMMA LostOrder ==
    ASSUME IndInv, OrderInv, fd, executed' = executed,
           UNCHANGED <<control, fd, cursor_active, write_buffer>>,
           read_buffer' \in {read_buffer, <<>>},
           toClient' \in {toClient, <<>>},
           Leave \/ UNCHANGED <<toServer, parsing, earlier>>
    PROVE  OrderInv'
<1>1. /\ CallControl' /\ PurgeControl' /\ FlushWhole' /\ Own'
      /\ Pending' = Pending /\ Counted' = Counted /\ pc' = pc
      /\ op' = op /\ nextId' = nextId
  BY Outside DEF OrderInv
<1>0. \/ /\ toServer' = <<>> /\ parsing' = Quit
         /\ Past' \subseteq Past \cup Parsing \cup Cmds(toServer)
      \/ toServer' = toServer /\ parsing' = parsing /\ Past' = Past
  BY LeftBehind, PastKeeps
<1>2. /\ Lines(read_buffer)' \subseteq Lines(read_buffer) /\ LinesUp(read_buffer)'
      /\ Lines(toClient)' \subseteq Lines(toClient) /\ LinesUp(toClient)'
  BY Nothing DEF OrderInv, InOrder, Lines, LinesUp
<1>3. /\ Cmds(toServer)' \subseteq Cmds(toServer) /\ CmdsUp(toServer)'
      /\ Cmds(Pending)' = Cmds(Pending) /\ CmdsUp(Pending)'
      /\ Cmds(op.todo)' = Cmds(op.todo) /\ CmdsUp(op.todo)'
  BY <1>0, <1>1, Nothing DEF OrderInv, InOrder, Cmds, CmdsUp
<1>4. /\ Parsing' \subseteq Parsing /\ Up(executed)'
      /\ \/ Past' \subseteq Past
         \/ /\ Past' \subseteq Past \cup Parsing \cup Cmds(toServer)
            /\ Parsing' = {} /\ Cmds(toServer)' = {}
  <2>1. Parsing' \subseteq Parsing /\ Up(executed)'
    BY <1>0 DEF OrderInv, InOrder, Parsing, Up
  <2>2. toServer' = <<>> => Cmds(toServer)' = {}
    BY Nothing, Zenon DEF Cmds
  <2>3. parsing' = Quit => Parsing' = {}
    BY DEF Parsing
  <2> QED
    BY <1>0, <2>1, <2>2, <2>3
<1>5. InOrder'
  <2>1. nextId \in Nat
    BY StagesTyped
  <2>2. Stages(Lines(read_buffer)', Lines(toClient)', Parsing', Cmds(toServer)',
               Cmds(Pending)', Cmds(op.todo)', Past', nextId')
    <3> PICK G : G = Past'
      OBVIOUS
    <3> PICK C : C = Parsing'
      OBVIOUS
    <3> PICK D : D = Cmds(toServer)'
      OBVIOUS
    <3>1. Stages(Lines(read_buffer)', Lines(toClient)', C, D,
                 Cmds(Pending)', Cmds(op.todo)', G, nextId)
      BY <1>2, <1>3, <1>4, <2>1, StagesShrink DEF OrderInv, InOrder
    <3> QED
      BY <1>1, <3>1
  <2> QED
    BY <1>2, <1>3, <1>4, <2>2 DEF InOrder
<1>6. InStep'
  <2>1. UnderWay' \subseteq UnderWay
    BY <1>2, <1>3, <1>4 DEF UnderWay, Unanswered
  <2> QED
    BY <1>1, <2>1, StillInStep DEF OrderInv
<1> QED
  BY <1>1, <1>5, <1>6 DEF OrderInv

\* memcached_quit_server throws away what it reads.
LEMMA QuitDrainOrder ==
    ASSUME IndInv, OrderInv, QuitDrain PROVE OrderInv'
<1>1. /\ fd /\ executed' = executed
      /\ UNCHANGED <<control, fd, cursor_active, write_buffer>>
      /\ read_buffer' = <<>> /\ toClient' = <<>>
      /\ UNCHANGED <<toServer, parsing, earlier>>
  BY DEF QuitDrain, server
<1> QED
  BY <1>1, LostOrder

\* The server or the network closes.
LEMMA ServerCloseOrder ==
    ASSUME IndInv, OrderInv, ServerClose PROVE OrderInv'
<1>1. /\ fd /\ executed' = executed
      /\ UNCHANGED <<control, fd, cursor_active, write_buffer>>
      /\ read_buffer' = read_buffer /\ toClient' \in {toClient, <<>>}
      /\ Leave
  BY DEF ServerClose, client
<1> QED
  BY <1>1, LostOrder

\* All of two sequences, one behind the other.
LEMMA AllOfBoth ==
    ASSUME NEW S, NEW a \in Seq(S), NEW s \in Seq(S), NEW n \in Nat,
           n <= Len(s), NEW b, b = SubSeq(s, 1, n)
    PROVE  SubSeq(a \o b, 1, Len(a) + n) = a \o b
<1>1. Len(a) \in Nat /\ Len(s) \in Nat
  BY LenProperties
<1>2. b \in Seq(S) /\ Len(b) = n
  <2>1. \A i \in 1..n : s[i] \in S
    BY <1>1, ElementOfSeq
  <2>2. 1 <= n => Len(b) = n - 1 + 1
    BY <2>1, SubSeqProperties
  <2>3. ~(1 <= n) => Len(b) = 0
    BY <2>1, SubSeqProperties
  <2>4. b \in Seq(S)
    BY <2>1, SubSeqProperties
  <2> QED
    BY <2>2, <2>3, <2>4
<1> PICK u : u = a \o b
  OBVIOUS
<1>3. u \in Seq(S) /\ Len(u) = Len(a) + n
  BY <1>1, <1>2, ConcatProperties
<1>4. SubSeq(u, 1, Len(u)) = u
  BY <1>3, SubSeqFull
<1> QED
  BY <1>3, <1>4

\* repack_input_buffer moves lines from the kernel to the client.
LEMMA SendRepackOrder ==
    ASSUME IndInv, OrderInv, SendRepack, Packed = read_buffer PROVE OrderInv'
<1> DEFINE room == RBufMax - Len(read_buffer)
           k == IF Len(toClient) < room THEN Len(toClient) ELSE room
<1>1. /\ fd /\ executed' = executed /\ parsing' = parsing
      /\ toServer' = toServer /\ Past' = Past
      /\ UNCHANGED <<control, fd, cursor_active, write_buffer>>
      /\ read_data' = read_buffer \o SubSeq(toClient, 1, k)
      /\ read_buffer' = SubSeq(read_data', 1, Len(read_buffer) + k)
      /\ toClient' = SubSeq(toClient, k + 1, Len(toClient))
      /\ Len(read_buffer) < RBufMax
  BY PastKeeps DEF SendRepack, Blocked, CanRepack, server
<1>2. /\ read_buffer \in Seq(Line) /\ toClient \in Seq(Line)
      /\ k \in Nat /\ k <= Len(toClient) /\ Len(toClient) \in Nat
  <2>1. /\ read_buffer \in Seq(Line) /\ toClient \in Seq(Line)
        /\ Len(toClient) \in Nat /\ Len(read_buffer) \in Nat /\ RBufMax \in Nat
    BY ConnectionAssumption, LenProperties DEF IndInv, TypeOK, InputOK
  <2> QED
    BY <1>1, <2>1
<1> HIDE DEF k, room
<1> PICK p : p = SubSeq(toClient, 1, k)
  OBVIOUS
<1> PICK q : q = SubSeq(toClient, k + 1, Len(toClient))
  OBVIOUS
<1>3. /\ p \in Seq(Line) /\ Lines(p) \subseteq Lines(toClient) /\ LinesUp(p)
      /\ Lines(q) \subseteq Lines(toClient) /\ LinesUp(q)
      /\ Before(Lines(p), Lines(q))
  <2>1. 1 \in Nat \ {0} /\ k + 1 \in Nat \ {0}
    BY <1>2
  <2>2. p \in Seq(Line)
    BY <1>2, <2>1, Piece
  <2>3. Lines(p) \subseteq Lines(toClient) /\ LinesUp(p)
    BY <1>2, <2>1, LinesPiece DEF OrderInv, InOrder
  <2>4. Lines(q) \subseteq Lines(toClient) /\ LinesUp(q)
    BY <1>2, <2>1, LinesPiece DEF OrderInv, InOrder
  <2>5. Before(Lines(p), Lines(q))
    BY <1>2, <2>1, LinesPieces DEF OrderInv, InOrder
  <2> QED
    BY <2>2, <2>3, <2>4, <2>5
<1>4. Before(Lines(read_buffer), Lines(toClient))
  BY DEF OrderInv, InOrder, Stages, Chain, Before
<1> PICK r : r = read_buffer \o p
  OBVIOUS
<1>5. Lines(r) \subseteq Lines(read_buffer) \cup Lines(p) /\ LinesUp(r)
  <2>1. Before(Lines(read_buffer), Lines(p))
    BY <1>3, <1>4 DEF Before
  <2>2. LinesUp(read_buffer)
    BY DEF OrderInv, InOrder
  <2>3. read_buffer \in Seq(Line) /\ p \in Seq(Line) /\ LinesUp(p)
    BY <1>2, <1>3
  <2>4. \A a, b \in Seq(Line) : \A c :
           c = a \o b => Lines(c) \subseteq Lines(a) \cup Lines(b)
    BY LinesConcat
  <2>5. \A a, b \in Seq(Line) : \A c :
           /\ c = a \o b
           /\ LinesUp(a) /\ LinesUp(b) /\ Before(Lines(a), Lines(b))
           => LinesUp(c)
    BY LinesConcat
  <2> QED
    BY <2>1, <2>2, <2>3, <2>4, <2>5
<1>6. read_buffer' = r /\ toClient' = q
  <2>1. \A a \in Seq(Line) : \A n \in Nat, b \in Seq(Line) :
           b = SubSeq(toClient, 1, n) /\ n <= Len(toClient) =>
              SubSeq(a \o b, 1, Len(a) + n) = a \o b
    BY <1>2, AllOfBoth
  <2> QED
    BY <1>1, <1>2, <1>3, <2>1
<1>7. /\ CallControl' /\ PurgeControl' /\ FlushWhole' /\ Own'
      /\ Pending' = Pending /\ Counted' = Counted /\ pc' = pc
      /\ op' = op /\ nextId' = nextId
  BY <1>1, Outside DEF OrderInv
<1>8. /\ Lines(read_buffer)' = Lines(r) /\ LinesUp(read_buffer)'
      /\ Lines(toClient)' = Lines(q) /\ LinesUp(toClient)'
      /\ Cmds(toServer)' = Cmds(toServer) /\ CmdsUp(toServer)' = CmdsUp(toServer)
      /\ Cmds(Pending)' = Cmds(Pending) /\ CmdsUp(Pending)' = CmdsUp(Pending)
      /\ Cmds(op.todo)' = Cmds(op.todo) /\ CmdsUp(op.todo)' = CmdsUp(op.todo)
      /\ Parsing' = Parsing /\ Past' = Past /\ Up(executed)' = Up(executed)
  <2>1. /\ Lines(read_buffer)' = Lines(r) /\ LinesUp(read_buffer)'
        /\ Lines(toClient)' = Lines(q) /\ LinesUp(toClient)'
    BY <1>3, <1>5, <1>6, ZenonT(60) DEF Lines, LinesUp
  <2>2. /\ Cmds(toServer)' = Cmds(toServer)
        /\ CmdsUp(toServer)' = CmdsUp(toServer)
        /\ Cmds(Pending)' = Cmds(Pending) /\ CmdsUp(Pending)' = CmdsUp(Pending)
        /\ Cmds(op.todo)' = Cmds(op.todo) /\ CmdsUp(op.todo)' = CmdsUp(op.todo)
    BY <1>1, <1>7, Zenon DEF Cmds, CmdsUp
  <2>3. Parsing' = Parsing /\ Past' = Past /\ Up(executed)' = Up(executed)
    BY <1>1, Zenon DEF Parsing, Up
  <2> QED
    BY <2>1, <2>2, <2>3, Zenon
<1>9. InOrder'
  <2>1. Stages(Lines(r), Lines(q), Parsing, Cmds(toServer), Cmds(Pending),
               Cmds(op.todo), Past, nextId)
    <3>1. Before(Lines(r), Lines(q))
      BY <1>3, <1>4, <1>5 DEF Before
    <3> PICK R : R = Lines(r)
      OBVIOUS
    <3> PICK Q : Q = Lines(q)
      OBVIOUS
    <3>2. /\ R \subseteq Lines(read_buffer) \cup Lines(toClient)
          /\ Q \subseteq Lines(toClient)
      BY <1>3, <1>5
    <3> QED
      BY <3>1, <3>2 DEF OrderInv, InOrder, Stages, Chain, Before
  <2> QED
    BY <1>7, <1>8, <2>1, Zenon DEF OrderInv, InOrder
<1>10. InStep'
  <2>1. UnderWay' \subseteq UnderWay
    BY <1>3, <1>5, <1>8 DEF UnderWay, Unanswered
  <2> QED
    BY <1>1, <1>7, <2>1, StillInStep DEF OrderInv
<1> QED
  BY <1>7, <1>9, <1>10 DEF OrderInv

\* What is left of a sequence after its first k elements.
LEMMA RestLength ==
    ASSUME NEW S, NEW s \in Seq(S), NEW k \in 1..Len(s)
    PROVE  Len(SubSeq(s, k + 1, Len(s))) = Len(s) - k
<1> PICK n \in Nat : n = Len(s)
  BY LenProperties
<1>1. \A i \in (k + 1)..n : s[i] \in S
  BY ElementOfSeq
<1>2. Len(SubSeq(s, k + 1, n)) =
        IF k + 1 <= n THEN n - (k + 1) + 1 ELSE 0
  BY <1>1, SubSeqProperties
<1> QED
  BY <1>2

\* What is sent and what is left are the whole.
LEMMA SentAndLeft == \A a, n, k \in Int : (a + k) + (n - k) = a + n
OBVIOUS

\* One write() of the write loop: a piece of the buffer is on its way.
LEMMA SendOrder ==
    ASSUME IndInv, OrderInv, NEW k \in 1..NetCap, Send(k) PROVE OrderInv'
<1>1. /\ At("send") /\ stack # <<>> /\ fd /\ fd' = fd /\ pc' = pc /\ op' = op
      /\ cursor_active' = cursor_active /\ read_buffer' = read_buffer
      /\ toClient' = toClient /\ parsing' = parsing /\ executed' = executed
      /\ earlier' = earlier
      /\ nextId' = nextId /\ last' = last /\ k \in 1..Len(Top.rest)
  BY DEF Send, At, server
<1>2. Top \in Frames /\ Top.at = "send" /\ Len(stack) \in 1..3
  BY <1>1, TopFrame DEF At
<1> PICK t : t = Top.rest
  OBVIOUS
<1>3. /\ t \in Seq(Chunk) /\ Len(t) \in Nat /\ Pending = t /\ k \in 1..Len(t)
      /\ toServer \in Seq(Chunk) /\ CmdsUp(t) /\ CmdsUp(toServer)
  BY <1>1, <1>2, LenProperties, StagesTyped
  DEF Frames, Pending, OrderInv, InOrder
<1> PICK p : p = SubSeq(t, 1, k)
  OBVIOUS
<1> PICK q : q = SubSeq(t, k + 1, Len(t))
  OBVIOUS
<1>4. /\ p \in Seq(Chunk) /\ Cmds(p) \subseteq Cmds(t) /\ CmdsUp(p)
      /\ q \in Seq(Chunk) /\ Cmds(q) \subseteq Cmds(t) /\ CmdsUp(q)
      /\ Before(Cmds(p), Cmds(q))
  <2>1. 1 \in Nat \ {0} /\ k + 1 \in Nat \ {0} /\ k \in Nat /\ k <= Len(t)
    BY <1>3
  <2>2. p \in Seq(Chunk) /\ q \in Seq(Chunk)
    BY <1>3, <2>1, Piece
  <2>3. Cmds(p) \subseteq Cmds(t) /\ CmdsUp(p)
    BY <1>3, <2>1, CmdsPiece
  <2>4. Cmds(q) \subseteq Cmds(t) /\ CmdsUp(q)
    BY <1>3, <2>1, CmdsPiece
  <2>5. Before(Cmds(p), Cmds(q))
    BY <1>3, <2>1, CmdsPieces
  <2> QED
    BY <2>2, <2>3, <2>4, <2>5
<1>5. /\ PurgeControl' /\ FlushWhole'
      /\ Cmds(Pending)' \subseteq Cmds(q) /\ CmdsUp(Pending)'
      /\ stack' # <<>> => stack # <<>>
  <2>1. CASE k = Len(t)
    <3>1. Pop("ok") /\ write_buffer' = <<>>
      BY <2>1 DEF Send
    <3>2. PurgeControl' /\ ~At("send")'
      BY <1>1, <3>1, AfterPop DEF OrderInv
    <3>3. Pending' = <<>>
      BY <3>1, <3>2 DEF Pending
    <3>4. Cmds(Pending)' = {} /\ CmdsUp(Pending)'
      BY <3>3, Nothing, Zenon DEF Cmds, CmdsUp
    <3> QED
      BY <1>1, <3>2, <3>4 DEF FlushWhole
  <2>2. CASE k # Len(t)
    <3> PICK f : f = [Top EXCEPT !.rest = q, !.sent = @ + k]
      OBVIOUS
    <3>1. /\ Become(f) /\ write_buffer' = write_buffer
          /\ f \in Frames /\ f.at = "send" /\ f.rest = q
          /\ f.sent = Top.sent + k
      <4>1. Become(f) /\ write_buffer' = write_buffer
        BY <2>2 DEF Send
      <4>2. Top.sent + k \in Nat
        BY <1>2 DEF Frames
      <4>3. f \in Frames /\ f.at = "send" /\ f.rest = q
            /\ f.sent = Top.sent + k
        BY <1>2, <1>4, <4>2 DEF Frames
      <4> QED
        BY <4>1, <4>3
    <3>2. PurgeControl' /\ Top' = f /\ stack' # <<>>
      BY <1>1, <1>2, <3>1, AfterBecome DEF OrderInv
    <3>3. At("send")' /\ Pending' = q
      BY <3>1, <3>2 DEF At, Pending
    <3>4. Cmds(Pending)' = Cmds(q) /\ CmdsUp(Pending)'
      <4>1. CmdsUp(Pending)' = CmdsUp(q) /\ Cmds(Pending)' = Cmds(q)
        BY <3>3, ZenonT(60) DEF Cmds, CmdsUp
      <4> QED
        BY <1>4, <4>1
    <3>5. FlushWhole'
      <4>1. Len(q) = Len(t) - k /\ Top.sent \in Nat
        BY <1>2, <1>3, RestLength DEF Frames
      <4>2. Top.sent + Len(t) = Len(write_buffer)
        BY <1>1 DEF OrderInv, FlushWhole
      <4> QED
        <5>1. f.sent + Len(q) = Top.sent + Len(t)
          <6>1. Top.sent \in Int /\ Len(t) \in Int /\ k \in Int
            BY <1>3, <4>1
          <6>2. f.sent + Len(q) = (Top.sent + k) + (Len(t) - k)
            BY <3>1, <4>1, Zenon
          <6> QED
            BY <6>1, <6>2, SentAndLeft, Zenon
        <5> QED
          BY <3>1, <3>2, <4>2, <5>1 DEF FlushWhole
    <3> QED
      BY <1>1, <3>2, <3>4, <3>5
  <2> QED
    BY <2>1, <2>2
<1>6. Cmds(toServer)' \subseteq Cmds(toServer) \cup Cmds(p) /\ CmdsUp(toServer)'
  <2>1. Before(Cmds(toServer), Cmds(p))
    BY <1>3, <1>4 DEF OrderInv, InOrder, Stages, Chain, Before
  <2>2. ASSUME NEW r, r = toServer \o p
        PROVE  Cmds(r) \subseteq Cmds(toServer) \cup Cmds(p) /\ CmdsUp(r)
    <3>1. /\ toServer \in Seq(Chunk) /\ CmdsUp(toServer)
          /\ p \in Seq(Chunk) /\ CmdsUp(p)
      BY <1>3, <1>4
    <3>2. \A a, b \in Seq(Chunk) : \A c :
             c = a \o b => Cmds(c) \subseteq Cmds(a) \cup Cmds(b)
      BY CmdsConcat
    <3>3. \A a, b \in Seq(Chunk) : \A c :
             /\ c = a \o b
             /\ CmdsUp(a) /\ CmdsUp(b) /\ Before(Cmds(a), Cmds(b))
             => CmdsUp(c)
      BY CmdsConcat
    <3>4. Cmds(r) \subseteq Cmds(toServer) \cup Cmds(p)
      <4> SUFFICES ASSUME NEW x \in Cmds(r) PROVE x \in Cmds(toServer) \cup Cmds(p)
        OBVIOUS
      <4> QED
        BY <2>2, <3>1, <3>2, Zenon
    <3>5. CmdsUp(r)
      BY <2>1, <2>2, <3>1, <3>3, Zenon
    <3> QED
      BY <3>4, <3>5
  <2>3. toServer' = toServer \o p \/ toServer' = <<>>
    BY DEF Send
  <2>4. CASE toServer' = toServer \o p
    <3> PICK r : r = toServer \o p
      OBVIOUS
    <3>1. Cmds(toServer)' = Cmds(r) /\ CmdsUp(toServer)' = CmdsUp(r)
      BY <2>4, Zenon DEF Cmds, CmdsUp
    <3>2. Cmds(r) \subseteq Cmds(toServer) \cup Cmds(p) /\ CmdsUp(r)
      BY <2>2
    <3> QED
      BY <3>1, <3>2
  <2>5. CASE toServer' = <<>>
    <3>1. Cmds(toServer)' = {} /\ CmdsUp(toServer)'
      BY <2>5, Nothing, Zenon DEF Cmds, CmdsUp
    <3> QED
      BY <3>1
  <2> QED
    BY <2>3, <2>4, <2>5
<1>7. /\ Lines(read_buffer)' = Lines(read_buffer)
      /\ LinesUp(read_buffer)' = LinesUp(read_buffer)
      /\ Lines(toClient)' = Lines(toClient)
      /\ LinesUp(toClient)' = LinesUp(toClient)
      /\ Cmds(op.todo)' = Cmds(op.todo) /\ CmdsUp(op.todo)' = CmdsUp(op.todo)
      /\ Parsing' = Parsing /\ Past' = Past /\ Up(executed)' = Up(executed)
  BY <1>1, PastKeeps, Zenon DEF Lines, LinesUp, Cmds, CmdsUp, Parsing, Up
<1>8. Counted' = Counted /\ (Counting' <=> Counting)
  BY <1>1 DEF Counted, Counting
<1>9. InOrder'
  <2> PICK D : D = Cmds(toServer)'
    OBVIOUS
  <2> PICK E : E = Cmds(Pending)'
    OBVIOUS
  <2>1. /\ D \subseteq Cmds(toServer) \cup Cmds(p) /\ E \subseteq Cmds(q)
        /\ Cmds(p) \subseteq Cmds(Pending) /\ Cmds(q) \subseteq Cmds(Pending)
    BY <1>3, <1>4, <1>5, <1>6
  <2>2. Before(D, E)
    BY <1>4, <2>1 DEF OrderInv, InOrder, Stages, Chain, Before
  <2>3. Stages(Lines(read_buffer), Lines(toClient), Parsing, D, E,
               Cmds(op.todo), Past, nextId)
    BY <2>1, <2>2 DEF OrderInv, InOrder, Stages, Chain, Before
  <2> QED
    BY <1>1, <1>5, <1>6, <1>7, <2>3 DEF OrderInv, InOrder
<1>10. InStep'
  <2>1. UnderWay' \subseteq UnderWay
    BY <1>3, <1>4, <1>5, <1>6, <1>7 DEF UnderWay, Unanswered
  <2> QED
    BY <1>1, <1>8, <2>1, StillInStep DEF OrderInv
<1>11. CallControl' /\ Own'
  <2>1. CallControl'
    BY <1>1, <1>7, <1>8, SMTT(40) DEF OrderInv, CallControl
  <2>2. Own'
    BY <1>1 DEF OrderInv, Own
  <2> QED
    BY <2>1, <2>2
<1> QED
  BY <1>5, <1>9, <1>10, <1>11 DEF OrderInv

\* An answer is sent.
LEMMA AnswerAppended ==
    ASSUME NEW l \in Line, toClient \in Seq(Line),
           toClient' = Append(toClient, l), LinesUp(toClient),
           l # ERROR => Before(Lines(toClient), {LineId(l)})
    PROVE  /\ Lines(toClient)' \subseteq
                 Lines(toClient) \cup (IF l = ERROR THEN {} ELSE {LineId(l)})
           /\ LinesUp(toClient)'
<1> PICK s : s = Append(toClient, l)
  OBVIOUS
<1>1. /\ Lines(s) \subseteq
            Lines(toClient) \cup (IF l # ERROR THEN {LineId(l)} ELSE {})
      /\ LinesUp(s)
  BY LinesAppend
<1>2. Lines(toClient)' = Lines(s) /\ LinesUp(toClient)' = LinesUp(s)
  BY Zenon DEF Lines, LinesUp
<1> QED
  BY <1>1, <1>2

\* A request is executed.
LEMMA ExecutedAppended ==
    ASSUME executed \in Seq(Ids), Up(executed), NEW id \in Ids,
           executed' = Append(executed, id), Before(Done, {id})
    PROVE  Done' \subseteq Done \cup {id} /\ Up(executed)'
<1> PICK n \in Nat : n = Len(executed)
  BY LenProperties
<1>1. /\ DOMAIN executed = 1..n /\ DOMAIN executed' = 1..(n + 1)
      /\ \A i \in 1..n : executed'[i] = executed[i]
      /\ executed'[n + 1] = id
  BY AppendProperties, LenProperties
<1>2. ASSUME NEW i \in DOMAIN executed'
      PROVE  \/ i \in DOMAIN executed /\ executed'[i] = executed[i]
             \/ i = n + 1 /\ executed'[i] = id
  BY <1>1
<1>3. Done' \subseteq Done \cup {id}
  BY <1>2 DEF Done
<1>4. ASSUME NEW i \in DOMAIN executed', NEW j \in DOMAIN executed', i < j
      PROVE  executed'[i] < executed'[j]
  <2>1. i \in DOMAIN executed /\ executed'[i] = executed[i]
    BY <1>1, <1>2, <1>4
  <2>2. CASE j \in DOMAIN executed /\ executed'[j] = executed[j]
    BY <1>4, <2>1, <2>2 DEF Up
  <2>3. CASE executed'[j] = id
    BY <2>1, <2>3 DEF Done, Before
  <2> QED
    BY <1>2, <2>2, <2>3
<1> QED
  BY <1>3, <1>4 DEF Up

\* The server takes a chunk: a request goes from the wire to the server, and
\* from there to the answers.
LEMMA ServeOrder ==
    ASSUME IndInv, OrderInv, Serve PROVE OrderInv'
<1> PICK c : c = Head(toServer)
  OBVIOUS
<1> PICK w : w = Tail(toServer)
  OBVIOUS
<1>1. /\ fd /\ fd' = fd /\ toServer # <<>> /\ toServer' = w
      /\ read_buffer' = read_buffer /\ cursor_active' = cursor_active
      /\ UNCHANGED <<control, fd, cursor_active, write_buffer>>
      /\ earlier' = earlier
  BY DEF Serve, client
<1>2. /\ CallControl' /\ PurgeControl' /\ FlushWhole' /\ Own'
      /\ Pending' = Pending /\ Counted' = Counted /\ pc' = pc
      /\ op' = op /\ nextId' = nextId
  BY <1>1, Outside DEF OrderInv
<1>3. /\ toServer \in Seq(Chunk) /\ toClient \in Seq(Line) /\ c \in Chunk
      /\ parsing \in Ids \cup {Quit} /\ executed \in Seq(Ids)
  <2>1. toServer \in Seq(Chunk) /\ toClient \in Seq(Line)
    BY StagesTyped
  <2>2. c \in Chunk
    BY <1>1, <2>1, HeadTailProperties
  <2> QED
    BY <2>1, <2>2 DEF IndInv, TypeOK
<1>4. /\ Cmds(w) \subseteq Cmds(toServer) /\ CmdsUp(w)
      /\ IsCmd(c) => c.id \in Cmds(toServer) /\ Before({c.id}, Cmds(w))
  <2>1. CmdsUp(toServer)
    BY DEF OrderInv, InOrder
  <2> QED
    BY <1>1, <1>3, <2>1, CmdsTail
<1>5. /\ Lines(read_buffer)' = Lines(read_buffer) /\ LinesUp(read_buffer)'
      /\ Cmds(toServer)' = Cmds(w) /\ CmdsUp(toServer)'
      /\ Cmds(Pending)' = Cmds(Pending) /\ CmdsUp(Pending)'
      /\ Cmds(op.todo)' = Cmds(op.todo) /\ CmdsUp(op.todo)'
  <2>1. /\ Lines(read_buffer)' = Lines(read_buffer)
        /\ LinesUp(read_buffer)' = LinesUp(read_buffer)
    BY <1>1, Zenon DEF Lines, LinesUp
  <2>2. /\ Cmds(toServer)' = Cmds(w) /\ CmdsUp(toServer)' = CmdsUp(w)
        /\ Cmds(Pending)' = Cmds(Pending) /\ CmdsUp(Pending)' = CmdsUp(Pending)
        /\ Cmds(op.todo)' = Cmds(op.todo) /\ CmdsUp(op.todo)' = CmdsUp(op.todo)
    BY <1>1, <1>2, Zenon DEF Cmds, CmdsUp
  <2> QED
    BY <1>4, <2>1, <2>2 DEF OrderInv, InOrder
<1>6. ASSUME NEW B, NEW C, NEW G,
             B = Lines(toClient)', C = Parsing', G = Past',
             LinesUp(toClient)', Up(executed)',
             B \subseteq Lines(toClient) \cup Parsing,
             G \subseteq Past \cup Parsing,
             \/ C = {}
             \/ C \subseteq Cmds(toServer) /\ Before(C, Cmds(w))
                /\ B = Lines(toClient) /\ G = Past
      PROVE  InOrder' /\ InStep'
  <2>1. Stages(Lines(read_buffer), B, C, Cmds(w), Cmds(Pending), Cmds(op.todo),
               G, nextId)
    <3> PICK A : A = Lines(read_buffer)
      OBVIOUS
    <3> PICK E : E = Cmds(Pending)
      OBVIOUS
    <3> PICK F : F = Cmds(op.todo)
      OBVIOUS
    <3>1. Stages(A, Lines(toClient), Parsing, Cmds(toServer), E, F, Past, nextId)
      BY DEF OrderInv, InOrder
    <3>2. CASE C = {}
      BY <1>4, <1>6, <3>1, <3>2 DEF Stages, Chain, Before
    <3>3. CASE /\ C \subseteq Cmds(toServer) /\ Before(C, Cmds(w))
               /\ B = Lines(toClient) /\ G = Past
      BY <1>4, <3>1, <3>3 DEF Stages, Chain, Before
    <3> QED
      BY <1>6, <3>2, <3>3
  <2>2. InOrder'
    BY <1>2, <1>5, <1>6, <2>1, Zenon DEF InOrder
  <2>3. UnderWay' \subseteq UnderWay
    BY <1>4, <1>5, <1>6 DEF UnderWay, Unanswered
  <2> QED
    BY <1>1, <1>2, <2>2, <2>3, StillInStep DEF OrderInv
<1>7. LinesUp(toClient) /\ Up(executed)
  BY DEF OrderInv, InOrder
<1>8. CASE /\ parsing = Quit /\ parsing' = parsing
           /\ UNCHANGED <<toClient, executed>>
  <2>1. /\ Lines(toClient)' = Lines(toClient)
        /\ LinesUp(toClient)' = LinesUp(toClient)
        /\ Parsing' = {} /\ Past' = Past /\ Up(executed)' = Up(executed)
    BY <1>1, <1>8, PastKeeps, Zenon DEF Lines, LinesUp, Parsing, Up
  <2>2. InOrder' /\ InStep'
    BY <1>6, <1>7, <2>1
  <2> QED
    BY <1>2, <2>2 DEF OrderInv
<1>9. CASE /\ parsing = Quit /\ c # QuitChunk /\ c.part = "cmd"
           /\ parsing' = c.id /\ UNCHANGED <<toClient, executed>>
  <2>1. IsCmd(c)
    BY <1>3, <1>9 DEF IsCmd, Chunk, QuitChunk
  <2>2. /\ Lines(toClient)' = Lines(toClient)
        /\ LinesUp(toClient)' = LinesUp(toClient)
        /\ Past' = Past /\ Up(executed)' = Up(executed)
    BY <1>1, <1>9, PastKeeps, Zenon DEF Lines, LinesUp, Up
  <2>3. Parsing' = {c.id} /\ Parsing = {}
    BY <1>9, <2>1 DEF IsCmd, Parsing
  <2>4. InOrder' /\ InStep'
    BY <1>4, <1>6, <1>7, <2>1, <2>2, <2>3
  <2> QED
    BY <1>2, <2>4 DEF OrderInv
<1>10. CASE parsing # Quit /\ executed' = Append(executed, parsing)
            /\ toClient' = Append(toClient, parsing) /\ parsing' = Quit
  <2>1. parsing \in Ids /\ Parsing = {parsing} /\ Parsing' = {}
    BY <1>3, <1>10 DEF Parsing
  <2>2. parsing \in Line /\ parsing # ERROR /\ LineId(parsing) = parsing
    BY <2>1, StoredId DEF Line, Ids, ERROR
  <2>3. /\ Lines(toClient)' \subseteq Lines(toClient) \cup Parsing
        /\ LinesUp(toClient)'
    BY <1>3, <1>7, <1>10, <2>1, <2>2, AnswerAppended
    DEF OrderInv, InOrder, Stages, Chain, Before
  <2>4. Past' \subseteq Past \cup Parsing /\ Up(executed)'
    <3>1. Before(Done, {parsing})
      BY <2>1 DEF OrderInv, InOrder, Stages, Before, Past
    <3>2. Done' \subseteq Done \cup {parsing} /\ Up(executed)'
      BY <1>3, <1>7, <1>10, <2>1, <3>1, ExecutedAppended
    <3>3. Elder' = Elder
      BY <1>1 DEF Elder
    <3> QED
      BY <2>1, <3>2, <3>3 DEF Past
  <2>5. InOrder' /\ InStep'
    BY <1>6, <2>1, <2>3, <2>4
  <2> QED
    BY <1>2, <2>5 DEF OrderInv
<1>11. CASE parsing # Quit /\ executed' = executed
            /\ toClient' = Append(toClient, Refused(parsing)) /\ parsing' = Quit
  <2>1. parsing \in Ids /\ Parsing = {parsing} /\ Parsing' = {}
    BY <1>3, <1>11 DEF Parsing
  <2>2. /\ Refused(parsing) \in Line /\ Refused(parsing) # ERROR
        /\ LineId(Refused(parsing)) = parsing
    BY <2>1 DEF Line, Ids, ERROR, Refused, LineId
  <2>3. /\ Lines(toClient)' \subseteq Lines(toClient) \cup Parsing
        /\ LinesUp(toClient)'
    BY <1>3, <1>7, <1>11, <2>1, <2>2, AnswerAppended
    DEF OrderInv, InOrder, Stages, Chain, Before
  <2>4. Past' = Past /\ Up(executed)' = Up(executed)
    BY <1>1, <1>11, PastKeeps, Zenon DEF Up
  <2>5. InOrder' /\ InStep'
    BY <1>6, <1>7, <2>1, <2>3, <2>4
  <2> QED
    BY <1>2, <2>5 DEF OrderInv
<1>12. CASE executed' = executed /\ toClient' = Append(toClient, ERROR)
            /\ parsing' = Quit
  <2>1. Parsing' = {}
    BY <1>12 DEF Parsing
  <2>2. Lines(toClient)' \subseteq Lines(toClient) /\ LinesUp(toClient)'
    BY <1>3, <1>7, <1>12, AnswerAppended DEF Line
  <2>3. Past' = Past /\ Up(executed)' = Up(executed)
    BY <1>1, <1>12, PastKeeps, Zenon DEF Up
  <2>4. InOrder' /\ InStep'
    BY <1>6, <1>7, <2>1, <2>2, <2>3
  <2> QED
    BY <1>2, <2>4 DEF OrderInv
<1> QED
  BY <1>8, <1>9, <1>10, <1>11, <1>12 DEF Serve

-----------------------------------------------------------------------------
(* The steps of the application's calls.                                   *)

\* _io_write copies a chunk into the buffer.
LEMMA WriteChunkOrder ==
    ASSUME IndInv, OrderInv, WriteChunk PROVE OrderInv'
<1> PICK c : c = Head(op.todo)
  OBVIOUS
<1> PICK w : w = Tail(op.todo)
  OBVIOUS
<1>1. /\ pc = "write" /\ pc' = pc /\ stack = <<>> /\ op.todo # <<>>
      /\ write_buffer' = Append(write_buffer, c)
      /\ op' = [op EXCEPT !.todo = w]
      /\ stack' \in {<<>>, <<Frame("flush")>>}
      /\ fd' = fd /\ cursor_active' = cursor_active
      /\ read_buffer' = read_buffer /\ toClient' = toClient
      /\ toServer' = toServer /\ parsing' = parsing /\ executed' = executed
      /\ earlier' = earlier
      /\ nextId' = nextId /\ last' = last
  BY DEF WriteChunk, Writing, net, server
<1>2. op'.todo = w /\ op'.id = op.id /\ op'.kind = op.kind
  BY <1>1 DEF IndInv, TypeOK, Calls
<1>3. PurgeControl' /\ ~At("send")' /\ ~At("send")
  BY <1>1, NoPurge DEF At
<1>4. /\ write_buffer \in Seq(Chunk) /\ op.todo \in Seq(Chunk) /\ c \in Chunk
      /\ w \in Seq(Chunk)
      /\ Pending = write_buffer /\ Pending' = Append(write_buffer, c)
  <2>1. write_buffer \in Seq(Chunk) /\ op.todo \in Seq(Chunk)
    BY StagesTyped DEF IndInv, TypeOK
  <2>2. c \in Chunk /\ w \in Seq(Chunk)
    BY <1>1, <2>1, HeadTailProperties
  <2> QED
    BY <1>1, <1>3, <2>1, <2>2 DEF Pending
<1>5. CmdsUp(write_buffer) /\ CmdsUp(op.todo)
  BY <1>4 DEF OrderInv, InOrder
<1>6. /\ Cmds(w) = {} /\ CmdsUp(w)
      /\ IsCmd(c) => c.id \in Cmds(op.todo)
  <2>1. Cmds(w) = {}
    BY <1>1 DEF OrderInv, CallControl
  <2> QED
    BY <1>1, <1>4, <1>5, <2>1, CmdsTail
<1>7. /\ Cmds(Pending)' \subseteq
            Cmds(Pending) \cup (IF IsCmd(c) THEN {c.id} ELSE {})
      /\ CmdsUp(Pending)'
  <2>1. IsCmd(c) => Before(Cmds(write_buffer), {c.id})
    BY <1>4, <1>6 DEF OrderInv, InOrder, Stages, Chain, Before
  <2> PICK s : s = Append(write_buffer, c)
    OBVIOUS
  <2>2. /\ Cmds(s) \subseteq
              Cmds(write_buffer) \cup (IF IsCmd(c) THEN {c.id} ELSE {})
        /\ CmdsUp(s)
    BY <1>4, <1>5, <2>1, CmdsAppend
  <2>3. Cmds(Pending)' = Cmds(s) /\ CmdsUp(Pending)' = CmdsUp(s)
    BY <1>4, Zenon DEF Cmds, CmdsUp
  <2> QED
    BY <1>4, <2>2, <2>3
<1>8. /\ Lines(read_buffer)' = Lines(read_buffer)
      /\ LinesUp(read_buffer)' = LinesUp(read_buffer)
      /\ Lines(toClient)' = Lines(toClient)
      /\ LinesUp(toClient)' = LinesUp(toClient)
      /\ Cmds(toServer)' = Cmds(toServer) /\ CmdsUp(toServer)' = CmdsUp(toServer)
      /\ Cmds(op.todo)' = Cmds(w) /\ CmdsUp(op.todo)' = CmdsUp(w)
      /\ Parsing' = Parsing /\ Past' = Past /\ Up(executed)' = Up(executed)
  BY <1>1, <1>2, PastKeeps, Zenon
  DEF Lines, LinesUp, Cmds, CmdsUp, Parsing, Up
<1>9. InOrder'
  <2> PICK E : E = Cmds(Pending)'
    OBVIOUS
  <2>1. E \subseteq Cmds(Pending) \cup Cmds(op.todo)
    BY <1>6, <1>7
  <2>2. Stages(Lines(read_buffer), Lines(toClient), Parsing, Cmds(toServer), E,
               {}, Past, nextId)
    BY <2>1 DEF OrderInv, InOrder, Stages, Chain, Before
  <2> QED
    BY <1>1, <1>6, <1>7, <1>8, <2>2 DEF OrderInv, InOrder
<1>10. Counted' = Counted /\ (Counting' <=> Counting)
  BY <1>1, <1>2 DEF Counted, Counting
<1>11. InStep'
  <2>1. Unanswered' \subseteq Unanswered /\ UnderWay' \subseteq UnderWay
    BY <1>6, <1>7, <1>8 DEF UnderWay, Unanswered
  <2> QED
    BY <1>1, <1>10, <2>1 DEF OrderInv, InStep
<1>12. CallControl'
  <2>1. w # <<>> => Cmds(Tail(w)) = {}
    <3>1. w # <<>> => Cmds(Tail(w)) \subseteq Cmds(w)
      BY <1>4, CmdsTail
    <3> QED
      BY <1>6, <3>1
  <2>2. op'.todo # <<>> => Cmds(Tail(op.todo))' = {}
    BY <1>2, <2>1, Zenon DEF Cmds
  <2> QED
    BY <1>1, <1>2, <1>6, <1>8, <1>10, <2>2 DEF OrderInv, CallControl
<1>13. FlushWhole' /\ Own'
  BY <1>1, <1>3 DEF FlushWhole, OrderInv, Own
<1> QED
  BY <1>3, <1>9, <1>11, <1>12, <1>13 DEF OrderInv

\* A call ends or goes on to the next part, and its request is counted.
LEMMA Told ==
    ASSUME IndInv, OrderInv, NEW d \in 0..1, NEW e \in 0..1, e <= d,
           UNCHANGED <<fd, read_buffer, net, parsing, executed, earlier,
                       nextId>>,
           Pending' = Pending, op'.todo \in {op.todo, <<>>},
           cursor_active' = cursor_active + d, Counted \in Nat,
           Counted' = Counted + e,
           d = e \/ pc' = "quit", pc # "quit"
    PROVE  InOrder' /\ InStep'
<1>1. /\ toServer' = toServer /\ toClient' = toClient
  BY DEF net
<1>2. /\ Lines(read_buffer)' = Lines(read_buffer)
      /\ LinesUp(read_buffer)' = LinesUp(read_buffer)
      /\ Lines(toClient)' = Lines(toClient)
      /\ LinesUp(toClient)' = LinesUp(toClient)
      /\ Cmds(toServer)' = Cmds(toServer) /\ CmdsUp(toServer)' = CmdsUp(toServer)
      /\ Cmds(Pending)' = Cmds(Pending) /\ CmdsUp(Pending)' = CmdsUp(Pending)
      /\ Parsing' = Parsing /\ Past' = Past /\ Up(executed)' = Up(executed)
  BY <1>1, PastKeeps, Zenon DEF Lines, LinesUp, Cmds, CmdsUp, Parsing, Up
<1>3. Cmds(op.todo)' \subseteq Cmds(op.todo) /\ CmdsUp(op.todo)'
  BY Nothing DEF OrderInv, InOrder, Cmds, CmdsUp
<1>4. InOrder'
  <2> PICK F : F = Cmds(op.todo)'
    OBVIOUS
  <2>1. Stages(Lines(read_buffer), Lines(toClient), Parsing, Cmds(toServer),
               Cmds(Pending), F, Past, nextId)
    BY <1>3 DEF OrderInv, InOrder, Stages, Chain, Before
  <2> QED
    BY <1>2, <1>3, <2>1 DEF OrderInv, InOrder
<1>5. Unanswered' \subseteq Unanswered /\ UnderWay' \subseteq UnderWay
  BY <1>2, <1>3 DEF UnderWay, Unanswered
<1>6. UnderWay \subseteq Nat /\ cursor_active \in Nat
  BY StagesTyped DEF UnderWay, Unanswered
<1>7. ASSUME NEW x \in UnderWay' PROVE Counted' - x <= cursor_active'
  <2>1. x \in Nat /\ Counted - x <= cursor_active
    BY <1>5, <1>6 DEF OrderInv, InStep
  <2> QED
    BY <1>6, <2>1
<1>8. cursor_active' < Counted' + (IF pc' = "quit" THEN 1 ELSE 0)
  <2>1. cursor_active < Counted
    BY <1>6 DEF OrderInv, InStep
  <2>2. CASE pc' = "quit"
    BY <1>6, <2>1, <2>2
  <2>3. CASE pc' # "quit"
    BY <1>6, <2>1, <2>3
  <2> QED
    BY <2>2, <2>3
<1> QED
  BY <1>1, <1>4, <1>5, <1>7, <1>8 DEF OrderInv, InStep

\* The end of memcached_vdo.
LEMMA WriteDoneOrder ==
    ASSUME IndInv, OrderInv, WriteDone PROVE OrderInv'
<1>1. /\ pc = "write" /\ stack = <<>> /\ op.todo = <<>> /\ fd' = fd
      /\ write_buffer' = write_buffer /\ ~At("send") /\ Pending = write_buffer
      /\ UNCHANGED <<fd, read_buffer, net, parsing, executed, earlier,
                     nextId>>
  BY DEF WriteDone, Writing, At, Pending, server
<1>2. /\ cursor_active \in Nat /\ nextId \in Nat
      /\ cursor_active < nextId /\ Increment(cursor_active) = cursor_active + 1
      /\ Counting => Counted = nextId - 1 /\ op.id \in Ids
      /\ ~Counting => Counted = nextId
  <2>1. /\ cursor_active \in Nat /\ nextId \in 1..(MaxOps + 1)
        /\ MaxOps \in Nat /\ CursorMod \in Nat /\ CursorMod > MaxOps + 2
    BY ConnectionAssumption, StagesTyped DEF IndInv, TypeOK
  <2>2. /\ Counting => Counted = nextId - 1 /\ op.id \in Ids
        /\ ~Counting => Counted = nextId
    BY DEF Counted, OrderInv, CallControl
  <2>3. cursor_active < Counted
    BY <1>1, <2>1, <2>2 DEF OrderInv, InStep
  <2>4. cursor_active < nextId
    BY <2>1, <2>2, <2>3
  <2>5. cursor_active \in 0..(CursorMod - 2)
    BY <2>1, <2>4
  <2>6. Increment(cursor_active) = cursor_active + 1
    BY <2>5, CursorSteps
  <2> QED
    BY <2>1, <2>2, <2>4, <2>6
<1>3. NoOp.todo = <<>> /\ NoOp.id = Quit
  BY DEF NoOp
<1>4. CASE op.kind = "set" /\ Idle("BUFFERED", ERROR)
  <2>1. Counting /\ ~Counting' /\ stack' = <<>> /\ pc' = "idle"
        /\ op'.todo = <<>> /\ op'.id = Quit /\ last'.rc = "BUFFERED"
    BY <1>1, <1>3, <1>4 DEF Counting, Idle
  <2>2. PurgeControl' /\ ~At("send")'
    BY <2>1, NoPurge
  <2>3. Pending' = Pending /\ FlushWhole'
    BY <1>1, <2>2 DEF Pending, FlushWhole
  <2>4. /\ cursor_active' = cursor_active + 1
        /\ Counted' = Counted + 1 /\ Counted \in Nat
    <3>1. Counted' = nextId /\ Counted = nextId - 1 /\ nextId \in Nat \ {0}
      BY <1>1, <1>2, <2>1, StagesTyped DEF Counted
    <3> QED
      BY <1>2, <1>4, <3>1 DEF WriteDone
  <2>5. InOrder' /\ InStep'
    BY <1>1, <2>1, <2>3, <2>4, Told
  <2>6. CallControl' /\ Own'
    BY <2>1 DEF CallControl, Own
  <2> QED
    BY <2>2, <2>3, <2>5, <2>6 DEF OrderInv
<1>5. CASE op.kind = "flush" /\ Idle("SUCCESS", Quit)
  <2>1. ~Counting /\ ~Counting' /\ stack' = <<>> /\ pc' = "idle"
        /\ op'.todo = <<>> /\ op'.id = Quit /\ last'.id = op.id
    BY <1>1, <1>3, <1>5 DEF Counting, Idle
  <2>2. PurgeControl' /\ ~At("send")'
    BY <2>1, NoPurge
  <2>3. Pending' = Pending /\ FlushWhole'
    BY <1>1, <2>2 DEF Pending, FlushWhole
  <2>4. /\ cursor_active' = cursor_active + 0
        /\ Counted' = Counted + 0 /\ Counted \in Nat
    BY <1>1, <1>2, <1>5, <2>1 DEF WriteDone, Counted
  <2>5. InOrder' /\ InStep'
    BY <1>1, <2>1, <2>3, <2>4, Told
  <2>6. CallControl'
    BY <2>1 DEF CallControl
  <2>7. Own'
    BY <1>5, <2>1 DEF OrderInv, CallControl, Own
  <2> QED
    BY <2>2, <2>3, <2>5, <2>6, <2>7 DEF OrderInv
<1>6. CASE op.kind = "sync" /\ pc' = "answer" /\ stack' = <<Frame("flush")>>
           /\ UNCHANGED <<op, ret, last>>
  <2>1. Counting /\ ~Counting'
    BY <1>1, <1>6 DEF Counting
  <2>2. PurgeControl' /\ ~At("send")'
    BY <1>6, NoPurge
  <2>3. Pending' = Pending /\ FlushWhole'
    BY <1>1, <2>2 DEF Pending, FlushWhole
  <2>4. /\ cursor_active' = cursor_active + 1
        /\ Counted' = Counted + 1 /\ Counted \in Nat
    <3>1. Counted' = nextId /\ Counted = nextId - 1 /\ nextId \in Nat \ {0}
      BY <1>1, <1>2, <2>1, StagesTyped DEF Counted
    <3> QED
      BY <1>2, <1>6, <3>1 DEF WriteDone
  <2>5. InOrder' /\ InStep'
    BY <1>1, <1>6, <2>3, <2>4, Told
  <2>6. CallControl'
    <3>1. cursor_active' > 0
      BY <1>2, <2>4
    <3>2. Cmds(op.todo)' = {} /\ op.id \in Ids /\ op.id = nextId - 1
      BY <1>1, <1>6, <2>1, Nothing DEF OrderInv, CallControl, Cmds
    <3> QED
      BY <1>1, <1>6, <2>1, <3>1, <3>2 DEF CallControl
  <2>7. Own'
    BY <1>6 DEF OrderInv, Own
  <2> QED
    BY <2>2, <2>3, <2>5, <2>6, <2>7 DEF OrderInv
<1>7. CASE op.kind = "quit" /\ pc' = "quit" /\ UNCHANGED <<op, stack, ret, last>>
  <2>1. ~Counting /\ ~Counting' /\ stack' = <<>>
    BY <1>1, <1>7 DEF Counting
  <2>2. PurgeControl' /\ ~At("send")'
    BY <2>1, NoPurge
  <2>3. Pending' = Pending /\ FlushWhole'
    BY <1>1, <2>2 DEF Pending, FlushWhole
  <2>4. /\ cursor_active' = cursor_active + 1
        /\ Counted' = Counted + 0 /\ Counted \in Nat
    BY <1>1, <1>2, <1>7, <2>1 DEF WriteDone, Counted
  <2>5. InOrder' /\ InStep'
    BY <1>1, <1>7, <2>3, <2>4, Told
  <2>6. CallControl' /\ Own'
    BY <1>1, <1>7, <2>1 DEF OrderInv, CallControl, Own
  <2> QED
    BY <2>2, <2>3, <2>5, <2>6 DEF OrderInv
<1> QED
  BY <1>4, <1>5, <1>6, <1>7 DEF WriteDone

\* What was written could not be sent.
LEMMA WriteFailedOrder ==
    ASSUME IndInv, IndInv', OrderInv, WriteFailed PROVE OrderInv'
<1>1. CASE op.kind \in {"set", "sync"}
  BY <1>1, GiveUpOrder DEF WriteFailed
<1>2. ASSUME op.kind \in {"flush", "quit"}, pc' \in {"idle", "quit"},
             op' \in {op, NoOp}, stack' = <<>>, Own',
             UNCHANGED <<client, net, peer, parsing, earlier>>
      PROVE  OrderInv'
  <2>1. /\ pc = "write" /\ stack = <<>> /\ ~At("send") /\ executed' = executed
        /\ earlier' = earlier
        /\ fd' = fd /\ cursor_active' = cursor_active /\ nextId' = nextId
        /\ read_buffer' = read_buffer /\ write_buffer' = write_buffer
    BY <1>2 DEF WriteFailed, Writing, At, client
  <2>2. PurgeControl' /\ ~At("send")'
    BY <1>2, NoPurge
  <2>3. Pending' = Pending /\ FlushWhole'
    BY <2>1, <2>2 DEF Pending, FlushWhole
  <2>4. op.id = Quit
    BY <1>2 DEF OrderInv, CallControl
  <2>5. op'.todo \in {op.todo, <<>>} /\ op'.id = Quit
    BY <1>2, <2>4 DEF NoOp
  <2>6. /\ cursor_active' = cursor_active + 0 /\ Counted \in Nat
        /\ Counted' = Counted + 0
    BY <1>2, <2>1, StagesTyped DEF Counted, Counting
  <2>7. InOrder' /\ InStep'
    BY <1>2, <2>1, <2>3, <2>5, <2>6, Told
  <2>8. CallControl'
    <3>1. op'.todo # <<>> => Cmds(Tail(op.todo))' = {}
      BY <1>2, <2>5 DEF OrderInv, CallControl, NoOp, Cmds
    <3> QED
      BY <1>2, <2>5, <3>1 DEF CallControl, Counting
  <2> QED
    BY <1>2, <2>2, <2>3, <2>7, <2>8 DEF OrderInv
<1>3. CASE op.kind = "flush"
  <2>1. /\ pc' = "idle" /\ op' = NoOp /\ stack' = <<>> /\ last'.rc = "ERROR"
        /\ UNCHANGED <<client, net, peer, parsing, earlier>>
    BY <1>3 DEF WriteFailed, Idle
  <2>2. Own'
    BY <2>1 DEF Own
  <2> QED
    BY <1>2, <1>3, <2>1, <2>2
<1>4. CASE op.kind = "quit"
  <2>1. /\ pc' = "quit" /\ op' = op /\ stack' = <<>> /\ last' = last
        /\ UNCHANGED <<client, net, peer, parsing, earlier>>
    BY <1>4 DEF WriteFailed, Writing
  <2>2. Own'
    BY <2>1 DEF OrderInv, Own
  <2> QED
    BY <1>2, <1>4, <2>1, <2>2
<1> QED
  BY <1>1, <1>3, <1>4 DEF WriteFailed

\* A call begins on an open connection.
LEMMA Started ==
    ASSUME IndInv, OrderInv, pc = "idle", fd' = TRUE, pc' = "write",
           UNCHANGED <<stack, cursor_active, write_buffer, read_buffer,
                       toServer, toClient, parsing, executed, earlier>>,
           Own', CmdsUp(op.todo)',
           op'.todo # <<>> => Cmds(Tail(op.todo))' = {},
           \/ /\ op'.kind \in {"flush", "quit"} /\ op'.id = Quit
              /\ Cmds(op.todo)' = {} /\ nextId' = nextId
           \/ /\ op'.kind \in {"set", "sync"} /\ op'.id = nextId
              /\ nextId \in Ids /\ Cmds(op.todo)' = {nextId}
              /\ nextId' = nextId + 1
    PROVE  OrderInv'
<1>1. stack = <<>> /\ stack' = <<>>
  BY DEF OrderInv, CallControl
<1>2. PurgeControl' /\ ~At("send")' /\ ~At("send")
  BY <1>1, NoPurge DEF At
<1>3. Pending' = Pending /\ FlushWhole'
  BY <1>2 DEF Pending, FlushWhole
<1>4. /\ Lines(read_buffer)' = Lines(read_buffer)
      /\ LinesUp(read_buffer)' = LinesUp(read_buffer)
      /\ Lines(toClient)' = Lines(toClient)
      /\ LinesUp(toClient)' = LinesUp(toClient)
      /\ Cmds(toServer)' = Cmds(toServer) /\ CmdsUp(toServer)' = CmdsUp(toServer)
      /\ Cmds(Pending)' = Cmds(Pending) /\ CmdsUp(Pending)' = CmdsUp(Pending)
      /\ Parsing' = Parsing /\ Past' = Past /\ Up(executed)' = Up(executed)
  BY <1>3, PastKeeps, Zenon DEF Lines, LinesUp, Cmds, CmdsUp, Parsing, Up
<1>5. nextId \in Nat \ {0} /\ cursor_active \in Nat
  BY StagesTyped
<1>6. Cmds(op.todo)' \subseteq {nextId} /\ nextId' \in {nextId, nextId + 1}
      /\ (Cmds(op.todo)' # {} => nextId' = nextId + 1)
  OBVIOUS
<1>7. InOrder'
  <2> PICK F : F = Cmds(op.todo)'
    OBVIOUS
  <2> PICK X : X = Lines(read_buffer) \cup Lines(toClient) \cup Parsing
                     \cup Cmds(toServer) \cup Cmds(Pending) \cup Past
    OBVIOUS
  <2>1. X \subseteq Nat /\ Before(X, {nextId})
    <3>1. X \subseteq Nat
      BY StagesTyped
    <3>2. Before(X, {nextId})
      BY DEF OrderInv, InOrder, Stages, Before
    <3> QED
      BY <3>1, <3>2
  <2>2. Before(X, F) /\ Before(X \cup F, {nextId'})
    BY <1>5, <1>6, <2>1 DEF Before
  <2>3. Stages(Lines(read_buffer), Lines(toClient), Parsing, Cmds(toServer),
               Cmds(Pending), F, Past, nextId')
    BY <2>2 DEF OrderInv, InOrder, Stages, Chain, Before
  <2> QED
    BY <1>4, <2>3 DEF OrderInv, InOrder
<1>8. Counted' = nextId /\ Counted = nextId
  BY DEF Counted, Counting
<1>9. InStep'
  <2>1. UnderWay' \subseteq UnderWay \cup {nextId}
    BY <1>4, <1>6 DEF UnderWay, Unanswered
  <2>2. \A x \in UnderWay' : Counted' - x <= cursor_active'
    BY <1>5, <1>8, <2>1 DEF OrderInv, InStep
  <2>3. cursor_active < nextId
    BY <1>5, <1>8 DEF OrderInv, InStep
  <2> QED
    BY <1>5, <1>8, <2>2, <2>3 DEF InStep
<1>10. CallControl'
  <2>1. Counting' => op'.id \in Ids /\ op'.id = nextId' - 1
    BY <1>5 DEF Counting
  <2> QED
    BY <1>1, <2>1 DEF CallControl
<1> QED
  BY <1>2, <1>3, <1>7, <1>9, <1>10 DEF OrderInv

\* A call finds no server to connect to.
LEMMA NotStarted ==
    ASSUME IndInv, OrderInv, pc = "idle", ~fd, fd' = fd, nextId' \in Nat,
           nextId' >= nextId, Own',
           UNCHANGED <<stack, cursor_active, write_buffer, read_buffer,
                       toServer, toClient, parsing, executed, earlier, pc,
                       op, ret>>
    PROVE  OrderInv'
<1>1. stack = <<>> /\ stack' = <<>>
  BY DEF OrderInv, CallControl
<1>2. PurgeControl' /\ ~At("send")' /\ ~At("send")
  BY <1>1, NoPurge DEF At
<1>3. Pending' = Pending /\ FlushWhole'
  BY <1>2 DEF Pending, FlushWhole
<1>4. /\ Lines(read_buffer)' = Lines(read_buffer)
      /\ LinesUp(read_buffer)' = LinesUp(read_buffer)
      /\ Lines(toClient)' = Lines(toClient)
      /\ LinesUp(toClient)' = LinesUp(toClient)
      /\ Cmds(toServer)' = Cmds(toServer) /\ CmdsUp(toServer)' = CmdsUp(toServer)
      /\ Cmds(Pending)' = Cmds(Pending) /\ CmdsUp(Pending)' = CmdsUp(Pending)
      /\ Cmds(op.todo)' = Cmds(op.todo) /\ CmdsUp(op.todo)' = CmdsUp(op.todo)
      /\ Parsing' = Parsing /\ Past' = Past /\ Up(executed)' = Up(executed)
  BY <1>3, PastKeeps, Zenon DEF Lines, LinesUp, Cmds, CmdsUp, Parsing, Up
<1>5. nextId \in Nat \ {0} /\ cursor_active \in Nat
  BY StagesTyped
<1>6. InOrder'
  <2> PICK X : X = Lines(read_buffer) \cup Lines(toClient) \cup Parsing
                     \cup Cmds(toServer) \cup Cmds(Pending) \cup Cmds(op.todo)
                     \cup Past
    OBVIOUS
  <2>1. X \subseteq Nat
    BY StagesTyped
  <2>2. Before(X, {nextId})
    BY DEF OrderInv, InOrder, Stages, Before
  <2>3. Before(X, {nextId'})
    BY <1>5, <2>1, <2>2 DEF Before
  <2>4. Stages(Lines(read_buffer), Lines(toClient), Parsing, Cmds(toServer),
               Cmds(Pending), Cmds(op.todo), Past, nextId')
    BY <2>3 DEF OrderInv, InOrder, Stages
  <2> QED
    BY <1>4, <2>4, Zenon DEF OrderInv, InOrder
<1>7. InStep'
  <2>1. /\ Unanswered' = Unanswered /\ UnderWay' = UnderWay
    BY <1>4, Zenon DEF UnderWay, Unanswered
  <2>2. UnderWay = {} /\ Unanswered = {}
    BY Nothing DEF OrderInv, InStep, UnderWay
  <2>3. Counted = nextId /\ Counted' = nextId'
    BY DEF Counted, Counting
  <2>4. cursor_active < nextId
    BY <1>5, <2>3 DEF OrderInv, InStep
  <2>5. cursor_active' < nextId'
    BY <1>5, <2>4
  <2>6. \A x \in UnderWay' : Counted' - x <= cursor_active'
    BY <2>1, <2>2
  <2>7. cursor_active' < Counted' + (IF pc' = "quit" THEN 1 ELSE 0)
    <3>1. pc' # "quit"
      OBVIOUS
    <3>2. nextId' + 0 = nextId'
      <4>1. \A n \in Nat : n + 0 = n
        OBVIOUS
      <4> QED
        BY <4>1
    <3> QED
      BY <2>3, <2>5, <3>1, <3>2
  <2>8. /\ read_buffer' = <<>> /\ toClient' = <<>> /\ toServer' = <<>>
        /\ Unanswered' = {}
    BY <2>1, <2>2 DEF OrderInv, InStep
  <2> QED
    BY <2>6, <2>7, <2>8 DEF InStep
<1>8. CallControl'
  <2>1. ~Counting' /\ pc' = "idle" /\ op' = op
    BY DEF Counting
  <2>2. op'.todo # <<>> => Cmds(Tail(op.todo))' = {}
    BY <2>1 DEF OrderInv, CallControl, Cmds
  <2>3. op'.kind \in {"none", "flush", "quit"} => op'.id = Quit
    BY <2>1 DEF OrderInv, CallControl
  <2> QED
    BY <1>1, <2>1, <2>2, <2>3 DEF CallControl
<1> QED
  BY <1>2, <1>3, <1>6, <1>7, <1>8 DEF OrderInv

\* A call of the application.
LEMMA BeginOrder ==
    ASSUME IndInv, OrderInv, NEW kind \in {"set", "sync", "flush"}, Begin(kind)
    PROVE  OrderInv'
<1> PICK id : id = IF kind = "flush" THEN Quit ELSE nextId
  OBVIOUS
<1>1. /\ pc = "idle"
      /\ UNCHANGED <<stack, cursor_active, write_buffer, read_buffer,
                     toServer, toClient, parsing, executed, earlier>>
  BY DEF Begin, net
<1>2. /\ kind = "flush" => nextId' = nextId
      /\ kind # "flush" => nextId \in Ids /\ nextId' = nextId + 1
      /\ nextId \in Nat
  <2>1. nextId \in 1..(MaxOps + 1) /\ MaxOps \in Nat
    BY ConnectionAssumption DEF IndInv, TypeOK
  <2>2. /\ kind = "flush" => nextId' = nextId
        /\ kind # "flush" => nextId <= MaxOps /\ nextId' = nextId + 1
    BY DEF Begin
  <2> QED
    BY <2>1, <2>2 DEF Ids
<1>3. CASE /\ Connected /\ pc' = "write" /\ last' = NoResult
           /\ op' = [kind |-> kind, id |-> id,
                     todo |-> IF kind = "flush" THEN <<>> ELSE Chunks(id),
                     flush |-> kind # "set"]
  <2>1. fd' = TRUE
    BY <1>3 DEF Connected, IndInv, TypeOK
  <2>2. Own'
    BY <1>3 DEF NoResult, Own
  <2>3. CASE kind = "flush"
    <3>1. op'.todo = <<>> /\ op'.id = Quit /\ op'.kind = "flush"
      BY <1>3, <2>3
    <3>2. Cmds(op.todo)' = {} /\ CmdsUp(op.todo)'
      BY <3>1, Nothing, Zenon DEF Cmds, CmdsUp
    <3> QED
      BY <1>1, <1>2, <1>3, <2>1, <2>2, <2>3, <3>1, <3>2, Started
  <2>4. CASE kind # "flush"
    <3>1. /\ op'.todo = Chunks(nextId) /\ op'.id = nextId /\ nextId \in Ids
          /\ op'.kind \in {"set", "sync"}
      BY <1>2, <1>3, <2>4
    <3>2. /\ Cmds(Chunks(nextId)) = {nextId} /\ CmdsUp(Chunks(nextId))
          /\ Cmds(Tail(Chunks(nextId))) = {}
      BY <3>1, OneRequest
    <3>3. /\ Cmds(op.todo)' = Cmds(Chunks(nextId))
          /\ CmdsUp(op.todo)' = CmdsUp(Chunks(nextId))
          /\ Cmds(Tail(op.todo))' = Cmds(Tail(Chunks(nextId)))
      BY <3>1, Zenon DEF Cmds, CmdsUp
    <3> QED
      BY <1>1, <1>2, <1>3, <2>1, <2>2, <2>4, <3>1, <3>2, <3>3, Started
  <2> QED
    BY <2>3, <2>4
<1>4. CASE /\ ConnectFails /\ last' = [id |-> id, rc |-> "ERROR", got |-> ERROR]
           /\ UNCHANGED <<fd, peer, pc, op, ret>>
  <2>1. Own' /\ ~fd
    BY <1>4 DEF Own, ConnectFails, MarkedDead
  <2>2. nextId' \in Nat /\ nextId' >= nextId
    BY <1>2
  <2> QED
    BY <1>1, <1>4, <2>1, <2>2, NotStarted
<1> QED
  BY <1>3, <1>4 DEF Begin

\* memcached_quit.
LEMMA BeginQuitOrder ==
    ASSUME IndInv, IndInv', OrderInv, BeginQuit PROVE OrderInv'
<1>1. pc = "idle" /\ last' = NoResult /\ nextId' = nextId /\ executed' = executed
      /\ stack' = stack
  BY DEF BeginQuit
<1>2. Own'
  BY <1>1 DEF NoResult, Own
<1>3. CASE fd
  <2>1. /\ pc' = "write" /\ UNCHANGED <<client, net, peer, parsing, earlier>>
        /\ op' = [kind |-> "quit", id |-> Quit, todo |-> <<QuitChunk>>,
                  flush |-> TRUE]
    BY <1>3 DEF BeginQuit
  <2>2. op'.todo = <<QuitChunk>> /\ op'.id = Quit /\ op'.kind = "quit"
    BY <2>1
  <2>3. /\ Cmds(op.todo)' = Cmds(<<QuitChunk>>)
        /\ CmdsUp(op.todo)' = CmdsUp(<<QuitChunk>>)
        /\ Cmds(Tail(op.todo))' = Cmds(Tail(<<QuitChunk>>))
    BY <2>2, Zenon DEF Cmds, CmdsUp
  <2>4. Tail(<<QuitChunk>>) = <<>>
    OBVIOUS
  <2>5. /\ Cmds(op.todo)' = {} /\ CmdsUp(op.todo)'
        /\ Cmds(Tail(op.todo))' = {}
    BY <2>3, <2>4, Nothing
  <2>6. /\ fd' = TRUE
        /\ UNCHANGED <<stack, cursor_active, write_buffer, read_buffer,
                       toServer, toClient, parsing, executed, earlier>>
    BY <1>1, <1>3, <2>1 DEF client, net, IndInv, TypeOK
  <2> QED
    BY <1>1, <1>2, <2>1, <2>2, <2>5, <2>6, Started
<1>4. CASE ~fd
  <2>1. CloseServer(failures, 0) /\ Hangup /\ pc' = pc /\ op' = op
    BY <1>4 DEF BeginQuit
  <2>2. Cmds(op.todo) = {}
    BY <1>4 DEF OrderInv, InStep, Unanswered
  <2>3. stack' = <<>>
    BY <1>1 DEF OrderInv, CallControl
  <2>4. PurgeControl' /\ ~At("send")'
    BY <2>3, NoPurge
  <2>5. /\ fd' = FALSE /\ cursor_active' = 0 /\ write_buffer' = <<>>
        /\ read_buffer' = <<>>
    BY <2>1 DEF CloseServer
  <2> QED
    BY <1>1, <1>2, <2>1, <2>2, <2>3, <2>4, <2>5, ClosedOrder
<1> QED
  BY <1>3, <1>4

-----------------------------------------------------------------------------
(* The theorems.                                                           *)

-----------------------------------------------------------------------------
(* The connections given up, and the theorem.                              *)

\* The requests of the connection stay where they are.
LEMMA Unmoved ==
    ASSUME IndInv, OrderInv, executed' = executed,
           UNCHANGED <<control, fd, cursor_active, write_buffer, read_buffer,
                       net, parsing, earlier>>
    PROVE  OrderInv'
<1>1. UNCHANGED <<control, fd, cursor_active, write_buffer>>
  OBVIOUS
<1>2. /\ CallControl' /\ PurgeControl' /\ FlushWhole' /\ Own'
      /\ Pending' = Pending /\ op' = op
  BY <1>1, Outside DEF OrderInv
<1>3. InOrder' /\ InStep'
  BY <1>1, <1>2, Quiet DEF OrderInv, control
<1> QED
  BY <1>2, <1>3 DEF OrderInv

\* What is kept of a connection is in order if all of it was.
LEMMA KeptInOrder ==
    ASSUME NEW c \in Old, NEW e, OldInOrder(c, e), NEW m \in Kept(c)
    PROVE  OldInOrder(m, e)
<1>1. /\ Whole(m) \subseteq Whole(c) /\ Held(m) \subseteq Held(c)
      /\ m.before = c.before /\ m.executed = c.executed
      /\ \/ m.toServer = c.toServer /\ m.parsing = c.parsing
         \/ Held(m) = {}
      /\ m.toServer \in {c.toServer, <<>>}
  BY KeptWhole
<1>2. CmdsUp(m.toServer)
  BY <1>1, Nothing DEF OldInOrder
<1>3. Before(Awaiting(m), Cmds(m.toServer))
  BY <1>1 DEF OldInOrder, Held, Awaiting, Before
<1> QED
  BY <1>1, <1>2, <1>3 DEF OldInOrder, Before

\* The connection in use is given up: what it has is newer than what was
\* executed on it, and than all that is left of the connections before.
LEMMA LeaveEarlier ==
    ASSUME IndInv, InOrder, EarlierInv, Leave, executed' = executed
    PROVE  EarlierInv'
<1> PICK c : c = [toServer |-> IF peer THEN toServer ELSE <<>>,
                  parsing |-> parsing, before |-> Len(executed),
                  executed |-> <<>>]
  OBVIOUS
<1>1. c \in Old /\ earlier' = earlier \cup Kept(c)
  BY LenProperties DEF Leave, IndInv, TypeOK, Old
<1>2. /\ c.toServer \in {toServer, <<>>} /\ Awaiting(c) = Parsing
      /\ Elements(c.executed) = {} /\ c.before = Len(executed)
      /\ Up(c.executed)
  BY DEF Awaiting, Parsing, Elements, Up
<1>3. /\ Cmds(c.toServer) \subseteq Cmds(toServer) /\ CmdsUp(c.toServer)
  BY <1>2, Nothing DEF InOrder
<1>4. Whole(c) \subseteq Parsing \cup Cmds(toServer)
  BY <1>2, <1>3 DEF Whole, Held
<1>5. /\ Before(Past, Parsing \cup Cmds(toServer))
      /\ Before(Parsing, Cmds(toServer))
  BY DEF InOrder, Stages, Chain, Before
<1>6. Len(executed) \in Nat /\ DOMAIN executed = 1..Len(executed)
  BY LenProperties, StagesTyped
<1>7. OldInOrder(c, executed)
  <2>1. \A i \in 1..Len(executed) : executed[i] \in Past
    BY <1>6 DEF Past, Done
  <2>2. \A i \in 1..c.before : Before({executed[i]}, Whole(c))
    BY <1>2, <1>4, <1>5, <2>1 DEF Before
  <2>3. \A i \in (c.before + 1)..Len(executed) : FALSE
    BY <1>2, <1>6
  <2>4. c.before <= Len(executed)
    BY <1>2, <1>6
  <2>5. Before(Awaiting(c), Cmds(c.toServer))
    BY <1>2, <1>3, <1>5 DEF Before
  <2> QED
    BY <1>2, <1>3, <2>2, <2>3, <2>4, <2>5 DEF OldInOrder, Before
<1>8. \A m \in Kept(c) :
         OldInOrder(m, executed) /\ Whole(m) \subseteq Parsing \cup Cmds(toServer)
  BY <1>1, <1>4, <1>7, KeptInOrder, KeptWhole
<1>9. ASSUME NEW d \in earlier, NEW m \in Kept(c)
      PROVE  Whole(d) \cap Whole(m) = {}
  <2>1. Whole(d) \subseteq Past /\ Past \subseteq Nat
    BY StagesTyped DEF Past, Elder
  <2>2. Before(Whole(d), Whole(m)) /\ Whole(d) \subseteq Nat
    BY <1>5, <1>8, <2>1 DEF Before
  <2> QED
    BY <2>2 DEF Before
<1>10. \A m, n \in Kept(c) : m = n
  BY DEF Kept
<1> QED
  BY <1>1, <1>8, <1>9, <1>10 DEF EarlierInv

\* A connection that was given up goes on, as d: what it has is no more than
\* it had.
LEMMA Replaced ==
    ASSUME EarlierInv, NEW c \in earlier, NEW d \in Old, executed' = executed,
           earlier' = (earlier \ {c}) \cup Kept(d),
           OldInOrder(d, executed), Whole(d) \subseteq Whole(c)
    PROVE  EarlierInv' /\ Elder' \subseteq Elder
<1>1. \A m \in Kept(d) :
         OldInOrder(m, executed) /\ Whole(m) \subseteq Whole(c)
  BY KeptInOrder, KeptWhole
<1>2. \A m, n \in Kept(d) : m = n
  BY DEF Kept
<1>3. \A b \in earlier \ {c}, m \in Kept(d) : Whole(b) \cap Whole(m) = {}
  BY <1>1 DEF EarlierInv
<1>4. EarlierInv'
  BY <1>1, <1>2, <1>3 DEF EarlierInv
<1>5. Elder' \subseteq Elder
  BY <1>1 DEF Elder
<1> QED
  BY <1>4, <1>5

\* One more at the end of a sequence of numbers in order.
LEMMA UpAppended ==
    ASSUME NEW s \in Seq(Ids), NEW id \in Ids, Up(s), Before(Elements(s), {id})
    PROVE  /\ Up(Append(s, id))
           /\ Elements(Append(s, id)) \subseteq Elements(s) \cup {id}
<1> PICK t : t = Append(s, id)
  OBVIOUS
<1> PICK n \in Nat : n = Len(s)
  BY LenProperties
<1>1. /\ DOMAIN s = 1..n /\ DOMAIN t = 1..(n + 1)
      /\ \A i \in 1..n : t[i] = s[i]
      /\ t[n + 1] = id
  BY AppendProperties, LenProperties
<1>2. ASSUME NEW i \in DOMAIN t
      PROVE  \/ i \in DOMAIN s /\ t[i] = s[i]
             \/ i = n + 1 /\ t[i] = id
  <2>1. \A j \in 1..(n + 1) : j \in 1..n \/ j = n + 1
    OBVIOUS
  <2> QED
    BY <1>1, <2>1
<1>3. Elements(t) \subseteq Elements(s) \cup {id}
  BY <1>2 DEF Elements
<1>4. ASSUME NEW i \in DOMAIN t, NEW j \in DOMAIN t, i < j PROVE t[i] < t[j]
  <2>1. i \in DOMAIN s /\ t[i] = s[i]
    BY <1>1, <1>2, <1>4
  <2>2. CASE j \in DOMAIN s /\ t[j] = s[j]
    BY <1>4, <2>1, <2>2 DEF Up
  <2>3. CASE t[j] = id
    BY <2>1, <2>3 DEF Elements, Before
  <2> QED
    BY <1>2, <2>2, <2>3
<1> QED
  BY <1>3, <1>4 DEF Up

\* The server takes a chunk of a connection that was given up, or loses them.
LEMMA OldEarlier ==
    ASSUME IndInv, EarlierInv, NEW c \in earlier, ServeOld(c) \/ LoseOld(c)
    PROVE  EarlierInv' /\ Elder' \subseteq Elder
<1>1. c \in Old /\ OldInOrder(c, executed) /\ executed' = executed
  BY DEF IndInv, TypeOK, EarlierInv, ServeOld, LoseOld
<1>2. /\ c.toServer \in Seq(Chunk) /\ c.toServer # <<>>
      /\ c.parsing \in Ids \cup {Quit} /\ c.before \in Nat
      /\ c.executed \in Seq(Ids)
  BY <1>1 DEF Old, ServeOld, LoseOld
<1> PICK h : h = Head(c.toServer)
  OBVIOUS
<1> PICK t : t = Tail(c.toServer)
  OBVIOUS
<1> DEFINE left(id, done) ==
             [toServer |-> t, parsing |-> id, before |-> c.before,
              executed |-> done]
<1>3. h \in Chunk /\ t \in Seq(Chunk)
  BY <1>2, HeadTailProperties
<1>4. /\ Cmds(t) \subseteq Cmds(c.toServer) /\ CmdsUp(t)
      /\ IsCmd(h) => h.id \in Cmds(c.toServer) /\ Before({h.id}, Cmds(t))
  BY <1>1, <1>2, CmdsTail DEF OldInOrder
<1>5. ASSUME NEW id \in Ids \cup {Quit}, NEW done \in Seq(Ids),
             NEW A, A = Awaiting(left(id, done)),
             earlier' = (earlier \ {c}) \cup Kept(left(id, done)),
             A \cup Elements(done) \subseteq Whole(c), Up(done),
             Before(A, Cmds(t)), Before(Elements(done), A \cup Cmds(t))
      PROVE  EarlierInv' /\ Elder' \subseteq Elder
  <2> PICK d : d = left(id, done)
    OBVIOUS
  <2>1. /\ d \in Old /\ d.toServer = t /\ d.parsing = id
        /\ d.before = c.before /\ d.executed = done /\ A = Awaiting(d)
        /\ earlier' = (earlier \ {c}) \cup Kept(d)
    BY <1>2, <1>3, <1>5 DEF Old
  <2>2. Held(d) = A \cup Cmds(t) /\ Whole(d) = A \cup Cmds(t) \cup Elements(done)
    BY <2>1 DEF Held, Whole
  <2>3. Whole(d) \subseteq Whole(c)
    BY <1>4, <1>5, <2>2 DEF Whole, Held
  <2>4. OldInOrder(d, executed)
    <3>1. /\ \A i \in 1..c.before : Before({executed[i]}, Whole(d))
          /\ \A i \in (c.before + 1)..Len(executed) :
                Before(Whole(d), {executed[i]})
      BY <1>1, <2>3 DEF OldInOrder, Before
    <3> QED
      BY <1>1, <1>4, <1>5, <2>1, <2>2, <3>1 DEF OldInOrder
  <2> QED
    BY <1>1, <2>1, <2>3, <2>4, Replaced
<1>6. /\ Before(Awaiting(c), Cmds(t)) /\ Up(c.executed)
      /\ Before(Elements(c.executed), Awaiting(c) \cup Cmds(c.toServer))
      /\ Before(Elements(c.executed), Cmds(t))
  BY <1>1, <1>4 DEF OldInOrder, Held, Before
<1>7. CASE LoseOld(c)
  <2> PICK d : d = Idled(c)
    OBVIOUS
  <2>2. /\ d.toServer = <<>> /\ d.parsing = Quit /\ d \in Old
        /\ d.before = c.before /\ d.executed = c.executed
    <3>1. d = [toServer |-> <<>>, parsing |-> Quit, before |-> c.before,
               executed |-> c.executed]
      BY <1>1 DEF Idled, Old
    <3>2. <<>> \in Seq(Chunk) /\ Quit \in Ids \cup {Quit}
      BY EmptySeq
    <3> QED
      BY <1>2, <3>1, <3>2 DEF Old
  <2>3. Held(d) = {} /\ Awaiting(d) = {} /\ Cmds(d.toServer) = {}
    BY <2>2, Nothing, Zenon DEF Held, Awaiting
  <2>4. Whole(d) \subseteq Whole(c)
    BY <2>2, <2>3 DEF Whole
  <2>5. OldInOrder(d, executed)
    BY <1>1, <2>2, <2>3, <2>4, Nothing DEF OldInOrder, Before
  <2>6. earlier' = (earlier \ {c}) \cup Kept(d)
    BY <1>7 DEF LoseOld
  <2> QED
    BY <1>1, <2>2, <2>4, <2>5, <2>6, Replaced
<1>8. CASE c.parsing = Quit /\ h.part = "cmd"
           /\ earlier' = (earlier \ {c}) \cup Kept(left(h.id, c.executed))
  <2> PICK A : A = Awaiting(left(h.id, c.executed))
    OBVIOUS
  <2>1. h.id \in Ids \cup {Quit}
    BY <1>3 DEF Chunk
  <2>2. A = IF h.id = Quit THEN {} ELSE {h.id}
    BY DEF Awaiting
  <2>3. A \subseteq Cmds(c.toServer) /\ Before(A, Cmds(t))
    BY <1>4, <1>8, <2>2 DEF IsCmd, Before
  <2>4. A \cup Elements(c.executed) \subseteq Whole(c)
    BY <2>3 DEF Whole, Held
  <2>5. Before(Elements(c.executed), A \cup Cmds(t))
    BY <1>6, <2>3 DEF Before
  <2> QED
    BY <1>2, <1>5, <1>6, <1>8, <2>1, <2>3, <2>4, <2>5
<1>9. CASE c.parsing # Quit
           /\ earlier' = (earlier \ {c})
                            \cup Kept(left(Quit, Append(c.executed, c.parsing)))
  <2> PICK s : s = Append(c.executed, c.parsing)
    OBVIOUS
  <2> PICK A : A = Awaiting(left(Quit, s))
    OBVIOUS
  <2>1. A = {} /\ Awaiting(c) = {c.parsing} /\ c.parsing \in Ids
        /\ Quit \in Ids \cup {Quit}
    BY <1>2, <1>9 DEF Awaiting
  <2>2. s \in Seq(Ids)
    BY <1>2, <2>1, AppendProperties
  <2>3. Before(Elements(c.executed), {c.parsing})
    BY <1>6, <2>1 DEF Before
  <2>4. Up(s) /\ Elements(s) \subseteq Elements(c.executed) \cup {c.parsing}
    BY <1>2, <1>6, <2>1, <2>3, UpAppended
  <2>5. A \cup Elements(s) \subseteq Whole(c)
    BY <2>1, <2>4 DEF Whole, Held
  <2>6. Before(A, Cmds(t)) /\ Before(Elements(s), A \cup Cmds(t))
    BY <1>6, <2>1, <2>4 DEF Before
  <2> QED
    BY <1>5, <1>9, <2>1, <2>2, <2>4, <2>5, <2>6
<1>10. CASE earlier' = (earlier \ {c}) \cup Kept(left(Quit, c.executed))
  <2> PICK A : A = Awaiting(left(Quit, c.executed))
    OBVIOUS
  <2>1. A = {} /\ Quit \in Ids \cup {Quit}
    BY DEF Awaiting
  <2>2. A \cup Elements(c.executed) \subseteq Whole(c)
    BY <2>1 DEF Whole
  <2>3. Before(A, Cmds(t)) /\ Before(Elements(c.executed), A \cup Cmds(t))
    BY <1>6, <2>1 DEF Before
  <2> QED
    BY <1>2, <1>5, <1>6, <1>10, <2>1, <2>2, <2>3
<1>11. CASE ServeOld(c)
  <2>1. \/ /\ c.parsing = Quit /\ h.part = "cmd"
           /\ earlier' = (earlier \ {c}) \cup Kept(left(h.id, c.executed))
        \/ /\ c.parsing # Quit
           /\ earlier' = (earlier \ {c})
                            \cup Kept(left(Quit, Append(c.executed, c.parsing)))
        \/ earlier' = (earlier \ {c}) \cup Kept(left(Quit, c.executed))
    BY <1>11, Zenon DEF ServeOld
  <2> QED
    BY <1>8, <1>9, <1>10, <2>1, Zenon
<1> QED
  BY <1>7, <1>11

\* The connection in use is not touched by that.
LEMMA OldOrder ==
    ASSUME IndInv, OrderInv, EarlierInv, NEW c \in earlier,
           ServeOld(c) \/ LoseOld(c)
    PROVE  OrderInv'
<1>1. UNCHANGED <<client, control, net, peer, parsing, executed, closes>>
  BY Zenon DEF ServeOld, LoseOld
<1>2. UNCHANGED <<control, fd, cursor_active, write_buffer>>
  BY <1>1 DEF client
<1>3. /\ CallControl' /\ PurgeControl' /\ FlushWhole' /\ Own'
      /\ Pending' = Pending /\ Counted' = Counted /\ pc' = pc
      /\ op' = op /\ nextId' = nextId
  BY <1>2, Outside DEF OrderInv
<1>4. /\ Lines(read_buffer)' = Lines(read_buffer)
      /\ LinesUp(read_buffer)' = LinesUp(read_buffer)
      /\ Lines(toClient)' = Lines(toClient)
      /\ LinesUp(toClient)' = LinesUp(toClient)
      /\ Cmds(toServer)' = Cmds(toServer) /\ CmdsUp(toServer)' = CmdsUp(toServer)
      /\ Cmds(Pending)' = Cmds(Pending) /\ CmdsUp(Pending)' = CmdsUp(Pending)
      /\ Cmds(op.todo)' = Cmds(op.todo) /\ CmdsUp(op.todo)' = CmdsUp(op.todo)
      /\ Parsing' = Parsing /\ Up(executed)' = Up(executed)
  BY <1>1, <1>3, Zenon
  DEF client, net, Lines, LinesUp, Cmds, CmdsUp, Parsing, Up
<1>5. Past' \subseteq Past
  <2>1. Elder' \subseteq Elder
    BY OldEarlier
  <2>2. Done' = Done
    BY <1>1 DEF Done
  <2> QED
    BY <2>1, <2>2 DEF Past
<1>6. InOrder'
  <2> PICK G : G = Past'
    OBVIOUS
  <2>1. nextId \in Nat
    BY StagesTyped
  <2>2. Stages(Lines(read_buffer), Lines(toClient), Parsing, Cmds(toServer),
               Cmds(Pending), Cmds(op.todo), G, nextId)
    BY <1>5, <2>1, StagesShrink DEF OrderInv, InOrder
  <2> QED
    BY <1>3, <1>4, <2>2, Zenon DEF OrderInv, InOrder
<1>7. InStep'
  <2>1. UnderWay' = UnderWay /\ Unanswered' = Unanswered
    BY <1>4, Zenon DEF UnderWay, Unanswered
  <2> QED
    BY <1>1, <1>3, <2>1 DEF OrderInv, InStep, client, net
<1> QED
  BY <1>3, <1>6, <1>7 DEF OrderInv

\* Positions up to b, and from b + 1 up to n + 1.
LEMMA UpTo ==
    \A b, n \in Nat : b <= n =>
        /\ \A i \in 1..b : i \in 1..n
        /\ \A i \in (b + 1)..(n + 1) :
              i = n + 1 \/ (i \in (b + 1)..n /\ i \in 1..n)
<1> SUFFICES ASSUME NEW b \in Nat, NEW n \in Nat, b <= n
             PROVE  /\ \A i \in 1..b : i \in 1..n
                    /\ \A i \in (b + 1)..(n + 1) :
                          i = n + 1 \/ (i \in (b + 1)..n /\ i \in 1..n)
  OBVIOUS
<1>1. \A i \in 1..b : i \in 1..n
  OBVIOUS
<1>2. ASSUME NEW i \in (b + 1)..(n + 1), i # n + 1
      PROVE  i \in (b + 1)..n /\ i \in 1..n
  <2>1. i \in Int /\ b + 1 <= i /\ i <= n + 1 /\ i # n + 1 /\ 1 <= i
    BY <1>2
  <2>2. i <= n
    BY <2>1
  <2> QED
    BY <2>1, <2>2
<1> QED
  BY <1>1, <1>2

\* What the server executes is newer than all that is left of the connections
\* given up.
LEMMA ServeEarlier ==
    ASSUME IndInv, InOrder, EarlierInv, Serve PROVE EarlierInv'
<1>1. earlier' = earlier
  BY DEF Serve
<1>2. CASE executed' = executed
  BY <1>1, <1>2 DEF EarlierInv
<1>3. CASE parsing # Quit /\ executed' = Append(executed, parsing)
  <2> PICK n \in Nat : n = Len(executed)
    BY LenProperties, StagesTyped
  <2> PICK e : e = executed'
    OBVIOUS
  <2>1. /\ executed \in Seq(Ids) /\ parsing \in Ids /\ Parsing = {parsing}
    BY <1>3 DEF IndInv, TypeOK, Parsing
  <2>2. /\ Len(e) = n + 1 /\ e[n + 1] = parsing
        /\ \A i \in 1..n : e[i] = executed[i]
    BY <1>3, <2>1, AppendProperties
  <2>3. ASSUME NEW c \in earlier PROVE OldInOrder(c, e)
    <3>1. OldInOrder(c, executed) /\ c.before \in Nat
      BY DEF EarlierInv, IndInv, TypeOK, Old
    <3> PICK b \in Nat : b = c.before
      BY <3>1
    <3>2. b <= n
      BY <3>1 DEF OldInOrder
    <3>3. Before(Whole(c), {parsing})
      BY <2>1 DEF InOrder, Stages, Before, Past, Elder
    <3>4. \A i \in 1..b : Before({e[i]}, Whole(c))
      <4>1. \A i \in 1..b : i \in 1..n
        BY <3>2, UpTo
      <4> QED
        BY <2>2, <3>1, <4>1 DEF OldInOrder
    <3>5. \A i \in (b + 1)..(n + 1) : Before(Whole(c), {e[i]})
      <4>1. \A i \in (b + 1)..(n + 1) :
               i = n + 1 \/ (i \in (b + 1)..n /\ i \in 1..n)
        BY <3>2, UpTo
      <4> QED
        BY <2>2, <3>1, <3>3, <4>1 DEF OldInOrder
    <3>6. b <= n + 1
      BY <3>2
    <3> QED
      BY <2>2, <3>1, <3>4, <3>5, <3>6 DEF OldInOrder
  <2> QED
    BY <1>1, <2>3 DEF EarlierInv
<1> QED
  BY <1>2, <1>3 DEF Serve

\* The steps that execute a request or touch the connections given up.
LEMMA WhoMoves ==
    ASSUME IndInv, Next
    PROVE  \/ UNCHANGED <<executed, earlier>>
           \/ Leave /\ executed' = executed
           \/ Serve
           \/ \E c \in earlier : ServeOld(c) \/ LoseOld(c)
<1> DEFINE K == \/ UNCHANGED <<executed, earlier>>
                \/ Leave /\ executed' = executed
<1>1. ASSUME FlushEnter \/ FlushPurged \/ (\E k \in 1..NetCap : Send(k))
             \/ SendRepack \/ SendWait \/ PurgeFlushed \/ PurgeDone
             \/ WriteChunk \/ WriteFlush \/ WriteDone \/ QuitDrain
      PROVE  K
  BY <1>1 DEF FlushEnter, FlushPurged, Send, SendRepack, SendWait,
     PurgeFlushed, PurgeDone, WriteChunk, WriteFlush, WriteDone, QuitDrain,
     server
<1>2. ASSUME SendError \/ SendWaited \/ WriteFailed \/ QuitClose \/ BeginQuit
             \/ ServerClose
      PROVE  K
  BY <1>2 DEF SendError, SendWaited, WriteFailed, QuitClose, BeginQuit,
     ServerClose, Hangup
<1>3. ASSUME NEW o \in Responses, PurgeRead(o) \/ AnswerOld(o) \/ Answer(o)
      PROVE  K
  BY <1>3 DEF PurgeRead, AnswerOld, Answer, AfterResponse, Hangup
<1>4. ASSUME NEW kind \in {"set", "sync", "flush"}, Begin(kind) PROVE K
  BY <1>4 DEF Begin
<1> QED
  BY <1>1, <1>2, <1>3, <1>4, Zenon DEF Next, ClientStep

\* The places of three frames pushed on n.
LEMMA ThreeMore ==
    \A n \in Nat : \A i \in 1..(n + 3) :
        i \in 1..n \/ (~(i <= n) /\ i - n \in 1..3)
<1> SUFFICES ASSUME NEW n \in Nat, NEW i \in 1..(n + 3)
             PROVE  i \in 1..n \/ (~(i <= n) /\ i - n \in 1..3)
  OBVIOUS
<1>1. i \in Nat /\ 1 <= i /\ i <= n + 3
  OBVIOUS
<1>2. CASE i <= n
  BY <1>1, <1>2
<1>3. CASE ~(i <= n)
  <2>1. i - n \in Int /\ 1 <= i - n /\ i - n <= 3
    BY <1>1, <1>3
  <2> QED
    BY <1>3, <2>1
<1> QED
  BY <1>2, <1>3

\* A frame that waits is there only where io_wait puts one.
LEMMA NoneWaits ==
    ASSUME IndInv, NoWait,
           \/ stack' = stack
           \/ stack' = <<>> \/ stack' = <<Frame("flush")>>
           \/ /\ stack # <<>>
              /\ \/ \E r : Pop(r)
                 \/ \E f : f.at # "wait" /\ (Become(f) \/ StartPurge(f))
    PROVE  NoWait'
<1>1. stack \in Seq(Frames) /\ DOMAIN stack = 1..Len(stack) /\ Len(stack) \in Nat
  BY LenProperties DEF IndInv, TypeOK
<1> PICK g \in Frames : g = Frame("purge") /\ g.at = "purge"
  BY FrameTyped
<1> PICK h \in Frames : h = Frame("flush") /\ h.at = "flush"
  BY FrameTyped
<1>2. ASSUME stack # <<>>
      PROVE  /\ DOMAIN Front(stack) = 1..Len(Front(stack))
             /\ Front(stack) \in Seq(Frames) /\ Len(Front(stack)) \in Nat
             /\ \A i \in DOMAIN Front(stack) : Front(stack)[i].at # "wait"
  <2>1. /\ Front(stack) \in Seq(Frames) /\ Len(Front(stack)) = Len(stack) - 1
        /\ \A i \in 1..(Len(stack) - 1) : Front(stack)[i] = stack[i]
    BY <1>1, <1>2, TopAndFront
  <2>2. DOMAIN Front(stack) = 1..Len(Front(stack)) /\ Len(Front(stack)) \in Nat
    BY <2>1, LenProperties
  <2> QED
    BY <1>1, <2>1, <2>2 DEF NoWait
<1>3. CASE stack' = stack
  BY <1>3 DEF NoWait
<1>4. CASE stack' = <<>>
  BY <1>4 DEF NoWait
<1>5. CASE stack' = <<Frame("flush")>>
  <2>1. stack' = <<h>>
    BY <1>5
  <2> QED
    BY <2>1 DEF NoWait
<1>6. ASSUME stack # <<>>, NEW r, Pop(r) PROVE NoWait'
  BY <1>2, <1>6 DEF Pop, NoWait
<1>7. ASSUME stack # <<>>, NEW f, f.at # "wait", Become(f) PROVE NoWait'
  <2> PICK p : p = Front(stack)
    OBVIOUS
  <2> DEFINE S == Frames \cup {f}
  <2>1. p \in Seq(S) /\ f \in S /\ Len(p) \in Nat /\ DOMAIN p = 1..Len(p)
        /\ \A i \in DOMAIN p : p[i].at # "wait"
    BY <1>2, <1>7
  <2>2. stack' = Append(p, f)
    BY <1>7 DEF Become
  <2> HIDE DEF S
  <2>3. /\ Append(p, f) \in Seq(S) /\ Len(Append(p, f)) = Len(p) + 1
        /\ \A i \in 1..Len(p) : Append(p, f)[i] = p[i]
        /\ Append(p, f)[Len(p) + 1] = f
    BY <2>1, AppendProperties
  <2>4. DOMAIN Append(p, f) = 1..(Len(p) + 1)
    BY <2>3, LenProperties
  <2>5. \A i \in 1..(Len(p) + 1) : i \in 1..Len(p) \/ i = Len(p) + 1
    BY <2>1
  <2> QED
    BY <1>7, <2>1, <2>2, <2>3, <2>4, <2>5 DEF NoWait
<1>8. ASSUME stack # <<>>, NEW f, f.at # "wait", StartPurge(f) PROVE NoWait'
  <2> PICK p : p = Front(stack)
    OBVIOUS
  <2> PICK n \in Nat : n = Len(p)
    BY <1>2, <1>8
  <2> PICK q : q = <<f, g, h>>
    OBVIOUS
  <2> DEFINE S == Frames \cup {f}
  <2>1. p \in Seq(S) /\ DOMAIN p = 1..n
        /\ \A i \in DOMAIN p : p[i].at # "wait"
    BY <1>2, <1>8
  <2>2. stack' = p \o q
    BY <1>8 DEF StartPurge
  <2>3. /\ q \in Seq(S) /\ Len(q) = 3
        /\ \A i \in 1..3 : q[i].at # "wait"
    BY <1>8
  <2> HIDE DEF S
  <2>4. /\ p \o q \in Seq(S) /\ Len(p \o q) = n + 3
        /\ \A i \in 1..(n + 3) :
              (p \o q)[i] = IF i <= n THEN p[i] ELSE q[i - n]
    BY <2>1, <2>3, ConcatProperties
  <2>5. DOMAIN (p \o q) = 1..(n + 3)
    BY <2>4, LenProperties
  <2>6. \A i \in 1..(n + 3) :
           i \in 1..n \/ (~(i <= n) /\ i - n \in 1..3)
    BY ThreeMore
  <2>7. \A i \in 1..n : i <= n
    OBVIOUS
  <2>8. ASSUME NEW i \in 1..(n + 3) PROVE (p \o q)[i].at # "wait"
    BY <2>1, <2>3, <2>4, <2>6, <2>7
  <2> QED
    BY <2>2, <2>5, <2>8 DEF NoWait
<1> QED
  BY <1>3, <1>4, <1>5, <1>6, <1>7, <1>8

\* No frame waits, so none is woken.
LEMMA NotWaited == ASSUME IndInv, NoWait PROVE ~SendWaited
<1> SUFFICES ASSUME SendWaited PROVE FALSE
  OBVIOUS
<1>1. stack # <<>> /\ stack[Len(stack)].at = "wait" /\ Len(stack) \in 1..3
  BY TopFrame DEF SendWaited, At
<1>2. Len(stack) \in DOMAIN stack
  BY <1>1, LenProperties DEF IndInv, TypeOK
<1> QED
  BY <1>1, <1>2 DEF NoWait

\* The frames the other steps leave.
LEMMA NextNoWait ==
    ASSUME IndInv, NoWait, [Next]_vars, ~(SendWait /\ NeedPurge) PROVE NoWait'
<1>1. CASE \/ SendRepack \/ SendWait \/ QuitDrain \/ UNCHANGED vars \/ Serve
           \/ ServerClose \/ BeginQuit
           \/ \E kind \in {"set", "sync", "flush"} : Begin(kind)
           \/ \E c \in earlier : ServeOld(c) \/ LoseOld(c)
  <2>1. stack' = stack
    BY <1>1, Zenon DEF SendRepack, SendWait, QuitDrain, vars, Serve,
       ServerClose, BeginQuit, Begin, ServeOld, LoseOld, control
  <2> QED
    BY <2>1, NoneWaits
<1>2. CASE FlushEnter
  <2>1. Frame("purged").at # "wait"
    BY FrameTyped
  <2>2. [Frame("send") EXCEPT !.rest = write_buffer].at # "wait"
    BY DEF Frame
  <2> QED
    BY <1>2, <2>1, <2>2, NoneWaits DEF FlushEnter, At, BeginSend
<1>3. CASE FlushPurged
  <2>1. [Frame("send") EXCEPT !.rest = write_buffer].at # "wait"
    BY DEF Frame
  <2> QED
    BY <1>3, <2>1, NoneWaits DEF FlushPurged, At, BeginSend
<1>4. ASSUME NEW k \in 1..NetCap, Send(k) PROVE NoWait'
  <2>1. At("send") /\ stack # <<>> /\ Top \in Frames /\ Top.at = "send"
    BY <1>4, TopFrame DEF Send, At
  <2>2. [Top EXCEPT !.rest = SubSeq(@, k + 1, Len(@)), !.sent = @ + k].at
           # "wait"
    BY <2>1 DEF Frames
  <2> QED
    BY <1>4, <2>1, <2>2, NoneWaits DEF Send
<1>5. CASE SendError
  BY <1>5, NoneWaits DEF SendError, At
<1>6. ~SendWaited
  BY NotWaited
<1>7. CASE PurgeFlushed
  <2>1. \A n : [Frame("drain") EXCEPT !.n = n].at # "wait"
    BY DEF Frame
  <2> QED
    BY <1>7, <2>1, NoneWaits DEF PurgeFlushed, At
<1>8. CASE PurgeDone
  BY <1>8, NoneWaits DEF PurgeDone, At
<1>9. ASSUME NEW o \in Responses, PurgeRead(o) PROVE NoWait'
  <2>1. stack # <<>> /\ Top \in Frames /\ Top.at = "drain"
    BY <1>9, TopFrame DEF PurgeRead, At
  <2>2. \A n, r : [Top EXCEPT !.n = n, !.rc = r].at # "wait"
    BY <2>1 DEF Frames
  <2>3. \E n, r : Become([Top EXCEPT !.n = n, !.rc = r])
    BY <1>9 DEF PurgeRead
  <2> QED
    BY <2>1, <2>2, <2>3, NoneWaits
<1>10. ASSUME NEW o \in Responses, AnswerOld(o) \/ Answer(o) PROVE NoWait'
  BY <1>10, NoneWaits DEF AnswerOld, Answer, Idle
<1>11. CASE WriteChunk \/ WriteFlush \/ WriteDone \/ WriteFailed \/ QuitClose
  <2>1. stack' = stack \/ stack' = <<>> \/ stack' = <<Frame("flush")>>
    BY <1>11 DEF WriteChunk, WriteFlush, WriteDone, WriteFailed, QuitClose, Idle
  <2> QED
    BY <2>1, NoneWaits
<1> QED
  BY <1>1, <1>2, <1>3, <1>4, <1>5, <1>6, <1>7, <1>8, <1>9, <1>10, <1>11, Zenon
  DEF Next, ClientStep

\* What has gone astray stays so, and every step that adds to it says so.
LEMMA Straight ==
    ASSUME [Next]_vars
    PROVE  /\ astray \subseteq astray'
           /\ SendRepack /\ "stale" \notin astray' => Packed = read_buffer
           /\ SendWait /\ "reentered" \notin astray' => ~NeedPurge
BY DEF Next, ClientStep, SendRepack, SendWait, Serve, vars

\* Every step.
LEMMA NextOrderInv ==
    ASSUME IndInv, IndInv', NoWait, OrderInv, EarlierInv, [Next]_vars,
           astray' = {}
    PROVE  NoWait' /\ OrderInv' /\ EarlierInv'
<1>1. /\ SendRepack => Packed = read_buffer
      /\ SendWait => ~NeedPurge
  BY Straight
<1>2. NoWait'
  BY <1>1, NextNoWait
<1>3. EarlierInv'
  <2>1. CASE UNCHANGED <<executed, earlier>>
    BY <2>1 DEF EarlierInv
  <2>2. CASE Leave /\ executed' = executed
    BY <2>2, LeaveEarlier DEF OrderInv
  <2>3. CASE Serve
    BY <2>3, ServeEarlier DEF OrderInv
  <2>4. CASE \E c \in earlier : ServeOld(c) \/ LoseOld(c)
    BY <2>4, OldEarlier
  <2>5. CASE UNCHANGED vars
    BY <2>1, <2>5 DEF vars, server
  <2> QED
    BY <2>1, <2>2, <2>3, <2>4, <2>5, WhoMoves
<1>4. ~SendWaited
  BY NotWaited
<1> SUFFICES OrderInv'
  BY <1>2, <1>3
<1>5. CASE UNCHANGED vars
  BY <1>5, Unmoved DEF vars, client, server
<1>6. CASE SendWait
  <2>1. UNCHANGED <<control, fd, cursor_active, write_buffer, read_buffer, net,
                    parsing, executed, earlier>>
    BY <1>1, <1>6 DEF SendWait, control, server
  <2> QED
    BY <2>1, Unmoved
<1>7. CASE \E o \in Responses : PurgeRead(o) \/ AnswerOld(o) \/ Answer(o)
  BY <1>7, PurgeReadOrder, PurgeStruckOrder, AnswerOldOrder, AnswerOrder,
     AnswerStruckOrder
<1>8. CASE \/ FlushEnter \/ FlushPurged \/ PurgeFlushed \/ PurgeDone
           \/ WriteChunk \/ WriteFlush \/ WriteDone \/ WriteFailed
           \/ SendError \/ SendRepack \/ QuitDrain \/ QuitClose
           \/ BeginQuit \/ Serve \/ ServerClose
  BY <1>1, <1>8, FlushEnterOrder, FlushPurgedOrder, PurgeFlushedOrder,
     PurgeDoneOrder, WriteChunkOrder, WriteFlushOrder, WriteDoneOrder,
     WriteFailedOrder, SendErrorOrder, SendRepackOrder, QuitDrainOrder,
     QuitCloseOrder, BeginQuitOrder, ServeOrder, ServerCloseOrder
<1>9. CASE \E k \in 1..NetCap : Send(k)
  BY <1>9, SendOrder
<1>10. CASE \E kind \in {"set", "sync", "flush"} : Begin(kind)
  BY <1>10, BeginOrder
<1>11. CASE \E c \in earlier : ServeOld(c) \/ LoseOld(c)
  BY <1>11, OldOrder
<1> QED
  BY <1>4, <1>5, <1>6, <1>7, <1>8, <1>9, <1>10, <1>11, Zenon
  DEF Next, ClientStep

\* Nothing is under way at the start.
LEMMA InitOrderInv == Init => NoWait /\ OrderInv /\ EarlierInv
<1> SUFFICES ASSUME Init PROVE NoWait /\ OrderInv /\ EarlierInv
  OBVIOUS
<1>1. /\ read_buffer = <<>> /\ toClient = <<>> /\ toServer = <<>>
      /\ write_buffer = <<>> /\ stack = <<>> /\ executed = <<>>
      /\ parsing = Quit /\ nextId = 1 /\ cursor_active = 0 /\ fd = FALSE
      /\ pc = "idle" /\ op = NoOp /\ last.rc = "none" /\ earlier = {}
  BY DEF Init, NoResult
<1>2. op.todo = <<>> /\ op.id = Quit /\ ~At("send") /\ Pending = <<>>
  BY <1>1 DEF NoOp, At, Pending
<1>3. Parsing = {} /\ Past = {} /\ Up(executed)
  BY <1>1 DEF Parsing, Past, Done, Elder, Up
<1>4. Unanswered = {} /\ UnderWay = {}
  BY <1>1, <1>2, <1>3, Nothing DEF Unanswered, UnderWay
<1>5. Stages({}, {}, {}, {}, {}, {}, {}, 1)
  BY DEF Stages, Chain, Before
<1>6. InOrder
  BY <1>1, <1>2, <1>3, <1>5, Nothing DEF InOrder
<1>7. InStep
  BY <1>1, <1>4 DEF InStep, Counted, Counting
<1>8. CallControl
  BY <1>1, <1>2 DEF CallControl, Counting
<1>9. PurgeControl /\ FlushWhole /\ Own
  BY <1>1, <1>2 DEF PurgeControl, FlushWhole, Own
<1>10. NoWait /\ EarlierInv
  BY <1>1 DEF NoWait, EarlierInv
<1> QED
  BY <1>6, <1>7, <1>8, <1>9, <1>10 DEF OrderInv

\* As long as io_wait does not purge inside the write loop and
\* repack_input_buffer exposes nothing old, requests and responses stay in
\* step, on whatever connections the client has had.
THEOREM Order == Spec => [](astray = {} => NoWait /\ OrderInv /\ EarlierInv)
<1> DEFINE K == astray = {} => NoWait /\ OrderInv /\ EarlierInv
<1>1. IndInv /\ IndInv' /\ K /\ [Next]_vars => K'
  <2> SUFFICES ASSUME IndInv, IndInv', K, [Next]_vars, astray' = {}
               PROVE  NoWait' /\ OrderInv' /\ EarlierInv'
    OBVIOUS
  <2>1. astray = {}
    BY Straight
  <2> QED
    BY <2>1, NextOrderInv
<1>2. Init => K
  BY InitOrderInv
<1> HIDE DEF K
<1>3. Spec => []K
  BY <1>1, <1>2, Invariant, PTL DEF Spec
<1> QED
  BY <1>3 DEF K

\* Two places behind the first b of b + m.
LEMMA Behind ==
    \A b, m \in Nat : \A i, j \in 1..(b + m) :
        i < j /\ ~(i <= b) =>
            i - b \in 1..m /\ j - b \in 1..m /\ i - b < j - b /\ ~(j <= b)
OBVIOUS

\* The requests the server has executed, in the order of the calls.
LEMMA UpExecuted == IndInv /\ OrderInv /\ EarlierInv => ExecutedInOrder
<1> SUFFICES ASSUME IndInv, OrderInv, EarlierInv PROVE ExecutedInOrder
  OBVIOUS
<1> PICK n \in Nat : n = Len(executed)
  BY LenProperties, StagesTyped
<1>1. /\ executed \in Seq(Ids) /\ DOMAIN executed = 1..n /\ earlier \subseteq Old
      /\ Up(executed)
  BY LenProperties DEF IndInv, TypeOK, OrderInv, InOrder
<1>2. ASSUME NEW s \in Seq(Ids), Up(s) PROVE Increasing(s)
  <2>1. Len(s) \in Nat /\ DOMAIN s = 1..Len(s)
    BY LenProperties
  <2> SUFFICES ASSUME NEW i \in 1..(Len(s) - 1) PROVE s[i] < s[i + 1]
    BY DEF Increasing
  <2>2. i \in 1..Len(s) /\ i + 1 \in 1..Len(s) /\ i < i + 1
    BY <2>1
  <2> QED
    BY <1>2, <2>1, <2>2 DEF Up
<1>3. ASSUME NEW c \in earlier
      PROVE  /\ Increasing(SubSeq(executed, 1, c.before) \o c.executed)
             /\ Elements(c.executed) \cap Elements(executed) = {}
  <2>1. /\ OldInOrder(c, executed) /\ c.before \in Nat /\ c.before <= n
        /\ c.executed \in Seq(Ids)
    BY <1>1 DEF EarlierInv, OldInOrder, Old
  <2> PICK b \in Nat : b = c.before
    BY <2>1
  <2> PICK x \in Seq(Ids) : x = c.executed
    BY <2>1
  <2> PICK m \in Nat : m = Len(x)
    BY LenProperties
  <2> PICK p : p = SubSeq(executed, 1, b)
    OBVIOUS
  <2>2. /\ p \in Seq(Ids) /\ Len(p) = b
        /\ \A i \in 1..b : p[i] = executed[i]
    <3>1. \A i \in 1..b : executed[i] \in Ids
      BY <1>1, <2>1, ElementOfSeq
    <3>2. /\ p \in Seq(Ids) /\ Len(p) = IF 1 <= b THEN b - 1 + 1 ELSE 0
          /\ \A i \in 1..(b - 1 + 1) : p[i] = executed[1 + i - 1]
      BY <3>1, SubSeqProperties
    <3> QED
      BY <3>2
  <2> PICK s : s = p \o x
    OBVIOUS
  <2>3. /\ s \in Seq(Ids) /\ DOMAIN s = 1..(b + m)
        /\ DOMAIN x = 1..m /\ Up(x)
        /\ \A i \in 1..(b + m) :
              s[i] = IF i <= b THEN p[i] ELSE x[i - b]
    <3>1. /\ s \in Seq(Ids) /\ Len(s) = b + m
          /\ \A i \in 1..(b + m) :
                s[i] = IF i <= b THEN p[i] ELSE x[i - b]
      BY <2>2, ConcatProperties
    <3> QED
      BY <2>1, <3>1, LenProperties DEF OldInOrder
  <2>4. \A i \in 1..m : x[i] \in Whole(c)
    BY <2>3 DEF Whole, Elements
  <2>5. Up(s)
    <3>0. DOMAIN s = 1..(b + m)
      BY <2>3
    <3> SUFFICES ASSUME NEW i \in DOMAIN s, NEW j \in DOMAIN s, i < j
                 PROVE  s[i] < s[j]
      BY DEF Up
    <3>4. i \in 1..(b + m) /\ j \in 1..(b + m)
      BY <3>0
    <3>1. CASE j <= b
      <4>1. i \in 1..b /\ j \in 1..b /\ i \in 1..n /\ j \in 1..n
        BY <2>1, <3>1, <3>4
      <4>2. s[i] = executed[i] /\ s[j] = executed[j]
        BY <2>2, <2>3, <3>1, <3>4, <4>1
      <4> QED
        BY <1>1, <4>1, <4>2 DEF Up
    <3>2. CASE i <= b /\ ~(j <= b)
      <4>1. i \in 1..b /\ j - b \in 1..m
        BY <3>2, <3>4
      <4>2. s[i] = executed[i] /\ s[j] = x[j - b]
        BY <2>2, <2>3, <3>2, <3>4, <4>1
      <4>3. Before({executed[i]}, Whole(c)) /\ x[j - b] \in Whole(c)
        BY <2>1, <2>4, <4>1 DEF OldInOrder
      <4> QED
        BY <4>2, <4>3 DEF Before
    <3>3. CASE ~(i <= b)
      <4>1. i - b \in 1..m /\ j - b \in 1..m /\ i - b < j - b /\ ~(j <= b)
        BY <3>3, <3>4, Behind
      <4>2. s[i] = x[i - b] /\ s[j] = x[j - b]
        BY <2>3, <3>3, <3>4, <4>1
      <4> QED
        BY <2>3, <4>1, <4>2 DEF Up
    <3> QED
      BY <3>1, <3>2, <3>3
  <2>6. Increasing(s)
    BY <1>2, <2>3, <2>5
  <2>7. Elements(c.executed) \cap Elements(executed) = {}
    <3> SUFFICES ASSUME NEW i \in 1..m, NEW j \in 1..n,
                        x[i] = executed[j]
                 PROVE  FALSE
      BY <1>1, <2>3 DEF Elements
    <3>1. executed[j] \in Nat
      BY <1>1, StagesTyped DEF Past, Done
    <3>2. CASE j \in 1..b
      <4>1. Before({executed[j]}, Whole(c)) /\ executed[j] \in Whole(c)
        BY <2>1, <2>4, <3>2 DEF OldInOrder
      <4> QED
        BY <3>1, <4>1 DEF Before
    <3>3. CASE j \in (b + 1)..n
      <4>1. Before(Whole(c), {executed[j]}) /\ executed[j] \in Whole(c)
        BY <2>1, <2>4, <3>3 DEF OldInOrder
      <4> QED
        BY <3>1, <4>1 DEF Before
    <3> QED
      BY <3>2, <3>3
  <2> QED
    BY <2>6, <2>7
<1>4. ASSUME NEW c \in earlier, NEW d \in earlier \ {c}
      PROVE  Elements(c.executed) \cap Elements(d.executed) = {}
  BY DEF EarlierInv, Whole
<1>5. Increasing(executed)
  BY <1>1, <1>2
<1> QED
  BY <1>3, <1>4, <1>5 DEF ExecutedInOrder

-----------------------------------------------------------------------------
(* When io_wait does not purge.                                            *)

\* The number of chunks sent stays below its watermark, or the watermark of
\* responses is so low that io_flush has purged before the loop.
Calm == MsgWatermark = 2 \/ io_bytes_sent < BytesWatermark

\* After a purge one response at most is expected, and io_flush starts the
\* write loop with fewer than io_msg_watermark.
Sparse ==
    /\ At("send") => purging \/ cursor_active < MsgWatermark
    /\ At("purged") /\ ret = "ok" => cursor_active < 2
    /\ Len(stack) >= 2 /\ stack[2].at = "drain" =>
          cursor_active = 0 \/ cursor_active = stack[2].n + 1
    /\ stack # <<>> => stack[1].at # "wait"

\* Only a stale input leads astray, and only it may lead further.
CalmInv == "stale" \notin astray => astray = {} /\ Sparse

\* Only the lowest frame can be the write loop that purges.
LEMMA FirstFrame == IndInv /\ Sparse => NoWait
<1> SUFFICES ASSUME IndInv, Sparse, NEW i \in DOMAIN stack
             PROVE  stack[i].at # "wait"
  BY DEF NoWait
<1>1. stack \in Seq(Frames) /\ DOMAIN stack = 1..Len(stack)
      /\ Len(stack) \in Nat
  BY LenProperties DEF IndInv, TypeOK
<1>2. stack # <<>>
  BY <1>1, EmptySeq
<1>3. Len(stack) \in 1..3
  BY <1>2, TopFrame
<1>4. i = 1 \/ (i = 2 /\ Len(stack) \in {2, 3}) \/ (i = 3 /\ Len(stack) = 3)
  BY <1>1, <1>3
<1>5. CASE i = 1
  BY <1>2, <1>5 DEF Sparse
<1>6. CASE i = 2 /\ Len(stack) \in {2, 3}
  BY <1>2, <1>6 DEF IndInv, Shape
<1>7. CASE i = 3 /\ Len(stack) = 3
  BY <1>2, <1>7 DEF IndInv, Shape
<1> QED
  BY <1>4, <1>5, <1>6, <1>7

\* The same of the next state.
LEMMA FirstFrameNext == IndInv' /\ Sparse' => NoWait'
BY FirstFrame, PTL

\* The numbers NeedPurge compares.
LEMMA Watermarks ==
    ASSUME IndInv
    PROVE  /\ MsgWatermark \in Nat \ {0} /\ BytesWatermark \in Nat
           /\ cursor_active \in Nat /\ io_bytes_sent \in Nat
BY ConnectionAssumption DEF IndInv, TypeOK

\* The write loop has nothing to purge.
LEMMA NothingToPurge ==
    ASSUME IndInv, Sparse, Calm, At("send") PROVE ~NeedPurge
<1>1. purging \/ cursor_active < MsgWatermark
  BY DEF Sparse
<1> QED
  BY <1>1, Watermarks DEF Calm, NeedPurge

\* Outside io_flush, and where it begins.
LEMMA SparseOutside ==
    ASSUME stack' = <<>> \/ stack' = <<Frame("flush")>> PROVE Sparse'
<1>1. CASE stack' = <<>>
  BY <1>1 DEF Sparse, At
<1>2. CASE stack' = <<Frame("flush")>>
  <2> PICK h : h = Frame("flush")
    OBVIOUS
  <2>1. h.at = "flush"
    BY FrameTyped
  <2>2. stack' = <<h>> /\ Len(stack') = 1 /\ Last(stack') = h
    BY <1>2 DEF Last
  <2> QED
    BY <2>1, <2>2 DEF Sparse, At, Top
<1> QED
  BY <1>1, <1>2

\* A frame returns to the one that called it.
LEMMA SparsePop ==
    ASSUME IndInv, stack # <<>>, stack[1].at # "wait", NEW r \in {"ok", "fail"}, Pop(r),
           Len(stack) = 2 /\ r = "ok" => cursor_active' < 2
    PROVE  Sparse'
<1>1. stack \in Seq(Frames) /\ Len(stack) \in 1..3
  BY TopFrame DEF IndInv, TypeOK
<1>2. /\ stack' \in Seq(Frames) /\ Len(stack') = Len(stack) - 1
      /\ \A i \in 1..Len(stack') : stack'[i] = stack[i]
      /\ ret' = r /\ (stack' = <<>> <=> Len(stack) = 1)
  BY <1>1, PopTop DEF Pop
<1>3. CASE Len(stack) = 1
  BY <1>2, <1>3, SparseOutside
<1>4. CASE Len(stack) = 2
  <2>1. Len(stack') = 1 /\ stack' # <<>>
    BY <1>2, <1>4
  <2>2. Top' = stack'[1] /\ stack'[1] = stack[1]
    <3>1. Last(stack') = stack'[Len(stack')]
      BY <1>2, <2>1, TopAndFront
    <3> QED
      BY <1>2, <2>1, <3>1 DEF Top
  <2>3. stack[1].at \in {"purged", "wait"}
    BY <1>4 DEF IndInv, Shape
  <2> QED
    BY <1>2, <1>4, <2>1, <2>2, <2>3 DEF Sparse, At
<1>5. CASE Len(stack) = 3
  <2>1. Len(stack') = 2 /\ stack' # <<>>
    BY <1>2, <1>5
  <2>2. Top' = stack'[2] /\ stack'[2] = stack[2]
    <3>1. Last(stack') = stack'[Len(stack')]
      BY <1>2, <2>1, TopAndFront
    <3>2. 2 \in 1..Len(stack')
      BY <2>1
    <3>3. stack'[2] = stack[2]
      BY <1>2, <3>2, Zenon
    <3>4. Top' = stack'[2]
      BY <2>1, <3>1, Zenon DEF Top
    <3> QED
      BY <3>3, <3>4
  <2>3. stack[2].at = "purge"
    BY <1>5 DEF IndInv, Shape
  <2>4. stack'[1] = stack[1]
    <3>1. 1 \in 1..Len(stack')
      BY <2>1
    <3> QED
      BY <1>2, <3>1, Zenon
  <2> QED
    BY <2>1, <2>2, <2>3, <2>4 DEF Sparse, At
<1> QED
  BY <1>1, <1>3, <1>4, <1>5

\* The top frame goes on as f.
LEMMA SparseBecome ==
    ASSUME IndInv, stack # <<>>, stack[1].at # "wait", NEW f \in Frames, Become(f),
           \/ /\ Top.at \notin {"purge", "drain"} /\ f.at = "send"
              /\ purging' \/ cursor_active' < MsgWatermark
           \/ /\ Top.at \in {"purge", "drain"} /\ f.at = "drain"
              /\ cursor_active' = 0 \/ cursor_active' = f.n + 1
    PROVE  Sparse'
<1>1. stack \in Seq(Frames) /\ Len(stack) \in 1..3
      /\ (Top.at \in {"purge", "drain"} <=> Len(stack) = 2)
  BY TopFrame DEF IndInv, TypeOK
<1>2. /\ stack' \in Seq(Frames) /\ Len(stack') = Len(stack)
      /\ \A i \in 1..(Len(stack) - 1) : stack'[i] = stack[i]
      /\ stack'[Len(stack)] = f
  BY <1>1, BecomeTop DEF Become
<1>3. stack' # <<>>
  BY <1>1, <1>2
<1>4. Top' = f
  BY <1>2, <1>3, TopAndFront DEF Top
<1>5. CASE Len(stack) = 1
  BY <1>1, <1>2, <1>4, <1>5 DEF Sparse, At
<1>6. CASE Len(stack) = 2
  BY <1>1, <1>2, <1>4, <1>6 DEF Sparse, At
<1>7. CASE Len(stack) = 3
  <2>1. stack'[2].at = "purge" /\ stack'[1] = stack[1]
    BY <1>2, <1>7 DEF IndInv, Shape
  <2> QED
    BY <1>1, <1>4, <1>7, <2>1 DEF Sparse, At
<1> QED
  BY <1>1, <1>5, <1>6, <1>7

\* The write loop begins.
LEMMA SparseSend ==
    ASSUME IndInv, stack # <<>>, stack[1].at # "wait", Top.at \in {"flush", "purged"}, Len(stack) # 2,
           BeginSend, purging \/ cursor_active < MsgWatermark,
           purging' = purging, cursor_active' = cursor_active
    PROVE  Sparse'
<1>1. CASE write_buffer = <<>>
  BY <1>1, SparsePop DEF BeginSend
<1>2. CASE write_buffer # <<>>
  <2> PICK f : f = [Frame("send") EXCEPT !.rest = write_buffer]
    OBVIOUS
  <2>1. f \in Frames /\ f.at = "send"
    BY FrameTyped DEF IndInv, TypeOK, Frames
  <2>2. Become(f)
    BY <1>2 DEF BeginSend
  <2> QED
    BY <2>1, <2>2, SparseBecome
<1> QED
  BY <1>1, <1>2

\* memcached_purge begins with its own io_flush.
LEMMA SparsePush ==
    ASSUME IndInv, stack # <<>>, ~purging, NEW f \in Frames, StartPurge(f),
           f.at # "wait"
    PROVE  Sparse'
<1>1. stack \in Seq(Frames) /\ Len(stack) = 1
  <2>1. Len(stack) \in 1..3 /\ (Len(stack) > 1 => purging)
    BY TopFrame
  <2>2. Len(stack) = 1
    BY <2>1
  <2> QED
    BY <2>2 DEF IndInv, TypeOK
<1> PICK g \in Frames : g = Frame("purge")
  BY FrameTyped
<1> PICK h \in Frames : h = Frame("flush")
  BY FrameTyped
<1>2. g.at = "purge" /\ h.at = "flush"
  BY FrameTyped
<1>3. stack' = Front(stack) \o <<f, g, h>>
  BY DEF StartPurge
<1>4. /\ stack' \in Seq(Frames) /\ Len(stack') = 3
      /\ stack'[1] = f /\ stack'[2] = g /\ stack'[3] = h
  BY <1>1, <1>3, PushTwo, SMTT(40)
<1>5. stack' # <<>>
  <2>1. Len(stack') # 0
    BY <1>4
  <2> QED
    BY <2>1, EmptySeq
<1>6. Last(stack') = h
  BY <1>4, <1>5, TopAndFront
<1> QED
  BY <1>2, <1>4, <1>6 DEF Sparse, At, Top

\* io_flush begins the write loop, at once or after a purge.
LEMMA SparseFlush ==
    ASSUME IndInv, Sparse, MsgWatermark > 1, FlushEnter \/ FlushPurged
    PROVE  Sparse'
<1>1. CASE FlushEnter
  <2>1. stack # <<>> /\ Top.at = "flush" /\ Len(stack) # 2
        /\ cursor_active' = cursor_active /\ stack[1].at # "wait"
    BY <1>1, TopFrame DEF FlushEnter, At, Sparse
  <2>2. CASE NeedPurge
    <3> PICK f \in Frames : f = Frame("purged")
      BY FrameTyped
    <3>1. StartPurge(f) /\ ~purging /\ f.at # "wait"
      BY <1>1, <2>2, FrameTyped DEF FlushEnter, NeedPurge
    <3> QED
      BY <2>1, <3>1, SparsePush
  <2>3. CASE ~NeedPurge
    <3>1. purging \/ cursor_active < MsgWatermark
      BY <2>3, Watermarks DEF NeedPurge
    <3> QED
      BY <1>1, <2>1, <2>3, <3>1, SparseSend DEF FlushEnter
  <2> QED
    BY <2>2, <2>3
<1>2. CASE FlushPurged
  <2>1. stack # <<>> /\ Top.at = "purged" /\ Len(stack) # 2
        /\ cursor_active' = cursor_active /\ purging' = purging
        /\ stack[1].at # "wait"
    BY <1>2, TopFrame DEF FlushPurged, At, client, Sparse
  <2>2. CASE ret = "ok"
    <3>1. cursor_active < MsgWatermark
      BY <1>2, <2>2, Watermarks DEF FlushPurged, Sparse
    <3> QED
      BY <1>2, <2>1, <2>2, <3>1, SparseSend DEF FlushPurged
  <2>3. CASE ret # "ok"
    BY <1>2, <2>1, <2>3, SparsePop DEF FlushPurged
  <2> QED
    BY <2>2, <2>3
<1> QED
  BY <1>1, <1>2

\* Writing, and failing to.
LEMMA SparseWrite ==
    ASSUME IndInv, Sparse, SendError \/ \E k \in 1..NetCap : Send(k)
    PROVE  Sparse'
<1>1. stack # <<>> /\ Top.at = "send" /\ At("send") /\ Top \in Frames
      /\ Len(stack) # 2 /\ stack[1].at # "wait"
  BY TopFrame DEF SendError, Send, At, Sparse
<1>2. CASE SendError
  BY <1>1, <1>2, SparsePop DEF SendError
<1>3. ASSUME NEW k \in 1..NetCap, Send(k) PROVE Sparse'
  <2>1. CASE Pop("ok")
    BY <1>1, <2>1, SparsePop
  <2>2. CASE Become([Top EXCEPT !.rest = SubSeq(@, k + 1, Len(@)),
                                !.sent = @ + k])
    <3> PICK f : f = [Top EXCEPT !.rest = SubSeq(@, k + 1, Len(@)),
                                 !.sent = @ + k]
      OBVIOUS
    <3>1. f \in Frames /\ f.at = "send"
      <4>1. Top.rest \in Seq(Chunk) /\ Top.sent + k \in Nat
        BY <1>1 DEF Frames
      <4>2. k \in 1..Len(Top.rest)
        BY <1>3 DEF Send
      <4>3. SubSeq(Top.rest, k + 1, Len(Top.rest)) \in Seq(Chunk)
        BY <4>1, <4>2, Piece
      <4> QED
        BY <1>1, <4>1, <4>3 DEF Frames
    <3>2. purging' \/ cursor_active' < MsgWatermark
      BY <1>1, <1>3 DEF Sparse, Send
    <3> QED
      BY <1>1, <2>2, <3>1, <3>2, SparseBecome
  <2> QED
    BY <1>3, <2>1, <2>2 DEF Send
<1> QED
  BY <1>2, <1>3

\* memcached_purge counts the responses, reads one of them, and is over.
LEMMA SparsePurge ==
    ASSUME IndInv, OrderInv, Sparse,
           PurgeFlushed \/ PurgeDone \/ \E o \in Responses : PurgeRead(o)
    PROVE  Sparse'
<1>1. stack # <<>> /\ Top.at \in {"purge", "drain"} /\ Len(stack) = 2
      /\ Top = stack[2] /\ Top \in Frames /\ stack[1].at # "wait"
  BY TopFrame DEF PurgeFlushed, PurgeDone, PurgeRead, At, Sparse
<1>2. CASE PurgeFlushed
  <2>1. Top.at = "purge" /\ cursor_active' = cursor_active
    BY <1>2 DEF PurgeFlushed, At
  <2>2. CASE Pop("fail")
    BY <1>1, <2>2, SparsePop
  <2>3. ASSUME ret = "ok" PROVE cursor_active \in 1..(CursorMod - 1)
    <3>1. cursor_active > 0
      BY <1>1, <2>1, <2>3 DEF OrderInv, PurgeControl
    <3> QED
      BY <3>1, ConnectionAssumption DEF IndInv, TypeOK
  <2>4. ret = "ok" => Decrement(cursor_active) = cursor_active - 1
    BY <2>3, CursorSteps
  <2>5. CASE ret = "ok" /\ Decrement(cursor_active) = 0 /\ Pop("ok")
    <3>1. cursor_active < 2
      BY <2>3, <2>4, <2>5
    <3> QED
      BY <1>1, <2>1, <2>5, <3>1, SparsePop
  <2>6. CASE ret = "ok"
             /\ Become([Frame("drain") EXCEPT !.n = Decrement(cursor_active)])
    <3> PICK f : f = [Frame("drain") EXCEPT !.n = Decrement(cursor_active)]
      OBVIOUS
    <3>1. f \in Frames /\ f.at = "drain" /\ f.n = Decrement(cursor_active)
      <4>1. Frame("drain") \in Frames /\ Frame("drain").at = "drain"
        BY FrameTyped
      <4>2. Decrement(cursor_active) \in 0..(CursorMod - 1)
        BY CursorInRange DEF IndInv, TypeOK
      <4> QED
        BY <4>1, <4>2 DEF Frames
    <3>2. cursor_active' = f.n + 1
      BY <2>1, <2>3, <2>4, <2>6, <3>1
    <3> QED
      BY <1>1, <2>6, <3>1, <3>2, SparseBecome
  <2> QED
    BY <1>2, <2>2, <2>5, <2>6 DEF PurgeFlushed
<1>3. CASE PurgeDone
  <2> PICK r \in {"ok", "fail"} : r = Top.rc
    BY <1>1 DEF Frames
  <2>1. Pop(r) /\ Top.n = 0 /\ Top.at = "drain"
        /\ cursor_active' = cursor_active
    BY <1>3 DEF PurgeDone, At
  <2>2. cursor_active < 2
    BY <1>1, <2>1 DEF Sparse
  <2> QED
    BY <1>1, <2>1, <2>2, SparsePop
<1>4. ASSUME NEW o \in Responses, PurgeRead(o) PROVE Sparse'
  <2>1. Top.at = "drain" /\ Top.n > 0
    BY <1>4 DEF PurgeRead, At
  <2>0. Top.n \in 0..(CursorMod - 1) /\ CursorMod \in Nat
    BY <1>1, ConnectionAssumption DEF Frames
  <2> PICK r \in {"ok", "fail"} :
         r = IF o.rc \in {"PROTOCOL_ERROR", "UNKNOWN_READ_FAILURE"}
             THEN "fail" ELSE Top.rc
    BY <1>1 DEF Frames
  <2> PICK f : f = [Top EXCEPT !.n = @ - 1, !.rc = r]
    OBVIOUS
  <2>2. f \in Frames /\ f.at = "drain" /\ f.n = Top.n - 1
    BY <1>1, <2>1, DrainOn
  <2>3. Become(f)
    BY <1>4 DEF PurgeRead
  <2>4. cursor_active' = 0 \/ cursor_active' = f.n + 1
    <3>1. CASE o.strikes # 0
      BY <1>4, <3>1 DEF PurgeRead, AfterResponse
    <3>2. CASE o.strikes = 0
      <4>1. fd
        BY <3>2, ReadOldest DEF OrderInv
      <4>2. cursor_active > Top.n
        BY <1>1, <2>1, <4>1 DEF OrderInv, PurgeControl
      <4>3. cursor_active = Top.n + 1
        BY <1>1, <2>1, <2>0, <4>2 DEF Sparse
      <4>4. cursor_active \in 1..(CursorMod - 1)
        BY <2>0, <4>3, SMTT(40) DEF IndInv, TypeOK
      <4>5. cursor_active' = cursor_active - 1
        BY <1>4, <3>2, <4>4, CursorSteps DEF PurgeRead, AfterResponse
      <4> QED
        BY <2>0, <2>2, <4>3, <4>5
    <3> QED
      BY <3>1, <3>2
  <2> QED
    BY <1>1, <2>1, <2>2, <2>3, <2>4, SparseBecome
<1> QED
  BY <1>2, <1>3, <1>4

\* The frames, cursor_active and the flag are left alone.
LEMMA SparseStill ==
    ASSUME Sparse, UNCHANGED <<stack, ret, purging, cursor_active>>
    PROVE  Sparse'
BY DEF Sparse, At, Top

\* The calls of the application, which begin and end without frames.
LEMMA SparseCall ==
    ASSUME IndInv, OrderInv, Sparse,
           \/ \E kind \in {"set", "sync", "flush"} : Begin(kind)
           \/ BeginQuit \/ WriteChunk \/ WriteFlush \/ WriteDone \/ WriteFailed
           \/ \E o \in Responses : AnswerOld(o) \/ Answer(o)
           \/ QuitDrain \/ QuitClose
    PROVE  Sparse'
<1>1. CASE \/ \E kind \in {"set", "sync", "flush"} : Begin(kind)
           \/ BeginQuit \/ QuitDrain
  <2>1. stack = <<>>
    BY <1>1 DEF Begin, BeginQuit, QuitDrain, OrderInv, CallControl
  <2>2. stack' = stack
    BY <1>1 DEF Begin, BeginQuit, QuitDrain, control
  <2> QED
    BY <2>1, <2>2, SparseOutside
<1>2. CASE WriteChunk
  BY <1>2, SparseOutside DEF WriteChunk
<1>3. CASE WriteFlush
  BY <1>3, SparseOutside DEF WriteFlush
<1>4. CASE WriteDone
  BY <1>4, SparseOutside DEF WriteDone, Writing, Idle
<1>5. CASE WriteFailed
  BY <1>5, SparseOutside DEF WriteFailed, Writing, Idle
<1>6. ASSUME NEW o \in Responses, AnswerOld(o) \/ Answer(o) PROVE Sparse'
  BY <1>6, SparseOutside DEF AnswerOld, Answer, Answering, Idle
<1>7. CASE QuitClose
  BY <1>7, SparseOutside DEF QuitClose, Idle
<1> QED
  BY <1>1, <1>2, <1>3, <1>4, <1>5, <1>6, <1>7

\* A step keeps io_wait from purging.
LEMMA NextSparse ==
    ASSUME MsgWatermark > 1, IndInv, OrderInv, Sparse, Calm, [Next]_vars
    PROVE  Sparse' /\ ~(SendWait /\ NeedPurge)
<1>1. NoWait
  BY FirstFrame
<1>2. ~(SendWait /\ NeedPurge)
  BY NothingToPurge DEF SendWait, Blocked
<1>3. ~SendWaited
  BY <1>1, NotWaited
<1>4. CASE UNCHANGED vars \/ SendWait
  BY <1>2, <1>4, SparseStill DEF SendWait, vars, client, control
<1>5. CASE \/ SendRepack \/ Serve \/ ServerClose
           \/ \E c \in earlier : ServeOld(c) \/ LoseOld(c)
  <2>1. UNCHANGED <<stack, ret, purging, cursor_active>>
    BY <1>5, Zenon DEF SendRepack, Serve, ServerClose, ServeOld, LoseOld,
       client, control
  <2> QED
    BY <1>2, <2>1, SparseStill
<1>6. CASE \/ \E kind \in {"set", "sync", "flush"} : Begin(kind)
           \/ BeginQuit \/ WriteChunk \/ WriteFlush \/ WriteDone \/ WriteFailed
           \/ \E o \in Responses : AnswerOld(o) \/ Answer(o)
           \/ QuitDrain \/ QuitClose
  BY <1>2, <1>6, SparseCall
<1>7. CASE FlushEnter \/ FlushPurged
  BY <1>2, <1>7, SparseFlush
<1>8. CASE SendError \/ \E k \in 1..NetCap : Send(k)
  BY <1>2, <1>8, SparseWrite
<1>9. CASE PurgeFlushed \/ PurgeDone \/ \E o \in Responses : PurgeRead(o)
  BY <1>2, <1>9, SparsePurge
<1> QED
  BY <1>3, <1>4, <1>5, <1>6, <1>7, <1>8, <1>9, Zenon DEF Next, ClientStep

\* What leads astray: older input, and a purge within the write loop.
LEMMA Untouched ==
    ASSUME [Next]_vars, "stale" \notin astray', ~(SendWait /\ NeedPurge)
    PROVE  astray' = astray
<1>1. CASE SendRepack
  <2>1. Packed = read_buffer
    BY <1>1, Straight
  <2> QED
    BY <1>1, <2>1 DEF SendRepack
<1>2. CASE SendWait
  BY <1>2 DEF SendWait
<1>3. CASE ~SendRepack /\ ~SendWait
  BY <1>3 DEF Next, ClientStep, Serve, vars
<1> QED
  BY <1>1, <1>2, <1>3

LEMMA NextCalm ==
    ASSUME MsgWatermark > 1, IndInv, astray = {} => OrderInv, CalmInv,
           "stale" \notin astray => Calm, [Next]_vars
    PROVE  CalmInv'
<1> SUFFICES ASSUME "stale" \notin astray' PROVE astray' = {} /\ Sparse'
  BY DEF CalmInv
<1>1. "stale" \notin astray
  BY Straight
<1>2. astray = {} /\ OrderInv /\ Sparse /\ Calm
  BY <1>1 DEF CalmInv
<1> QED
  BY <1>2, NextSparse, Untouched

-----------------------------------------------------------------------------
(* How much is sent: two chunks a request, and one for a quit, of which     *)
(* there is one at most for each connection that a request has opened.      *)

\* The quit that may still come.
Credit ==
    IF op.kind # "quit" /\ (fd \/ write_buffer # <<>> \/ pc # "idle")
    THEN 1 ELSE 0

\* What has been sent since the last read, and what may be before the
\* application makes another request.
Outlay == io_bytes_sent + Len(Pending) + Len(op.todo) + Credit

Budget ==
    /\ Outlay <= 3 * (nextId - 1)
    /\ pc = "idle" => op.todo = <<>> /\ op.kind # "quit"

Counts ==
    /\ io_bytes_sent \in Nat /\ Len(Pending) \in Nat /\ Len(op.todo) \in Nat
    /\ Credit \in {0, 1} /\ nextId \in Nat \ {0}

\* The terms of the sum are numbers.
LEMMA Countable == IndInv => Counts
<1> SUFFICES ASSUME IndInv PROVE Counts
  OBVIOUS
<1>1. Pending \in Seq(Chunk) /\ op.todo \in Seq(Chunk) /\ nextId \in Nat \ {0}
  BY StagesTyped
<1>2. Len(Pending) \in Nat /\ Len(op.todo) \in Nat
  BY <1>1, LenProperties
<1>3. io_bytes_sent \in Nat
  BY DEF IndInv, TypeOK
<1>4. Credit \in {0, 1}
  BY DEF Credit
<1> QED
  BY <1>1, <1>2, <1>3, <1>4 DEF Counts

\* And in the next state.
LEMMA CountableNext == IndInv' => Counts'
BY Countable, PTL

\* A sum whose terms do not grow.
LEMMA SumLess ==
    \A a, b, w, x \in Int :
        w <= a /\ x <= b => w + x <= a + b /\ w + x \in Int /\ a + b \in Int
OBVIOUS

\* A step that adds to no term does not add to the sum.
LEMMA OutlayLess ==
    /\ Counts /\ Counts'
    /\ io_bytes_sent' <= io_bytes_sent /\ Len(Pending') <= Len(Pending)
    /\ Len(op'.todo) <= Len(op.todo) /\ Credit' <= Credit
    => Outlay' <= Outlay
<1>1. ASSUME Counts, Counts',
             io_bytes_sent' <= io_bytes_sent, Len(Pending') <= Len(Pending),
             Len(op'.todo) <= Len(op.todo), Credit' <= Credit
      PROVE  Outlay' <= Outlay
  <2>1. /\ io_bytes_sent \in Int /\ Len(Pending) \in Int
        /\ Len(op.todo) \in Int /\ Credit \in Int
        /\ io_bytes_sent' \in Int /\ Len(Pending') \in Int
        /\ Len(op'.todo) \in Int /\ Credit' \in Int
    BY <1>1 DEF Counts
  <2>2. /\ io_bytes_sent' + Len(Pending') <= io_bytes_sent + Len(Pending)
        /\ io_bytes_sent' + Len(Pending') \in Int
        /\ io_bytes_sent + Len(Pending) \in Int
    BY <1>1, <2>1, SumLess, Zenon
  <2> PICK m : m = io_bytes_sent + Len(Pending)
    OBVIOUS
  <2> PICK n : n = io_bytes_sent' + Len(Pending')
    OBVIOUS
  <2>3. m \in Int /\ n \in Int /\ n <= m
    BY <2>2
  <2>4. /\ n + Len(op'.todo) <= m + Len(op.todo)
        /\ n + Len(op'.todo) \in Int /\ m + Len(op.todo) \in Int
    BY <1>1, <2>1, <2>3, SumLess, Zenon
  <2>5. n + Len(op'.todo) + Credit' <= m + Len(op.todo) + Credit
    BY <1>1, <2>1, <2>4, SumLess, Zenon
  <2> QED
    BY <2>5 DEF Outlay
<1> QED
  BY <1>1

\* No term grows, and no request is made.
LEMMA NoMore ==
    ASSUME IndInv, IndInv', Budget, nextId' = nextId,
           io_bytes_sent' <= io_bytes_sent, Len(Pending') <= Len(Pending),
           Len(op'.todo) <= Len(op.todo), Credit' <= Credit,
           pc' = "idle" => op'.todo = <<>> /\ op'.kind # "quit"
    PROVE  Budget'
<1>1. Counts /\ Counts'
  BY Countable, CountableNext
<1>2. Outlay' <= Outlay
  BY <1>1, OutlayLess
<1>3. Outlay \in Int /\ Outlay' \in Int
  BY <1>1 DEF Outlay, Counts
<1>4. nextId \in Int
  BY <1>1 DEF Counts
<1>5. Outlay <= 3 * (nextId - 1)
  BY DEF Budget
<1>6. Outlay' <= 3 * (nextId - 1)
  BY <1>2, <1>3, <1>4, <1>5
<1> QED
  BY <1>6 DEF Budget

\* Nothing waits to be written any more and the connection is closed.
LEMMA Cancelled ==
    ASSUME IndInv, IndInv', Budget, nextId' = nextId, fd' = FALSE,
           write_buffer' = <<>>, ~At("send")', io_bytes_sent' <= io_bytes_sent,
           \/ op' = op /\ pc' = pc
           \/ op' = NoOp /\ pc' = "idle"
    PROVE  Budget'
<1>1. Counts
  BY Countable
<1>2. Len(Pending') = 0
  BY DEF Pending
<1>3. 0 <= Len(Pending) /\ 0 <= Len(op.todo) /\ 0 <= Credit
  BY <1>1 DEF Counts
<1>4. CASE op' = op /\ pc' = pc
  <2>1. Credit' <= Credit
    BY <1>4 DEF Credit
  <2>2. Len(op'.todo) <= Len(op.todo)
    BY <1>1, <1>4 DEF Counts
  <2>3. pc' = "idle" => op'.todo = <<>> /\ op'.kind # "quit"
    BY <1>4 DEF Budget
  <2> QED
    BY <1>2, <1>3, <2>1, <2>2, <2>3, NoMore
<1>5. CASE op' = NoOp /\ pc' = "idle"
  <2>1. Credit' = 0
    BY <1>5 DEF Credit
  <2>2. op'.todo = <<>> /\ op'.kind = "none"
    BY <1>5 DEF NoOp
  <2>3. Len(op'.todo) = 0
    BY <2>2
  <2> QED
    BY <1>2, <1>3, <2>1, <2>2, <2>3, NoMore
<1> QED
  BY <1>4, <1>5

\* What is to be written stays as it is, and the call goes on.
LEMMA Unspent ==
    ASSUME IndInv, IndInv', Budget, nextId' = nextId, fd' = fd, pc' = pc,
           op'.todo = op.todo, op'.kind = op.kind,
           write_buffer' = write_buffer, Pending' = Pending,
           io_bytes_sent' <= io_bytes_sent
    PROVE  Budget'
<1>1. Counts
  BY Countable
<1>2. Credit' = Credit
  BY DEF Credit
<1>3. Len(Pending') <= Len(Pending) /\ Len(op'.todo) <= Len(op.todo)
      /\ Credit' <= Credit
  BY <1>1, <1>2 DEF Counts
<1>4. pc' = "idle" => op'.todo = <<>> /\ op'.kind # "quit"
  BY DEF Budget
<1> QED
  BY <1>3, <1>4, NoMore

\* The top frame after it went on as f.
LEMMA BecomeAt ==
    ASSUME IndInv, stack # <<>>, NEW f \in Frames, Become(f)
    PROVE  Top' = f /\ stack' # <<>>
<1>1. stack \in Seq(Frames) /\ Len(stack) \in 1..3
  BY TopFrame DEF IndInv, TypeOK
<1>2. stack' \in Seq(Frames) /\ Len(stack') = Len(stack)
      /\ stack'[Len(stack)] = f
  BY <1>1, BecomeTop DEF Become
<1>3. stack' # <<>>
  BY <1>1, <1>2
<1> QED
  BY <1>2, <1>3, TopAndFront DEF Top

\* io_flush and memcached_purge outside the write loop.
LEMMA FlushBudget ==
    ASSUME IndInv, IndInv', OrderInv, Budget, FlushEnter \/ FlushPurged
    PROVE  Budget'
<1>1. /\ stack # <<>> /\ Top.at \in {"flush", "purged"} /\ ~At("send")
      /\ cursor_active' = cursor_active /\ write_buffer' = write_buffer
      /\ io_bytes_sent' = io_bytes_sent /\ fd' = fd /\ pc' = pc /\ op' = op
      /\ nextId' = nextId /\ Pending = write_buffer
  BY DEF FlushEnter, FlushPurged, At, client, Pending
<1>2. Pending' = Pending
  <2>1. CASE BeginSend
    BY <1>1, <2>1, BeginSendOrder DEF OrderInv
  <2>2. CASE NeedPurge /\ StartPurge(Frame("purged"))
    <3> PICK f \in Frames : f = Frame("purged")
      BY FrameTyped
    <3>1. StartPurge(f)
      BY <2>2
    <3>2. ~At("send")'
      BY <1>1, <2>2, <3>1, AfterPush
    <3> QED
      BY <1>1, <3>2 DEF Pending
  <2>3. CASE Pop("fail")
    <3>1. ~At("send")'
      BY <1>1, <2>3, AfterPop DEF OrderInv
    <3> QED
      BY <1>1, <3>1 DEF Pending
  <2> QED
    BY <2>1, <2>2, <2>3 DEF FlushEnter, FlushPurged
<1>3. io_bytes_sent' <= io_bytes_sent
  BY <1>1, Watermarks
<1> QED
  BY <1>1, <1>2, <1>3, Unspent

\* The purge begins to read and is over.
LEMMA PurgeBudget ==
    ASSUME IndInv, IndInv', OrderInv, Budget, PurgeFlushed \/ PurgeDone
    PROVE  Budget'
<1>1. /\ stack # <<>> /\ Top.at \in {"purge", "drain"} /\ ~At("send")
      /\ cursor_active' = cursor_active /\ write_buffer' = write_buffer
      /\ io_bytes_sent' = io_bytes_sent /\ fd' = fd /\ pc' = pc /\ op' = op
      /\ nextId' = nextId /\ Pending = write_buffer /\ Top \in Frames
  BY TopFrame DEF PurgeFlushed, PurgeDone, At, Pending
<1>2. ~At("send")'
  <2>1. ASSUME NEW r \in {"ok", "fail"}, Pop(r) PROVE ~At("send")'
    BY <1>1, <2>1, AfterPop DEF OrderInv
  <2>2. CASE PurgeDone
    <3> PICK r \in {"ok", "fail"} : r = Top.rc
      BY <1>1 DEF Frames
    <3> QED
      BY <2>1, <2>2 DEF PurgeDone
  <2>3. CASE Become([Frame("drain") EXCEPT !.n = Decrement(cursor_active)])
    <3> PICK f : f = [Frame("drain") EXCEPT !.n = Decrement(cursor_active)]
      OBVIOUS
    <3>1. f \in Frames /\ f.at = "drain"
      <4>1. Frame("drain") \in Frames /\ Frame("drain").at = "drain"
        BY FrameTyped
      <4>2. Decrement(cursor_active) \in 0..(CursorMod - 1)
        BY CursorInRange DEF IndInv, TypeOK
      <4> QED
        BY <4>1, <4>2 DEF Frames
    <3>2. Top' = f
      BY <1>1, <2>3, <3>1, BecomeAt
    <3> QED
      BY <3>1, <3>2 DEF At
  <2> QED
    BY <2>1, <2>2, <2>3 DEF PurgeFlushed
<1>3. io_bytes_sent' <= io_bytes_sent
  BY <1>1, Watermarks
<1>4. Pending' = Pending
  BY <1>1, <1>2 DEF Pending
<1> QED
  BY <1>1, <1>3, <1>4, Unspent

\* A response is read.
LEMMA ReadBudget ==
    ASSUME IndInv, IndInv', OrderInv, Budget, NEW o \in Responses,
           PurgeRead(o) \/ AnswerOld(o) \/ Answer(o)
    PROVE  Budget'
<1>1. io_bytes_sent' <= io_bytes_sent /\ nextId' = nextId
  <2>1. io_bytes_sent' \in {0, io_bytes_sent}
    BY DEF PurgeRead, AnswerOld, Answer, AfterResponse
  <2> QED
    BY <2>1, Watermarks DEF PurgeRead, AnswerOld, Answer
<1>2. ~At("send") /\ ~At("send")'
  <2>1. CASE PurgeRead(o)
    <3>1. stack # <<>> /\ Top.at = "drain" /\ Top \in Frames /\ Top.n > 0
      BY <2>1, TopFrame DEF PurgeRead, At
    <3> PICK r \in {"ok", "fail"} :
           r = IF o.rc \in {"PROTOCOL_ERROR", "UNKNOWN_READ_FAILURE"}
               THEN "fail" ELSE Top.rc
      BY <3>1 DEF Frames
    <3> PICK f : f = [Top EXCEPT !.n = @ - 1, !.rc = r]
      OBVIOUS
    <3>2. f \in Frames /\ f.at = "drain"
      BY <3>1, DrainOn
    <3>3. Become(f)
      BY <2>1 DEF PurgeRead
    <3>4. Top' = f
      BY <3>1, <3>2, <3>3, BecomeAt
    <3> QED
      BY <3>1, <3>2, <3>4 DEF At
  <2>2. CASE AnswerOld(o) \/ Answer(o)
    BY <2>2 DEF AnswerOld, Answer, Answering, Idle, At
  <2> QED
    BY <2>1, <2>2
<1>3. \/ op' = op /\ pc' = pc
      \/ op' = NoOp /\ pc' = "idle" /\ (AnswerOld(o) \/ Answer(o))
  BY DEF PurgeRead, AnswerOld, Answer, Idle
<1>4. CASE o.strikes # 0
  <2>1. fd' = FALSE /\ write_buffer' = <<>>
    BY <1>4 DEF PurgeRead, AnswerOld, Answer, AfterResponse
  <2> QED
    BY <1>1, <1>2, <1>3, <2>1, Cancelled
<1>5. CASE o.strikes = 0
  <2>1. fd' = fd /\ write_buffer' = write_buffer
    BY <1>5 DEF PurgeRead, AnswerOld, Answer, AfterResponse
  <2>2. Pending' = Pending
    BY <1>2, <2>1 DEF Pending
  <2>3. CASE op' = op /\ pc' = pc
    BY <1>1, <2>1, <2>2, <2>3, Unspent
  <2>4. CASE op' = NoOp /\ pc' = "idle" /\ (AnswerOld(o) \/ Answer(o))
    <3>1. pc = "answer"
      BY <2>4 DEF AnswerOld, Answer, Answering
    <3>2. op.kind # "quit"
      BY <3>1 DEF OrderInv, CallControl, Ids, Quit
    <3>3. Credit' <= Credit
      <4>1. Credit = 1
        BY <3>1, <3>2 DEF Credit
      <4>2. Credit' \in {0, 1}
        BY CountableNext DEF Counts
      <4> QED
        BY <4>1, <4>2
    <3>4. op'.todo = <<>> /\ op'.kind = "none"
      BY <2>4 DEF NoOp
    <3>5. Len(op'.todo) <= Len(op.todo) /\ Len(Pending') <= Len(Pending)
      <4>1. Counts
        BY Countable
      <4>2. Len(op'.todo) = 0
        BY <3>4
      <4> QED
        BY <2>2, <4>1, <4>2 DEF Counts
    <3> QED
      BY <1>1, <3>3, <3>4, <3>5, NoMore
  <2> QED
    BY <1>3, <2>3, <2>4
<1> QED
  BY <1>4, <1>5

\* Writing: what is sent was to be sent.
LEMMA SendBudget ==
    ASSUME IndInv, IndInv', OrderInv, Budget, NEW k \in 1..NetCap, Send(k)
    PROVE  Budget'
<1>1. /\ At("send") /\ stack # <<>> /\ Top.at = "send" /\ Top \in Frames
      /\ Pending = Top.rest /\ k \in 1..Len(Top.rest)
      /\ io_bytes_sent' = io_bytes_sent + k /\ fd /\ fd' = fd /\ op' = op
      /\ pc' = pc /\ nextId' = nextId /\ cursor_active' = cursor_active
  BY TopFrame DEF Send, At, Pending
<1> PICK t : t = Top.rest
  OBVIOUS
<1>2. t \in Seq(Chunk) /\ k \in 1..Len(t) /\ Pending = t /\ Len(t) \in Nat
  BY <1>1, LenProperties DEF Frames
<1>3. Len(Pending') <= Len(t) - k
  <2>1. CASE Pop("ok") /\ write_buffer' = <<>>
    <3>1. ~At("send")'
      BY <1>1, <2>1, AfterPop DEF OrderInv
    <3>2. Len(Pending') = 0
      BY <2>1, <3>1 DEF Pending
    <3> QED
      BY <1>2, <3>2
  <2>2. CASE Become([Top EXCEPT !.rest = SubSeq(@, k + 1, Len(@)),
                                !.sent = @ + k])
    <3> PICK q : q = SubSeq(t, k + 1, Len(t))
      OBVIOUS
    <3> PICK f : f = [Top EXCEPT !.rest = q, !.sent = @ + k]
      OBVIOUS
    <3>1. q \in Seq(Chunk) /\ Len(q) = Len(t) - k
      BY <1>2, Piece, RestLength
    <3>2. f \in Frames /\ f.at = "send" /\ f.rest = q
      <4>1. Top.sent + k \in Nat
        BY <1>1 DEF Frames
      <4> QED
        BY <1>1, <3>1, <4>1 DEF Frames
    <3>3. Top' = f /\ stack' # <<>>
      BY <1>1, <2>2, <3>2, BecomeAt
    <3>4. Pending' = q
      BY <3>2, <3>3 DEF Pending, At
    <3> QED
      BY <1>2, <3>1, <3>4
  <2> QED
    BY <2>1, <2>2 DEF Send
<1>4. Counts /\ Counts'
  BY Countable, CountableNext
<1>5. Credit' <= Credit
  BY <1>1, <1>4 DEF Credit, Counts
<1>6. Outlay' <= Outlay
  <2> PICK m \in Int : m = io_bytes_sent
    BY <1>4 DEF Counts
  <2> PICK n \in Int : n = Len(Pending')
    BY <1>4 DEF Counts
  <2>1. m + k + n <= m + Len(t)
    BY <1>2, <1>3
  <2>2. io_bytes_sent' + Len(Pending') <= io_bytes_sent + Len(Pending)
    BY <1>1, <1>2, <2>1
  <2>3. /\ io_bytes_sent + Len(Pending) \in Int
        /\ io_bytes_sent' + Len(Pending') \in Int
        /\ Len(op.todo) \in Int /\ Credit \in Int /\ Credit' \in Int
    BY <1>4 DEF Counts
  <2> PICK a \in Int : a = io_bytes_sent + Len(Pending)
    BY <2>3
  <2> PICK b \in Int : b = io_bytes_sent' + Len(Pending')
    BY <2>3
  <2> PICK c \in Int : c = Len(op.todo)
    BY <2>3
  <2>4. b <= a /\ c <= c
    BY <2>2
  <2>5. b + c <= a + c /\ b + c \in Int /\ a + c \in Int
    BY <2>4, SumLess, Zenon
  <2>6. b + c + Credit' <= a + c + Credit
    BY <1>5, <2>3, <2>5, SumLess, Zenon
  <2> QED
    BY <1>1, <2>6 DEF Outlay
<1>7. Outlay \in Int /\ Outlay' \in Int /\ nextId \in Int
  BY <1>4 DEF Outlay, Counts
<1>8. Outlay <= 3 * (nextId - 1)
  BY DEF Budget
<1>9. Outlay' <= 3 * (nextId - 1)
  BY <1>6, <1>7, <1>8
<1> QED
  BY <1>1, <1>9 DEF Budget

\* write() fails, the call fails, or the connection is closed.
LEMMA CloseBudget ==
    ASSUME IndInv, IndInv', OrderInv, Budget,
           SendError \/ QuitClose \/ (BeginQuit /\ ~fd)
               \/ (WriteFailed /\ op.kind \in {"set", "sync"})
    PROVE  Budget'
<1>1. fd' = FALSE /\ write_buffer' = <<>> /\ io_bytes_sent' = io_bytes_sent
      /\ nextId' = nextId
  BY DEF SendError, QuitClose, BeginQuit, WriteFailed, CloseServer
<1>2. io_bytes_sent' <= io_bytes_sent
  BY <1>1, Watermarks
<1>3. \/ op' = op /\ pc' = pc
      \/ op' = NoOp /\ pc' = "idle"
  BY DEF SendError, QuitClose, BeginQuit, WriteFailed, Idle
<1>4. ~At("send")'
  <2>1. CASE SendError
    <3>1. stack # <<>> /\ Pop("fail")
      BY <2>1 DEF SendError, At
    <3> QED
      BY <3>1, AfterPop DEF OrderInv
  <2>2. CASE QuitClose \/ WriteFailed
    BY <2>2 DEF QuitClose, WriteFailed, Writing, Idle, At
  <2>3. CASE BeginQuit
    BY <2>3 DEF BeginQuit, At, OrderInv, CallControl
  <2> QED
    BY <2>1, <2>2, <2>3
<1> QED
  BY <1>1, <1>2, <1>3, <1>4, Cancelled

\* The network, the server, and what the client only reads.
LEMMA StillBudget ==
    ASSUME IndInv, IndInv', OrderInv, Budget,
           \/ SendRepack \/ Serve \/ ServerClose \/ QuitDrain \/ WriteFlush
           \/ UNCHANGED vars
           \/ SendWait /\ ~NeedPurge
           \/ \E c \in earlier : ServeOld(c) \/ LoseOld(c)
           \/ WriteFailed /\ op.kind = "quit"
    PROVE  Budget'
<1>1. CASE \/ SendRepack \/ Serve \/ ServerClose \/ UNCHANGED vars
           \/ SendWait /\ ~NeedPurge
           \/ \E c \in earlier : ServeOld(c) \/ LoseOld(c)
  <2>1. /\ fd' = fd /\ pc' = pc /\ op' = op /\ nextId' = nextId
        /\ stack' = stack /\ write_buffer' = write_buffer
        /\ io_bytes_sent' = io_bytes_sent
    BY <1>1, Zenon DEF SendRepack, Serve, ServerClose, SendWait, ServeOld,
       LoseOld, vars, client, control
  <2>2. Pending' = Pending /\ io_bytes_sent' <= io_bytes_sent
    BY <2>1, Watermarks DEF Pending, At, Top
  <2> QED
    BY <2>1, <2>2, Unspent
<1>2. CASE QuitDrain
  <2>1. /\ fd' = fd /\ pc' = pc /\ op' = op /\ nextId' = nextId
        /\ stack' = stack /\ write_buffer' = write_buffer
        /\ io_bytes_sent' \in {0, io_bytes_sent}
    BY <1>2 DEF QuitDrain, control
  <2>2. Pending' = Pending /\ io_bytes_sent' <= io_bytes_sent
    BY <2>1, Watermarks DEF Pending, At, Top
  <2> QED
    BY <2>1, <2>2, Unspent
<1>3. CASE WriteFlush
  <2>1. /\ fd' = fd /\ pc' = pc /\ nextId' = nextId /\ stack = <<>>
        /\ write_buffer' = write_buffer /\ io_bytes_sent' = io_bytes_sent
        /\ op' = [op EXCEPT !.flush = FALSE] /\ stack' = <<Frame("flush")>>
    BY <1>3 DEF WriteFlush, Writing, client
  <2>2. ~At("send") /\ ~At("send")'
    BY <2>1, NoPurge DEF At
  <2>3. Pending' = Pending /\ io_bytes_sent' <= io_bytes_sent
    BY <2>1, <2>2, Watermarks DEF Pending
  <2>4. op'.todo = op.todo /\ op'.kind = op.kind
    BY <2>1 DEF IndInv, TypeOK, Calls
  <2> QED
    BY <2>1, <2>3, <2>4, Unspent
<1>4. CASE WriteFailed /\ op.kind = "quit"
  <2>1. /\ pc = "write" /\ pc' = "quit" /\ op' = op /\ nextId' = nextId
        /\ stack' = stack /\ write_buffer' = write_buffer
        /\ io_bytes_sent' = io_bytes_sent
    BY <1>4 DEF WriteFailed, Writing, client
  <2>2. Pending' = Pending /\ Credit' = 0 /\ Credit = 0
    BY <1>4, <2>1 DEF Pending, At, Top, Credit
  <2>3. Counts
    BY Countable
  <2>4. /\ io_bytes_sent' <= io_bytes_sent /\ Credit' <= Credit
        /\ Len(Pending') <= Len(Pending) /\ Len(op'.todo) <= Len(op.todo)
    BY <2>1, <2>2, <2>3 DEF Counts
  <2> QED
    BY <2>1, <2>4, NoMore
<1> QED
  BY <1>1, <1>2, <1>3, <1>4

\* A chunk is copied to the buffer.
LEMMA WriteChunkBudget ==
    ASSUME IndInv, IndInv', OrderInv, Budget, WriteChunk PROVE Budget'
<1>1. /\ stack = <<>> /\ op.todo # <<>> /\ pc = "write" /\ pc' = pc /\ fd' = fd
      /\ write_buffer' = Append(write_buffer, Head(op.todo))
      /\ op' = [op EXCEPT !.todo = Tail(@)] /\ nextId' = nextId
      /\ io_bytes_sent' = io_bytes_sent
      /\ stack' = <<>> \/ stack' = <<Frame("flush")>>
  BY DEF WriteChunk, Writing
<1>2. ~At("send") /\ ~At("send")'
  BY <1>1, NoPurge DEF At
<1>3. Pending = write_buffer /\ Pending' = write_buffer'
  BY <1>2 DEF Pending
<1>4. /\ op'.todo = Tail(op.todo) /\ op'.kind = op.kind
      /\ op.todo \in Seq(Chunk) /\ write_buffer \in Seq(Chunk)
  BY <1>1 DEF IndInv, TypeOK, Calls
<1>5. Len(op'.todo) = Len(op.todo) - 1 /\ Head(op.todo) \in Chunk
      /\ Len(op.todo) \in Nat
  BY <1>1, <1>4, HeadTailProperties, EmptySeq, LenProperties
<1>6. Len(Pending') = Len(Pending) + 1
  BY <1>1, <1>3, <1>4, <1>5, AppendProperties
<1>7. Credit' = Credit
  BY <1>1, <1>4 DEF Credit
<1>8. Counts
  BY Countable
<1>9. Outlay' = Outlay
  <2>1. /\ io_bytes_sent \in Int /\ Len(Pending) \in Int
        /\ Len(op.todo) \in Int /\ Credit \in Int
    BY <1>8 DEF Counts
  <2>2. PICK a \in Int : a = io_bytes_sent
    BY <2>1
  <2>3. PICK b \in Int : b = Len(Pending)
    BY <2>1
  <2>4. PICK c \in Int : c = Len(op.todo)
    BY <2>1
  <2>5. PICK d \in Int : d = Credit
    BY <2>1
  <2>6. a + (b + 1) + (c - 1) + d = a + b + c + d
    OBVIOUS
  <2>7. Outlay' = a + (b + 1) + (c - 1) + d
    BY <1>1, <1>5, <1>6, <1>7, <2>2, <2>3, <2>4, <2>5 DEF Outlay
  <2>8. Outlay = a + b + c + d
    BY <2>2, <2>3, <2>4, <2>5 DEF Outlay
  <2> QED
    BY <2>6, <2>7, <2>8, Zenon
<1> QED
  BY <1>1, <1>9 DEF Budget

\* The request is written, or the buffer flushed, or neither.
LEMMA WrittenBudget ==
    ASSUME IndInv, IndInv', OrderInv, Budget,
           WriteDone \/ (WriteFailed /\ op.kind = "flush")
    PROVE  Budget'
<1>1. /\ pc = "write" /\ stack = <<>> /\ fd' = fd /\ nextId' = nextId
      /\ write_buffer' = write_buffer /\ io_bytes_sent' = io_bytes_sent
      /\ stack' = <<>> \/ stack' = <<Frame("flush")>>
  BY DEF WriteDone, WriteFailed, Writing, Idle, client
<1>2. ~At("send") /\ ~At("send")'
  BY <1>1, NoPurge DEF At
<1>3. Pending' = Pending
  BY <1>1, <1>2 DEF Pending
<1>4. \/ op' = op /\ pc' # "idle"
      \/ op' = NoOp /\ op.kind # "quit"
  BY DEF WriteDone, WriteFailed, Idle
<1>5. Counts /\ Counts'
  BY Countable, CountableNext
<1>6. /\ io_bytes_sent' <= io_bytes_sent /\ Len(Pending') <= Len(Pending)
  BY <1>1, <1>3, <1>5 DEF Counts
<1>7. CASE op' = op /\ pc' # "idle"
  <2>1. Credit' = Credit
    BY <1>1, <1>7 DEF Credit
  <2>2. Credit' <= Credit /\ Len(op'.todo) <= Len(op.todo)
    BY <1>5, <1>7, <2>1 DEF Counts
  <2> QED
    BY <1>1, <1>6, <1>7, <2>2, NoMore
<1>8. CASE op' = NoOp /\ op.kind # "quit"
  <2>1. Credit = 1
    BY <1>1, <1>8 DEF Credit
  <2>2. op'.todo = <<>> /\ op'.kind = "none"
    BY <1>8 DEF NoOp
  <2>3. Len(op'.todo) = 0
    BY <2>2
  <2>4. Credit' <= Credit /\ Len(op'.todo) <= Len(op.todo)
    BY <1>5, <2>1, <2>3 DEF Counts
  <2> QED
    BY <1>1, <1>6, <2>2, <2>4, NoMore
<1> QED
  BY <1>4, <1>7, <1>8

\* memcached_quit spends the credit of the connection.
LEMMA QuitBudget ==
    ASSUME IndInv, IndInv', OrderInv, Budget, BeginQuit, fd PROVE Budget'
<1>1. /\ pc = "idle" /\ pc' = "write" /\ fd' = fd /\ nextId' = nextId
      /\ write_buffer' = write_buffer /\ io_bytes_sent' = io_bytes_sent
      /\ stack' = stack /\ op'.todo = <<QuitChunk>> /\ op'.kind = "quit"
  BY DEF BeginQuit, client
<1>2. Pending' = Pending
  BY <1>1 DEF Pending, At, Top
<1>3. op.todo = <<>> /\ op.kind # "quit"
  BY <1>1 DEF Budget
<1>4. Len(op.todo) = 0 /\ Len(op'.todo) = 1
  <2> PICK q : q = QuitChunk
    OBVIOUS
  <2>1. Len(<<q>>) = 1
    OBVIOUS
  <2> QED
    BY <1>1, <1>3, <2>1
<1>5. Credit = 1 /\ Credit' = 0
  BY <1>1, <1>3 DEF Credit
<1>6. Counts
  BY Countable
<1>7. Outlay' = Outlay
  <2>1. \A a, b \in Int : a + b + 1 + 0 = a + b + 0 + 1
    OBVIOUS
  <2>2. io_bytes_sent \in Int /\ Len(Pending) \in Int
    BY <1>6 DEF Counts
  <2>3. Outlay' = io_bytes_sent + Len(Pending) + 1 + 0
    BY <1>1, <1>2, <1>4, <1>5, Zenon DEF Outlay
  <2>4. Outlay = io_bytes_sent + Len(Pending) + 0 + 1
    BY <1>4, <1>5, Zenon DEF Outlay
  <2> QED
    BY <2>1, <2>2, <2>3, <2>4, Zenon
<1> QED
  BY <1>1, <1>7 DEF Budget

\* A call is made: a request of two chunks, and with it perhaps a connection.
LEMMA BeginBudget ==
    ASSUME IndInv, IndInv', OrderInv, Budget,
           NEW kind \in {"set", "sync", "flush"}, Begin(kind)
    PROVE  Budget'
<1>1. /\ pc = "idle" /\ write_buffer' = write_buffer
      /\ io_bytes_sent' = io_bytes_sent /\ stack' = stack
  BY DEF Begin
<1>2. Pending' = Pending /\ (Pending = write_buffer)
  <2>1. stack = <<>>
    BY <1>1 DEF OrderInv, CallControl
  <2> QED
    BY <1>1, <2>1 DEF Pending, At, Top
<1>3. op.todo = <<>> /\ op.kind # "quit" /\ Len(op.todo) = 0
  BY <1>1 DEF Budget
<1>4. Counts /\ Counts'
  BY Countable, CountableNext
<1>5. io_bytes_sent' <= io_bytes_sent /\ Len(Pending') <= Len(Pending)
  BY <1>1, <1>2, <1>4 DEF Counts
<1> PICK m \in Int : m = io_bytes_sent + Len(Pending)
  BY <1>4 DEF Counts
<1>6. m + Credit <= 3 * (nextId - 1)
  <2>1. Outlay <= 3 * (nextId - 1)
    BY DEF Budget
  <2>2. Outlay = m + 0 + Credit
    BY <1>3, Zenon DEF Outlay
  <2>3. m + 0 = m
    OBVIOUS
  <2> QED
    BY <2>1, <2>2, <2>3
<1>7. \A x \in Nat, y \in {0, 1}, n \in Nat \ {0} :
         x <= 2 /\ m + Credit <= 3 * (n - 1) => m + x + y <= 3 * n
  <2>1. Credit \in {0, 1}
    BY <1>4 DEF Counts
  <2> QED
    BY <2>1
<1>8. CASE kind = "flush"
  <2>1. write_buffer # <<>> /\ nextId' = nextId
    BY <1>8 DEF Begin
  <2>2. Credit = 1
    BY <1>3, <2>1 DEF Credit
  <2>3. Credit' <= Credit
    BY <1>4, <2>2 DEF Counts
  <2>4. \/ op'.todo = <<>> /\ op'.kind = "flush"
        \/ op' = op
    BY <1>8 DEF Begin
  <2>5. op'.todo = <<>> /\ op'.kind # "quit"
    BY <1>3, <2>4
  <2>6. Len(op'.todo) <= Len(op.todo)
    BY <1>3, <2>5
  <2> QED
    BY <1>5, <2>1, <2>3, <2>5, <2>6, NoMore
<1>9. CASE kind # "flush"
  <2>1. nextId' = nextId + 1 /\ nextId \in Ids
    BY <1>4, <1>9, ConnectionAssumption DEF Begin, Counts, Ids
  <2>2. \/ op'.todo = Chunks(nextId) /\ pc' = "write"
        \/ op' = op /\ pc' = "idle"
    BY <1>1, <1>9 DEF Begin
  <2>3. Len(op'.todo) \in Nat /\ Len(op'.todo) <= 2
    <3>1. Len(Chunks(nextId)) = 2
      BY DEF Chunks
    <3>2. Len(op'.todo) = 2 \/ Len(op'.todo) = 0
      BY <1>3, <2>2, <3>1, Zenon
    <3>3. \A x \in {0, 2} : x \in Nat /\ x <= 2
      OBVIOUS
    <3> QED
      BY <3>2, <3>3
  <2>4. Outlay' = m + Len(op'.todo) + Credit'
    BY <1>1, <1>2, Zenon DEF Outlay
  <2>5. m + Len(op'.todo) + Credit' <= 3 * nextId
    BY <1>4, <1>6, <1>7, <2>3, Zenon DEF Counts
  <2>6. pc' = "idle" => op'.todo = <<>> /\ op'.kind # "quit"
    BY <1>3, <2>2
  <2>7. Outlay' <= 3 * (nextId' - 1)
    <3>1. nextId' - 1 = nextId
      BY <2>1 DEF Ids
    <3> QED
      BY <2>4, <2>5, <3>1, Zenon
  <2> QED
    BY <2>6, <2>7, Zenon DEF Budget
<1> QED
  BY <1>8, <1>9

\* A step keeps within the budget.
LEMMA NextBudget ==
    ASSUME MsgWatermark > 1, IndInv, IndInv', OrderInv, Sparse, Calm, Budget,
           [Next]_vars
    PROVE  Budget'
<1>1. NoWait
  BY FirstFrame
<1>2. ~(SendWait /\ NeedPurge)
  BY NextSparse
<1>3. ~SendWaited
  BY <1>1, NotWaited
<1>4. CASE FlushEnter \/ FlushPurged
  BY <1>1, <1>4, FlushBudget
<1>5. CASE PurgeFlushed \/ PurgeDone
  BY <1>1, <1>5, PurgeBudget
<1>6. CASE \E o \in Responses : PurgeRead(o) \/ AnswerOld(o) \/ Answer(o)
  BY <1>1, <1>6, ReadBudget
<1>7. CASE \E k \in 1..NetCap : Send(k)
  BY <1>1, <1>7, SendBudget
<1>8. CASE SendError \/ QuitClose
  BY <1>1, <1>8, CloseBudget
<1>9. CASE BeginQuit
  BY <1>1, <1>9, CloseBudget, QuitBudget
<1>10. CASE WriteFailed
  BY <1>1, <1>10, CloseBudget, StillBudget, WrittenBudget DEF WriteFailed
<1>11. CASE \/ SendRepack \/ Serve \/ ServerClose \/ QuitDrain \/ WriteFlush
            \/ UNCHANGED vars \/ SendWait
            \/ \E c \in earlier : ServeOld(c) \/ LoseOld(c)
  BY <1>1, <1>2, <1>11, StillBudget
<1>12. CASE WriteChunk
  BY <1>1, <1>12, WriteChunkBudget
<1>13. CASE WriteDone
  BY <1>1, <1>13, WrittenBudget
<1>14. CASE \E kind \in {"set", "sync", "flush"} : Begin(kind)
  BY <1>1, <1>14, BeginBudget
<1> QED
  BY <1>3, <1>4, <1>5, <1>6, <1>7, <1>8, <1>9, <1>10, <1>11, <1>12,
     <1>13, <1>14, Zenon DEF Next, ClientStep

-----------------------------------------------------------------------------
\* The write loop is not entered twice while the bytes sent stay below their
\* watermark, if a purge, which leaves one response, can bring the responses
\* below theirs, unless repack_input_buffer exposes older input, with which
\* there may be more answers to read than the client expects.
THEOREM CalmInStep ==
    ASSUME MsgWatermark > 1 PROVE Spec /\ []Calm => []CalmInv
<1>1. Init => CalmInv
  BY DEF Init, CalmInv, Sparse, At
<1> DEFINE K == astray = {} => NoWait /\ OrderInv /\ EarlierInv
<1>2. IndInv /\ K /\ Calm /\ CalmInv /\ [Next]_vars => CalmInv'
  BY NextCalm
<1>3. Spec => []K
  BY Order
<1> HIDE DEF K
<1> QED
  BY <1>1, <1>2, <1>3, Invariant, PTL DEF Spec

\* The watermarks with which io_wait never purges inside the write loop: two
\* responses, or more bytes than the calls can send.
Roomy ==
    \/ MsgWatermark = 2
    \/ MsgWatermark > 1 /\ BytesWatermark > 3 * MaxOps

\* Few enough chunks are sent.
LEMMA WithinBudget ==
    ASSUME BytesWatermark > 3 * MaxOps, IndInv, Budget PROVE Calm
<1> SUFFICES io_bytes_sent < BytesWatermark
  BY DEF Calm
<1>1. Counts
  BY Countable
<1>2. \A a, b, c \in Nat, d \in {0, 1}, n \in 1..(MaxOps + 1) :
         a + b + c + d <= 3 * (n - 1) => a < BytesWatermark
  BY ConnectionAssumption
<1>3. nextId \in 1..(MaxOps + 1)
  BY DEF IndInv, TypeOK
<1>4. io_bytes_sent + Len(Pending) + Len(op.todo) + Credit <= 3 * (nextId - 1)
  BY DEF Budget, Outlay
<1> QED
  BY <1>1, <1>2, <1>3, <1>4, Zenon DEF Counts

LEMMA InitBudget == Init => Budget
<1> SUFFICES ASSUME Init PROVE Budget
  OBVIOUS
<1>1. /\ io_bytes_sent = 0 /\ write_buffer = <<>> /\ stack = <<>>
      /\ op.todo = <<>> /\ op.kind = "none" /\ nextId = 1 /\ fd = FALSE
      /\ pc = "idle"
  BY DEF Init, NoOp
<1>2. Len(Pending) = 0 /\ Len(op.todo) = 0 /\ Credit = 0
  BY <1>1 DEF Pending, At, Credit
<1> QED
  BY <1>1, <1>2 DEF Budget, Outlay

\* With such watermarks io_flush does not enter its write loop twice, as long
\* as no input of an older connection is taken for new: neither clause of the
\* condition in io_wait holds there.
THEOREM NeverReentered ==
    ASSUME Roomy PROVE Spec => []("stale" \notin astray => "reentered" \notin astray)
<1>1. MsgWatermark > 1
  BY DEF Roomy
<1>2. Spec => []CalmInv
  <2>1. CASE MsgWatermark = 2
    <3>1. TRUE => Calm
      BY <2>1 DEF Calm
    <3> QED
      BY <1>1, <3>1, CalmInStep, PTL
  <2>2. CASE BytesWatermark > 3 * MaxOps
    <3> DEFINE K == astray = {} => NoWait /\ OrderInv /\ EarlierInv
               B == "stale" \notin astray => Budget
    <3>1. Init => CalmInv /\ B
      <4>1. Init => CalmInv
        BY DEF Init, CalmInv, Sparse, At
      <4> QED
        BY <4>1, InitBudget
    <3>2. IndInv /\ IndInv' /\ K /\ CalmInv /\ B /\ [Next]_vars
            => CalmInv' /\ B'
      <4> SUFFICES ASSUME IndInv, IndInv', K, CalmInv, B, [Next]_vars
                   PROVE  CalmInv' /\ B'
        OBVIOUS
      <4>1. "stale" \notin astray => Calm
        BY <2>2, WithinBudget
      <4>2. CalmInv'
        BY <1>1, <4>1, NextCalm
      <4>3. ASSUME "stale" \notin astray' PROVE Budget'
        <5>1. "stale" \notin astray
          BY <4>3, Straight
        <5>2. OrderInv /\ Sparse /\ Calm /\ Budget
          BY <4>1, <5>1 DEF CalmInv
        <5> QED
          BY <1>1, <5>2, NextBudget
      <4> QED
        BY <4>2, <4>3
    <3>3. Spec => []K
      BY Order
    <3> HIDE DEF K, B
    <3> QED
      BY <3>1, <3>2, <3>3, Invariant, PTL DEF Spec
  <2> QED
    BY <2>1, <2>2 DEF Roomy
<1>3. CalmInv => ("stale" \notin astray => "reentered" \notin astray)
  BY DEF CalmInv
<1> QED
  BY <1>2, <1>3, PTL

\* Nothing else counts as going astray.
LEMMA StrayKinds == Spec => [](astray \subseteq {"stale", "reentered"})
<1> DEFINE T == astray \subseteq {"stale", "reentered"}
<1>1. Init => T
  BY DEF Init
<1>2. T /\ [Next]_vars => T'
  BY DEF Next, ClientStep, SendRepack, SendWait, Serve, vars
<1> HIDE DEF T
<1> QED
  BY <1>1, <1>2, PTL DEF Spec, T

\* A connection's requests are executed in the order of the calls and once,
\* through partial writes, purges, failures and reconnections, on the
\* connections that were given up as well.
THEOREM InOrderAlways ==
    Spec => []("stale" \notin astray => ExecutedInOrder)
<1> DEFINE K == astray = {} => NoWait /\ OrderInv /\ EarlierInv
           T == astray \subseteq {"stale", "reentered"}
<1>1. IndInv /\ K /\ T => ("stale" \notin astray => ExecutedInOrder)
  <2> SUFFICES ASSUME IndInv, K, T, "stale" \notin astray
               PROVE  ExecutedInOrder
    OBVIOUS
  <2>1. CASE "reentered" \in astray
    BY <2>1 DEF ExecutedInOrder
  <2>2. CASE "reentered" \notin astray
    <3>1. astray = {}
      BY <2>2
    <3> QED
      BY <3>1, UpExecuted
  <2> QED
    BY <2>1, <2>2
<1>2. Spec => []K
  BY Order
<1>3. Spec => []T
  BY StrayKinds
<1> HIDE DEF K, T
<1> QED
  BY <1>1, <1>2, <1>3, Invariant, PTL

\* No call takes the response to an older request for its own, whatever was
\* left on the connection or in the buffer of the one before.
THEOREM OwnAnswerAlways == Spec => []OwnAnswer
<1> DEFINE K == astray = {} => NoWait /\ OrderInv /\ EarlierInv
<1>1. K => OwnAnswer
  BY DEF OrderInv, Own, OwnAnswer
<1>2. Spec => []K
  BY Order
<1> HIDE DEF K
<1> QED
  BY <1>1, <1>2, PTL

\* The assertion at the end of io_flush: it has sent the whole write_buffer.
THEOREM FlushWholeAlways == Spec => [](astray = {} => FlushSendsBuffer)
<1> DEFINE K == astray = {} => NoWait /\ OrderInv /\ EarlierInv
<1>1. K => (astray = {} => FlushSendsBuffer)
  BY DEF OrderInv, FlushWhole, FlushSendsBuffer
<1>2. Spec => []K
  BY Order
<1> HIDE DEF K
<1> QED
  BY <1>1, <1>2, PTL
=============================================================================
