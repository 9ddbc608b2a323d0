------------------------- MODULE ConnectionDelivery -------------------------
(***************************************************************************)
(* What memcached_quit leaves behind when nothing goes wrong: every request *)
(* the application made has been executed.  The argument is conservation:   *)
(* the chunks of the requests are numbered in the order they were made, and *)
(* at any moment the server has consumed the first of them, in order, while *)
(* all the others are on their way; and each answer is counted once.        *)
(***************************************************************************)
EXTENDS ConnectionOrder

\* The chunks made by the calls, and those the server has consumed.
Made == 2 * (nextId - 1)
Consumed == 2 * Len(executed) + (IF parsing = Quit THEN 0 ELSE 1)

\* The chunks on their way, the next one for the server first.
Stream == (toServer \o Pending) \o op.todo

\* The chunk at place p of all that are made, before m: after them comes quit.
Number(c) == IF c.part = "cmd" THEN 2 * c.id - 1 ELSE 2 * c.id
Placed(c, p, m) ==
    IF p <= m THEN c.id # Quit /\ Number(c) = p ELSE c = QuitChunk

\* The chunks of s are those that come after the first n.
InPlace(s, n, m) == \A i \in DOMAIN s : Placed(s[i], n + i, m)

\* The quit command is on its way as the last chunk.
Quitting == op.kind = "quit" /\ peer

\* Nothing is lost, doubled or out of place.
Conserved ==
    /\ Len(Stream) + Consumed = Made + (IF Quitting THEN 1 ELSE 0)
    /\ InPlace(Stream, Consumed, Made)
    /\ \A i \in DOMAIN executed : executed[i] = i
    /\ parsing \in {Quit, Len(executed) + 1}

\* The server closes its end when it has executed everything, on quit.
Finished ==
    /\ ~peer => Consumed = Made
    /\ fd /\ ~peer => op.kind = "quit"
    /\ ~fd => ~peer
    /\ pc = "idle" => op = NoOp
    /\ pc # "idle" => fd
    /\ last.rc = "QUIT" /\ pc = "idle" => ~fd

\* cursor_active counts the answers of all requests made and not read.
Balanced ==
    pc # "quit" =>
        cursor_active + Len(executed) + 1
            = Len(read_buffer) + Len(toClient) + Counted

\* The client's control has met no failure and does not write nothing.
Smooth ==
    /\ ret = "ok"
    /\ \A i \in DOMAIN stack : stack[i].rc = "ok"
    /\ At("send") => Top.rest # <<>>

\* Only answers have come, and nothing counts as a failure.
Answers(s) == \A i \in DOMAIN s : s[i] > 0
Clean == Answers(read_buffer) /\ Answers(toClient) /\ failures = 0

Delivery == Conserved /\ Finished /\ Balanced /\ Smooth /\ Clean
DeliveryInv == closes = 0 /\ astray = {} => Delivery

-----------------------------------------------------------------------------
(* Queues one behind the other.                                            *)

\* What the first gives away has been at the head of the whole.
LEMMA Dequeue ==
    ASSUME NEW S, NEW s \in Seq(S), NEW t \in Seq(S), s # <<>>
    PROVE  /\ s \o t \in Seq(S) /\ s \o t # <<>>
           /\ Head(s \o t) = Head(s) /\ Tail(s \o t) = Tail(s) \o t
<1> PICK u : u = s \o t
  OBVIOUS
<1>1. /\ Len(s) \in Nat \ {0} /\ Len(t) \in Nat
      /\ u \in Seq(S) /\ Len(u) = Len(s) + Len(t)
      /\ \A i \in 1..(Len(s) + Len(t)) :
            u[i] = IF i <= Len(s) THEN s[i] ELSE t[i - Len(s)]
  BY EmptySeq, LenProperties, ConcatProperties
<1>2. u # <<>>
  BY <1>1
<1>3. /\ Tail(u) \in Seq(S) /\ Len(Tail(u)) = Len(u) - 1
      /\ \A i \in 1..Len(Tail(u)) : Tail(u)[i] = u[i + 1]
  BY <1>1, <1>2, HeadTailProperties
<1>4. /\ Tail(s) \in Seq(S) /\ Len(Tail(s)) = Len(s) - 1
      /\ \A i \in 1..Len(Tail(s)) : Tail(s)[i] = s[i + 1]
  BY HeadTailProperties
<1> PICK v : v = Tail(s) \o t
  OBVIOUS
<1>5. /\ v \in Seq(S) /\ Len(v) = Len(Tail(s)) + Len(t)
      /\ \A i \in 1..(Len(Tail(s)) + Len(t)) :
            v[i] = IF i <= Len(Tail(s)) THEN Tail(s)[i]
                                        ELSE t[i - Len(Tail(s))]
  BY <1>4, ConcatProperties
<1>6. Len(Tail(u)) = Len(v)
  BY <1>1, <1>3, <1>4, <1>5
<1>7. ASSUME NEW i \in 1..Len(v) PROVE Tail(u)[i] = v[i]
  <2>1. i \in Nat /\ i + 1 \in 1..(Len(s) + Len(t)) /\ Tail(u)[i] = u[i + 1]
    BY <1>1, <1>3, <1>4, <1>5
  <2>2. CASE i <= Len(s) - 1
    <3>1. u[i + 1] = s[i + 1] /\ v[i] = s[i + 1]
      BY <1>1, <1>4, <1>5, <2>1, <2>2
    <3> QED
      BY <2>1, <3>1
  <2>3. CASE ~(i <= Len(s) - 1)
    <3>1. u[i + 1] = t[i + 1 - Len(s)]
      BY <1>1, <2>1, <2>3
    <3>2. v[i] = t[i - (Len(s) - 1)]
      BY <1>1, <1>4, <1>5, <2>1, <2>3
    <3>3. i + 1 - Len(s) = i - (Len(s) - 1)
      BY <1>1, <2>1
    <3> QED
      BY <2>1, <3>1, <3>2, <3>3
  <2> QED
    BY <2>2, <2>3
<1>8. Tail(u) = v
  BY <1>3, <1>5, <1>6, <1>7, SeqEqual
<1>9. Head(u) = Head(s)
  BY <1>1
<1> QED
  BY <1>1, <1>2, <1>8, <1>9

\* Three queues, whichever two are put together first.
LEMMA Regroup ==
    \A s, t, u \in Seq(Chunk) : (s \o t) \o u = s \o (t \o u)
<1> TAKE s, t, u \in Seq(Chunk)
<1> QED
  BY ConcatAssociative

\* A chunk that goes from the last queue to the one before stays in place.
LEMMA Requeue ==
    \A s, t, u \in Seq(Chunk) :
        u # <<>> => (s \o Append(t, Head(u))) \o Tail(u) = (s \o t) \o u
<1> TAKE s \in Seq(Chunk)
<1>1. \A a, b \in Seq(Chunk) : (s \o a) \o b = s \o (a \o b)
  BY Regroup, Zenon
<1> TAKE t, u \in Seq(Chunk)
<1>2. (s \o t) \o u = s \o (t \o u)
  BY <1>1, Zenon
<1> HAVE u # <<>>
<1>3. PICK h \in Chunk : h = Head(u)
  BY HeadTailProperties
<1>4. Tail(u) \in Seq(Chunk) /\ <<h>> \in Seq(Chunk) /\ <<h>> # <<>>
  BY HeadTailProperties
<1>5. Append(t, h) = t \o <<h>>
  BY AppendIsConcat
<1>6. <<h>> \o Tail(u) = u
  <2> PICK v : v = <<h>> \o Tail(u)
    OBVIOUS
  <2>1. /\ Len(<<h>>) = 1 /\ <<h>>[1] = h /\ Len(u) \in Nat \ {0}
        /\ Len(Tail(u)) = Len(u) - 1 /\ u[1] = h
        /\ \A i \in 1..Len(Tail(u)) : Tail(u)[i] = u[i + 1]
    BY <1>3, EmptySeq, HeadTailProperties
  <2>2. /\ v \in Seq(Chunk) /\ Len(v) = 1 + Len(Tail(u))
        /\ \A i \in 1..(1 + Len(Tail(u))) :
              v[i] = IF i <= 1 THEN <<h>>[i] ELSE Tail(u)[i - 1]
    BY <1>4, <2>1, ConcatProperties
  <2>3. ASSUME NEW i \in 1..Len(v) PROVE v[i] = u[i]
    <3>1. CASE i = 1
      BY <2>1, <2>2, <3>1
    <3>2. CASE i # 1
      <4>1. i - 1 \in 1..Len(Tail(u)) /\ i - 1 + 1 = i
        BY <2>1, <2>2, <3>2
      <4> QED
        BY <2>1, <2>2, <3>2, <4>1
    <3> QED
      BY <3>1, <3>2
  <2>4. Len(v) = Len(u)
    BY <2>1, <2>2
  <2> QED
    BY <2>2, <2>3, <2>4, SeqEqual
<1>7. t \o <<h>> \in Seq(Chunk)
  BY <1>4, ConcatProperties
<1>8. (t \o <<h>>) \o Tail(u) = t \o u
  BY <1>4, <1>6, Regroup
<1>9. (s \o (t \o <<h>>)) \o Tail(u) = (s \o t) \o u
  <2>1. (s \o (t \o <<h>>)) \o Tail(u) = s \o ((t \o <<h>>) \o Tail(u))
    BY <1>4, <1>7, <1>1, Zenon
  <2> QED
    BY <1>8, <1>2, <2>1, Zenon
<1> QED
  BY <1>3, <1>5, <1>9, Zenon

\* And so does a piece sent from one queue to the next.
LEMMA Resend ==
    ASSUME NEW s \in Seq(Chunk), NEW t \in Seq(Chunk), NEW k \in 1..Len(t)
    PROVE  (s \o SubSeq(t, 1, k)) \o SubSeq(t, k + 1, Len(t)) = s \o t
<1>1. ASSUME NEW a \in Seq(Chunk), NEW b \in Seq(Chunk), t = a \o b
      PROVE  (s \o a) \o b = s \o t
  BY <1>1, Regroup
<1>2. Len(t) \in Nat /\ k \in Nat
  BY LenProperties
<1>3. SubSeq(t, 1, k) \in Seq(Chunk) /\ SubSeq(t, k + 1, Len(t)) \in Seq(Chunk)
  BY <1>2, Piece
<1>4. t = SubSeq(t, 1, k) \o SubSeq(t, k + 1, Len(t))
  <2>1. SubSeq(t, 1, k) \o SubSeq(t, k + 1, Len(t)) = SubSeq(t, 1, Len(t))
    BY <1>2, ConcatAdjacentSubSeq
  <2> QED
    BY <2>1, SubSeqFull
<1> QED
  BY <1>1, <1>3, <1>4, Zenon

\* A piece of the answers.
LEMMA AnswersPiece ==
    ASSUME NEW s \in Seq(Line), NEW i \in Nat \ {0}, NEW j \in Nat,
           j <= Len(s)
    PROVE  /\ SubSeq(s, i, j) \in Seq(Line)
           /\ Len(SubSeq(s, i, j)) = IF i <= j THEN j - i + 1 ELSE 0
           /\ Answers(s) => Answers(SubSeq(s, i, j))
<1> PICK t : t = SubSeq(s, i, j)
  OBVIOUS
<1>1. Len(s) \in Nat /\ DOMAIN s = 1..Len(s)
  BY LenProperties
<1>2. \A k \in i..j : s[k] \in Line
  BY <1>1, ElementOfSeq
<1>3. /\ t \in Seq(Line) /\ Len(t) = IF i <= j THEN j - i + 1 ELSE 0
      /\ \A k \in 1..(j - i + 1) : t[k] = s[i + k - 1]
  BY <1>2, SubSeqProperties
<1>4. \A k \in 1..Len(t) : i + k - 1 \in 1..Len(s) /\ t[k] = s[i + k - 1]
  BY <1>1, <1>3
<1>5. DOMAIN t = 1..Len(t)
  BY <1>3, LenProperties
<1>6. Answers(s) => Answers(t)
  BY <1>1, <1>4, <1>5, Zenon DEF Answers
<1> QED
  BY <1>3, <1>6

\* All but the first.
LEMMA AnswersTail ==
    ASSUME NEW s \in Seq(Line), s # <<>>, Answers(s)
    PROVE  /\ Head(s) > 0 /\ Answers(Tail(s))
           /\ Len(s) = Len(Tail(s)) + 1 /\ Len(Tail(s)) \in Nat
<1>1. Len(s) \in Nat \ {0} /\ Head(s) = s[1] /\ DOMAIN s = 1..Len(s)
  BY EmptySeq, HeadTailProperties, LenProperties
<1>2. Answers(Tail(s))
  <2>1. Answers(SubSeq(s, 2, Len(s)))
    BY <1>1, AnswersPiece
  <2>2. Tail(s) = SubSeq(s, 2, Len(s))
    OBVIOUS
  <2> QED
    BY <2>1, <2>2, Zenon
<1>3. Len(Tail(s)) = Len(s) - 1
  BY HeadTailProperties
<1>4. Len(s) = Len(Tail(s)) + 1 /\ Len(Tail(s)) \in Nat
  BY <1>1, <1>3
<1>5. Head(s) > 0
  BY <1>1 DEF Answers
<1> QED
  BY <1>2, <1>4, <1>5

\* Answers behind answers.
LEMMA AnswersJoin ==
    ASSUME NEW s \in Seq(Line), NEW t \in Seq(Line), Answers(s), Answers(t)
    PROVE  /\ s \o t \in Seq(Line) /\ Len(s \o t) = Len(s) + Len(t)
           /\ Answers(s \o t)
<1> PICK u : u = s \o t
  OBVIOUS
<1>1. /\ Len(s) \in Nat /\ Len(t) \in Nat /\ Len(u) = Len(s) + Len(t)
      /\ DOMAIN s = 1..Len(s) /\ DOMAIN t = 1..Len(t)
      /\ u \in Seq(Line)
      /\ \A i \in 1..(Len(s) + Len(t)) :
            u[i] = IF i <= Len(s) THEN s[i] ELSE t[i - Len(s)]
  BY LenProperties, ConcatProperties
<1>2. DOMAIN u = 1..(Len(s) + Len(t))
  BY <1>1, LenProperties
<1>3. ASSUME NEW i \in DOMAIN u PROVE u[i] > 0
  <2>1. CASE i <= Len(s)
    <3>1. i \in DOMAIN s /\ u[i] = s[i]
      BY <1>1, <1>2, <2>1
    <3> QED
      BY <3>1 DEF Answers
  <2>2. CASE ~(i <= Len(s))
    <3>1. i - Len(s) \in DOMAIN t /\ u[i] = t[i - Len(s)]
      BY <1>1, <1>2, <2>2
    <3> QED
      BY <3>1 DEF Answers
  <2> QED
    BY <2>1, <2>2
<1>4. Answers(u)
  BY <1>3 DEF Answers
<1> QED
  BY <1>1, <1>4

-----------------------------------------------------------------------------
(* The places of the chunks.                                               *)

\* New chunks go to the end.
LEMMA Enqueue ==
    ASSUME NEW q \in Seq(Chunk), NEW b \in Seq(Chunk), NEW n \in Nat,
           NEW m \in Nat, NEW d \in Nat, Len(q) + n = m,
           InPlace(q, n, m), InPlace(b, m, m + d)
    PROVE  /\ q \o b \in Seq(Chunk) /\ Len(q \o b) = Len(q) + Len(b)
           /\ InPlace(q \o b, n, m + d)
<1> PICK u : u = q \o b
  OBVIOUS
<1>1. /\ Len(q) \in Nat /\ Len(b) \in Nat /\ Len(u) = Len(q) + Len(b)
      /\ DOMAIN q = 1..Len(q) /\ DOMAIN b = 1..Len(b)
      /\ u \in Seq(Chunk)
      /\ \A i \in 1..(Len(q) + Len(b)) :
            u[i] = IF i <= Len(q) THEN q[i] ELSE b[i - Len(q)]
  BY LenProperties, ConcatProperties
<1>2. DOMAIN u = 1..(Len(q) + Len(b))
  BY <1>1, LenProperties
<1>3. ASSUME NEW i \in DOMAIN u PROVE Placed(u[i], n + i, m + d)
  <2>1. i \in Nat
    BY <1>1, <1>2
  <2>2. CASE i <= Len(q)
    <3>1. i \in DOMAIN q /\ u[i] = q[i]
      BY <1>1, <1>2, <2>2
    <3>2. n + i <= m /\ n + i <= m + d
      BY <1>1, <2>1, <2>2
    <3>3. Placed(q[i], n + i, m)
      BY <3>1 DEF InPlace
    <3>4. q[i].id # Quit /\ Number(q[i]) = n + i
      BY <3>2, <3>3, Zenon DEF Placed
    <3> QED
      BY <3>1, <3>2, <3>4, Zenon DEF Placed
  <2>3. CASE ~(i <= Len(q))
    <3>1. i - Len(q) \in DOMAIN b /\ u[i] = b[i - Len(q)]
      BY <1>1, <1>2, <2>3
    <3>2. Placed(b[i - Len(q)], m + (i - Len(q)), m + d)
      BY <3>1, Zenon DEF InPlace
    <3>3. m + (i - Len(q)) = n + i
      BY <1>1, <2>1
    <3> QED
      BY <3>1, <3>2, <3>3, Zenon
  <2> QED
    BY <2>2, <2>3
<1> QED
  BY <1>1, <1>3 DEF InPlace

\* The two chunks of a request come after those of the requests before.
LEMMA RequestPlaced ==
    ASSUME NEW id \in Ids
    PROVE  /\ Chunks(id) \in Seq(Chunk) /\ Len(Chunks(id)) = 2
           /\ InPlace(Chunks(id), 2 * (id - 1), 2 * (id - 1) + 2)
<1>1. id \in Nat \ {0}
  BY ConnectionAssumption DEF Ids
<1>2. Chunks(id) \in Seq(Chunk)
  BY ChunksTyped
<1> PICK c : c = [id |-> id, part |-> "cmd"]
  OBVIOUS
<1> PICK e : e = [id |-> id, part |-> "data"]
  OBVIOUS
<1>3. c.id # Quit /\ e.id # Quit
  BY <1>1 DEF Quit
<1>4. Number(c) = 2 * id - 1 /\ Number(e) = 2 * id
  BY DEF Number
<1>5. /\ 2 * (id - 1) + 1 = 2 * id - 1 /\ 2 * (id - 1) + 2 = 2 * id
      /\ 2 * (id - 1) + 1 <= 2 * (id - 1) + 2
      /\ 2 * (id - 1) + 2 <= 2 * (id - 1) + 2
  BY <1>1
<1>6. /\ Placed(c, 2 * (id - 1) + 1, 2 * (id - 1) + 2)
      /\ Placed(e, 2 * (id - 1) + 2, 2 * (id - 1) + 2)
  BY <1>3, <1>4, <1>5, Zenon DEF Placed
<1> PICK b : b = <<c, e>>
  OBVIOUS
<1>7. b = Chunks(id) /\ Len(b) = 2
  BY DEF Chunks
<1>8. DOMAIN b = {1, 2} /\ b[1] = c /\ b[2] = e
  OBVIOUS
<1>9. InPlace(b, 2 * (id - 1), 2 * (id - 1) + 2)
  BY <1>6, <1>8, Zenon DEF InPlace
<1> QED
  BY <1>2, <1>7, <1>9

\* quit comes after everything, and nothing needs no place.
LEMMA QuitPlaced ==
    ASSUME NEW m \in Nat
    PROVE  InPlace(<<QuitChunk>>, m, m + 0) /\ InPlace(<<>>, m, m + 0)
<1>1. ~(m + 1 <= m + 0)
  OBVIOUS
<1>2. Placed(QuitChunk, m + 1, m + 0)
  BY <1>1, Zenon DEF Placed
<1> PICK c : c = QuitChunk
  OBVIOUS
<1> PICK b : b = <<c>>
  OBVIOUS
<1>3. DOMAIN b = {1} /\ b[1] = c
  OBVIOUS
<1>4. InPlace(b, m, m + 0)
  BY <1>2, <1>3, Zenon DEF InPlace
<1>5. InPlace(<<>>, m, m + 0)
  BY DEF InPlace
<1> QED
  BY <1>4, <1>5

-----------------------------------------------------------------------------
(* The client's control while nothing fails.                               *)

\* A frame returns.
LEMMA SmoothPop ==
    ASSUME IndInv, PurgeControl, stack # <<>>, Smooth, Pop("ok"),
           cursor_active' = cursor_active
    PROVE  Smooth' /\ ~At("send")'
<1>1. ~At("send")'
  BY AfterPop
<1>2. /\ stack \in Seq(Frames) /\ stack' \in Seq(Frames)
      /\ Len(stack') = Len(stack) - 1 /\ Len(stack) \in Nat
      /\ \A i \in 1..Len(stack') : stack'[i] = stack[i]
      /\ ret' = "ok"
  BY PopTop, LenProperties DEF Pop, IndInv, TypeOK
<1>3. /\ DOMAIN stack = 1..Len(stack) /\ DOMAIN stack' = 1..Len(stack')
      /\ Len(stack') \in Nat
  BY <1>2, LenProperties
<1>4. \A i \in DOMAIN stack' : i \in DOMAIN stack /\ stack'[i] = stack[i]
  BY <1>2, <1>3
<1>5. \A i \in DOMAIN stack' : stack'[i].rc = "ok"
  BY <1>4 DEF Smooth
<1> QED
  BY <1>1, <1>2, <1>5 DEF Smooth

\* A frame goes on as f.
LEMMA SmoothBecome ==
    ASSUME IndInv, stack # <<>>, Smooth, NEW f \in Frames, Become(f),
           f.rc = "ok", f.at = "send" => f.rest # <<>>, ret' \in {"ok", ret}
    PROVE  Smooth' /\ Top' = f /\ stack' # <<>>
<1>1. Top' = f /\ stack' # <<>>
  BY BecomeAt
<1>2. /\ stack \in Seq(Frames) /\ stack' \in Seq(Frames)
      /\ Len(stack') = Len(stack) /\ Len(stack) \in Nat
      /\ \A i \in 1..(Len(stack) - 1) : stack'[i] = stack[i]
      /\ stack'[Len(stack)] = f
  BY BecomeTop, LenProperties DEF Become, IndInv, TypeOK
<1>3. DOMAIN stack = 1..Len(stack) /\ DOMAIN stack' = 1..Len(stack)
  BY <1>2, LenProperties
<1>4. \A i \in DOMAIN stack' :
         (i \in DOMAIN stack /\ stack'[i] = stack[i]) \/ stack'[i] = f
  BY <1>2, <1>3
<1>5. \A i \in DOMAIN stack' : stack'[i].rc = "ok"
  BY <1>4 DEF Smooth
<1>6. ret' = "ok"
  BY DEF Smooth
<1> QED
  BY <1>1, <1>5, <1>6 DEF Smooth, At

\* memcached_purge is called.
LEMMA SmoothPush ==
    ASSUME IndInv, stack # <<>>, Smooth, NeedPurge, NEW f \in Frames,
           StartPurge(f), f.rc = "ok", cursor_active' = cursor_active
    PROVE  Smooth' /\ ~At("send")'
<1>1. ~At("send")'
  BY AfterPush
<1> PICK g \in Frames : g = Frame("purge") /\ g.rc = "ok"
  BY FrameTyped
<1> PICK h \in Frames : h = Frame("flush") /\ h.rc = "ok"
  BY FrameTyped
<1>2. /\ stack \in Seq(Frames) /\ ret' = "ok"
     /\ stack' = Front(stack) \o <<f, g, h>>
  BY DEF StartPurge, IndInv, TypeOK
<1>3. Front(stack) \in Seq(Frames)
      /\ Len(Front(stack)) = Len(stack) - 1 /\ Len(stack) \in Nat \ {0}
      /\ \A i \in 1..(Len(stack) - 1) : Front(stack)[i] = stack[i]
  BY <1>2, TopAndFront
<1> PICK b \in Seq(Frames) : b = <<f, g, h>> /\ Len(b) = 3
  <2>1. <<f, g, h>> \in Seq(Frames) /\ Len(<<f, g, h>>) = 3
    OBVIOUS
  <2> QED
    BY <2>1
<1>4. \A i \in 1..3 : b[i].rc = "ok"
  OBVIOUS
<1>5. /\ stack' \in Seq(Frames) /\ Len(stack') = Len(stack) - 1 + 3
      /\ \A i \in 1..(Len(stack) - 1 + 3) :
            stack'[i] = IF i <= Len(stack) - 1 THEN Front(stack)[i]
                                               ELSE b[i - (Len(stack) - 1)]
  BY <1>2, <1>3, ConcatProperties
<1>6. DOMAIN stack = 1..Len(stack) /\ DOMAIN stack' = 1..(Len(stack) - 1 + 3)
  BY <1>2, <1>5, LenProperties
<1>7. ASSUME NEW i \in DOMAIN stack' PROVE stack'[i].rc = "ok"
  <2>1. CASE i <= Len(stack) - 1
    <3>1. i \in DOMAIN stack /\ stack'[i] = stack[i]
      BY <1>3, <1>5, <1>6, <2>1
    <3> QED
      BY <3>1 DEF Smooth
  <2>2. CASE ~(i <= Len(stack) - 1)
    <3>1. i - (Len(stack) - 1) \in 1..3
      BY <1>3, <1>6, <2>2
    <3>2. stack'[i] = b[i - (Len(stack) - 1)]
      BY <1>5, <1>6, <2>2
    <3> QED
      BY <1>4, <3>1, <3>2
  <2> QED
    BY <2>1, <2>2
<1> QED
  BY <1>1, <1>2, <1>7 DEF Smooth

\* Outside io_flush, and when it is called.
LEMMA SmoothCall ==
    ASSUME ret' = "ok", stack' = <<>> \/ stack' = <<Frame("flush")>>
    PROVE  Smooth' /\ ~At("send")'
<1>1. ~At("send")'
  BY NoPurge
<1>2. \A i \in DOMAIN stack' : stack'[i].rc = "ok"
  <2>1. Frame("flush").rc = "ok"
    BY FrameTyped
  <2> PICK f : f = Frame("flush")
    OBVIOUS
  <2>2. CASE stack' = <<>>
    BY <2>2
  <2>3. CASE stack' = <<f>>
    BY <2>1, <2>3
  <2> QED
    BY <2>2, <2>3
<1> QED
  BY <1>1, <1>2 DEF Smooth

\* The write loop begins, or there is nothing to write.
LEMMA SmoothSend ==
    ASSUME IndInv, PurgeControl, stack # <<>>, Smooth, BeginSend,
           cursor_active' = cursor_active
    PROVE  Smooth'
<1>1. CASE write_buffer = <<>>
  BY <1>1, SmoothPop DEF BeginSend
<1>2. CASE write_buffer # <<>>
  <2>1. write_buffer \in Seq(Chunk) /\ Frame("send") \in Frames
        /\ Frame("send").rc = "ok" /\ Frame("send").at = "send"
    BY FrameTyped DEF IndInv, TypeOK
  <2> PICK f : f = [Frame("send") EXCEPT !.rest = write_buffer]
    OBVIOUS
  <2>2. f \in Frames /\ f.rest = write_buffer /\ f.rc = "ok"
    BY <2>1 DEF Frames
  <2>3. Become(f) /\ ret' = "ok"
    BY <1>2 DEF BeginSend
  <2> QED
    BY <1>2, <2>2, <2>3, SmoothBecome
<1> QED
  BY <1>1, <1>2

-----------------------------------------------------------------------------
(* What the invariant says.                                                *)

Sizes ==
    /\ Stream \in Seq(Chunk) /\ Len(Stream) \in Nat
    /\ Len(Stream) = Len(toServer) + Len(Pending) + Len(op.todo)
    /\ Len(toServer) \in Nat /\ Len(Pending) \in Nat /\ Len(op.todo) \in Nat
    /\ Len(executed) \in Nat /\ Len(read_buffer) \in Nat
    /\ Len(toClient) \in Nat
    /\ nextId \in Nat \ {0} /\ parsing \in Nat /\ cursor_active \in Nat
    /\ Made \in Nat /\ Consumed \in Nat

\* What is counted are numbers.
LEMMA Sized == IndInv => Sizes
<1> SUFFICES ASSUME IndInv PROVE Sizes
  OBVIOUS
<1>1. /\ read_buffer \in Seq(Line) /\ toClient \in Seq(Line)
      /\ toServer \in Seq(Chunk) /\ Pending \in Seq(Chunk)
      /\ op.todo \in Seq(Chunk) /\ executed \in Seq(Ids)
      /\ nextId \in Nat \ {0} /\ cursor_active \in Nat
  BY StagesTyped
<1>2. parsing \in Nat
  BY ConnectionAssumption DEF IndInv, TypeOK, Ids, Quit
<1>3. /\ Len(executed) \in Nat /\ Len(read_buffer) \in Nat
      /\ Len(toClient) \in Nat /\ Len(toServer) \in Nat
      /\ Len(Pending) \in Nat /\ Len(op.todo) \in Nat
  BY <1>1, LenProperties
<1> PICK q : q = toServer \o Pending
  OBVIOUS
<1>4. q \in Seq(Chunk) /\ Len(q) = Len(toServer) + Len(Pending)
  BY <1>1, ConcatProperties
<1>5. q \o op.todo \in Seq(Chunk) /\ Len(q \o op.todo) = Len(q) + Len(op.todo)
  BY <1>1, <1>4, ConcatProperties
<1>6. Stream = q \o op.todo
  BY DEF Stream
<1>7. Made \in Nat
  BY <1>1 DEF Made
<1>8. Consumed \in Nat
  BY <1>3 DEF Consumed
<1>9. Len(Stream) = Len(toServer) + Len(Pending) + Len(op.todo)
  BY <1>4, <1>5, <1>6
<1>10. Len(Stream) \in Nat
  BY <1>5, <1>6, LenProperties
<1> QED
  BY <1>1, <1>2, <1>3, <1>5, <1>6, <1>7, <1>8, <1>9, <1>10 DEF Sizes

\* And in the next state.
LEMMA SizedNext == IndInv' => Sizes'
BY Sized, PTL

\* When the server has gone, everything has been executed.
LEMMA AllDone ==
    ASSUME IndInv, Conserved, ~peer, Consumed = Made
    PROVE  /\ toServer = <<>> /\ Pending = <<>> /\ op.todo = <<>>
           /\ Stream = <<>> /\ parsing = Quit /\ Len(executed) = nextId - 1
<1>1. Sizes
  BY Sized
<1>2. Len(Stream) = 0
  <2>1. Len(Stream) + Consumed = Made + 0
    BY Zenon DEF Conserved, Quitting
  <2>2. \A x, m \in Nat : x + m = m + 0 => x = 0
    OBVIOUS
  <2> QED
    BY <1>1, <2>1, <2>2, Zenon DEF Sizes
<1>3. Len(toServer) = 0 /\ Len(Pending) = 0 /\ Len(op.todo) = 0
  <2>1. \A a, b, c \in Nat : 0 = a + b + c => a = 0 /\ b = 0 /\ c = 0
    OBVIOUS
  <2>2. 0 = Len(toServer) + Len(Pending) + Len(op.todo)
    BY <1>1, <1>2, Zenon DEF Sizes
  <2>3. /\ Len(toServer) \in Nat /\ Len(Pending) \in Nat
        /\ Len(op.todo) \in Nat
    BY <1>1, Zenon DEF Sizes
  <2> QED
    BY <2>1, <2>2, <2>3, Zenon
<1>4. /\ toServer \in Seq(Chunk) /\ Pending \in Seq(Chunk)
      /\ op.todo \in Seq(Chunk) /\ Stream \in Seq(Chunk)
  BY <1>1, StagesTyped DEF Sizes
<1>5. \A s \in Seq(Chunk) : Len(s) = 0 => s = <<>>
  BY EmptySeq
<1>6. \A m, n \in Nat, b \in {0, 1} :
         2 * m + b = 2 * (n - 1) => b = 0 /\ m = n - 1
  OBVIOUS
<1>7. (IF parsing = Quit THEN 0 ELSE 1) \in {0, 1}
  OBVIOUS
<1>8. 2 * Len(executed) + (IF parsing = Quit THEN 0 ELSE 1) = 2 * (nextId - 1)
  BY Zenon DEF Consumed, Made
<1>9. (IF parsing = Quit THEN 0 ELSE 1) = 0 /\ Len(executed) = nextId - 1
  BY <1>1, <1>6, <1>7, <1>8, Zenon DEF Sizes
<1> QED
  BY <1>2, <1>3, <1>4, <1>5, <1>7, <1>9

\* Every chunk stays in its place.
LEMMA StillConserved ==
    ASSUME Conserved, Stream' = Stream, Quitting' = Quitting,
           UNCHANGED <<parsing, executed, nextId>>
    PROVE  Conserved' /\ Consumed' = Consumed /\ Made' = Made
<1>1. Consumed' = Consumed /\ Made' = Made
  BY DEF Consumed, Made
<1>2. InPlace(Stream, Consumed, Made)'
  BY <1>1, Zenon DEF Conserved, InPlace
<1> QED
  BY <1>1, <1>2, Zenon DEF Conserved

\* io_flush writes to a server that listens.
LEMMA Listening ==
    ASSUME IndInv, OrderInv, Delivery, At("send") PROVE fd /\ peer
<1>1. pc # "idle"
  BY DEF At, OrderInv, CallControl
<1>2. fd
  BY <1>1 DEF Delivery, Finished
<1>3. Pending # <<>>
  BY DEF Delivery, Smooth, Pending
<1>4. peer
  BY <1>3, AllDone DEF Delivery, Finished
<1> QED
  BY <1>2, <1>4

\* What is in s and in t, in all.
InAll(s, t) == Len(s) + Len(t)

\* A call that expects an answer reads one.
LEMMA Reads ==
    ASSUME IndInv, OrderInv, Delivery, Faults = {}, cursor_active > 0,
           pc \notin {"idle", "quit"}, NEW o \in Responses
    PROVE  /\ o.strikes = 0 /\ o.rc = "STORED"
           /\ Answers(o.rb) /\ Answers(o.tc)
           /\ InAll(read_buffer, toClient) = InAll(o.rb, o.tc) + 1
<1>1. /\ read_buffer \in Seq(Line) /\ toClient \in Seq(Line)
      /\ Answers(read_buffer) /\ Answers(toClient) /\ fd
      /\ fd /\ ~peer => Consumed = Made /\ op.kind = "quit"
  BY StagesTyped DEF Delivery, Clean, Finished
<1>2. Len(read_buffer) \in Nat /\ Len(toClient) \in Nat
  BY <1>1, LenProperties
<1>3. ASSUME NEW l, NEW rb, NEW tc, NEW fresh, l > 0,
             o = Parsed(l, rb, tc, fresh)
      PROVE  o.strikes = 0 /\ o.rc = "STORED" /\ o.rb = rb /\ o.tc = tc
  <2>1. l # ERROR
    BY <1>3 DEF ERROR
  <2> QED
    BY <1>3, <2>1 DEF Parsed, Outcome
<1>4. \A s \in Seq(Line) :
         s # <<>> /\ Answers(s) =>
            /\ Head(s) > 0 /\ Answers(Tail(s))
            /\ Len(s) = Len(Tail(s)) + 1 /\ Len(Tail(s)) \in Nat
  BY AnswersTail
<1>5. CASE read_buffer # <<>>
  <2>1. o = Parsed(Head(read_buffer), Tail(read_buffer), toClient, FALSE)
    BY <1>1, <1>5 DEF Responses
  <2>2. /\ Head(read_buffer) > 0 /\ Answers(Tail(read_buffer))
        /\ Len(read_buffer) = Len(Tail(read_buffer)) + 1
        /\ Len(Tail(read_buffer)) \in Nat
    BY <1>1, <1>4, <1>5
  <2>3. /\ o.strikes = 0 /\ o.rc = "STORED"
        /\ o.rb = Tail(read_buffer) /\ o.tc = toClient
    BY <1>3, <2>1, <2>2
  <2>4. \A a, b \in Nat : (a + 1) + b = (a + b) + 1
    OBVIOUS
  <2>5. InAll(read_buffer, toClient) = InAll(Tail(read_buffer), toClient) + 1
    BY <1>2, <2>2, <2>4, Zenon DEF InAll
  <2> QED
    BY <1>1, <2>2, <2>3, <2>5
<1>6. CASE read_buffer = <<>> /\ toClient # <<>>
  <2> DEFINE k == IF Len(toClient) < RBufMax THEN Len(toClient) ELSE RBufMax
  <2>1. o = Parsed(Head(toClient), SubSeq(toClient, 2, k),
                   SubSeq(toClient, k + 1, Len(toClient)), TRUE)
    BY <1>1, <1>6 DEF Responses
  <2>2. k \in Nat \ {0} /\ k <= Len(toClient)
    BY <1>1, <1>6, EmptySeq, ConnectionAssumption
  <2> HIDE DEF k
  <2> PICK p : p = SubSeq(toClient, 2, k)
    OBVIOUS
  <2> PICK q : q = SubSeq(toClient, k + 1, Len(toClient))
    OBVIOUS
  <2>3. Answers(p) /\ Len(p) = IF 2 <= k THEN k - 2 + 1 ELSE 0
    BY <1>1, <2>2, AnswersPiece
  <2>4. Answers(q) /\ Len(q) = IF k + 1 <= Len(toClient)
                               THEN Len(toClient) - (k + 1) + 1 ELSE 0
    BY <1>1, <1>2, <2>2, AnswersPiece
  <2>5. Head(toClient) > 0
    BY <1>1, <1>4, <1>6
  <2>6. /\ o.strikes = 0 /\ o.rc = "STORED" /\ o.rb = p /\ o.tc = q
    BY <1>3, <2>1, <2>5
  <2>7. Len(p) = k - 1 /\ Len(q) = Len(toClient) - k
    BY <1>2, <2>2, <2>3, <2>4
  <2>8. Len(read_buffer) = 0
    BY <1>6
  <2>9. 0 + Len(toClient) = ((k - 1) + (Len(toClient) - k)) + 1
    BY <1>2, <2>2
  <2>10. InAll(read_buffer, toClient) = InAll(p, q) + 1
    BY <2>7, <2>8, <2>9, Zenon DEF InAll
  <2> QED
    BY <2>3, <2>4, <2>6, <2>10
<1>7. CASE read_buffer = <<>> /\ toClient = <<>>
  <2>1. ~peer
    BY <1>1, <1>7 DEF Responses
  <2>2. op.kind = "quit" /\ Consumed = Made
    BY <1>1, <2>1
  <2>3. Len(executed) = nextId - 1
    BY <2>1, <2>2, AllDone DEF Delivery
  <2>4. Counted = nextId
    BY <2>2 DEF Counted, Counting
  <2>5. cursor_active + Len(executed) + 1 = 0 + 0 + nextId
    <3>1. Len(<<>>) = 0
      OBVIOUS
    <3> QED
      BY <1>7, <2>4, <3>1, Zenon DEF Delivery, Balanced
  <2>6. cursor_active \in Nat /\ nextId \in Nat
    BY StagesTyped
  <2> QED
    BY <2>3, <2>5, <2>6
<1> QED
  BY <1>5, <1>6, <1>7

-----------------------------------------------------------------------------
(* Each step keeps it.                                                     *)

\* A call goes on: whatever moves stays in its place.
LEMMA GoesOn ==
    ASSUME Delivery, Smooth', Balanced', Clean', Stream' = Stream,
           op'.kind = op.kind, pc = "idle" => op' = op,
           pc' = pc \/ (pc # "idle" /\ pc' # "idle"),
           UNCHANGED <<fd, last, nextId, server>>
    PROVE  Delivery'
<1>1. /\ Quitting' = Quitting /\ peer' = peer
      /\ parsing' = parsing /\ executed' = executed
  BY DEF Quitting, server
<1>2. Conserved' /\ Consumed' = Consumed /\ Made' = Made
  BY <1>1, StillConserved DEF Delivery
<1>3. Finished'
  BY <1>1, <1>2 DEF Delivery, Finished
<1> QED
  BY <1>2, <1>3 DEF Delivery

\* A call other than memcached_quit returns.
LEMMA Returns ==
    ASSUME Delivery, Smooth', Balanced', Clean', Stream' = Stream,
           fd, op.kind # "quit", pc' = "idle", op' = NoOp, last'.rc # "QUIT",
           UNCHANGED <<fd, nextId, server>>
    PROVE  Delivery'
<1>1. /\ peer' = peer /\ parsing' = parsing /\ executed' = executed
      /\ NoOp.kind = "none"
  BY DEF server, NoOp
<1>2. Quitting' = Quitting /\ peer
  BY <1>1 DEF Quitting, Delivery, Finished
<1>3. Conserved' /\ Consumed' = Consumed /\ Made' = Made
  BY <1>1, <1>2, StillConserved DEF Delivery
<1>4. Finished'
  BY <1>1, <1>2 DEF Finished
<1> QED
  BY <1>3, <1>4 DEF Delivery

\* The client moves on without touching what is on its way.
LEMMA StillDelivery ==
    ASSUME Delivery, Smooth', Pending' = Pending, op'.todo = op.todo,
           op'.kind = op.kind, op'.id = op.id, pc = "idle" => op' = op,
           UNCHANGED <<fd, cursor_active, read_buffer, failures, pc, last,
                       nextId, net, server>>
    PROVE  Delivery'
<1>1. /\ Stream' = Stream /\ Counted' = Counted
      /\ toClient' = toClient /\ executed' = executed
  BY DEF Stream, Counted, Counting, net, server
<1>2. Balanced' /\ Clean'
  BY <1>1 DEF Delivery, Balanced, Clean
<1> QED
  BY <1>1, <1>2, GoesOn

\* What the client has read and not looked at, and the connections it has
\* given up, do not matter.
LEMMA UnmovedDelivery ==
    ASSUME Delivery,
           UNCHANGED <<control, fd, cursor_active, write_buffer, read_buffer,
                       failures, net, peer, parsing, executed>>
    PROVE  Delivery'
<1>1. /\ UNCHANGED <<pc, op, stack, ret, last, nextId, toServer, toClient>>
      /\ Pending' = Pending /\ Counted' = Counted /\ Consumed' = Consumed
      /\ Made' = Made /\ Quitting' = Quitting
  BY DEF control, net, Pending, At, Top, Counted, Counting, Consumed, Made,
     Quitting
<1>2. Stream' = Stream
  BY <1>1 DEF Stream
<1>3. Conserved'
  BY <1>1, <1>2, StillConserved DEF Delivery
<1>4. Finished' /\ Balanced' /\ Smooth' /\ Clean'
  BY <1>1 DEF Delivery, Finished, Balanced, Smooth, Clean, Answers, At, Top
<1> QED
  BY <1>3, <1>4 DEF Delivery

\* io_flush and memcached_purge begin.
LEMMA FlushDelivery ==
    ASSUME IndInv, OrderInv, Delivery, FlushEnter \/ FlushPurged
    PROVE  Delivery'
<1>1. /\ stack # <<>> /\ Top.at \in {"flush", "purged"} /\ ~At("send")
      /\ write_buffer' = write_buffer /\ cursor_active' = cursor_active
      /\ fd' = fd /\ read_buffer' = read_buffer /\ failures' = failures
      /\ pc' = pc /\ op' = op /\ last' = last /\ nextId' = nextId
      /\ net' = net /\ server' = server /\ Pending = write_buffer
  BY DEF FlushEnter, FlushPurged, At, client, Pending
<1>2. PurgeControl /\ Smooth
  BY DEF OrderInv, Delivery
<1>3. Pending' = Pending /\ Smooth'
  <2>1. CASE BeginSend
    BY <1>1, <1>2, <2>1, BeginSendOrder, SmoothSend
  <2>2. CASE NeedPurge /\ StartPurge(Frame("purged"))
    <3> PICK f \in Frames : f = Frame("purged") /\ f.rc = "ok"
      BY FrameTyped
    <3>1. StartPurge(f)
      BY <2>2
    <3>2. Smooth' /\ ~At("send")'
      BY <1>1, <1>2, <2>2, <3>1, SmoothPush
    <3> QED
      BY <1>1, <3>2 DEF Pending
  <2> QED
    BY <1>2, <2>1, <2>2 DEF FlushEnter, FlushPurged, Smooth
<1> QED
  BY <1>1, <1>3, StillDelivery

\* The purge begins to read and is over.
LEMMA PurgeDelivery ==
    ASSUME IndInv, OrderInv, Delivery, PurgeFlushed \/ PurgeDone
    PROVE  Delivery'
<1>1. /\ stack # <<>> /\ Top.at \in {"purge", "drain"} /\ ~At("send")
      /\ write_buffer' = write_buffer /\ cursor_active' = cursor_active
      /\ fd' = fd /\ read_buffer' = read_buffer /\ failures' = failures
      /\ pc' = pc /\ op' = op /\ last' = last /\ nextId' = nextId
      /\ net' = net /\ server' = server /\ Pending = write_buffer
      /\ PurgeControl /\ Smooth
  BY DEF PurgeFlushed, PurgeDone, At, Pending, OrderInv, Delivery
<1>2. Smooth' /\ ~At("send")'
  <2>1. CASE Pop("ok")
    BY <1>1, <2>1, SmoothPop
  <2>2. CASE PurgeDone
    <3>1. Top.rc = "ok"
      <4>1. Top = stack[Len(stack)] /\ Len(stack) \in 1..3
        BY <1>1, TopFrame
      <4> QED
        BY <1>1, <4>1 DEF Smooth
    <3> QED
      BY <2>1, <2>2, <3>1 DEF PurgeDone
  <2>3. CASE Become([Frame("drain") EXCEPT !.n = Decrement(cursor_active)])
             /\ ret' = ret
    <3> PICK f : f = [Frame("drain") EXCEPT !.n = Decrement(cursor_active)]
      OBVIOUS
    <3>1. f \in Frames /\ f.at = "drain" /\ f.rc = "ok"
      <4>1. Frame("drain") \in Frames /\ Frame("drain").at = "drain"
            /\ Frame("drain").rc = "ok"
        BY FrameTyped
      <4>2. Decrement(cursor_active) \in 0..(CursorMod - 1)
        BY CursorInRange DEF IndInv, TypeOK
      <4> QED
        BY <4>1, <4>2 DEF Frames
    <3>2. Smooth' /\ Top' = f
      BY <1>1, <2>3, <3>1, SmoothBecome
    <3> QED
      BY <3>1, <3>2 DEF At
  <2>4. ret = "ok"
    BY <1>1 DEF Smooth
  <2> QED
    BY <2>1, <2>2, <2>3, <2>4 DEF PurgeFlushed
<1>3. Pending' = Pending
  BY <1>1, <1>2 DEF Pending
<1> QED
  BY <1>1, <1>2, <1>3, StillDelivery

\* The call flushes, and nothing happens.
LEMMA WriteFlushDelivery ==
    ASSUME IndInv, Delivery, WriteFlush \/ UNCHANGED vars PROVE Delivery'
<1>1. CASE WriteFlush
  <2>1. stack' = <<Frame("flush")>> /\ write_buffer' = write_buffer
        /\ ~At("send") /\ op \in Calls /\ pc = "write" /\ ret' = "ok"
        /\ op' = [op EXCEPT !.flush = FALSE]
    BY <1>1 DEF WriteFlush, Writing, At, client, IndInv, TypeOK
  <2>2. op'.todo = op.todo /\ op'.kind = op.kind /\ op'.id = op.id
    BY <2>1 DEF Calls
  <2>3. Smooth' /\ ~At("send")'
    BY <2>1, SmoothCall
  <2>4. Pending' = Pending
    BY <2>1, <2>3 DEF Pending
  <2> QED
    BY <1>1, <2>1, <2>2, <2>3, <2>4, StillDelivery DEF WriteFlush, client
<1>2. CASE UNCHANGED vars
  <2>1. stack' = stack /\ ret' = ret /\ write_buffer' = write_buffer
        /\ op' = op
    BY <1>2 DEF vars, client, control
  <2>2. Smooth' /\ Pending' = Pending
    BY <2>1 DEF Delivery, Smooth, Pending, At, Top
  <2> QED
    BY <1>2, <2>1, <2>2, StillDelivery DEF vars, client, control
<1> QED
  BY <1>1, <1>2

\* A piece of the buffer is written.
LEMMA SendDelivery ==
    ASSUME IndInv, OrderInv, Delivery, NEW k \in 1..NetCap, Send(k)
    PROVE  Delivery'
<1>1. /\ At("send") /\ stack # <<>> /\ Top.at = "send" /\ Top \in Frames
      /\ pc' = pc /\ op' = op /\ cursor_active' = cursor_active
      /\ read_buffer' = read_buffer /\ failures' = failures
      /\ toClient' = toClient /\ nextId' = nextId /\ last' = last /\ fd' = fd
      /\ server' = server /\ k \in 1..Len(Top.rest) /\ PurgeControl /\ Smooth
  BY TopFrame DEF Send, At, OrderInv, Delivery
<1> PICK t : t = Top.rest
  OBVIOUS
<1>2. t \in Seq(Chunk) /\ Len(t) \in Nat /\ Pending = t /\ k \in 1..Len(t)
  BY <1>1, LenProperties DEF Frames, Pending
<1> PICK p : p = SubSeq(t, 1, k)
  OBVIOUS
<1> PICK q : q = SubSeq(t, k + 1, Len(t))
  OBVIOUS
<1>3. q \in Seq(Chunk) /\ Len(q) = Len(t) - k
  BY <1>2, Piece, RestLength
<1>4. Pending' = q /\ Smooth'
  <2>1. CASE k = Len(t)
    <3>1. Pop("ok") /\ write_buffer' = <<>>
      BY <2>1 DEF Send
    <3>2. Smooth' /\ ~At("send")'
      BY <1>1, <3>1, SmoothPop
    <3>3. q = <<>>
      BY <1>2, <1>3, <2>1, EmptySeq
    <3> QED
      BY <3>1, <3>2, <3>3 DEF Pending
  <2>2. CASE k # Len(t)
    <3> PICK f : f = [Top EXCEPT !.rest = q, !.sent = @ + k]
      OBVIOUS
    <3>1. Become(f) /\ ret' = ret
      BY <2>2 DEF Send
    <3>2. Top.sent + k \in Nat
      BY <1>1 DEF Frames
    <3>3. Top = stack[Len(stack)] /\ Len(stack) \in 1..3
      BY <1>1, TopFrame
    <3>4. Top.rc = "ok"
      BY <1>1, <3>3 DEF Smooth
    <3>5. f \in Frames /\ f.at = "send" /\ f.rest = q /\ f.rc = "ok"
      BY <1>1, <1>3, <3>2, <3>4 DEF Frames
    <3>6. q # <<>>
      BY <1>2, <1>3, <2>2
    <3>7. Smooth' /\ Top' = f /\ stack' # <<>>
      BY <1>1, <3>1, <3>5, <3>6, SmoothBecome
    <3> QED
      BY <3>5, <3>7 DEF At, Pending
  <2> QED
    BY <2>1, <2>2
<1>5. Stream' = Stream
  <2>1. toServer' = toServer \o p
    BY <1>1, Listening DEF Send
  <2>2. toServer \in Seq(Chunk)
    BY StagesTyped
  <2>3. (toServer \o p) \o q = toServer \o t
    BY <1>2, <2>2, Resend
  <2>4. toServer' \o Pending' = toServer \o Pending
    BY <1>2, <1>4, <2>1, <2>3, Zenon
  <2> QED
    BY <1>1, <2>4, Zenon DEF Stream
<1>6. Counted' = Counted /\ executed' = executed
  BY <1>1 DEF Counted, Counting, server
<1>7. Balanced' /\ Clean'
  BY <1>1, <1>6 DEF Delivery, Balanced, Clean
<1> QED
  BY <1>1, <1>4, <1>5, <1>7, GoesOn

\* What the kernel holds for the client is read into read_buffer.
LEMMA RepackDelivery ==
    ASSUME IndInv, OrderInv, Delivery, SendRepack, Packed = read_buffer
    PROVE  Delivery'
<1> DEFINE room == RBufMax - Len(read_buffer)
           k == IF Len(toClient) < room THEN Len(toClient) ELSE room
<1>1. /\ UNCHANGED <<control, fd, cursor_active, write_buffer, failures>>
      /\ UNCHANGED <<server, toServer>>
      /\ read_data' = read_buffer \o SubSeq(toClient, 1, k)
      /\ read_buffer' = SubSeq(read_data', 1, Len(read_buffer) + k)
      /\ toClient' = SubSeq(toClient, k + 1, Len(toClient))
      /\ Len(read_buffer) < RBufMax /\ toClient # <<>>
  BY DEF SendRepack, CanRepack
<1>2. /\ read_buffer \in Seq(Line) /\ toClient \in Seq(Line)
      /\ k \in 1..Len(toClient) /\ Len(toClient) \in Nat
      /\ Len(read_buffer) \in Nat
  <2>1. /\ read_buffer \in Seq(Line) /\ toClient \in Seq(Line)
        /\ Len(toClient) \in Nat \ {0} /\ Len(read_buffer) \in Nat
        /\ RBufMax \in Nat
    BY <1>1, EmptySeq, ConnectionAssumption, LenProperties
    DEF IndInv, TypeOK, InputOK
  <2> QED
    BY <1>1, <2>1
<1> HIDE DEF k, room
<1> PICK p : p = SubSeq(toClient, 1, k)
  OBVIOUS
<1> PICK q : q = SubSeq(toClient, k + 1, Len(toClient))
  OBVIOUS
<1>3. Answers(read_buffer) /\ Answers(toClient)
  BY DEF Delivery, Clean
<1>4. /\ p \in Seq(Line) /\ Answers(p)
      /\ Len(p) = IF 1 <= k THEN k - 1 + 1 ELSE 0
  BY <1>2, <1>3, AnswersPiece
<1>5. /\ Answers(q)
      /\ Len(q) = IF k + 1 <= Len(toClient)
                  THEN Len(toClient) - (k + 1) + 1 ELSE 0
  BY <1>2, <1>3, AnswersPiece
<1> PICK r : r = read_buffer \o p
  OBVIOUS
<1>6. Answers(r) /\ Len(r) = Len(read_buffer) + Len(p)
  BY <1>2, <1>3, <1>4, AnswersJoin
<1>7. Len(r) + Len(q) = Len(read_buffer) + Len(toClient)
  <2>1. Len(p) = k /\ Len(q) = Len(toClient) - k
    BY <1>2, <1>4, <1>5
  <2>2. Len(read_buffer) \in Int /\ Len(toClient) \in Int /\ k \in Int
    BY <1>2
  <2>3. Len(r) + Len(q)
            = (Len(read_buffer) + k) + (Len(toClient) - k)
    BY <1>6, <2>1, Zenon
  <2> QED
    BY <2>2, <2>3, SentAndLeft, Zenon
<1>8. read_buffer' = r /\ toClient' = q
  <2>1. Len(p) = k
    BY <1>2, <1>4
  <2>2. read_data' = r /\ r \in Seq(Line) /\ Len(read_buffer) + k = Len(r)
    BY <1>1, <1>2, <1>4, <1>6, <2>1, ConcatProperties, Zenon
  <2> QED
    BY <1>1, <2>2, SubSeqFull, Zenon
<1>9. Balanced'
  <2>1. Counted' = Counted /\ executed' = executed
    BY <1>1 DEF Counted, Counting, control, server
  <2>2. pc' = pc /\ cursor_active' = cursor_active
    BY <1>1 DEF control
  <2> QED
    BY <1>7, <1>8, <2>1, <2>2, Zenon DEF Delivery, Balanced
<1>10. Clean'
  <2>1. Answers(read_buffer)' /\ Answers(toClient)'
    BY <1>5, <1>6, <1>8, Zenon DEF Answers
  <2> QED
    BY <1>1, <2>1 DEF Delivery, Clean
<1>11. Stream' = Stream /\ Smooth' /\ op' = op
  BY <1>1 DEF Delivery, Smooth, Stream, Pending, At, Top, control
<1> QED
  BY <1>1, <1>9, <1>10, <1>11, GoesOn DEF control

\* A response is read.
LEMMA ReadDelivery ==
    ASSUME IndInv, OrderInv, Delivery, Faults = {}, NEW o \in Responses,
           PurgeRead(o) \/ AnswerOld(o) \/ Answer(o)
    PROVE  Delivery'
<1>1. /\ nextId' = nextId /\ executed' = executed /\ closes' = closes
      /\ PurgeControl /\ Smooth
  BY DEF PurgeRead, AnswerOld, Answer, OrderInv, Delivery
<1>2. pc \notin {"idle", "quit"}
  <2>1. stack # <<>> \/ pc = "answer"
    BY DEF PurgeRead, AnswerOld, Answer, At, Answering
  <2> QED
    BY <2>1 DEF OrderInv, CallControl
<1>3. fd
  BY <1>2 DEF Delivery, Finished
<1>4. cursor_active > 0 /\ cursor_active \in Nat
  <2>1. cursor_active \in Nat
    BY StagesTyped
  <2>2. CASE PurgeRead(o)
    <3>1. stack # <<>> /\ Top.at = "drain" /\ Top \in Frames /\ Top.n > 0
          /\ Len(stack) = 2 /\ stack[2] = Top
      BY <2>2, TopFrame DEF PurgeRead, At
    <3>2. cursor_active > Top.n /\ Top.n \in Nat
      BY <1>1, <1>3, <3>1 DEF PurgeControl, Frames
    <3> QED
      BY <2>1, <3>1, <3>2
  <2>3. CASE AnswerOld(o) \/ Answer(o)
    <3>1. pc = "answer"
      BY <2>3 DEF AnswerOld, Answer, Answering
    <3> QED
      BY <1>3, <2>1, <3>1 DEF OrderInv, CallControl
  <2> QED
    BY <2>1, <2>2, <2>3
<1>5. /\ o.strikes = 0 /\ o.rc = "STORED"
      /\ Answers(o.rb) /\ Answers(o.tc)
      /\ InAll(read_buffer, toClient) = InAll(o.rb, o.tc) + 1
  BY <1>2, <1>4, Reads
<1>6. /\ cursor_active' = cursor_active - 1
      /\ read_buffer' = o.rb /\ toClient' = o.tc /\ failures' = 0
      /\ fd' = fd /\ write_buffer' = write_buffer /\ toServer' = toServer
      /\ peer' = peer /\ parsing' = parsing /\ earlier' = earlier
  <2>1. PICK k \in 0..1 : AfterResponse(o, k)
    BY DEF PurgeRead, AnswerOld, Answer
  <2>2. cursor_active \in 1..(CursorMod - 1)
    BY <1>4 DEF IndInv, TypeOK
  <2>3. failures = 0
    BY DEF Delivery, Clean
  <2> QED
    BY <1>5, <2>1, <2>2, <2>3, CursorSteps DEF AfterResponse
<1>7. Smooth' /\ ~At("send") /\ ~At("send")'
  <2>1. CASE PurgeRead(o)
    <3>1. stack # <<>> /\ Top.at = "drain" /\ Top \in Frames /\ Top.n > 0
          /\ Top = stack[Len(stack)] /\ Len(stack) \in 1..3
      BY <2>1, TopFrame DEF PurgeRead, At
    <3>2. Top.rc = "ok"
      BY <1>1, <3>1 DEF Smooth
    <3> PICK f : f = [Top EXCEPT !.n = @ - 1, !.rc = "ok"]
      OBVIOUS
    <3>3. f \in Frames /\ f.at = "drain"
      BY <3>1, DrainOn
    <3>4. f.rc = "ok"
      BY <3>1 DEF Frames
    <3>5. Become(f) /\ ret' = ret
      <4>1. o.rc \notin {"PROTOCOL_ERROR", "UNKNOWN_READ_FAILURE"}
        BY <1>5
      <4> QED
        BY <2>1, <3>1, <3>2, <4>1 DEF PurgeRead, Frames
    <3>6. Smooth' /\ Top' = f
      BY <1>1, <3>1, <3>3, <3>4, <3>5, SmoothBecome
    <3> QED
      BY <3>1, <3>3, <3>6 DEF At
  <2>2. CASE AnswerOld(o) \/ Answer(o)
    <3>1. stack = <<>> /\ stack' = <<>> /\ ret' = "ok"
      BY <2>2 DEF AnswerOld, Answer, Answering, Idle
    <3> QED
      BY <3>1, SmoothCall DEF At
  <2> QED
    BY <2>1, <2>2
<1>8. Pending' = Pending
  BY <1>6, <1>7 DEF Pending
<1>9. Clean'
  <2>1. Answers(read_buffer)' /\ Answers(toClient)'
    BY <1>5, <1>6, Zenon DEF Answers
  <2> QED
    BY <1>6, <2>1 DEF Clean
<1>10. Counted' = Counted => Balanced'
  <2>1. \A c, e, i, n \in Int :
           c + e + 1 = (i + 1) + n => (c - 1) + e + 1 = i + n
    OBVIOUS
  <2> PICK c \in Int : c = cursor_active
    BY <1>4
  <2> PICK e \in Int : e = Len(executed)
    BY Sized DEF Sizes
  <2> PICK i \in Int : i = InAll(o.rb, o.tc)
    <3>1. /\ o.rb \in Seq(Line) /\ o.tc \in Seq(Line)
      BY ResponseTyped DEF IndInv
    <3>2. Len(o.rb) \in Nat /\ Len(o.tc) \in Nat
      BY <3>1, LenProperties
    <3>3. \A a, b \in Nat : a + b \in Int
      OBVIOUS
    <3>4. InAll(o.rb, o.tc) \in Int
      BY <3>2, <3>3, Zenon DEF InAll
    <3> QED
      BY <3>4
  <2> PICK n \in Int : n = Counted
    BY StagesTyped DEF Counted, Counting, OrderInv, CallControl, Ids
  <2>2. c + e + 1 = (i + 1) + n
    BY <1>2, <1>5, Zenon DEF Delivery, Balanced, InAll
  <2>3. (c - 1) + e + 1 = i + n
    BY <2>1, <2>2
  <2> QED
    BY <1>1, <1>6, <2>3 DEF Balanced, InAll
<1>11. server' = server
  BY <1>1, <1>6 DEF server
<1>12. CASE op' = op /\ pc' = pc /\ last' = last
  <2>1. Counted' = Counted /\ Stream' = Stream
    BY <1>1, <1>6, <1>8, <1>12 DEF Counted, Counting, Stream
  <2> QED
    BY <1>1, <1>6, <1>7, <1>9, <1>10, <1>11, <1>12, <2>1, GoesOn
<1>13. CASE pc = "answer" /\ op' = NoOp /\ pc' = "idle"
            /\ last'.rc \in {"SUCCESS", "ERROR"}
  <2>1. op.todo = <<>> /\ op.kind # "quit"
    BY <1>13 DEF OrderInv, CallControl, Ids, Quit
  <2>2. op'.todo = op.todo
    BY <1>13, <2>1 DEF NoOp
  <2>3. Counted' = Counted /\ Stream' = Stream
    BY <1>1, <1>6, <1>8, <1>13, <2>2 DEF Counted, Counting, Stream
  <2> QED
    BY <1>1, <1>3, <1>6, <1>7, <1>9, <1>10, <1>11, <1>13, <2>1, <2>3, Returns
<1> QED
  BY <1>5, <1>12, <1>13 DEF PurgeRead, AnswerOld, Answer, Answering, Idle

\* A chunk is copied into write_buffer.
LEMMA WriteChunkDelivery ==
    ASSUME IndInv, OrderInv, Delivery, WriteChunk PROVE Delivery'
<1>1. /\ pc = "write" /\ pc' = pc /\ stack = <<>> /\ op.todo # <<>>
      /\ write_buffer' = Append(write_buffer, Head(op.todo))
      /\ op' = [op EXCEPT !.todo = Tail(op.todo)]
      /\ stack' \in {<<>>, <<Frame("flush")>>} /\ ret' = "ok"
      /\ fd' = fd /\ cursor_active' = cursor_active
      /\ read_buffer' = read_buffer /\ toClient' = toClient
      /\ toServer' = toServer /\ server' = server /\ failures' = failures
      /\ nextId' = nextId /\ last' = last
  BY DEF WriteChunk, Writing, net, server
<1>2. op'.todo = Tail(op.todo) /\ op'.id = op.id /\ op'.kind = op.kind
  BY <1>1 DEF IndInv, TypeOK, Calls
<1>3. Smooth' /\ ~At("send")' /\ ~At("send")
  BY <1>1, SmoothCall DEF At
<1>4. /\ Pending = write_buffer /\ Pending' = Append(Pending, Head(op.todo))
      /\ toServer \in Seq(Chunk) /\ Pending \in Seq(Chunk)
      /\ op.todo \in Seq(Chunk)
  BY <1>1, <1>3, StagesTyped DEF Pending
<1>5. Stream' = Stream
  <2>1. (toServer \o Append(Pending, Head(op.todo))) \o Tail(op.todo)
            = (toServer \o Pending) \o op.todo
    BY <1>1, <1>4, Requeue
  <2> QED
    BY <1>1, <1>2, <1>4, <2>1, Zenon DEF Stream
<1>6. Counted' = Counted /\ executed' = executed
  BY <1>1, <1>2 DEF Counted, Counting, server
<1>7. Balanced' /\ Clean'
  BY <1>1, <1>6 DEF Delivery, Balanced, Clean, Answers
<1> QED
  BY <1>1, <1>2, <1>3, <1>5, <1>7, GoesOn

\* The call has written everything.
LEMMA WriteDoneDelivery ==
    ASSUME IndInv, OrderInv, Delivery, WriteDone PROVE Delivery'
<1>1. /\ pc = "write" /\ stack = <<>> /\ op.todo = <<>> /\ ret = "ok"
      /\ write_buffer' = write_buffer /\ ~At("send")
      /\ UNCHANGED <<fd, read_buffer, failures, nextId, net, server>>
      /\ op.kind \in {"set", "flush", "sync", "quit"}
  BY DEF WriteDone, Writing, At
<1>2. fd
  BY <1>1 DEF Delivery, Finished
<1>3. \/ op.kind \in {"set", "flush"} /\ pc' = "idle" /\ op' = NoOp
         /\ last'.rc # "QUIT" /\ stack' = <<>> /\ ret' = "ok"
      \/ op.kind = "sync" /\ pc' = "answer" /\ op' = op /\ last' = last
         /\ stack' = <<Frame("flush")>> /\ ret' = ret
      \/ op.kind = "quit" /\ pc' = "quit" /\ op' = op /\ last' = last
         /\ stack' = stack /\ ret' = ret
  BY <1>1 DEF WriteDone, Idle
<1>4. Smooth' /\ ~At("send")'
  BY <1>1, <1>3, SmoothCall
<1>5. Stream' = Stream
  <2>1. op'.todo = op.todo
    BY <1>1, <1>3 DEF NoOp
  <2>2. Pending' = Pending
    BY <1>1, <1>4 DEF Pending
  <2> QED
    BY <1>1, <2>1, <2>2 DEF Stream, net
<1>6. Clean'
  BY <1>1 DEF Delivery, Clean, Answers, net
<1>7. Balanced'
  <2>1. CASE op.kind \in {"set", "sync"}
    <3>1. Counted = op.id /\ op.id = nextId - 1 /\ Counted' = nextId
      BY <1>1, <1>3, <2>1 DEF Counted, Counting, OrderInv, CallControl
    <3>2. cursor_active' = cursor_active + 1 /\ cursor_active \in Nat
      <4>1. /\ cursor_active \in Nat /\ nextId \in 1..(MaxOps + 1)
            /\ MaxOps \in Nat /\ CursorMod \in Nat /\ CursorMod > MaxOps + 2
        BY ConnectionAssumption, StagesTyped DEF IndInv, TypeOK
      <4>2. cursor_active < Counted
        BY <1>1, <3>1, <4>1 DEF OrderInv, InStep
      <4>3. cursor_active \in 0..(CursorMod - 2)
        BY <3>1, <4>1, <4>2
      <4> QED
        BY <2>1, <4>1, <4>3, CursorSteps DEF WriteDone
    <3> PICK c \in Nat : c = cursor_active
      BY <3>2
    <3> PICK e \in Nat : e = Len(executed)
      BY Sized DEF Sizes
    <3> PICK n \in Nat : n = nextId
      BY StagesTyped
    <3> PICK r \in Nat : r = Len(read_buffer)
      BY Sized DEF Sizes
    <3> PICK t \in Nat : t = Len(toClient)
      BY Sized DEF Sizes
    <3>3. c + e + 1 = r + t + (n - 1)
      BY <1>1, <3>1, Zenon DEF Delivery, Balanced
    <3>4. (c + 1) + e + 1 = r + t + n
      BY <3>3
    <3> QED
      BY <1>1, <3>1, <3>2, <3>4 DEF Balanced, net, server
  <2>2. CASE op.kind = "flush"
    <3>1. Counted = nextId /\ Counted' = nextId
      BY <1>1, <1>3, <2>2 DEF Counted, Counting
    <3>2. cursor_active' = cursor_active
      BY <2>2 DEF WriteDone
    <3> QED
      BY <1>1, <3>1, <3>2 DEF Delivery, Balanced, net, server
  <2>3. CASE op.kind = "quit"
    BY <1>3, <2>3 DEF Balanced
  <2> QED
    BY <1>1, <2>1, <2>2, <2>3
<1>8. CASE op.kind \in {"set", "flush"}
  BY <1>1, <1>2, <1>3, <1>4, <1>5, <1>6, <1>7, <1>8, Returns
<1>9. CASE op.kind \in {"sync", "quit"}
  <2>1. op' = op /\ last' = last /\ pc # "idle" /\ pc' # "idle"
    BY <1>1, <1>3, <1>9
  <2> QED
    BY <1>1, <1>4, <1>5, <1>6, <1>7, <2>1, GoesOn
<1> QED
  BY <1>1, <1>8, <1>9

\* A call begins: d chunks come to those made, and quit's.
LEMMA StartDelivery ==
    ASSUME IndInv, OrderInv, Delivery, pc = "idle", fd', peer',
           pc' = "write", ret' = "ok", failures' = 0,
           UNCHANGED <<stack, cursor_active, write_buffer, read_buffer, net,
                       parsing, executed>>,
           NEW d \in Nat, Made' = Made + d, Counted' = nextId,
           NEW b \in Seq(Chunk), op'.todo = b, InPlace(b, Made, Made + d),
           Len(b) = d + (IF op'.kind = "quit" THEN 1 ELSE 0)
    PROVE  Delivery'
<1>1. /\ stack = <<>> /\ op = NoOp /\ NoOp.todo = <<>>
      /\ NoOp.kind = "none"
  BY DEF OrderInv, CallControl, Delivery, Finished, NoOp
<1>2. Smooth' /\ ~At("send")' /\ ~At("send")
  BY <1>1, SmoothCall DEF At
<1> PICK q : q = toServer \o Pending
  OBVIOUS
<1>3. q \in Seq(Chunk) /\ Stream = q
  <2>1. toServer \in Seq(Chunk) /\ Pending \in Seq(Chunk)
    BY StagesTyped
  <2>2. q \in Seq(Chunk)
    BY <2>1, ConcatProperties
  <2>3. Stream = q \o <<>>
    BY <1>1 DEF Stream
  <2> QED
    BY <2>2, <2>3, ConcatEmptySeq
<1>4. Stream' = q \o b
  <2>1. toServer' = toServer /\ Pending' = Pending
    BY <1>2 DEF Pending, net
  <2> QED
    BY <2>1, Zenon DEF Stream
<1>5. Consumed' = Consumed /\ Consumed \in Nat /\ Made \in Nat
  BY Sized DEF Consumed, Sizes
<1>6. Len(q) + Consumed = Made /\ InPlace(q, Consumed, Made)
  <2>1. ~Quitting
    BY <1>1 DEF Quitting
  <2>2. Len(q) + Consumed = Made + 0 /\ InPlace(q, Consumed, Made)
    BY <1>3, <2>1, Zenon DEF Delivery, Conserved
  <2> QED
    BY <1>5, <2>2
<1>7. /\ Len(q \o b) = Len(q) + Len(b) /\ InPlace(q \o b, Consumed, Made + d)
  BY <1>3, <1>5, <1>6, Enqueue
<1>8. Conserved'
  <2>1. Quitting' <=> op'.kind = "quit"
    BY DEF Quitting
  <2> PICK e \in {0, 1} : e = IF op'.kind = "quit" THEN 1 ELSE 0
    OBVIOUS
  <2>2. (IF Quitting THEN 1 ELSE 0)' = e
    BY <2>1
  <2>3. Len(q) \in Nat
    BY <1>3, LenProperties
  <2> PICK l \in Nat : l = Len(q)
    BY <2>3
  <2> PICK c \in Nat : c = Consumed
    BY <1>5
  <2> PICK m \in Nat : m = Made
    BY <1>5
  <2>4. l + c = m
    BY <1>6
  <2>5. (l + (d + e)) + c = (m + d) + e
    BY <2>4
  <2>6. Len(q \o b) = Len(q) + (d + e)
    BY <1>7, Zenon
  <2>7. (Len(Stream) + Consumed = Made + (IF Quitting THEN 1 ELSE 0))'
    BY <1>4, <1>5, <2>2, <2>5, <2>6, Zenon
  <2>8. InPlace(Stream, Consumed, Made)'
    BY <1>4, <1>5, <1>7, Zenon DEF InPlace
  <2>9. /\ \A i \in DOMAIN executed : executed[i] = i
        /\ parsing \in {Quit, Len(executed) + 1}
    BY DEF Delivery, Conserved
  <2>10. /\ (\A i \in DOMAIN executed : executed[i] = i)'
         /\ (parsing \in {Quit, Len(executed) + 1})'
    BY <2>9
  <2> QED
    BY <2>7, <2>8, <2>10, Zenon DEF Conserved
<1>9. Balanced'
  <2>1. Counted = nextId /\ pc # "quit"
    BY DEF Counted, Counting
  <2> QED
    BY <2>1 DEF Delivery, Balanced, net
<1>10. Clean'
  BY DEF Delivery, Clean, Answers, net
<1>11. Finished'
  BY DEF Finished
<1> QED
  BY <1>2, <1>8, <1>9, <1>10, <1>11 DEF Delivery

\* A call of the application begins.
LEMMA BeginDelivery ==
    ASSUME IndInv, OrderInv, Delivery, Faults = {},
           NEW kind \in {"set", "sync", "flush"}, Begin(kind)
    PROVE  Delivery'
<1> PICK id : id = IF kind = "flush" THEN Quit ELSE nextId
  OBVIOUS
<1>1. /\ pc = "idle" /\ op = NoOp /\ failures = 0
      /\ UNCHANGED <<stack, cursor_active, write_buffer, read_buffer, net,
                     parsing, executed>>
  BY DEF Begin, Delivery, Finished, Clean
<1>2. ~ConnectFails
  BY <1>1, ConnectionAssumption DEF ConnectFails, MarkedDead
<1>3. /\ Connected /\ pc' = "write" /\ ret' = "ok"
      /\ op' = [kind |-> kind, id |-> id,
                todo |-> IF kind = "flush" THEN <<>> ELSE Chunks(id),
                flush |-> kind # "set"]
  BY <1>2 DEF Begin
<1>4. fd' /\ peer' /\ failures' = 0
  <2>1. CASE fd
    <3>1. peer
      BY <1>1, <2>1 DEF Delivery, Finished, NoOp
    <3> QED
      BY <1>1, <1>3, <2>1, <3>1 DEF Connected
  <2>2. CASE ~fd
    BY <1>3, <2>2 DEF Connected
  <2> QED
    BY <2>1, <2>2
<1>5. Made \in Nat /\ nextId \in 1..(MaxOps + 1) /\ MaxOps \in Nat
  BY Sized, ConnectionAssumption DEF Sizes, IndInv, TypeOK
<1>6. CASE kind = "flush"
  <2>1. op'.todo = <<>> /\ op'.kind = "flush" /\ nextId' = nextId
    BY <1>3, <1>6 DEF Begin
  <2>2. Made' = Made + 0 /\ Counted' = nextId
    BY <1>5, <2>1 DEF Made, Counted, Counting
  <2> PICK b \in Seq(Chunk) : b = <<>>
    BY EmptySeq
  <2>3. InPlace(b, Made, Made + 0)
    BY <1>5, QuitPlaced
  <2>4. Len(b) = 0 + (IF op'.kind = "quit" THEN 1 ELSE 0)
    BY <2>1
  <2> QED
    BY <1>1, <1>3, <1>4, <2>1, <2>2, <2>3, <2>4, StartDelivery
<1>7. CASE kind \in {"set", "sync"}
  <2>1. /\ op'.todo = Chunks(nextId) /\ op'.kind = kind /\ op'.id = nextId
        /\ nextId <= MaxOps /\ nextId' = nextId + 1
    BY <1>3, <1>7 DEF Begin
  <2>2. nextId \in Ids /\ nextId \in Int
    BY <1>5, <2>1 DEF Ids
  <2>3. Made' = Made + 2
    BY <2>1, <2>2 DEF Made
  <2>4. Counted' = nextId
    BY <1>3, <1>7, <2>1 DEF Counted, Counting
  <2> PICK b : b = Chunks(nextId)
    OBVIOUS
  <2>5. /\ Chunks(nextId) \in Seq(Chunk) /\ Len(Chunks(nextId)) = 2
        /\ InPlace(Chunks(nextId), 2 * (nextId - 1), 2 * (nextId - 1) + 2)
    BY <2>2, RequestPlaced
  <2>6. b \in Seq(Chunk) /\ Len(b) = 2 /\ InPlace(b, Made, Made + 2)
    BY <2>5, Zenon DEF Made
  <2>7. Len(b) = 2 + (IF op'.kind = "quit" THEN 1 ELSE 0)
    BY <1>7, <2>1, <2>6
  <2> QED
    BY <1>1, <1>3, <1>4, <2>1, <2>3, <2>4, <2>6, <2>7, StartDelivery
<1> QED
  BY <1>6, <1>7

\* The connection is closed when the server has closed its end.
LEMMA ClosedDelivery ==
    ASSUME IndInv, Delivery, ~peer, CloseServer(0, 0), Hangup,
           pc' = "idle", op' = NoOp, stack' = <<>>, ret' = "ok",
           nextId' = nextId, executed' = executed
    PROVE  Delivery'
<1>1. /\ fd' = FALSE /\ cursor_active' = 0 /\ write_buffer' = <<>>
      /\ read_buffer' = <<>> /\ toServer' = <<>> /\ toClient' = <<>>
      /\ peer' = FALSE /\ parsing' = Quit
  BY DEF CloseServer, Hangup, Leave
<1>2. failures' = 0
  BY ConnectionAssumption DEF CloseServer, Strikes
<1>3. Consumed = Made
  BY DEF Delivery, Finished
<1>4. parsing = Quit /\ Len(executed) = nextId - 1
  BY <1>3, AllDone DEF Delivery
<1>5. Consumed' = Consumed /\ Made' = Made
  BY <1>1, <1>4 DEF Consumed, Made
<1>6. Smooth' /\ ~At("send")'
  BY SmoothCall
<1>7. Stream' = <<>>
  <2>1. Pending' = <<>> /\ op'.todo = <<>>
    BY <1>1, <1>6 DEF Pending, NoOp
  <2> PICK e \in Seq(Chunk) : e = <<>>
    BY EmptySeq
  <2>2. (e \o e) \o e = e
    BY ConcatEmptySeq
  <2> QED
    BY <1>1, <2>1, <2>2 DEF Stream
<1>8. Conserved'
  <2>1. ~Quitting'
    BY <1>1 DEF Quitting
  <2>2. Made \in Nat
    BY Sized DEF Sizes
  <2>3. 0 + Made = Made + 0
    BY <2>2
  <2>4. Len(<<>>) = 0
    OBVIOUS
  <2>5. (Len(Stream) + Consumed = Made + (IF Quitting THEN 1 ELSE 0))'
    BY <1>3, <1>5, <1>7, <2>1, <2>3, <2>4, Zenon
  <2>6. InPlace(Stream, Consumed, Made)'
    BY <1>7 DEF InPlace
  <2>7. (\A i \in DOMAIN executed : executed[i] = i)'
    BY DEF Delivery, Conserved
  <2>8. (parsing \in {Quit, Len(executed) + 1})'
    BY <1>1
  <2> QED
    BY <2>5, <2>6, <2>7, <2>8, Zenon DEF Conserved
<1>9. Finished'
  BY <1>1, <1>3, <1>5 DEF Finished
<1>10. Balanced'
  <2>1. Counted' = nextId /\ nextId \in Nat
    BY StagesTyped DEF Counted, Counting
  <2>2. 0 + (nextId - 1) + 1 = 0 + 0 + nextId
    BY <2>1
  <2>3. Len(<<>>) = 0
    OBVIOUS
  <2> QED
    BY <1>1, <1>4, <2>1, <2>2, <2>3, Zenon DEF Balanced
<1>11. Clean'
  BY <1>1, <1>2 DEF Clean, Answers
<1> QED
  BY <1>6, <1>8, <1>9, <1>10, <1>11 DEF Delivery

\* memcached_quit begins, on an open connection or a closed one.
LEMMA BeginQuitDelivery ==
    ASSUME IndInv, OrderInv, Delivery, BeginQuit PROVE Delivery'
<1>1. /\ pc = "idle" /\ op = NoOp /\ failures = 0 /\ stack = <<>>
      /\ stack' = <<>> /\ ret = "ok" /\ ret' = "ok"
      /\ nextId' = nextId /\ executed' = executed
  BY DEF BeginQuit, Delivery, Finished, Clean, Smooth, OrderInv, CallControl
<1>2. CASE fd
  <2>1. /\ pc' = "write" /\ UNCHANGED <<client, net, peer, parsing>>
        /\ op' = [kind |-> "quit", id |-> Quit, todo |-> <<QuitChunk>>,
                  flush |-> TRUE]
    BY <1>2 DEF BeginQuit
  <2>2. op'.todo = <<QuitChunk>> /\ op'.kind = "quit"
    BY <2>1
  <2>3. fd' /\ peer' /\ failures' = 0
    BY <1>1, <1>2, <2>1 DEF client, Delivery, Finished, NoOp
  <2>4. Made \in Nat /\ Made' = Made /\ Counted' = nextId
    BY <1>1, <2>1, <2>2, Sized DEF Sizes, Made, Counted, Counting
  <2>5. Made' = Made + 0
    BY <2>4
  <2> PICK c : c = QuitChunk
    OBVIOUS
  <2> PICK b \in Seq(Chunk) : b = <<c>>
    BY ChunksTyped
  <2>6. InPlace(b, Made, Made + 0)
    BY <2>4, QuitPlaced
  <2>7. Len(b) = 0 + (IF op'.kind = "quit" THEN 1 ELSE 0)
    BY <2>2
  <2>8. op'.todo = b
    BY <2>2
  <2>9. UNCHANGED <<stack, cursor_active, write_buffer, read_buffer, net,
                    parsing, executed>>
    BY <1>1, <2>1 DEF client
  <2> QED
    BY <1>1, <2>1, <2>3, <2>4, <2>5, <2>6, <2>7, <2>8, <2>9, StartDelivery
<1>3. CASE ~fd
  <2>1. CloseServer(0, 0) /\ Hangup /\ pc' = "idle" /\ op' = NoOp
    BY <1>1, <1>3 DEF BeginQuit
  <2>2. ~peer
    BY <1>3 DEF Delivery, Finished
  <2> QED
    BY <1>1, <2>1, <2>2, ClosedDelivery
<1> QED
  BY <1>2, <1>3

\* memcached_quit reads to the end, and closes.
LEMMA QuitDelivery ==
    ASSUME IndInv, Delivery, Faults = {}, QuitDrain \/ QuitClose
    PROVE  Delivery'
<1>1. CASE QuitDrain
  <2>1. /\ pc = "quit" /\ read_buffer' = <<>> /\ toClient' = <<>>
        /\ failures' = 0 /\ fd' = fd /\ toServer' = toServer
        /\ write_buffer' = write_buffer
        /\ control' = control /\ server' = server
    BY <1>1 DEF QuitDrain
  <2>2. Smooth' /\ Stream' = Stream /\ op' = op
    BY <2>1 DEF Delivery, Smooth, Stream, Pending, At, Top, control
  <2>3. Balanced' /\ Clean'
    BY <2>1 DEF Balanced, Clean, Answers, control
  <2> QED
    BY <2>1, <2>2, <2>3, GoesOn DEF control
<1>2. CASE QuitClose
  <2>1. ~peer
    BY <1>2 DEF QuitClose, Delivery, Finished
  <2> QED
    BY <1>2, <2>1, ClosedDelivery DEF QuitClose, Idle
<1> QED
  BY <1>1, <1>2

-----------------------------------------------------------------------------
(* The server.                                                             *)

\* What it takes was at the head of the whole.
LEMMA Taken ==
    ASSUME IndInv, toServer # <<>>, toServer' = Tail(toServer),
           Pending' = Pending, op' = op
    PROVE  /\ Len(Stream) \in Nat \ {0} /\ Len(Stream') = Len(Stream) - 1
           /\ 1 \in DOMAIN Stream /\ Stream[1] = Head(toServer)
           /\ \A i \in DOMAIN Stream' :
                 i \in Nat /\ i + 1 \in DOMAIN Stream
                 /\ Stream'[i] = Stream[i + 1]
<1>1. /\ toServer \in Seq(Chunk) /\ Pending \in Seq(Chunk)
      /\ op.todo \in Seq(Chunk)
  BY StagesTyped
<1>2. \A s, t \in Seq(Chunk) :
         s # <<>> =>
            /\ s \o t \in Seq(Chunk) /\ s \o t # <<>>
            /\ Head(s \o t) = Head(s) /\ Tail(s \o t) = Tail(s) \o t
  BY Dequeue
<1>3. PICK q : q = toServer \o Pending
  OBVIOUS
<1>4. /\ q \in Seq(Chunk) /\ q # <<>> /\ Head(q) = Head(toServer)
      /\ Tail(q) = Tail(toServer) \o Pending
  BY <1>1, <1>2, <1>3, Zenon
<1>5. PICK u : u = q \o op.todo
  OBVIOUS
<1>6. /\ u \in Seq(Chunk) /\ u # <<>> /\ Head(u) = Head(q)
      /\ Tail(u) = Tail(q) \o op.todo
  BY <1>1, <1>2, <1>4, <1>5, Zenon
<1>7. Stream = u /\ Stream' = Tail(u)
  BY <1>3, <1>4, <1>5, <1>6, Zenon DEF Stream
<1>8. \A s \in Seq(Chunk) :
         s # <<>> =>
            /\ Len(s) \in Nat \ {0} /\ Len(Tail(s)) = Len(s) - 1
            /\ 1 \in DOMAIN s /\ s[1] = Head(s)
            /\ \A i \in DOMAIN Tail(s) :
                  i \in Nat /\ i + 1 \in DOMAIN s /\ Tail(s)[i] = s[i + 1]
  <2> SUFFICES ASSUME NEW s \in Seq(Chunk), s # <<>>
               PROVE  /\ Len(s) \in Nat \ {0} /\ Len(Tail(s)) = Len(s) - 1
                      /\ 1 \in DOMAIN s /\ s[1] = Head(s)
                      /\ \A i \in DOMAIN Tail(s) :
                            /\ i \in Nat /\ i + 1 \in DOMAIN s
                            /\ Tail(s)[i] = s[i + 1]
    OBVIOUS
  <2>1. /\ Len(s) \in Nat \ {0} /\ DOMAIN s = 1..Len(s)
        /\ Tail(s) \in Seq(Chunk) /\ Len(Tail(s)) = Len(s) - 1
        /\ s[1] = Head(s)
        /\ \A i \in 1..Len(Tail(s)) : Tail(s)[i] = s[i + 1]
    BY EmptySeq, LenProperties, HeadTailProperties
  <2>2. DOMAIN Tail(s) = 1..Len(Tail(s))
    BY <2>1, LenProperties
  <2>3. ASSUME NEW i \in DOMAIN Tail(s)
        PROVE  i \in Nat /\ i + 1 \in DOMAIN s /\ Tail(s)[i] = s[i + 1]
    BY <2>1, <2>2, <2>3
  <2>4. 1 \in DOMAIN s
    BY <2>1
  <2> QED
    BY <2>1, <2>3, <2>4
<1> QED
  BY <1>4, <1>6, <1>7, <1>8, Zenon

\* The number of a chunk tells what it is.
LEMMA Numbered ==
    ASSUME NEW c \in Chunk, NEW e \in Nat
    PROVE  /\ Number(c) = 2 * e + 1 => c.part = "cmd" /\ c.id = e + 1
           /\ Number(c) = 2 * e + 2 => c.part = "data" /\ c.id = e + 1
<1>1. c.id \in Nat /\ c.part \in {"cmd", "data"}
  BY ConnectionAssumption DEF Chunk, Ids, Quit
<1> PICK n \in Nat : n = c.id
  BY <1>1
<1>2. CASE c.part = "cmd"
  <2>1. Number(c) = 2 * n - 1
    BY <1>2 DEF Number
  <2>2. /\ 2 * n - 1 = 2 * e + 1 => n = e + 1
        /\ 2 * n - 1 # 2 * e + 2
    OBVIOUS
  <2> QED
    BY <1>2, <2>1, <2>2
<1>3. CASE c.part = "data"
  <2>1. Number(c) = 2 * n
    BY <1>3 DEF Number
  <2>2. /\ 2 * n = 2 * e + 2 => n = e + 1
        /\ 2 * n # 2 * e + 1
    OBVIOUS
  <2> QED
    BY <1>3, <2>1, <2>2
<1> QED
  BY <1>1, <1>2, <1>3

\* The next chunk is the one the server is ready for.
LEMMA ServesNext ==
    ASSUME IndInv, Conserved, toServer # <<>>, 1 \in DOMAIN Stream,
           Stream[1] = Head(toServer), Len(Stream) \in Nat \ {0}
    PROVE  \/ /\ Head(toServer) = QuitChunk /\ parsing = Quit
              /\ Quitting /\ Consumed = Made /\ Len(Stream) = 1
           \/ /\ parsing = Quit /\ Head(toServer).part = "cmd"
              /\ Head(toServer).id = Len(executed) + 1
              /\ Head(toServer).id # Quit
           \/ /\ parsing # Quit /\ parsing = Len(executed) + 1
              /\ Head(toServer) = [id |-> parsing, part |-> "data"]
<1> PICK c : c = Head(toServer)
  OBVIOUS
<1>1. c \in Chunk
  BY HeadTailProperties DEF IndInv, TypeOK
<1>2. Consumed \in Nat /\ Made \in Nat /\ Len(executed) \in Nat
  BY Sized DEF Sizes
<1>3. Placed(c, Consumed + 1, Made)
  BY Zenon DEF Conserved, InPlace
<1>4. parsing \in {Quit, Len(executed) + 1}
  BY DEF Conserved
<1> PICK e \in Nat : e = Len(executed)
  BY <1>2
<1>5. CASE Consumed + 1 <= Made
  <2>1. c.id # Quit /\ Number(c) = Consumed + 1
    BY <1>3, <1>5, Zenon DEF Placed
  <2>2. CASE parsing = Quit
    <3>1. Consumed = 2 * e
      BY <2>2 DEF Consumed
    <3>2. c.part = "cmd" /\ c.id = e + 1
      BY <1>1, <2>1, <3>1, Numbered
    <3> QED
      BY <2>1, <2>2, <3>2
  <2>3. CASE parsing # Quit
    <3>1. Consumed = 2 * e + 1
      BY <2>3 DEF Consumed
    <3>2. 2 * e + 1 + 1 = 2 * e + 2
      OBVIOUS
    <3>3. c.part = "data" /\ c.id = e + 1
      BY <1>1, <2>1, <3>1, <3>2, Numbered
    <3>4. parsing = e + 1
      BY <1>4, <2>3
    <3>5. c = [id |-> parsing, part |-> "data"]
      BY <1>1, <3>3, <3>4 DEF Chunk
    <3> QED
      BY <2>3, <3>4, <3>5
  <2> QED
    BY <2>2, <2>3
<1>6. CASE ~(Consumed + 1 <= Made)
  <2>1. c = QuitChunk
    BY <1>3, <1>6, Zenon DEF Placed
  <2>2. Len(Stream) + Consumed = Made + (IF Quitting THEN 1 ELSE 0)
    BY DEF Conserved
  <2>3. Quitting /\ Consumed = Made /\ Len(Stream) = 1
    BY <1>2, <1>6, <2>2
  <2>4. parsing = Quit
    <3>1. nextId \in Nat
      BY StagesTyped
    <3> PICK n \in Nat : n = nextId
      BY <3>1
    <3>2. Made = 2 * (n - 1)
      BY DEF Made
    <3>3. parsing # Quit => Consumed = 2 * e + 1
      BY DEF Consumed
    <3>4. 2 * e + 1 # 2 * (n - 1)
      OBVIOUS
    <3> QED
      BY <2>3, <3>2, <3>3, <3>4
  <2> QED
    BY <2>1, <2>3, <2>4
<1> QED
  BY <1>5, <1>6

\* The server takes the next chunk.
LEMMA ServeDelivery ==
    ASSUME IndInv, OrderInv, Delivery, Faults = {}, Serve PROVE Delivery'
<1> PICK c : c = Head(toServer)
  OBVIOUS
<1>1. /\ UNCHANGED <<client, control>> /\ fd /\ peer /\ toServer # <<>>
      /\ toServer' = Tail(toServer) /\ op' = op /\ fd' = fd /\ pc' = pc
      /\ last' = last /\ nextId' = nextId /\ cursor_active' = cursor_active
      /\ read_buffer' = read_buffer /\ failures' = failures
  BY DEF Serve, client, control
<1>2. Smooth' /\ Pending' = Pending
  BY <1>1 DEF Delivery, Smooth, Pending, At, Top, client, control
<1>3. /\ Len(Stream) \in Nat \ {0} /\ Len(Stream') = Len(Stream) - 1
      /\ 1 \in DOMAIN Stream /\ Stream[1] = Head(toServer)
      /\ \A i \in DOMAIN Stream' :
            i \in Nat /\ i + 1 \in DOMAIN Stream /\ Stream'[i] = Stream[i + 1]
  BY <1>1, <1>2, Taken
<1>4. \/ /\ c = QuitChunk /\ parsing = Quit
         /\ Quitting /\ Consumed = Made /\ Len(Stream) = 1
      \/ /\ parsing = Quit /\ c.part = "cmd"
         /\ c.id = Len(executed) + 1 /\ c.id # Quit
      \/ /\ parsing # Quit /\ parsing = Len(executed) + 1
         /\ c = [id |-> parsing, part |-> "data"]
  BY <1>1, <1>3, ServesNext DEF Delivery
<1>5. Made' = Made /\ Counted' = Counted /\ Made \in Nat /\ Consumed \in Nat
      /\ Len(executed) \in Nat
  BY <1>1, Sized DEF Made, Counted, Counting, Sizes
<1>6. /\ \A i \in DOMAIN executed : executed[i] = i
      /\ Len(Stream) + Consumed = Made + (IF Quitting THEN 1 ELSE 0)
      /\ InPlace(Stream, Consumed, Made)
  BY DEF Delivery, Conserved
\* The next chunk was a part of a request.
<1>7. ASSUME Consumed' = Consumed + 1, peer' = peer
      PROVE  /\ (Len(Stream) + Consumed = Made + (IF Quitting THEN 1 ELSE 0))'
             /\ InPlace(Stream, Consumed, Made)'
  <2>1. (IF Quitting THEN 1 ELSE 0)' = (IF Quitting THEN 1 ELSE 0)
    BY <1>1, <1>7 DEF Quitting
  <2>2. (Len(Stream) - 1) + (Consumed + 1) = Len(Stream) + Consumed
    BY <1>3, <1>5
  <2>3. Len(Stream') + Consumed' = Made' + (IF Quitting THEN 1 ELSE 0)
    BY <1>3, <1>5, <1>6, <1>7, <2>2, Zenon
  <2>4. ASSUME NEW i \in DOMAIN Stream'
        PROVE  Placed(Stream'[i], Consumed' + i, Made')
    <3>1. i \in Nat /\ i + 1 \in DOMAIN Stream /\ Stream'[i] = Stream[i + 1]
      BY <1>3
    <3>2. Placed(Stream[i + 1], Consumed + (i + 1), Made)
      BY <1>6, <3>1, Zenon DEF InPlace
    <3>3. (Consumed + 1) + i = Consumed + (i + 1)
      BY <1>5, <3>1
    <3> QED
      BY <1>5, <1>7, <3>1, <3>2, <3>3, Zenon
  <2>5. InPlace(Stream, Consumed, Made)'
    BY <2>4, Zenon DEF InPlace
  <2> QED
    BY <2>1, <2>3, <2>5, Zenon
<1>8. ASSUME Conserved', Finished', toClient' = toClient, executed' = executed
      PROVE  Delivery'
  <2>1. Balanced' /\ Clean'
    BY <1>1, <1>5, <1>8 DEF Delivery, Balanced, Clean, Answers
  <2> QED
    BY <1>2, <1>8, <2>1 DEF Delivery
<1>9. CASE /\ parsing = Quit /\ c = QuitChunk /\ peer' = FALSE
           /\ UNCHANGED <<toClient, parsing, executed>>
  <2>1. Quitting /\ Consumed = Made /\ Len(Stream) = 1
    BY <1>4, <1>9 DEF QuitChunk
  <2>2. Consumed' = Consumed /\ ~Quitting' /\ op'.kind = "quit"
    BY <1>1, <1>9, <2>1 DEF Consumed, Quitting
  <2>3. 1 - 1 = 0 /\ 0 + Made = Made + 0
    BY <1>5
  <2>4. Len(Stream') = 0
    BY <1>3, <2>1
  <2>5. (Len(Stream) + Consumed = Made + (IF Quitting THEN 1 ELSE 0))'
    BY <1>5, <2>1, <2>2, <2>3, <2>4, Zenon
  <2>6. InPlace(Stream, Consumed, Made)'
    <3>1. IndInv' => Stream' \in Seq(Chunk)
      BY SizedNext DEF Sizes
    <3>2. ASSUME NEW i \in DOMAIN Stream' PROVE FALSE
      <4>1. i \in Nat /\ i + 1 \in DOMAIN Stream
        BY <1>3
      <4>2. DOMAIN Stream = 1..Len(Stream)
        BY Sized, LenProperties DEF Sizes
      <4>3. IndInv'
        BY ServeKeeps
      <4>4. DOMAIN Stream' = 1..Len(Stream')
        BY <3>1, <4>3, LenProperties
      <4> QED
        BY <2>4, <4>4
    <3> QED
      BY <3>2 DEF InPlace
  <2>7. /\ (\A i \in DOMAIN executed : executed[i] = i)'
        /\ (parsing \in {Quit, Len(executed) + 1})'
    BY <1>6, <1>9
  <2>8. Conserved'
    BY <2>5, <2>6, <2>7, Zenon DEF Conserved
  <2>9. Finished'
    BY <1>1, <1>5, <2>1, <2>2 DEF Delivery, Finished
  <2> QED
    BY <1>8, <1>9, <2>8, <2>9
<1>10. CASE /\ parsing = Quit /\ c # QuitChunk /\ c.part = "cmd"
            /\ parsing' = c.id /\ UNCHANGED <<toClient, peer, executed>>
  <2>1. c.id = Len(executed) + 1 /\ c.id # Quit
    BY <1>4, <1>10
  <2>2. Consumed' = Consumed + 1
    BY <1>5, <1>10, <2>1 DEF Consumed
  <2>3. /\ (\A i \in DOMAIN executed : executed[i] = i)'
        /\ (parsing \in {Quit, Len(executed) + 1})'
    BY <1>6, <1>10, <2>1
  <2>4. Conserved'
    BY <1>7, <1>10, <2>2, <2>3, Zenon DEF Conserved
  <2>5. Finished'
    BY <1>1, <1>10 DEF Delivery, Finished
  <2> QED
    BY <1>8, <1>10, <2>4, <2>5
<1>11. CASE /\ parsing # Quit /\ c = [id |-> parsing, part |-> "data"]
            /\ executed' = Append(executed, parsing)
            /\ toClient' = Append(toClient, parsing)
            /\ parsing' = Quit /\ peer' = peer
  <2>1. parsing = Len(executed) + 1
    BY <1>4, <1>11 DEF QuitChunk
  <2>2. /\ executed \in Seq(Ids) /\ toClient \in Seq(Line) /\ parsing \in Ids
        /\ parsing \in Line /\ parsing > 0
    <3>1. executed \in Seq(Ids) /\ toClient \in Seq(Line) /\ parsing \in Ids
      BY <1>11, StagesTyped DEF IndInv, TypeOK
    <3> QED
      BY <3>1, ConnectionAssumption DEF Line, Ids
  <2>3. /\ Len(executed') = Len(executed) + 1
        /\ (\A i \in DOMAIN executed : executed[i] = i)'
    <3>1. /\ executed' \in Seq(Ids) /\ Len(executed') = Len(executed) + 1
          /\ \A i \in 1..Len(executed) : executed'[i] = executed[i]
          /\ executed'[Len(executed) + 1] = parsing
      BY <1>11, <2>2, AppendProperties
    <3>2. /\ DOMAIN executed = 1..Len(executed)
          /\ DOMAIN executed' = 1..(Len(executed) + 1)
      BY <2>2, <3>1, LenProperties
    <3>3. ASSUME NEW i \in DOMAIN executed' PROVE executed'[i] = i
      <4>1. i \in DOMAIN executed \/ i = Len(executed) + 1
        BY <1>5, <3>2
      <4> QED
        BY <1>6, <2>1, <3>1, <3>2, <4>1, Zenon
    <3> QED
      BY <3>1, <3>3
  <2>4. Len(toClient') = Len(toClient) + 1 /\ Answers(toClient')
    <3>1. <<parsing>> \in Seq(Line) /\ Len(<<parsing>>) = 1
      BY <2>2
    <3>2. Answers(<<parsing>>)
      BY <2>2 DEF Answers
    <3>3. toClient' = toClient \o <<parsing>>
      BY <1>11, <2>2, AppendIsConcat
    <3>4. Answers(toClient)
      BY DEF Delivery, Clean
    <3>5. /\ Len(toClient \o <<parsing>>) = Len(toClient) + Len(<<parsing>>)
          /\ Answers(toClient \o <<parsing>>)
      BY <2>2, <3>1, <3>2, <3>4, AnswersJoin
    <3> QED
      BY <3>1, <3>3, <3>5, Zenon
  <2>5. Consumed' = Consumed + 1
    <3>1. Consumed = 2 * Len(executed) + 1
      BY <1>11 DEF Consumed
    <3>2. Consumed' = 2 * Len(executed') + 0
      BY <1>11 DEF Consumed
    <3> QED
      BY <1>5, <2>3, <3>1, <3>2
  <2>6. Conserved'
    <3>1. (parsing \in {Quit, Len(executed) + 1})'
      BY <1>11
    <3> QED
      BY <1>7, <1>11, <2>3, <2>5, <3>1, Zenon DEF Conserved
  <2>7. Finished'
    BY <1>1, <1>11 DEF Delivery, Finished
  <2>8. Balanced'
    <3>1. /\ cursor_active \in Nat /\ Len(read_buffer) \in Nat
          /\ Len(toClient) \in Nat /\ Counted \in Int
      BY Sized, StagesTyped
      DEF Sizes, Counted, Counting, OrderInv, CallControl, Ids
    <3> PICK k \in Nat : k = cursor_active
      BY <3>1
    <3> PICK e \in Nat : e = Len(executed)
      BY <1>5
    <3> PICK r \in Nat : r = Len(read_buffer)
      BY <3>1
    <3> PICK t \in Nat : t = Len(toClient)
      BY <3>1
    <3> PICK n \in Int : n = Counted
      BY <3>1
    <3> SUFFICES ASSUME pc # "quit" PROVE k + (e + 1) + 1 = r + (t + 1) + n
      BY <1>1, <1>5, <2>3, <2>4 DEF Balanced
    <3>2. k + e + 1 = r + t + n
      BY Zenon DEF Delivery, Balanced
    <3> QED
      BY <3>2
  <2>9. Clean'
    BY <1>1, <2>4 DEF Delivery, Clean, Answers
  <2> QED
    BY <1>2, <2>6, <2>7, <2>8, <2>9 DEF Delivery
<1>12. ~(c # [id |-> parsing, part |-> "data"]
           /\ (parsing # Quit \/ c.part = "data"))
  BY <1>4 DEF QuitChunk
<1> QED
  BY <1>9, <1>10, <1>11, <1>12 DEF Serve

-----------------------------------------------------------------------------
(* The theorem.                                                            *)

\* Every step of a run in which nothing fails.
LEMMA NextDelivery ==
    ASSUME Faults = {}, IndInv, IndInv', NoWait, OrderInv, DeliveryInv,
           [Next]_vars, astray = {}, astray' = {}
    PROVE  DeliveryInv'
<1> SUFFICES ASSUME closes' = 0 PROVE Delivery'
  BY DEF DeliveryInv
<1>1. CASE ServerClose
  <2>1. closes \in Nat /\ closes' = closes + 1
    BY <1>1, ConnectionAssumption DEF ServerClose, IndInv, TypeOK
  <2> QED
    BY <2>1
<1>2. ASSUME ~ServerClose PROVE closes' = closes
  BY <1>2 DEF Next, ClientStep, vars, server, control, FlushEnter, FlushPurged,
     Send, SendError, SendRepack, SendWait, SendWaited, PurgeFlushed,
     PurgeRead, PurgeDone, WriteChunk, WriteFlush, WriteDone, WriteFailed,
     AnswerOld, Answer, QuitDrain, QuitClose, Begin, BeginQuit, Serve,
     ServeOld, LoseOld
<1>3. CASE ~ServerClose
  <2>1. Delivery
    BY <1>2, <1>3 DEF DeliveryInv
  <2>2. ret = "ok"
    BY <2>1 DEF Delivery, Smooth
  <2>3. CASE SendError
    <3>1. fd /\ peer
      BY <2>1, <2>3, Listening DEF SendError
    <3> QED
      BY <2>3, <3>1 DEF SendError
  <2>4. CASE WriteFailed
    BY <2>2, <2>4 DEF WriteFailed
  <2>5. ~SendWaited /\ (SendRepack => Packed = read_buffer)
        /\ (SendWait => ~NeedPurge)
    BY NotWaited, Straight
  <2>6. CASE FlushEnter \/ FlushPurged
    BY <2>1, <2>6, FlushDelivery
  <2>7. CASE PurgeFlushed \/ PurgeDone
    BY <2>1, <2>7, PurgeDelivery
  <2>8. CASE \E o \in Responses : PurgeRead(o) \/ AnswerOld(o) \/ Answer(o)
    BY <2>1, <2>8, ReadDelivery
  <2>9. CASE \E k \in 1..NetCap : Send(k)
    BY <2>1, <2>9, SendDelivery
  <2>10. CASE \E kind \in {"set", "sync", "flush"} : Begin(kind)
    BY <2>1, <2>10, BeginDelivery
  <2>11. CASE SendRepack \/ WriteChunk \/ WriteDone \/ WriteFlush
    BY <2>1, <2>5, <2>11, RepackDelivery, WriteChunkDelivery,
       WriteDoneDelivery, WriteFlushDelivery
  <2>13. CASE \/ SendWait \/ UNCHANGED vars
              \/ \E c \in earlier : ServeOld(c) \/ LoseOld(c)
    <3>1. UNCHANGED <<control, fd, cursor_active, write_buffer, read_buffer,
                      failures, net, peer, parsing, executed>>
      BY <2>5, <2>13, Zenon
      DEF SendWait, vars, ServeOld, LoseOld, client, control, server
    <3> QED
      BY <2>1, <3>1, UnmovedDelivery
  <2>12. CASE BeginQuit \/ QuitDrain \/ QuitClose \/ Serve
    BY <2>1, <2>12, BeginQuitDelivery, QuitDelivery, ServeDelivery
  <2> QED
    BY <1>3, <2>3, <2>4, <2>5, <2>6, <2>7, <2>8, <2>9, <2>10, <2>11, <2>12,
       <2>13, Zenon DEF Next, ClientStep
<1> QED
  BY <1>1, <1>3

\* Nothing has been made at the start.
LEMMA InitDelivery == Init => DeliveryInv
<1> SUFFICES ASSUME Init PROVE Delivery
  BY DEF DeliveryInv
<1>1. /\ toServer = <<>> /\ write_buffer = <<>> /\ stack = <<>>
      /\ op = NoOp /\ NoOp.todo = <<>> /\ NoOp.kind = "none"
      /\ executed = <<>> /\ parsing = Quit /\ nextId = 1 /\ peer = FALSE
      /\ read_buffer = <<>> /\ toClient = <<>> /\ pc = "idle"
      /\ cursor_active = 0 /\ fd = FALSE /\ ret = "ok" /\ failures = 0
  BY DEF Init, NoOp
<1>2. ~At("send") /\ Pending = <<>> /\ Counted = 1
  BY <1>1 DEF At, Pending, Counted, Counting
<1>3. Stream = <<>>
  <2> PICK e \in Seq(Chunk) : e = <<>>
    BY EmptySeq
  <2>1. (e \o e) \o e = e
    BY ConcatEmptySeq
  <2> QED
    BY <1>1, <1>2, <2>1 DEF Stream
<1>4. Made = 0 /\ Consumed = 0 /\ ~Quitting
  BY <1>1 DEF Made, Consumed, Quitting
<1>5. Conserved
  BY <1>1, <1>3, <1>4 DEF Conserved, InPlace
<1>6. Finished
  BY <1>1, <1>4 DEF Finished
<1>7. Balanced /\ Clean /\ Smooth
  BY <1>1, <1>2 DEF Balanced, Clean, Answers, Smooth
<1> QED
  BY <1>5, <1>6, <1>7 DEF Delivery

\* All that was made is executed once the connection was closed by quit.
LEMMA AllDelivered ==
    ASSUME IndInv, DeliveryInv, astray = {} PROVE QuitDelivers
<1> SUFFICES ASSUME last.rc = "QUIT", closes = 0, pc = "idle",
                    NEW id \in 1..(nextId - 1)
             PROVE  \E i \in DOMAIN executed : executed[i] = id
  BY DEF QuitDelivers
<1>1. ~peer /\ Consumed = Made /\ Conserved
  BY DEF DeliveryInv, Delivery, Finished
<1>2. Len(executed) = nextId - 1
  BY <1>1, AllDone
<1>3. id \in DOMAIN executed
  <2>1. executed \in Seq(Ids)
    BY StagesTyped
  <2>2. DOMAIN executed = 1..Len(executed)
    BY <2>1, LenProperties
  <2> QED
    BY <1>2, <2>2
<1>4. executed[id] = id
  BY <1>1, <1>3 DEF Conserved
<1> QED
  BY <1>3, <1>4

\* When nothing fails, memcached_quit returns success only after the server
\* has executed every request, unless io_wait purged in the write loop or
\* repack_input_buffer exposed older input.
THEOREM DeliveredUnlessPurged ==
    ASSUME Faults = {} PROVE Spec => [](astray = {} => QuitDelivers)
<1> DEFINE K == astray = {} => NoWait /\ OrderInv /\ EarlierInv
<1>1. IndInv /\ IndInv' /\ K /\ DeliveryInv /\ [Next]_vars => DeliveryInv'
  <2> SUFFICES ASSUME IndInv, IndInv', K, DeliveryInv, [Next]_vars,
                      astray' = {}
               PROVE  DeliveryInv'
    BY DEF DeliveryInv
  <2>1. astray = {}
    BY Straight
  <2> QED
    BY <2>1, NextDelivery
<1>2. IndInv /\ DeliveryInv => (astray = {} => QuitDelivers)
  BY AllDelivered
<1>3. Spec => []K
  BY Order
<1> HIDE DEF K
<1> QED
  BY <1>1, <1>2, <1>3, InitDelivery, Invariant, PTL DEF Spec

\* With room for what is sent, and nothing failing, memcached_quit delivers
\* every buffered request: it reads until the server hangs up, and the server
\* hangs up on the quit command, behind all the others.
THEOREM QuitDeliversAlways ==
    ASSUME Roomy, Faults = {}
    PROVE  Spec => []("stale" \notin astray => QuitDelivers)
<1>1. Spec => [](astray \subseteq {"stale", "reentered"})
  BY StrayKinds
<1>2. /\ astray \subseteq {"stale", "reentered"}
      /\ "stale" \notin astray => "reentered" \notin astray
      => ("stale" \notin astray => astray = {})
  OBVIOUS
<1> QED
  BY <1>1, <1>2, NeverReentered, DeliveredUnlessPurged, PTL
=============================================================================
