-------------------------- MODULE ConnectionProofs --------------------------
(***************************************************************************)
(* Proofs about one connection, for every size of the buffers and of the    *)
(* kernel's queues, every watermark and every fault: the buffers stay       *)
(* within their arrays and memcached_purge does not recurse.  What the      *)
(* order of requests and answers rests on is in ConnectionOrder.            *)
(***************************************************************************)
EXTENDS Connection, SequenceTheorems, TLAPS

\* The frames there can be: the call of io_flush, under it one purge with
\* its own io_flush, and nothing deeper.
Shape ==
    \/ stack = <<>>
    \/ /\ Len(stack) = 1
       /\ stack[1].at \in {"flush", "purged", "send", "wait"}
    \/ /\ Len(stack) = 2 /\ purging
       /\ stack[1].at \in {"purged", "wait"}
       /\ stack[2].at \in {"purge", "drain"}
    \/ /\ Len(stack) = 3 /\ purging
       /\ stack[1].at \in {"purged", "wait"}
       /\ stack[2].at = "purge"
       /\ stack[3].at \in {"flush", "send"}

\* Outside io_flush the write buffer has room for a chunk.
NotFull == stack = <<>> => Len(write_buffer) < WBufMax

\* What fails has closed the connection, which empties the buffer.
FailedEmpty ==
    /\ ret = "fail" => write_buffer = <<>>
    /\ \A i \in DOMAIN stack : stack[i].rc = "fail" => write_buffer = <<>>

\* The inductive invariant of the connection's control.
IndInv == TypeOK /\ Shape /\ NotFull /\ FailedEmpty

-----------------------------------------------------------------------------
(* Lemmas about the operators of the model.                                *)

\* The top of a stack and what is below it.
LEMMA TopAndFront ==
    ASSUME NEW S, NEW s \in Seq(S), s # <<>>
    PROVE  /\ Len(s) \in Nat \ {0}
           /\ Last(s) = s[Len(s)] /\ Last(s) \in S
           /\ Front(s) \in Seq(S) /\ Len(Front(s)) = Len(s) - 1
           /\ \A i \in 1..(Len(s) - 1) : Front(s)[i] = s[i]
<1>1. Len(s) \in Nat \ {0}
  BY EmptySeq
<1>2. \A i \in 1..(Len(s) - 1) : s[i] \in S
  BY <1>1, ElementOfSeq
<1>3. /\ Front(s) \in Seq(S)
      /\ Len(Front(s)) = IF 1 <= Len(s) - 1 THEN Len(s) - 1 - 1 + 1 ELSE 0
      /\ \A i \in 1..(Len(s) - 1 - 1 + 1) : Front(s)[i] = s[1 + i - 1]
  BY <1>1, <1>2, SubSeqProperties DEF Front
<1>4. Last(s) = s[Len(s)] /\ Last(s) \in S
  BY <1>1, ElementOfSeq DEF Last
<1>5. Len(Front(s)) = Len(s) - 1
  <2> PICK n \in Nat \ {0} : n = Len(s)
    BY <1>1
  <2> QED
    BY <1>3
<1>6. ASSUME NEW i \in 1..(Len(s) - 1) PROVE Front(s)[i] = s[i]
  <2>1. i \in 1..(Len(s) - 1 - 1 + 1) /\ 1 + i - 1 = i
    BY <1>1
  <2> QED
    BY <1>3, <2>1
<1> QED
  BY <1>1, <1>3, <1>4, <1>5, <1>6

\* Replacing the top frame.
LEMMA BecomeTop ==
    \A s \in Seq(Frames), f \in Frames :
        s # <<>> =>
            /\ Append(Front(s), f) \in Seq(Frames)
            /\ Len(Append(Front(s), f)) = Len(s)
            /\ \A i \in 1..(Len(s) - 1) : Append(Front(s), f)[i] = s[i]
            /\ Append(Front(s), f)[Len(s)] = f
<1> SUFFICES ASSUME NEW s \in Seq(Frames), NEW f \in Frames, s # <<>>
             PROVE  /\ Append(Front(s), f) \in Seq(Frames)
                    /\ Len(Append(Front(s), f)) = Len(s)
                    /\ \A i \in 1..(Len(s) - 1) : Append(Front(s), f)[i] = s[i]
                    /\ Append(Front(s), f)[Len(s)] = f
  OBVIOUS
<1> PICK t : t = Append(Front(s), f)
  OBVIOUS
<1>1. /\ Front(s) \in Seq(Frames) /\ Len(Front(s)) = Len(s) - 1
      /\ Len(s) \in Nat \ {0}
      /\ \A i \in 1..(Len(s) - 1) : Front(s)[i] = s[i]
  BY TopAndFront
<1>2. /\ t \in Seq(Frames) /\ t # <<>> /\ Len(t) = Len(Front(s)) + 1
      /\ \A i \in 1..Len(Front(s)) : t[i] = Front(s)[i]
      /\ t[Len(Front(s)) + 1] = f
  BY <1>1, AppendProperties
<1>3. /\ t \in Seq(Frames) /\ Len(t) = Len(s)
      /\ \A i \in 1..(Len(s) - 1) : t[i] = s[i]
      /\ t[Len(s)] = f
  BY <1>1, <1>2
<1> QED
  BY <1>3

\* Removing the top frame.
LEMMA PopTop ==
    ASSUME NEW S, NEW s \in Seq(S), s # <<>>, NEW t, t = Front(s)
    PROVE  /\ t \in Seq(S) /\ Len(t) = Len(s) - 1
           /\ \A i \in 1..Len(t) : t[i] = s[i]
           /\ t = <<>> <=> Len(s) = 1
<1>1. /\ t \in Seq(S) /\ Len(t) = Len(s) - 1
      /\ \A i \in 1..(Len(s) - 1) : t[i] = s[i]
      /\ Len(s) \in Nat \ {0}
  BY TopAndFront
<1>2. t = <<>> <=> Len(t) = 0
  BY <1>1, EmptySeq
<1> QED
  BY <1>1, <1>2

\* Replacing the top frame and putting two more on it.
LEMMA PushTwo ==
    \A s \in Seq(Frames), f, g, h \in Frames :
        s # <<>> =>
            /\ Front(s) \o <<f, g, h>> \in Seq(Frames)
            /\ Len(Front(s) \o <<f, g, h>>) = Len(s) + 2
            /\ (Front(s) \o <<f, g, h>>)[Len(s)] = f
            /\ (Front(s) \o <<f, g, h>>)[Len(s) + 1] = g
            /\ (Front(s) \o <<f, g, h>>)[Len(s) + 2] = h
<1> SUFFICES ASSUME NEW s \in Seq(Frames), s # <<>>, NEW f \in Frames,
                    NEW g \in Frames, NEW h \in Frames
             PROVE  /\ Front(s) \o <<f, g, h>> \in Seq(Frames)
                    /\ Len(Front(s) \o <<f, g, h>>) = Len(s) + 2
                    /\ (Front(s) \o <<f, g, h>>)[Len(s)] = f
                    /\ (Front(s) \o <<f, g, h>>)[Len(s) + 1] = g
                    /\ (Front(s) \o <<f, g, h>>)[Len(s) + 2] = h
  OBVIOUS
<1> PICK t : t = Front(s) \o <<f, g, h>>
  OBVIOUS
<1> DEFINE u == <<f, g, h>>
<1>1. /\ Front(s) \in Seq(Frames) /\ Len(Front(s)) = Len(s) - 1
      /\ Len(s) \in Nat \ {0}
      /\ \A i \in 1..(Len(s) - 1) : Front(s)[i] = s[i]
  BY TopAndFront
<1>2. u \in Seq(Frames) /\ Len(u) = 3 /\ u[1] = f /\ u[2] = g /\ u[3] = h
  OBVIOUS
<1> HIDE DEF u
<1>3. /\ t \in Seq(Frames) /\ Len(t) = Len(Front(s)) + Len(u)
      /\ \A i \in 1..(Len(Front(s)) + Len(u)) :
            t[i] = IF i <= Len(Front(s)) THEN Front(s)[i] ELSE u[i - Len(Front(s))]
  BY <1>1, <1>2, ConcatProperties DEF u
<1>4. /\ t[Len(s)] = u[1] /\ t[Len(s) + 1] = u[2] /\ t[Len(s) + 2] = u[3]
  <2> PICK n \in Nat \ {0} : n = Len(s)
    BY <1>1
  <2>1. \A i \in 1..(n + 2) :
           t[i] = IF i <= n - 1 THEN Front(s)[i] ELSE u[i - (n - 1)]
    BY <1>1, <1>2, <1>3
  <2>3. ASSUME NEW i \in 1..(n + 2), NEW k \in 1..3, i = n - 1 + k
        PROVE  t[i] = u[k]
    <3>1. ~(i <= n - 1) /\ i - (n - 1) = k
      BY <2>3
    <3>2. t[i] = u[i - (n - 1)]
      BY <2>1, <3>1
    <3> QED
      BY <3>1, <3>2
  <2>4. /\ n \in 1..(n + 2) /\ n = n - 1 + 1
        /\ n + 1 \in 1..(n + 2) /\ n + 1 = n - 1 + 2
        /\ n + 2 \in 1..(n + 2) /\ n + 2 = n - 1 + 3
    OBVIOUS
  <2>5. t[n] = u[1] /\ t[n + 1] = u[2] /\ t[n + 2] = u[3]
    <3>1. 1 \in 1..3 /\ 2 \in 1..3 /\ 3 \in 1..3
      OBVIOUS
    <3>2. t[n] = u[1]
      BY <2>3, <2>4, <3>1
    <3>3. t[n + 1] = u[2]
      BY <2>3, <2>4, <3>1
    <3>4. t[n + 2] = u[3]
      BY <2>3, <2>4, <3>1
    <3> QED
      BY <3>2, <3>3, <3>4
  <2> QED
    BY <2>5
<1>5. /\ t \in Seq(Frames) /\ Len(t) = Len(s) + 2
      /\ t[Len(s)] = f /\ t[Len(s) + 1] = g /\ t[Len(s) + 2] = h
  BY <1>1, <1>2, <1>3, <1>4
<1> QED
  BY <1>5

\* memcached_server_response_increment and _decrement stay within the width
\* of cursor_active, also when they wrap.
LEMMA CursorInRange ==
    ASSUME NEW c \in 0..(CursorMod - 1)
    PROVE  /\ Increment(c) \in 0..(CursorMod - 1)
           /\ Decrement(c) \in 0..(CursorMod - 1)
BY ConnectionAssumption DEF Increment, Decrement

\* The failure counter stays within what the model counts.
LEMMA StrikesInRange ==
    ASSUME NEW n \in 0..FailureCap, NEW k \in Nat
    PROVE  Strikes(n, k) \in 0..FailureCap
BY ConnectionAssumption DEF Strikes

\* A new frame is a frame.
LEMMA FrameTyped ==
    ASSUME NEW at \in {"flush", "purged", "send", "wait", "purge", "drain"}
    PROVE  Frame(at) \in Frames /\ Frame(at).at = at /\ Frame(at).rc = "ok"
<1>1. 0 \in 0..(CursorMod - 1) /\ <<>> \in Seq(Chunk) /\ 0 \in Nat
  BY ConnectionAssumption
<1> QED
  BY <1>1 DEF Frame, Frames

-----------------------------------------------------------------------------
(* What the operations on the stack do to its shape.                       *)

\* Where the client may be, by the depth of the stack.
LEMMA TopFrame ==
    ASSUME IndInv, stack # <<>>
    PROVE  /\ Len(stack) \in 1..3
           /\ Top = stack[Len(stack)] /\ Top \in Frames
           /\ Top.rc = "fail" => write_buffer = <<>>
           /\ Top.at \in {"purge", "drain"} <=> Len(stack) = 2
           /\ Top.at \in {"purged", "wait"} => Len(stack) = 1
           /\ Len(stack) > 1 => purging
<1>1. stack \in Seq(Frames)
  BY DEF IndInv, TypeOK
<1>2. Top = stack[Len(stack)] /\ Top \in Frames /\ Len(stack) \in Nat \ {0}
  BY <1>1, TopAndFront DEF Top
<1>3. Len(stack) \in DOMAIN stack
  BY <1>1, <1>2
<1> QED
  BY <1>1, <1>2, <1>3 DEF IndInv, Shape, FailedEmpty

\* A frame returns: below it is a frame that called it, or the buffer is
\* empty now.
LEMMA Popped ==
    ASSUME IndInv, stack # <<>>, NEW r \in {"ok", "fail"}, Pop(r),
           Len(stack) = 2 \/ (write_buffer' = <<>> /\ purging' = purging),
           r = "fail" => write_buffer' = <<>>,
           write_buffer = <<>> => write_buffer' = <<>>
    PROVE  stack' \in Seq(Frames) /\ ret' \in {"ok", "fail"}
           /\ Shape' /\ NotFull' /\ FailedEmpty'
<1>1. stack \in Seq(Frames) /\ WBufMax > 0 /\ WBufMax \in Nat
  BY ConnectionAssumption DEF IndInv, TypeOK
<1>2. /\ stack' \in Seq(Frames) /\ Len(stack') = Len(stack) - 1
      /\ \A i \in 1..Len(stack') : stack'[i] = stack[i]
      /\ stack' = <<>> <=> Len(stack) = 1
  BY <1>1, PopTop DEF Pop
<1>3. Len(stack) \in 1..3
  BY TopFrame
<1>4. Shape'
  BY <1>2, <1>3 DEF IndInv, Shape
<1>5. NotFull'
  BY <1>1, <1>2 DEF NotFull
<1>6. FailedEmpty'
  <2>1. DOMAIN stack' = 1..Len(stack') /\ DOMAIN stack = 1..Len(stack)
    BY <1>1, <1>2
  <2>2. \A i \in DOMAIN stack' : i \in DOMAIN stack /\ stack'[i] = stack[i]
    BY <1>2, <1>3, <2>1
  <2> QED
    BY <2>2 DEF IndInv, FailedEmpty, Pop
<1> QED
  BY <1>2, <1>4, <1>5, <1>6 DEF Pop

\* A frame goes on, in the write loop or in the purge.
LEMMA Became ==
    ASSUME IndInv, stack # <<>>, NEW f \in Frames, Become(f),
           \/ Top.at \notin {"purge", "drain"} /\ f.at = "send"
           \/ Top.at \in {"purge", "drain"} /\ f.at = "drain",
           purging' = purging, ret' \in {"ok", ret},
           f.rc = "fail" => write_buffer' = <<>>,
           write_buffer = <<>> => write_buffer' = <<>>
    PROVE  stack' \in Seq(Frames) /\ ret' \in {"ok", "fail"}
           /\ Shape' /\ NotFull' /\ FailedEmpty'
<1>1. stack \in Seq(Frames) /\ ret \in {"ok", "fail"}
  BY DEF IndInv, TypeOK
<1>2. /\ stack' \in Seq(Frames) /\ Len(stack') = Len(stack)
      /\ \A i \in 1..(Len(stack) - 1) : stack'[i] = stack[i]
      /\ stack'[Len(stack)] = f
  BY <1>1, BecomeTop DEF Become
<1>3. /\ Len(stack) \in 1..3
      /\ Top.at \in {"purge", "drain"} <=> Len(stack) = 2
  BY TopFrame
<1>4. Shape'
  BY <1>2, <1>3 DEF IndInv, Shape
<1>5. NotFull'
  BY <1>2 DEF NotFull
<1>6. FailedEmpty'
  <2>1. DOMAIN stack' = 1..Len(stack) /\ DOMAIN stack = 1..Len(stack)
    BY <1>1, <1>2
  <2>2. \A i \in DOMAIN stack' : stack'[i] = stack[i] \/ stack'[i] = f
    BY <1>2, <1>3, <2>1
  <2> QED
    BY <2>1, <2>2 DEF IndInv, FailedEmpty
<1> QED
  BY <1>1, <1>2, <1>4, <1>5, <1>6

\* memcached_purge begins, in the call of io_flush or in its write loop.
LEMMA Pushed ==
    ASSUME IndInv, stack # <<>>, ~purging, NEW f \in Frames, StartPurge(f),
           f.at \in {"purged", "wait"}, write_buffer' = write_buffer,
           f.rc = "fail" => write_buffer = <<>>
    PROVE  stack' \in Seq(Frames) /\ ret' \in {"ok", "fail"}
           /\ purging' \in BOOLEAN
           /\ Shape' /\ NotFull' /\ FailedEmpty'
<1>1. stack \in Seq(Frames)
  BY DEF IndInv, TypeOK
<1>2. Len(stack) = 1
  BY TopFrame
<1> PICK g \in Frames : g = Frame("purge")
  BY FrameTyped
<1> PICK h \in Frames : h = Frame("flush")
  BY FrameTyped
<1>3. g.at = "purge" /\ g.rc = "ok" /\ h.at = "flush" /\ h.rc = "ok"
  BY FrameTyped
<1>4. stack' = Front(stack) \o <<f, g, h>>
  BY DEF StartPurge
<1>5. /\ stack' \in Seq(Frames) /\ Len(stack') = 3
      /\ stack'[1] = f /\ stack'[2] = g /\ stack'[3] = h
  <2>1. /\ stack' \in Seq(Frames) /\ Len(stack') = Len(stack) + 2
        /\ stack'[Len(stack)] = f /\ stack'[Len(stack) + 1] = g
        /\ stack'[Len(stack) + 2] = h
    BY <1>1, <1>4, PushTwo
  <2> QED
    BY <1>2, <2>1
<1>6. Shape'
  BY <1>3, <1>5 DEF Shape, StartPurge
<1>7. NotFull'
  BY <1>5 DEF NotFull
<1>8. FailedEmpty'
  <2>1. \A i \in DOMAIN stack' : i = 1 \/ i = 2 \/ i = 3
    BY <1>5
  <2> QED
    BY <1>3, <1>5, <2>1 DEF FailedEmpty, StartPurge
<1> QED
  BY <1>5, <1>6, <1>7, <1>8 DEF StartPurge

\* The stack stays; the buffer may have been emptied.
LEMMA Stayed ==
    ASSUME IndInv, stack' = stack, purging' = purging, ret' \in {"ok", ret},
           write_buffer' \in {write_buffer, <<>>}
    PROVE  stack' \in Seq(Frames) /\ ret' \in {"ok", "fail"}
           /\ Shape' /\ NotFull' /\ FailedEmpty'
<1>1. WBufMax > 0 /\ WBufMax \in Nat
  BY ConnectionAssumption
<1>2. Shape'
  BY DEF IndInv, Shape
<1>3. NotFull'
  BY <1>1 DEF IndInv, NotFull
<1>4. FailedEmpty'
  BY DEF IndInv, FailedEmpty
<1> QED
  BY <1>2, <1>3, <1>4 DEF IndInv, TypeOK

\* A call of io_flush from outside, or the end of a call.
LEMMA Called ==
    ASSUME IndInv, ret' = "ok", stack' = <<Frame("flush")>>
    PROVE  stack' \in Seq(Frames) /\ ret' \in {"ok", "fail"}
           /\ Shape' /\ NotFull' /\ FailedEmpty'
<1> PICK h \in Frames : h = Frame("flush")
  BY FrameTyped
<1>1. h.at = "flush" /\ h.rc = "ok"
  BY FrameTyped
<1>2. stack' = <<h>>
  OBVIOUS
<1>3. stack' \in Seq(Frames) /\ Len(stack') = 1 /\ stack'[1] = h
  BY <1>2
<1>4. Shape'
  BY <1>1, <1>3 DEF Shape
<1>5. NotFull'
  BY <1>3 DEF NotFull
<1>6. FailedEmpty'
  BY <1>1, <1>2 DEF FailedEmpty
<1> QED
  BY <1>3, <1>4, <1>5, <1>6

\* A call that has returned well, with room left in the write buffer.
LEMMA Returned ==
    ASSUME IndInv, ret' = "ok", stack' = <<>>,
           Len(write_buffer') < WBufMax
    PROVE  stack' \in Seq(Frames) /\ ret' \in {"ok", "fail"}
           /\ Shape' /\ NotFull' /\ FailedEmpty'
BY DEF Shape, NotFull, FailedEmpty

-----------------------------------------------------------------------------
(* Types of what the actions share.                                        *)

\* Without unread input the array may hold anything.
LEMMA NoInput ==
    ASSUME InputOK, read_buffer' = <<>>, read_ptr' = 0, read_data' = read_data
    PROVE  InputOK'
<1>1. <<>> \in Seq(Line) /\ Len(<<>>) = 0 /\ Len(read_data) \in Nat
  BY EmptySeq, LenProperties DEF InputOK
<1>2. read_buffer' \in Seq(Line) /\ Len(read_buffer') = 0
  BY <1>1, Zenon
<1>3. read_ptr' \in Nat /\ read_ptr' + Len(read_buffer') <= Len(read_data)
  BY <1>1, <1>2
<1> QED
  BY <1>2, <1>3 DEF InputOK

\* Closing the connection.
LEMMA ClosedTyped ==
    ASSUME TypeOK, NEW n \in 0..FailureCap, NEW k \in Nat, CloseServer(n, k)
    PROVE  /\ fd' \in BOOLEAN /\ cursor_active' \in 0..(CursorMod - 1)
           /\ write_buffer' = <<>> /\ write_buffer' \in Seq(Chunk)
           /\ Len(write_buffer') <= WBufMax
           /\ InputOK'
           /\ failures' \in 0..FailureCap /\ io_bytes_sent' \in Nat
<1>1. 0 \in 0..(CursorMod - 1) /\ 0 <= WBufMax
  BY ConnectionAssumption
<1>2. Strikes(n, k) \in 0..FailureCap
  BY StrikesInRange
<1>3. <<>> \in Seq(Chunk) /\ Len(<<>>) = 0
  BY EmptySeq
<1>4. io_bytes_sent' \in Nat
  BY DEF CloseServer, TypeOK
<1>5. InputOK'
  BY NoInput DEF CloseServer, TypeOK, InputOK
<1> QED
  BY <1>1, <1>2, <1>3, <1>4, <1>5, Zenon DEF CloseServer

\* What is kept of a connection given up.
LEMMA KeptTyped ==
    ASSUME NEW c \in Old PROVE Kept(c) \subseteq Old /\ Kept(Idled(c)) \subseteq Old
<1>1. <<>> \in Seq(Chunk)
  BY EmptySeq
<1>2. ASSUME NEW d \in Old PROVE Idled(d) \in Old
  BY <1>1, Zenon DEF Idled, Old
<1>3. ASSUME NEW d \in Old PROVE Kept(d) \subseteq Old
  BY <1>2 DEF Kept
<1> QED
  BY <1>2, <1>3

\* Leaving keeps what the server has of the connection, and hanging up clears
\* both directions.
LEMMA LeaveTyped ==
    ASSUME TypeOK, Leave
    PROVE  /\ toServer' \in Seq(Chunk)
           /\ peer' \in BOOLEAN /\ parsing' \in Ids \cup {Quit}
           /\ earlier' \subseteq Old
<1>1. <<>> \in Seq(Chunk) /\ <<>> \in Seq(Ids)
  BY EmptySeq
<1>2. toServer \in Seq(Chunk) /\ executed \in Seq(Ids) /\ earlier \subseteq Old
      /\ parsing \in Ids \cup {Quit}
  BY DEF TypeOK
<1> PICK t : t = IF peer THEN toServer ELSE <<>>
  OBVIOUS
<1> PICK c : c = [toServer |-> t, parsing |-> parsing,
                  before |-> Len(executed), executed |-> <<>>]
  OBVIOUS
<1>3. c \in Old
  <2>1. t \in Seq(Chunk) /\ Len(executed) \in Nat
    BY <1>1, <1>2, LenProperties
  <2> QED
    BY <1>1, <1>2, <2>1 DEF Old
<1>4. earlier' = earlier \cup Kept(c)
  BY DEF Leave
<1> QED
  BY <1>1, <1>2, <1>3, <1>4, KeptTyped, Zenon DEF Leave

LEMMA HangupTyped ==
    ASSUME TypeOK, Hangup
    PROVE  /\ toServer' \in Seq(Chunk) /\ toClient' \in Seq(Line)
           /\ peer' \in BOOLEAN /\ parsing' \in Ids \cup {Quit}
           /\ earlier' \subseteq Old
<1>1. <<>> \in Seq(Line)
  BY EmptySeq
<1> QED
  BY <1>1, LeaveTyped, Zenon DEF Hangup

\* What reading a response may come to.
LEMMA ResponseTyped ==
    ASSUME TypeOK, NEW o \in Responses
    PROVE  /\ o.strikes \in 0..2 /\ o.fresh \in BOOLEAN
           /\ o.rb \in Seq(Line) /\ o.tc \in Seq(Line)
           /\ o.fresh => o.got \in Line /\ Len(o.rb) + 1 <= RBufMax
           /\ o.strikes = 0 /\ ~o.fresh => Len(o.rb) + 1 = Len(read_buffer)
           /\ o.rc \in {"PROTOCOL_ERROR", "UNKNOWN_READ_FAILURE"} =>
                o.strikes > 0
<1>1. /\ read_buffer \in Seq(Line) /\ toClient \in Seq(Line)
      /\ RBufMax \in Nat \ {0}
  BY ConnectionAssumption DEF TypeOK, InputOK
<1>2. ASSUME NEW l, NEW rb, NEW tc, NEW fresh, o = Parsed(l, rb, tc, fresh)
      PROVE  /\ o.strikes \in 0..2 /\ o.fresh = fresh
             /\ o.rb = rb /\ o.tc = tc /\ o.got = l
             /\ o.rc \in {"PROTOCOL_ERROR", "UNKNOWN_READ_FAILURE"} =>
                  o.strikes > 0
  BY <1>2 DEF Parsed, Outcome
<1>3. ASSUME NEW rc, NEW k \in 1..2, o = Broken(rc, k)
      PROVE  /\ o.strikes = k /\ o.fresh = FALSE
             /\ o.rb = <<>> /\ o.tc = <<>>
  BY <1>3 DEF Broken, Outcome
<1>4. CASE \E rc, k : k \in 1..2 /\ o = Broken(rc, k)
  <2> PICK rc, k : k \in 1..2 /\ o = Broken(rc, k)
    BY <1>4
  <2>1. o.strikes = k /\ o.fresh = FALSE /\ o.rb = <<>> /\ o.tc = <<>>
    BY <1>3
  <2>2. <<>> \in Seq(Line)
    BY EmptySeq
  <2>3. o.rb \in Seq(Line) /\ o.tc \in Seq(Line)
    BY <2>1, <2>2, Zenon
  <2>4. o.strikes \in 0..2 /\ o.strikes > 0 /\ o.strikes # 0
    BY <2>1
  <2> QED
    BY <2>1, <2>3, <2>4, Zenon
<1>5. CASE fd /\ read_buffer # <<>>
  <2>1. o = Parsed(Head(read_buffer), Tail(read_buffer), toClient, FALSE)
    BY <1>5 DEF Responses
  <2>2. Tail(read_buffer) \in Seq(Line)
        /\ Len(Tail(read_buffer)) + 1 = Len(read_buffer)
    BY <1>1, <1>5, HeadTailProperties, LenProperties
  <2>3. /\ o.strikes \in 0..2 /\ o.fresh = FALSE
        /\ o.rb = Tail(read_buffer) /\ o.tc = toClient
        /\ o.rc \in {"PROTOCOL_ERROR", "UNKNOWN_READ_FAILURE"} =>
             o.strikes > 0
    BY <1>2, <2>1
  <2> QED
    BY <1>1, <2>2, <2>3, Zenon
<1>6. CASE fd /\ read_buffer = <<>> /\ toClient # <<>>
  <2> DEFINE k == IF Len(toClient) < RBufMax THEN Len(toClient) ELSE RBufMax
  <2>1. o = Parsed(Head(toClient), SubSeq(toClient, 2, k),
                   SubSeq(toClient, k + 1, Len(toClient)), TRUE)
    BY <1>6 DEF Responses
  <2>2. k \in Nat \ {0} /\ k <= Len(toClient) /\ k <= RBufMax
        /\ Len(toClient) \in Nat
    BY <1>1, <1>6, EmptySeq, LenProperties
  <2> HIDE DEF k
  <2>3. /\ SubSeq(toClient, 2, k) \in Seq(Line)
        /\ Len(SubSeq(toClient, 2, k)) + 1 <= RBufMax
        /\ SubSeq(toClient, k + 1, Len(toClient)) \in Seq(Line)
    BY <1>1, <2>2, SubSeqProperties, ElementOfSeq
  <2>4. Head(toClient) \in Line
    BY <1>1, <1>6, HeadTailProperties
  <2>5. /\ o.strikes \in 0..2 /\ o.fresh = TRUE
        /\ o.rb = SubSeq(toClient, 2, k) /\ o.got = Head(toClient)
        /\ o.tc = SubSeq(toClient, k + 1, Len(toClient))
        /\ o.rc \in {"PROTOCOL_ERROR", "UNKNOWN_READ_FAILURE"} =>
             o.strikes > 0
    BY <1>2, <2>1
  <2> QED
    BY <2>3, <2>4, <2>5, Zenon
<1>7. CASE ~fd
  <2>1. o = Broken("ERRNO", 1)
    BY <1>7 DEF Responses
  <2> QED
    BY <1>4, <2>1
<1>8. CASE fd /\ read_buffer = <<>> /\ toClient = <<>>
  <2>1. o = Broken("UNKNOWN_READ_FAILURE", 2) \/ o = Broken("TIMEOUT", 1)
    BY <1>8 DEF Responses
  <2> QED
    BY <1>4, <2>1
<1> QED
  BY <1>5, <1>6, <1>7, <1>8 DEF TypeOK

\* A line less to read is one more place further on.
LEMMA OneMore ==
    \A p, a, b, c \in Nat :
        p + b <= c /\ a + 1 = b => p + 1 \in Nat /\ p + 1 + a <= c
OBVIOUS

\* The input after a response: the rest of what was unread, or of what the
\* socket gave.
LEMMA AfterInput ==
    ASSUME TypeOK, NEW o \in Responses, NEW k \in 0..1, AfterResponse(o, k)
    PROVE  InputOK'
<1>1. /\ o.strikes \in 0..2 /\ o.fresh \in BOOLEAN
      /\ o.rb \in Seq(Line)
      /\ o.fresh => o.got \in Line /\ Len(o.rb) + 1 <= RBufMax
      /\ o.strikes = 0 /\ ~o.fresh => Len(o.rb) + 1 = Len(read_buffer)
  BY ResponseTyped
<1>2. /\ read_data \in Seq(Line) /\ read_ptr \in Nat
      /\ read_buffer \in Seq(Line) /\ Len(read_data) \in Nat
      /\ Len(o.rb) \in Nat /\ Len(read_data) <= RBufMax
      /\ Len(read_buffer) \in Nat
      /\ read_ptr + Len(read_buffer) <= Len(read_data)
  BY <1>1, LenProperties DEF TypeOK, InputOK
<1>3. read_data' = IF o.fresh THEN <<o.got>> \o o.rb ELSE read_data
  BY Zenon DEF AfterResponse
<1>4. ASSUME o.fresh
      PROVE  read_data' \in Seq(Line) /\ Len(read_data') = Len(o.rb) + 1
  <2>1. <<o.got>> \in Seq(Line) /\ Len(<<o.got>>) = 1
    BY <1>1, <1>4
  <2>2. read_data' = <<o.got>> \o o.rb
    BY <1>3, <1>4
  <2>3. /\ <<o.got>> \o o.rb \in Seq(Line)
        /\ Len(<<o.got>> \o o.rb) = 1 + Len(o.rb)
    BY <1>1, <2>1, ConcatProperties
  <2> QED
    BY <1>2, <2>2, <2>3
<1>5. CASE o.strikes = 0
  <2>1. read_buffer' = o.rb /\ read_ptr' = (IF o.fresh THEN 1 ELSE read_ptr + 1)
    BY <1>5, Zenon DEF AfterResponse
  <2>2. CASE o.fresh
    <3>1. read_ptr' = 1
      BY <2>1, <2>2, Zenon
    <3> QED
      BY <1>1, <1>2, <1>4, <2>1, <2>2, <3>1 DEF InputOK
  <2>3. CASE ~o.fresh
    <3>1. read_ptr' = read_ptr + 1 /\ read_data' = read_data
      BY <1>3, <2>1, <2>3, Zenon
    <3>2. Len(o.rb) + 1 = Len(read_buffer)
      BY <1>1, <1>5, <2>3, Zenon
    <3>3. read_ptr + 1 \in Nat /\ read_ptr + 1 + Len(o.rb) <= Len(read_data)
      BY <1>2, <3>2, OneMore, Zenon
    <3> QED
      BY <1>1, <1>2, <2>1, <3>1, <3>3 DEF InputOK
  <2> QED
    BY <1>1, <2>2, <2>3
<1>6. CASE o.strikes # 0
  <2>1. read_buffer' = <<>> /\ read_ptr' = 0
    BY <1>6, Zenon DEF AfterResponse
  <2>2. <<>> \in Seq(Line) /\ Len(<<>>) = 0
    BY EmptySeq
  <2>3. read_buffer' \in Seq(Line) /\ Len(read_buffer') = 0
    BY <2>1, <2>2, Zenon
  <2>4. read_data' \in Seq(Line) /\ Len(read_data') <= RBufMax
        /\ Len(read_data') \in Nat
    BY <1>1, <1>2, <1>3, <1>4
  <2> QED
    BY <2>1, <2>3, <2>4 DEF InputOK
<1> QED
  BY <1>5, <1>6

\* What is left once a response was read.
LEMMA AfterTyped ==
    ASSUME TypeOK, NEW o \in Responses, NEW k \in 0..1, AfterResponse(o, k)
    PROVE  /\ fd' \in BOOLEAN /\ cursor_active' \in 0..(CursorMod - 1)
           /\ write_buffer' \in {write_buffer, <<>>}
           /\ write_buffer' \in Seq(Chunk) /\ Len(write_buffer') <= WBufMax
           /\ InputOK'
           /\ failures' \in 0..FailureCap /\ io_bytes_sent' \in Nat
           /\ toServer' \in Seq(Chunk) /\ toClient' \in Seq(Line)
           /\ peer' \in BOOLEAN /\ parsing' \in Ids \cup {Quit}
           /\ earlier' \subseteq Old
           /\ o.rc \in {"PROTOCOL_ERROR", "UNKNOWN_READ_FAILURE"} =>
                write_buffer' = <<>>
<1>1. /\ o.strikes \in 0..2 /\ o.fresh \in BOOLEAN
      /\ o.rb \in Seq(Line) /\ o.tc \in Seq(Line)
      /\ o.rc \in {"PROTOCOL_ERROR", "UNKNOWN_READ_FAILURE"} => o.strikes > 0
  BY ResponseTyped
<1>2. /\ 0 \in 0..(CursorMod - 1) /\ 0 <= WBufMax
      /\ 0 \in 0..FailureCap /\ 0 \in Nat
  BY ConnectionAssumption
<1>3. /\ fd \in BOOLEAN /\ write_buffer \in Seq(Chunk)
      /\ Len(write_buffer) <= WBufMax /\ failures \in 0..FailureCap
      /\ io_bytes_sent \in Nat /\ toServer \in Seq(Chunk) /\ peer \in BOOLEAN
      /\ parsing \in Ids \cup {Quit} /\ cursor_active \in 0..(CursorMod - 1)
      /\ earlier \subseteq Old
  BY DEF TypeOK
<1>4. /\ (IF o.fresh THEN 0 ELSE failures) \in 0..FailureCap
      /\ (IF o.fresh THEN 0 ELSE io_bytes_sent) \in Nat
  BY <1>2, <1>3, Zenon
<1>7. InputOK'
  BY AfterInput
<1>5. CASE o.strikes = 0
  <2>1. Decrement(cursor_active) \in 0..(CursorMod - 1)
    BY <1>3, CursorInRange
  <2>2. ~(o.strikes > 0)
    BY <1>5
  <2>3. ~(o.rc \in {"PROTOCOL_ERROR", "UNKNOWN_READ_FAILURE"})
    BY <1>1, <2>2, Zenon
  <2> QED
    BY <1>1, <1>3, <1>4, <1>5, <1>7, <2>1, <2>3, Zenon DEF AfterResponse
<1>6. CASE o.strikes # 0
  <2>1. o.strikes + k \in Nat
    BY <1>1
  <2>2. Strikes(IF o.fresh THEN 0 ELSE failures, o.strikes + k)
          \in 0..FailureCap
    BY <1>4, <2>1, StrikesInRange, Zenon
  <2>3. <<>> \in Seq(Chunk) /\ Len(<<>>) = 0
    BY EmptySeq
  <2> QED
    BY <1>2, <1>4, <1>6, <1>7, <2>2, <2>3, HangupTyped, Zenon DEF AfterResponse
<1> QED
  BY <1>5, <1>6

\* The chunks an action handles.
LEMMA ChunksTyped ==
    /\ QuitChunk \in Chunk /\ <<QuitChunk>> \in Seq(Chunk)
    /\ \A id \in Ids : Chunks(id) \in Seq(Chunk)
    /\ NoOp \in Calls
<1>1. QuitChunk \in Chunk
  BY DEF QuitChunk, Chunk
<1>2. ASSUME NEW id \in Ids PROVE Chunks(id) \in Seq(Chunk)
  BY DEF Chunks, Chunk
<1>3. <<>> \in Seq(Chunk)
  BY EmptySeq
<1> QED
  BY <1>1, <1>2, <1>3 DEF NoOp, Calls

-----------------------------------------------------------------------------
(* io_flush.                                                               *)

\* The write loop begins or io_flush returns.
LEMMA SendBegins ==
    ASSUME IndInv, stack # <<>>, Top.at \notin {"purge", "drain"}, BeginSend,
           write_buffer' = write_buffer, purging' = purging
    PROVE  stack' \in Seq(Frames) /\ ret' \in {"ok", "fail"}
           /\ Shape' /\ NotFull' /\ FailedEmpty'
<1>1. CASE write_buffer = <<>>
  BY <1>1, Popped DEF BeginSend
<1>2. CASE write_buffer # <<>>
  <2>1. Frame("send") \in Frames /\ write_buffer \in Seq(Chunk)
    BY FrameTyped DEF IndInv, TypeOK
  <2> PICK f : f = [Frame("send") EXCEPT !.rest = write_buffer]
    OBVIOUS
  <2>2. f \in Frames /\ f.at = "send" /\ f.rc = "ok"
    BY <2>1 DEF Frame, Frames
  <2>3. Become(f) /\ ret' = "ok"
    BY <1>2 DEF BeginSend
  <2> QED
    BY <2>2, <2>3, Became
<1> QED
  BY <1>1, <1>2

\* Head of io_flush, which may purge first.
LEMMA FlushEnterKeeps ==
    ASSUME IndInv, FlushEnter PROVE IndInv'
<1>1. stack # <<>> /\ Top.at = "flush"
  BY DEF FlushEnter, At
<1>2. stack' \in Seq(Frames) /\ ret' \in {"ok", "fail"} /\ purging' \in BOOLEAN
      /\ Shape' /\ NotFull' /\ FailedEmpty'
  <2>1. CASE NeedPurge
    <3> PICK f \in Frames : f = Frame("purged")
      BY FrameTyped
    <3>1. f.at = "purged" /\ f.rc = "ok"
      BY FrameTyped
    <3>2. StartPurge(f) /\ write_buffer' = write_buffer /\ ~purging
      BY <2>1 DEF FlushEnter, NeedPurge
    <3> QED
      BY <1>1, <3>1, <3>2, Pushed
  <2>2. CASE ~NeedPurge
    <3>1. BeginSend /\ write_buffer' = write_buffer /\ purging' = purging
      BY <2>2 DEF FlushEnter
    <3> QED
      BY <1>1, <3>1, SendBegins DEF IndInv, TypeOK
  <2> QED
    BY <2>1, <2>2
<1> QED
  BY <1>2 DEF IndInv, TypeOK, FlushEnter, net, server, array, InputOK

\* io_flush after its purge.
LEMMA FlushPurgedKeeps ==
    ASSUME IndInv, FlushPurged PROVE IndInv'
<1>1. stack # <<>> /\ Top.at = "purged" /\ write_buffer' = write_buffer
      /\ purging' = purging
  BY DEF FlushPurged, At, client
<1>2. stack' \in Seq(Frames) /\ ret' \in {"ok", "fail"}
      /\ Shape' /\ NotFull' /\ FailedEmpty'
  <2>1. CASE ret = "ok"
    BY <1>1, <2>1, SendBegins DEF FlushPurged
  <2>2. CASE ret # "ok"
    <3>1. Pop("fail") /\ write_buffer = <<>>
      BY <2>2 DEF FlushPurged, IndInv, TypeOK, FailedEmpty
    <3> QED
      BY <1>1, <3>1, Popped
  <2> QED
    BY <2>1, <2>2
<1> QED
  BY <1>2 DEF IndInv, TypeOK, FlushPurged, client, net, server, array, InputOK

\* A piece of a sequence.
LEMMA Piece ==
    ASSUME NEW S, NEW s \in Seq(S), NEW i \in Nat \ {0}, NEW j \in Nat,
           j <= Len(s)
    PROVE  SubSeq(s, i, j) \in Seq(S)
<1>1. Len(s) \in Nat
  BY LenProperties
<1>2. \A k \in i..j : s[k] \in S
  BY <1>1, ElementOfSeq
<1> QED
  BY <1>2, SubSeqProperties

\* One write().
LEMMA SendKeeps ==
    ASSUME IndInv, NEW k \in 1..NetCap, Send(k) PROVE IndInv'
<1>1. stack # <<>> /\ Top.at = "send" /\ Top \in Frames
      /\ (Top.rc = "fail" => write_buffer = <<>>)
  BY TopFrame DEF Send, At
<1>2. purging' = purging /\ k \in 1..Len(Top.rest)
  BY DEF Send
<1>3. Top.rest \in Seq(Chunk) /\ Len(Top.rest) \in Nat
  BY <1>1, LenProperties DEF Frames
<1>4. /\ stack' \in Seq(Frames) /\ ret' \in {"ok", "fail"}
      /\ Shape' /\ NotFull' /\ FailedEmpty'
      /\ write_buffer' \in {write_buffer, <<>>}
  <2>1. CASE k = Len(Top.rest)
    <3>1. Pop("ok") /\ write_buffer' = <<>>
      BY <2>1 DEF Send
    <3> QED
      BY <1>1, <1>2, <3>1, Popped
  <2>2. CASE k # Len(Top.rest)
    <3> PICK r : r = SubSeq(Top.rest, k + 1, Len(Top.rest))
      OBVIOUS
    <3>1. r \in Seq(Chunk)
      BY <1>2, <1>3, Piece
    <3> PICK f : f = [Top EXCEPT !.rest = r, !.sent = @ + k]
      OBVIOUS
    <3>2. f \in Frames /\ f.at = "send" /\ f.rc = Top.rc
      <4>1. Top.sent + k \in Nat
        BY <1>1 DEF Frames
      <4> QED
        BY <1>1, <3>1, <4>1 DEF Frames
    <3>3. Become(f) /\ ret' = ret /\ write_buffer' = write_buffer
      BY <2>2 DEF Send
    <3> QED
      BY <1>1, <1>2, <3>2, <3>3, Became
  <2> QED
    BY <2>1, <2>2
<1>5. write_buffer' \in Seq(Chunk) /\ Len(write_buffer') <= WBufMax
  <2>1. <<>> \in Seq(Chunk) /\ Len(<<>>) = 0 /\ 0 <= WBufMax
    BY EmptySeq, ConnectionAssumption
  <2> QED
    BY <1>4, <2>1, Zenon DEF IndInv, TypeOK
<1>6. toServer' \in Seq(Chunk)
  <2>1. SubSeq(Top.rest, 1, k) \in Seq(Chunk)
    BY <1>2, <1>3, Piece
  <2>2. toServer \o SubSeq(Top.rest, 1, k) \in Seq(Chunk)
    BY <2>1, ConcatProperties DEF IndInv, TypeOK
  <2>3. <<>> \in Seq(Chunk)
    BY EmptySeq
  <2> QED
    BY <2>2, <2>3, Zenon DEF Send
<1>7. io_bytes_sent' \in Nat
  BY SMTT(40) DEF Send, IndInv, TypeOK
<1> QED
  BY <1>4, <1>5, <1>6, <1>7 DEF IndInv, TypeOK, Send, server, array, InputOK

\* A failed write() closes the connection and ends io_flush.
LEMMA SendErrorKeeps ==
    ASSUME IndInv, SendError PROVE IndInv'
<1>1. stack # <<>> /\ Pop("fail") /\ purging' = purging
  BY DEF SendError, At
<1>2. failures \in 0..FailureCap /\ 1 \in Nat
  BY DEF IndInv, TypeOK
<1>3. /\ fd' \in BOOLEAN /\ cursor_active' \in 0..(CursorMod - 1)
      /\ write_buffer' = <<>> /\ write_buffer' \in Seq(Chunk)
      /\ Len(write_buffer') <= WBufMax
      /\ InputOK'
      /\ failures' \in 0..FailureCap /\ io_bytes_sent' \in Nat
  BY <1>2, ClosedTyped DEF SendError, IndInv
<1>4. /\ toServer' \in Seq(Chunk) /\ toClient' \in Seq(Line)
      /\ peer' \in BOOLEAN /\ parsing' \in Ids \cup {Quit}
      /\ earlier' \subseteq Old
  BY HangupTyped DEF SendError, IndInv
<1>5. stack' \in Seq(Frames) /\ ret' \in {"ok", "fail"}
      /\ Shape' /\ NotFull' /\ FailedEmpty'
  BY <1>1, <1>3, Popped
<1> QED
  BY <1>3, <1>4, <1>5 DEF IndInv, TypeOK, SendError

\* What repack_input_buffer finds after it has moved the input.
LEMMA PackedTyped ==
    ASSUME InputOK
    PROVE  /\ Packed \in Seq(Line) /\ Len(Packed) \in Nat
           /\ Len(read_buffer) \in Nat
           /\ Len(read_buffer) <= Len(Packed) /\ Len(Packed) <= RBufMax
BY LenProperties, ConnectionAssumption DEF InputOK, Packed

\* The beginning of a sequence.
LEMMA Beginning ==
    ASSUME NEW S, NEW s \in Seq(S), NEW j \in Nat, j <= Len(s)
    PROVE  SubSeq(s, 1, j) \in Seq(S) /\ Len(SubSeq(s, 1, j)) = j
<1>1. Len(s) \in Nat
  BY LenProperties
<1>2. \A i \in 1..j : s[i] \in S
  BY <1>1, ElementOfSeq
<1>3. /\ SubSeq(s, 1, j) \in Seq(S)
      /\ Len(SubSeq(s, 1, j)) = IF 1 <= j THEN j - 1 + 1 ELSE 0
  BY <1>2, SubSeqProperties
<1> QED
  BY <1>3

\* repack_input_buffer reads what fits.
LEMMA SendRepackKeeps ==
    ASSUME IndInv, SendRepack PROVE IndInv'
<1>1. stack' \in Seq(Frames) /\ ret' \in {"ok", "fail"}
      /\ Shape' /\ NotFull' /\ FailedEmpty'
  BY Stayed DEF SendRepack, control
<1>2. InputOK' /\ toClient' \in Seq(Line)
  <2> PICK n : n = Len(toClient)
    OBVIOUS
  <2> PICK p : p = Packed
    OBVIOUS
  <2> PICK m : m = Len(read_buffer)
    OBVIOUS
  <2>1. n \in Nat /\ m \in Nat /\ p \in Seq(Line) /\ Len(p) \in Nat
        /\ m <= Len(p) /\ Len(p) <= RBufMax /\ RBufMax \in Nat
        /\ toClient \in Seq(Line)
    BY LenProperties, PackedTyped, ConnectionAssumption DEF IndInv, TypeOK
  <2> PICK k : k = IF n < RBufMax - Len(p) THEN n ELSE RBufMax - Len(p)
    OBVIOUS
  <2>2. k \in Nat /\ k <= n /\ Len(p) + k <= RBufMax
    BY <2>1
  <2>3. /\ read_data' = p \o SubSeq(toClient, 1, k)
        /\ read_buffer' = SubSeq(read_data', 1, m + k)
        /\ toClient' = SubSeq(toClient, k + 1, n)
        /\ read_ptr' = 0
    BY DEF SendRepack
  <2>4. SubSeq(toClient, k + 1, n) \in Seq(Line)
    BY <2>1, <2>2, Piece
  <2> PICK t : t = SubSeq(toClient, 1, k)
    OBVIOUS
  <2>5. t \in Seq(Line) /\ Len(t) = k
    <3>1. \A i \in 1..k : toClient[i] \in Line
      BY <2>1, <2>2, ElementOfSeq
    <3>2. /\ t \in Seq(Line)
          /\ Len(t) = IF 1 <= k THEN k - 1 + 1 ELSE 0
      BY <2>2, <3>1, SubSeqProperties
    <3> QED
      BY <2>2, <3>2
  <2> PICK d : d = p \o t
    OBVIOUS
  <2>6. d \in Seq(Line) /\ Len(d) = Len(p) + k /\ read_data' = d
    BY <2>1, <2>3, <2>5, ConcatProperties
  <2> PICK j : j = m + k
    OBVIOUS
  <2>7. read_buffer' \in Seq(Line) /\ Len(read_buffer') = m + k
    <3>1. j \in Nat /\ j <= Len(d)
      BY <2>1, <2>2, <2>6
    <3>2. SubSeq(d, 1, j) \in Seq(Line) /\ Len(SubSeq(d, 1, j)) = j
      BY <2>6, <3>1, Beginning
    <3> QED
      BY <2>3, <2>6, <3>2
  <2>8. InputOK'
    BY <2>1, <2>2, <2>3, <2>6, <2>7 DEF InputOK
  <2> QED
    BY <2>3, <2>4, <2>8
<1> QED
  BY <1>1, <1>2 DEF IndInv, TypeOK, SendRepack, control, server

\* io_wait purges before it polls, or only the input has been moved.
LEMMA SendWaitKeeps ==
    ASSUME IndInv, SendWait PROVE IndInv'
<1>1. stack # <<>> /\ Top \in Frames
      /\ (Top.rc = "fail" => write_buffer = <<>>)
  BY TopFrame DEF SendWait, Blocked, At
<1>2. write_buffer' = write_buffer
  BY DEF SendWait
<1>3. stack' \in Seq(Frames) /\ ret' \in {"ok", "fail"} /\ purging' \in BOOLEAN
      /\ Shape' /\ NotFull' /\ FailedEmpty'
  <2>1. CASE NeedPurge /\ StartPurge([Top EXCEPT !.at = "wait"])
    <3> PICK f : f = [Top EXCEPT !.at = "wait"]
      OBVIOUS
    <3>1. f \in Frames /\ f.at = "wait" /\ f.rc = Top.rc
      BY <1>1 DEF Frames
    <3>2. StartPurge(f) /\ ~purging
      BY <2>1 DEF NeedPurge
    <3> QED
      BY <1>1, <1>2, <3>1, <3>2, Pushed
  <2>2. CASE UNCHANGED <<purging, stack, ret>>
    BY <1>2, <2>2, Stayed DEF IndInv, TypeOK
  <2> QED
    BY <2>1, <2>2 DEF SendWait
<1>4. InputOK'
  <2>1. read_data' = Packed /\ read_ptr' = 0 /\ read_buffer' = read_buffer
    BY DEF SendWait
  <2> QED
    BY <2>1, PackedTyped DEF IndInv, TypeOK, InputOK
<1> QED
  BY <1>3, <1>4 DEF IndInv, TypeOK, SendWait, net, server

\* The write loop after the purge of io_wait.
LEMMA SendWaitedKeeps ==
    ASSUME IndInv, SendWaited PROVE IndInv'
<1>1. stack # <<>> /\ Top \in Frames /\ Top.at = "wait"
      /\ (Top.rc = "fail" => write_buffer = <<>>)
  BY TopFrame DEF SendWaited, At
<1>2. CASE ret = "ok"
  <2> PICK f : f = [Top EXCEPT !.at = "send"]
    OBVIOUS
  <2>1. f \in Frames /\ f.at = "send" /\ f.rc = Top.rc
    BY <1>1 DEF Frames
  <2>2. Become(f) /\ ret' = ret /\ UNCHANGED <<client, net, peer, parsing, earlier>>
    BY <1>2 DEF SendWaited
  <2>3. write_buffer' = write_buffer /\ purging' = purging
    BY <2>2 DEF client
  <2>4. stack' \in Seq(Frames) /\ ret' \in {"ok", "fail"}
        /\ Shape' /\ NotFull' /\ FailedEmpty'
    BY <1>1, <2>1, <2>2, <2>3, Became
  <2> QED
    BY <2>2, <2>4 DEF IndInv, TypeOK, SendWaited, client, net, array, InputOK
<1>3. CASE ret # "ok"
  <2>1. CloseServer(failures, 1) /\ Hangup /\ Pop("fail") /\ purging' = purging
    BY <1>3 DEF SendWaited
  <2>2. failures \in 0..FailureCap /\ 1 \in Nat
    BY DEF IndInv, TypeOK
  <2>3. /\ fd' \in BOOLEAN /\ cursor_active' \in 0..(CursorMod - 1)
        /\ write_buffer' = <<>> /\ write_buffer' \in Seq(Chunk)
        /\ Len(write_buffer') <= WBufMax
        /\ InputOK'
        /\ failures' \in 0..FailureCap /\ io_bytes_sent' \in Nat
    BY <2>1, <2>2, ClosedTyped DEF IndInv
  <2>4. /\ toServer' \in Seq(Chunk) /\ toClient' \in Seq(Line)
        /\ peer' \in BOOLEAN /\ parsing' \in Ids \cup {Quit}
        /\ earlier' \subseteq Old
    BY <2>1, HangupTyped DEF IndInv
  <2>5. stack' \in Seq(Frames) /\ ret' \in {"ok", "fail"}
        /\ Shape' /\ NotFull' /\ FailedEmpty'
    BY <1>1, <2>1, <2>3, Popped
  <2> QED
    BY <2>1, <2>3, <2>4, <2>5 DEF IndInv, TypeOK, SendWaited
<1> QED
  BY <1>2, <1>3

-----------------------------------------------------------------------------
(* memcached_purge.                                                        *)

\* The purge's own io_flush is back.
LEMMA PurgeFlushedKeeps ==
    ASSUME IndInv, PurgeFlushed PROVE IndInv'
<1>1. stack # <<>> /\ Top.at = "purge" /\ Len(stack) = 2 /\ purging
      /\ write_buffer' = write_buffer
  BY TopFrame DEF PurgeFlushed, At
<1>2. purging' \in BOOLEAN /\ stack' \in Seq(Frames) /\ ret' \in {"ok", "fail"}
      /\ Shape' /\ NotFull' /\ FailedEmpty'
  <2>1. CASE ret = "fail" /\ Pop("fail") /\ purging' = TRUE
    BY <1>1, <2>1, Popped DEF IndInv, FailedEmpty
  <2>2. CASE ret = "ok" /\ Pop("ok") /\ purging' = FALSE
    BY <1>1, <2>2, Popped
  <2>3. CASE /\ ret = "ok"
             /\ Become([Frame("drain") EXCEPT !.n = Decrement(cursor_active)])
             /\ UNCHANGED <<ret, purging>>
    <3>1. Frame("drain") \in Frames /\ Frame("drain").rc = "ok"
          /\ Frame("drain").at = "drain"
      BY FrameTyped
    <3> PICK n : n = Decrement(cursor_active)
      OBVIOUS
    <3>2. n \in 0..(CursorMod - 1)
      BY CursorInRange DEF IndInv, TypeOK
    <3> PICK f : f = [Frame("drain") EXCEPT !.n = n]
      OBVIOUS
    <3>3. f \in Frames /\ f.at = "drain" /\ f.rc = "ok"
      BY <3>1, <3>2 DEF Frames
    <3> QED
      BY <1>1, <2>3, <3>3, Became DEF IndInv, TypeOK
  <2> QED
    BY <2>1, <2>2, <2>3 DEF PurgeFlushed
<1> QED
  BY <1>2 DEF IndInv, TypeOK, PurgeFlushed, net, server, array, InputOK

\* One response of the purge.
LEMMA PurgeReadKeeps ==
    ASSUME IndInv, NEW o \in Responses, PurgeRead(o) PROVE IndInv'
<1> DEFINE fatal == o.rc \in {"PROTOCOL_ERROR", "UNKNOWN_READ_FAILURE"}
<1>1. stack # <<>> /\ Top.at = "drain" /\ Top \in Frames /\ Top.n > 0
      /\ (Top.rc = "fail" => write_buffer = <<>>)
      /\ purging' = purging /\ ret' = ret
  BY TopFrame DEF PurgeRead, At
<1> PICK k \in 0..1 : k = IF fatal THEN 1 ELSE 0
  OBVIOUS
<1>2. AfterResponse(o, k)
  BY DEF PurgeRead
<1>3. /\ fd' \in BOOLEAN /\ cursor_active' \in 0..(CursorMod - 1)
      /\ write_buffer' \in {write_buffer, <<>>}
      /\ write_buffer' \in Seq(Chunk) /\ Len(write_buffer') <= WBufMax
      /\ InputOK'
      /\ failures' \in 0..FailureCap /\ io_bytes_sent' \in Nat
      /\ toServer' \in Seq(Chunk) /\ toClient' \in Seq(Line)
      /\ peer' \in BOOLEAN /\ parsing' \in Ids \cup {Quit}
      /\ earlier' \subseteq Old
      /\ fatal => write_buffer' = <<>>
  BY <1>2, AfterTyped DEF IndInv
<1> PICK r : r = IF fatal THEN "fail" ELSE Top.rc
  OBVIOUS
<1> PICK f : f = [Top EXCEPT !.n = @ - 1, !.rc = r]
  OBVIOUS
<1>4. f \in Frames /\ f.at = "drain" /\ f.rc = r
  <2>1. r \in {"ok", "fail"}
    BY <1>1 DEF Frames
  <2>2. Top.n - 1 \in 0..(CursorMod - 1)
    BY <1>1, ConnectionAssumption, SMTT(40) DEF Frames
  <2> QED
    BY <1>1, <2>1, <2>2 DEF Frames
<1>5. Become(f)
  BY DEF PurgeRead
<1>6. r = "fail" => write_buffer' = <<>>
  BY <1>1, <1>3
<1>7. stack' \in Seq(Frames) /\ ret' \in {"ok", "fail"}
      /\ Shape' /\ NotFull' /\ FailedEmpty'
  BY <1>1, <1>3, <1>4, <1>5, <1>6, Became
<1> QED
  BY <1>1, <1>3, <1>7 DEF IndInv, TypeOK, PurgeRead

\* The end of memcached_purge.
LEMMA PurgeDoneKeeps ==
    ASSUME IndInv, PurgeDone PROVE IndInv'
<1>1. stack # <<>> /\ Top.at = "drain" /\ Top \in Frames /\ Len(stack) = 2
      /\ (Top.rc = "fail" => write_buffer = <<>>)
      /\ write_buffer' = write_buffer
  BY TopFrame DEF PurgeDone, At
<1> PICK r \in {"ok", "fail"} : r = Top.rc
  BY <1>1 DEF Frames
<1>2. Pop(r) /\ purging' = FALSE
  BY DEF PurgeDone
<1>3. stack' \in Seq(Frames) /\ ret' \in {"ok", "fail"}
      /\ Shape' /\ NotFull' /\ FailedEmpty'
  BY <1>1, <1>2, Popped
<1> QED
  BY <1>2, <1>3 DEF IndInv, TypeOK, PurgeDone, net, server, array, InputOK

-----------------------------------------------------------------------------
(* The calls.                                                              *)

\* A call begins.
LEMMA BeginKeeps ==
    ASSUME IndInv, NEW kind \in {"set", "sync", "flush"}, Begin(kind)
    PROVE  IndInv'
<1> PICK id : id = IF kind = "flush" THEN Quit ELSE nextId
  OBVIOUS
<1>1. /\ nextId' \in 1..(MaxOps + 1)
      /\ kind = "flush" \/ nextId \in Ids
  <2>1. nextId \in 1..(MaxOps + 1) /\ MaxOps \in Nat
    BY ConnectionAssumption DEF IndInv, TypeOK
  <2>2. \/ kind = "flush" /\ nextId' = nextId
        \/ nextId <= MaxOps /\ nextId' = nextId + 1
    BY DEF Begin
  <2> QED
    BY <2>1, <2>2 DEF Ids
<1>2. id \in Ids \cup {Quit} /\ (kind # "flush" => id \in Ids)
  BY <1>1
<1>3. /\ write_buffer' = write_buffer /\ stack' = stack /\ purging' = purging
      /\ ret' \in {"ok", ret}
  BY DEF Begin
<1>4. stack' \in Seq(Frames) /\ ret' \in {"ok", "fail"}
      /\ Shape' /\ NotFull' /\ FailedEmpty'
  BY <1>3, Stayed
<1>5. /\ fd' \in BOOLEAN /\ peer' \in BOOLEAN /\ failures' \in 0..FailureCap
      /\ pc' \in {"idle", "write", "answer", "quit"} /\ op' \in Calls
  <2>1. CASE /\ Connected
             /\ pc' = "write"
             /\ op' = [kind |-> kind, id |-> id,
                       todo |-> IF kind = "flush" THEN <<>> ELSE Chunks(id),
                       flush |-> kind # "set"]
    <3> PICK t : t = IF kind = "flush" THEN <<>> ELSE Chunks(id)
      OBVIOUS
    <3>1. t \in Seq(Chunk)
      BY <1>2, ChunksTyped, EmptySeq
    <3>2. op' \in Calls
      BY <1>2, <2>1, <3>1 DEF Calls
    <3>3. fd' \in BOOLEAN /\ peer' \in BOOLEAN /\ failures' \in 0..FailureCap
      <4>1. 0 \in 0..FailureCap
        BY ConnectionAssumption
      <4>2. fd \in BOOLEAN /\ peer \in BOOLEAN /\ failures \in 0..FailureCap
        BY DEF IndInv, TypeOK
      <4> QED
        BY <2>1, <4>1, <4>2, Zenon DEF Connected
    <3> QED
      BY <2>1, <3>2, <3>3
  <2>2. CASE ConnectFails /\ UNCHANGED <<fd, peer, pc, op>>
    <3>1. failures' \in 0..FailureCap
      BY <2>2, StrikesInRange DEF ConnectFails, IndInv, TypeOK
    <3> QED
      BY <2>2, <3>1 DEF IndInv, TypeOK
  <2> QED
    BY <2>1, <2>2, Zenon DEF Begin
<1> QED
  BY <1>1, <1>3, <1>4, <1>5 DEF IndInv, TypeOK, Begin, net, array, InputOK

\* memcached_quit begins.
LEMMA BeginQuitKeeps ==
    ASSUME IndInv, BeginQuit PROVE IndInv'
<1>1. CASE fd
  <2>1. /\ pc' = "write" /\ ret' = ret /\ stack' = stack
        /\ op' = [kind |-> "quit", id |-> Quit, todo |-> <<QuitChunk>>,
                  flush |-> TRUE]
        /\ UNCHANGED <<client, net, peer, parsing, earlier>>
    BY <1>1 DEF BeginQuit
  <2>2. write_buffer' = write_buffer /\ purging' = purging
    BY <2>1 DEF client
  <2>3. op' \in Calls
    BY <2>1, ChunksTyped DEF Calls
  <2>4. stack' \in Seq(Frames) /\ ret' \in {"ok", "fail"}
        /\ Shape' /\ NotFull' /\ FailedEmpty'
    BY <2>1, <2>2, Stayed
  <2> QED
    BY <2>1, <2>3, <2>4 DEF IndInv, TypeOK, BeginQuit, client, net, array, InputOK
<1>2. CASE ~fd
  <2>1. /\ CloseServer(failures, 0) /\ Hangup /\ stack' = stack /\ ret' = ret
        /\ UNCHANGED <<purging, pc, op, nextId, executed, closes>>
    BY <1>2 DEF BeginQuit
  <2>2. failures \in 0..FailureCap /\ 0 \in Nat
    BY DEF IndInv, TypeOK
  <2>3. /\ fd' \in BOOLEAN /\ cursor_active' \in 0..(CursorMod - 1)
        /\ write_buffer' = <<>> /\ write_buffer' \in Seq(Chunk)
        /\ Len(write_buffer') <= WBufMax
        /\ InputOK'
        /\ failures' \in 0..FailureCap /\ io_bytes_sent' \in Nat
    BY <2>1, <2>2, ClosedTyped DEF IndInv
  <2>4. /\ toServer' \in Seq(Chunk) /\ toClient' \in Seq(Line)
        /\ peer' \in BOOLEAN /\ parsing' \in Ids \cup {Quit}
        /\ earlier' \subseteq Old
    BY <2>1, HangupTyped DEF IndInv
  <2>5. stack' \in Seq(Frames) /\ ret' \in {"ok", "fail"}
        /\ Shape' /\ NotFull' /\ FailedEmpty'
    BY <2>1, <2>3, Stayed
  <2> QED
    BY <2>1, <2>3, <2>4, <2>5 DEF IndInv, TypeOK
<1> QED
  BY <1>1, <1>2

\* _io_write copies a chunk and flushes a full buffer.
LEMMA WriteChunkKeeps ==
    ASSUME IndInv, WriteChunk PROVE IndInv'
<1>1. /\ stack = <<>> /\ ret = "ok" /\ op.todo # <<>> /\ ret' = "ok"
      /\ op \in Calls /\ write_buffer \in Seq(Chunk)
      /\ Len(write_buffer) < WBufMax /\ WBufMax \in Nat
      /\ Len(write_buffer) \in Nat
  BY LenProperties, ConnectionAssumption
  DEF WriteChunk, Writing, IndInv, TypeOK, NotFull
<1>2. op.todo \in Seq(Chunk) /\ Head(op.todo) \in Chunk
      /\ Tail(op.todo) \in Seq(Chunk)
  BY <1>1, HeadTailProperties DEF Calls
<1>3. op' \in Calls
  BY <1>1, <1>2 DEF WriteChunk, Calls
<1>4. write_buffer' \in Seq(Chunk) /\ Len(write_buffer') = Len(write_buffer) + 1
  <2> PICK c \in Chunk : c = Head(op.todo)
    BY <1>2
  <2>1. write_buffer' = Append(write_buffer, c)
    BY DEF WriteChunk
  <2> QED
    BY <1>1, <2>1, AppendProperties
<1>5. Len(write_buffer') <= WBufMax
  BY <1>1, <1>4
<1>6. stack' \in Seq(Frames) /\ ret' \in {"ok", "fail"}
      /\ Shape' /\ NotFull' /\ FailedEmpty'
  <2>1. CASE stack' = <<Frame("flush")>>
    BY <1>1, <2>1, Called
  <2>2. CASE stack' = <<>> /\ Len(write_buffer) + 1 # WBufMax
    <3>1. Len(write_buffer') < WBufMax
      BY <1>1, <1>4, <2>2
    <3> QED
      BY <1>1, <2>2, <3>1, Returned
  <2> QED
    BY <2>1, <2>2 DEF WriteChunk
<1> QED
  BY <1>3, <1>4, <1>5, <1>6 DEF IndInv, TypeOK, WriteChunk, net, server, array, InputOK

\* The call's own flush.
LEMMA WriteFlushKeeps ==
    ASSUME IndInv, WriteFlush PROVE IndInv'
<1>1. op' \in Calls
  BY DEF WriteFlush, IndInv, TypeOK, Calls
<1>2. ret' = "ok" /\ stack' = <<Frame("flush")>>
  BY DEF WriteFlush
<1>3. stack' \in Seq(Frames) /\ ret' \in {"ok", "fail"}
      /\ Shape' /\ NotFull' /\ FailedEmpty'
  BY <1>2, Called
<1> QED
  BY <1>1, <1>3 DEF IndInv, TypeOK, WriteFlush, client, net, server, array, InputOK

\* The end of memcached_vdo.
LEMMA WriteDoneKeeps ==
    ASSUME IndInv, WriteDone PROVE IndInv'
<1>1. /\ stack = <<>> /\ ret = "ok" /\ write_buffer' = write_buffer
      /\ Len(write_buffer) < WBufMax /\ purging' = purging
  BY DEF WriteDone, Writing, IndInv, NotFull
<1>2. cursor_active' \in 0..(CursorMod - 1)
  BY CursorInRange DEF WriteDone, IndInv, TypeOK
<1>3. /\ stack' \in Seq(Frames) /\ ret' \in {"ok", "fail"}
      /\ Shape' /\ NotFull' /\ FailedEmpty'
      /\ pc' \in {"idle", "write", "answer", "quit"} /\ op' \in Calls
  <2>1. CASE stack' = <<>> /\ ret' = "ok" /\ pc' = "idle" /\ op' = NoOp
    BY <1>1, <2>1, Returned, ChunksTyped
  <2>2. CASE pc' = "answer" /\ stack' = <<Frame("flush")>>
             /\ UNCHANGED <<op, ret>>
    BY <1>1, <2>2, Called DEF IndInv, TypeOK
  <2>3. CASE pc' = "quit" /\ UNCHANGED <<op, stack, ret>>
    BY <1>1, <2>3, Stayed DEF IndInv, TypeOK
  <2> QED
    BY <2>1, <2>2, <2>3 DEF WriteDone, Idle
<1> QED
  BY <1>2, <1>3 DEF IndInv, TypeOK, WriteDone, net, server, array, InputOK

\* A call whose write failed.
LEMMA WriteFailedKeeps ==
    ASSUME IndInv, WriteFailed PROVE IndInv'
<1>1. /\ stack = <<>> /\ Len(write_buffer) < WBufMax
  BY DEF WriteFailed, Writing, IndInv, NotFull
<1>2. CASE CloseServer(failures, 1) /\ Hangup /\ Idle("ERROR", ERROR)
           /\ purging' = purging
  <2>1. failures \in 0..FailureCap /\ 1 \in Nat /\ 0 < WBufMax
    BY ConnectionAssumption DEF IndInv, TypeOK
  <2>2. /\ fd' \in BOOLEAN /\ cursor_active' \in 0..(CursorMod - 1)
        /\ write_buffer' = <<>> /\ write_buffer' \in Seq(Chunk)
        /\ Len(write_buffer') <= WBufMax
        /\ InputOK'
        /\ failures' \in 0..FailureCap /\ io_bytes_sent' \in Nat
    BY <1>2, <2>1, ClosedTyped DEF IndInv
  <2>3. /\ toServer' \in Seq(Chunk) /\ toClient' \in Seq(Line)
        /\ peer' \in BOOLEAN /\ parsing' \in Ids \cup {Quit}
        /\ earlier' \subseteq Old
    BY <1>2, HangupTyped DEF IndInv
  <2>4. Len(write_buffer') < WBufMax
    BY <2>1, <2>2, EmptySeq
  <2>5. stack' \in Seq(Frames) /\ ret' \in {"ok", "fail"}
        /\ Shape' /\ NotFull' /\ FailedEmpty'
    BY <1>2, <2>4, Returned DEF Idle
  <2> QED
    BY <1>2, <2>2, <2>3, <2>5, ChunksTyped
    DEF IndInv, TypeOK, WriteFailed, Idle
<1>3. CASE Idle("ERROR", ERROR) /\ UNCHANGED <<client, net, peer, parsing, earlier>>
  <2>1. write_buffer' = write_buffer
    BY <1>3 DEF client
  <2>2. stack' \in Seq(Frames) /\ ret' \in {"ok", "fail"}
        /\ Shape' /\ NotFull' /\ FailedEmpty'
    BY <1>1, <1>3, <2>1, Returned DEF Idle
  <2> QED
    BY <1>3, <2>2, ChunksTyped
    DEF IndInv, TypeOK, InputOK, WriteFailed, Idle, client, net
<1>4. CASE /\ pc' = "quit" /\ ret' = "ok"
           /\ UNCHANGED <<op, stack, last, client, net, peer, parsing, earlier>>
  <2>1. write_buffer' = write_buffer /\ purging' = purging
    BY <1>4 DEF client
  <2>2. stack' \in Seq(Frames) /\ ret' \in {"ok", "fail"}
        /\ Shape' /\ NotFull' /\ FailedEmpty'
    BY <1>4, <2>1, Stayed
  <2> QED
    BY <1>4, <2>2 DEF IndInv, TypeOK, WriteFailed, client, net, array, InputOK
<1> QED
  BY <1>2, <1>3, <1>4 DEF WriteFailed

\* memcached_response reads an older response.
LEMMA AnswerOldKeeps ==
    ASSUME IndInv, NEW o \in Responses, AnswerOld(o) PROVE IndInv'
<1>1. AfterResponse(o, 0) /\ ret' = "ok" /\ stack' = stack /\ purging' = purging
  BY DEF AnswerOld
<1>2. 0 \in 0..1
  OBVIOUS
<1>3. /\ fd' \in BOOLEAN /\ cursor_active' \in 0..(CursorMod - 1)
      /\ write_buffer' \in {write_buffer, <<>>}
      /\ write_buffer' \in Seq(Chunk) /\ Len(write_buffer') <= WBufMax
      /\ InputOK'
      /\ failures' \in 0..FailureCap /\ io_bytes_sent' \in Nat
      /\ toServer' \in Seq(Chunk) /\ toClient' \in Seq(Line)
      /\ peer' \in BOOLEAN /\ parsing' \in Ids \cup {Quit}
      /\ earlier' \subseteq Old
  BY <1>1, <1>2, AfterTyped DEF IndInv
<1>4. stack' \in Seq(Frames) /\ ret' \in {"ok", "fail"}
      /\ Shape' /\ NotFull' /\ FailedEmpty'
  BY <1>1, <1>3, Stayed
<1>5. pc' \in {"idle", "write", "answer", "quit"} /\ op' \in Calls
  BY ChunksTyped DEF AnswerOld, IndInv, TypeOK
<1> QED
  BY <1>1, <1>3, <1>4, <1>5 DEF IndInv, TypeOK, AnswerOld

\* memcached_response reads the answer.
LEMMA AnswerKeeps ==
    ASSUME IndInv, NEW o \in Responses, Answer(o) PROVE IndInv'
<1>1. /\ AfterResponse(o, 0) /\ ret' = "ok" /\ stack = <<>> /\ stack' = <<>>
      /\ purging' = purging
  BY DEF Answer, Answering, Idle
<1>2. 0 \in 0..1
  OBVIOUS
<1>3. /\ fd' \in BOOLEAN /\ cursor_active' \in 0..(CursorMod - 1)
      /\ write_buffer' \in {write_buffer, <<>>}
      /\ write_buffer' \in Seq(Chunk) /\ Len(write_buffer') <= WBufMax
      /\ InputOK'
      /\ failures' \in 0..FailureCap /\ io_bytes_sent' \in Nat
      /\ toServer' \in Seq(Chunk) /\ toClient' \in Seq(Line)
      /\ peer' \in BOOLEAN /\ parsing' \in Ids \cup {Quit}
      /\ earlier' \subseteq Old
  BY <1>1, <1>2, AfterTyped DEF IndInv
<1>4. stack' \in Seq(Frames) /\ ret' \in {"ok", "fail"}
      /\ Shape' /\ NotFull' /\ FailedEmpty'
  BY <1>1, <1>3, Stayed
<1>5. pc' = "idle" /\ op' \in Calls
  BY ChunksTyped DEF Answer, Idle
<1> QED
  BY <1>1, <1>3, <1>4, <1>5 DEF IndInv, TypeOK, Answer

\* memcached_quit reads to the end and closes.
LEMMA QuitDrainKeeps ==
    ASSUME IndInv, QuitDrain PROVE IndInv'
<1>1. stack' \in Seq(Frames) /\ ret' \in {"ok", "fail"}
      /\ Shape' /\ NotFull' /\ FailedEmpty'
  BY Stayed DEF QuitDrain, control
<1>2. /\ toClient \in Seq(Line) /\ Len(toClient) \in Nat
      /\ RBufMax \in Nat \ {0}
      /\ read_buffer \in Seq(Line) /\ Len(read_buffer) \in Nat
      /\ read_data \in Seq(Line) /\ Len(read_data) \in Nat
      /\ read_ptr \in Nat /\ read_ptr + Len(read_buffer) <= Len(read_data)
      /\ Len(read_data) <= RBufMax
  BY LenProperties, ConnectionAssumption DEF IndInv, TypeOK, InputOK
<1>3. read_buffer' = <<>> /\ toClient' = <<>>
  BY DEF QuitDrain
<1>4. /\ read_buffer' \in Seq(Line) /\ Len(read_buffer') = 0
      /\ toClient' \in Seq(Line)
  BY <1>3, EmptySeq
<1>5. InputOK'
  <2>1. CASE toClient = <<>>
    <3>1. read_ptr' = read_ptr + Len(read_buffer) /\ read_data' = read_data
      BY <2>1 DEF QuitDrain
    <3> QED
      BY <1>2, <1>4, <3>1 DEF InputOK
  <2>2. CASE toClient # <<>>
    <3> PICK n : n = Len(toClient)
      OBVIOUS
    <3>1. n \in Nat
      BY <1>2
    <3>2. PICK k \in 1..RBufMax :
             /\ k <= n
             /\ read_data' = SubSeq(toClient, n - k + 1, n)
             /\ read_ptr' = k
      BY <2>2 DEF QuitDrain
    <3>3. k \in Nat \ {0} /\ k <= RBufMax /\ k <= n
      BY <1>2, <3>2
    <3>5. read_data' \in Seq(Line) /\ Len(read_data') = k
      <4> PICK h : h = n - k + 1
        OBVIOUS
      <4>1. h \in Nat \ {0} /\ h <= n /\ n - h + 1 = k
        BY <3>1, <3>3
      <4>2. \A i \in h..n : toClient[i] \in Line
        BY <1>2, <4>1, ElementOfSeq
      <4>3. /\ SubSeq(toClient, h, n) \in Seq(Line)
            /\ Len(SubSeq(toClient, h, n)) = IF h <= n THEN n - h + 1 ELSE 0
        BY <3>1, <4>1, <4>2, SubSeqProperties
      <4> QED
        BY <3>2, <4>1, <4>3
    <3> QED
      BY <1>4, <3>2, <3>3, <3>5 DEF InputOK
  <2> QED
    BY <2>1, <2>2
<1>6. failures' \in 0..FailureCap /\ io_bytes_sent' \in Nat
  BY ConnectionAssumption DEF QuitDrain, IndInv, TypeOK
<1> QED
  BY <1>1, <1>4, <1>5, <1>6 DEF IndInv, TypeOK, QuitDrain, control, server

\* memcached_quit closes the connection.
LEMMA QuitCloseKeeps ==
    ASSUME IndInv, QuitClose PROVE IndInv'
<1>1. CloseServer(0, 0) /\ Hangup /\ stack' = <<>> /\ ret' = "ok"
      /\ pc' = "idle" /\ op' = NoOp
  BY DEF QuitClose, Idle
<1>2. 0 \in 0..FailureCap /\ 0 \in Nat /\ 0 < WBufMax
  BY ConnectionAssumption
<1>3. /\ fd' \in BOOLEAN /\ cursor_active' \in 0..(CursorMod - 1)
      /\ write_buffer' = <<>> /\ write_buffer' \in Seq(Chunk)
      /\ Len(write_buffer') <= WBufMax
      /\ InputOK'
      /\ failures' \in 0..FailureCap /\ io_bytes_sent' \in Nat
  BY <1>1, <1>2, ClosedTyped DEF IndInv
<1>4. /\ toServer' \in Seq(Chunk) /\ toClient' \in Seq(Line)
      /\ peer' \in BOOLEAN /\ parsing' \in Ids \cup {Quit}
      /\ earlier' \subseteq Old
  BY <1>1, HangupTyped DEF IndInv
<1>5. Len(write_buffer') < WBufMax
  BY <1>2, <1>3, EmptySeq
<1>6. stack' \in Seq(Frames) /\ ret' \in {"ok", "fail"}
      /\ Shape' /\ NotFull' /\ FailedEmpty'
  BY <1>1, <1>5, Returned
<1> QED
  BY <1>1, <1>3, <1>4, <1>6, ChunksTyped DEF IndInv, TypeOK, QuitClose

-----------------------------------------------------------------------------
(* The server's end, and the theorems.                                     *)

\* What a step of the server leaves alone.
LEMMA ClientKept ==
    ASSUME IndInv, UNCHANGED <<client, control>>
    PROVE  Shape' /\ NotFull' /\ FailedEmpty'
BY Stayed DEF client, control

\* The server reads a chunk.
LEMMA ServeKeeps ==
    ASSUME IndInv, Serve PROVE IndInv'
<1> PICK c : c = Head(toServer)
  OBVIOUS
<1>1. /\ toServer \in Seq(Chunk) /\ toServer # <<>> /\ toClient \in Seq(Line)
      /\ parsing \in Ids \cup {Quit} /\ executed \in Seq(Ids)
      /\ peer \in BOOLEAN
  BY DEF Serve, IndInv, TypeOK
<1>2. c \in Chunk /\ toServer' \in Seq(Chunk)
  BY <1>1, HeadTailProperties DEF Serve
<1>3. c.id \in Ids \cup {Quit}
  BY <1>2 DEF Chunk
<1>4. ASSUME parsing # Quit
      PROVE  /\ parsing \in Ids /\ parsing \in Line /\ Refused(parsing) \in Line
  BY <1>1, <1>4 DEF Line
<1>5. ERROR \in Line
  BY DEF Line
<1>6. toClient' \in Seq(Line)
  <2>1. \/ toClient' = toClient
        \/ parsing # Quit /\ toClient' = Append(toClient, parsing)
        \/ parsing # Quit /\ toClient' = Append(toClient, Refused(parsing))
        \/ toClient' = Append(toClient, ERROR)
    BY Zenon DEF Serve
  <2>2. \A l \in Line : Append(toClient, l) \in Seq(Line)
    BY <1>1, AppendProperties
  <2> QED
    BY <1>1, <1>4, <1>5, <2>1, <2>2, Zenon
<1>7. executed' \in Seq(Ids)
  <2>1. \/ executed' = executed
        \/ parsing # Quit /\ executed' = Append(executed, parsing)
    BY Zenon DEF Serve
  <2>2. \A i \in Ids : Append(executed, i) \in Seq(Ids)
    BY <1>1, AppendProperties
  <2> QED
    BY <1>1, <1>4, <2>1, <2>2, Zenon
<1>8. parsing' \in Ids \cup {Quit} /\ peer' \in BOOLEAN
  BY <1>1, <1>3 DEF Serve
<1>9. Shape' /\ NotFull' /\ FailedEmpty'
  BY ClientKept DEF Serve
<1> QED
  BY <1>2, <1>6, <1>7, <1>8, <1>9
  DEF IndInv, TypeOK, InputOK, Serve, client, control

\* The server hangs up.
LEMMA ServerCloseKeeps ==
    ASSUME IndInv, ServerClose PROVE IndInv'
<1>1. Shape' /\ NotFull' /\ FailedEmpty'
  BY ClientKept DEF ServerClose
<1>2. closes' \in 0..MaxCloses
  <2>1. closes \in 0..MaxCloses /\ MaxCloses \in Nat
    BY ConnectionAssumption DEF IndInv, TypeOK
  <2>2. closes < MaxCloses /\ closes' = closes + 1
    BY DEF ServerClose
  <2> QED
    BY <2>1, <2>2
<1>3. /\ toServer' \in Seq(Chunk)
      /\ parsing' \in Ids \cup {Quit} /\ peer' \in BOOLEAN
      /\ earlier' \subseteq Old
  BY LeaveTyped DEF ServerClose, IndInv
<1>4. toClient' \in Seq(Line)
  BY EmptySeq DEF ServerClose, IndInv, TypeOK
<1> QED
  BY <1>1, <1>2, <1>3, <1>4
  DEF IndInv, TypeOK, InputOK, ServerClose, client, control

\* The server goes on with a connection given up, or loses it.
LEMMA OldKeeps ==
    ASSUME IndInv, NEW c \in earlier, ServeOld(c) \/ LoseOld(c)
    PROVE  IndInv'
<1>1. c \in Old /\ earlier \subseteq Old
  BY DEF IndInv, TypeOK
<1>2. earlier' \subseteq Old
  <2>1. CASE ServeOld(c)
    <3> DEFINE left(id, done) ==
                 [toServer |-> Tail(c.toServer), parsing |-> id,
                  before |-> c.before, executed |-> done]
    <3>1. /\ c.toServer \in Seq(Chunk) /\ c.toServer # <<>>
          /\ c.parsing \in Ids \cup {Quit} /\ c.before \in Nat
          /\ c.executed \in Seq(Ids)
      BY <1>1, <2>1 DEF Old, ServeOld
    <3>2. Tail(c.toServer) \in Seq(Chunk) /\ Head(c.toServer).id \in Ids \cup {Quit}
      <4>1. Tail(c.toServer) \in Seq(Chunk) /\ Head(c.toServer) \in Chunk
        BY <3>1, HeadTailProperties
      <4> QED
        BY <4>1 DEF Chunk
    <3>3. ASSUME NEW id \in Ids \cup {Quit}, NEW done \in Seq(Ids)
          PROVE  left(id, done) \in Old
      BY <3>1, <3>2 DEF Old
    <3>4. c.parsing # Quit => Append(c.executed, c.parsing) \in Seq(Ids)
      BY <3>1, AppendProperties
    <3>5. Quit \in Ids \cup {Quit}
      OBVIOUS
    <3>6. \E d \in Old : earlier' = (earlier \ {c}) \cup Kept(d)
      BY <2>1, <3>1, <3>2, <3>3, <3>4, <3>5, Zenon DEF ServeOld
    <3> QED
      BY <1>1, <3>6, KeptTyped, Zenon
  <2>2. CASE LoseOld(c)
    BY <1>1, <2>2, KeptTyped, Zenon DEF LoseOld
  <2> QED
    BY <2>1, <2>2
<1>3. UNCHANGED <<client, control, net, peer, parsing, executed, closes>>
  BY Zenon DEF ServeOld, LoseOld
<1>4. Shape' /\ NotFull' /\ FailedEmpty'
  BY <1>3, ClientKept
<1> QED
  BY <1>2, <1>3, <1>4 DEF IndInv, TypeOK, InputOK, client, control, net

\* A connection that was never opened.
LEMMA InitIndInv == Init => IndInv
<1> SUFFICES ASSUME Init PROVE IndInv
  OBVIOUS
<1>1. /\ <<>> \in Seq(Chunk) /\ <<>> \in Seq(Line) /\ <<>> \in Seq(Ids)
      /\ <<>> \in Seq(Frames) /\ Len(<<>>) = 0
  BY EmptySeq
<1>2. /\ 0 \in 0..(CursorMod - 1) /\ 0 < WBufMax /\ 0 <= RBufMax
      /\ 0 \in 0..FailureCap /\ 0 \in 0..MaxCloses /\ 1 \in 1..(MaxOps + 1)
      /\ 0 <= WBufMax /\ 0 \in Nat
  BY ConnectionAssumption
<1>3. InputOK
  BY <1>1, <1>2 DEF Init, InputOK
<1>5. TypeOK
  BY <1>1, <1>2, <1>3, ChunksTyped, Zenon DEF Init, TypeOK
<1>4. Shape /\ NotFull /\ FailedEmpty
  BY <1>1, <1>2 DEF Init, Shape, NotFull, FailedEmpty
<1> QED
  BY <1>4, <1>5 DEF IndInv

\* Every step keeps the invariant.
LEMMA NextIndInv == IndInv /\ [Next]_vars => IndInv'
<1> SUFFICES ASSUME IndInv, [Next]_vars PROVE IndInv'
  OBVIOUS
<1>1. CASE UNCHANGED vars
  <2>1. Shape' /\ NotFull' /\ FailedEmpty'
    BY <1>1, ClientKept DEF vars
  <2> QED
    BY <1>1, <2>1
    DEF IndInv, TypeOK, InputOK, vars, client, control, net, server
<1>2. CASE Next
  BY <1>2, BeginKeeps, BeginQuitKeeps, FlushEnterKeeps, FlushPurgedKeeps,
     SendKeeps, SendErrorKeeps, SendRepackKeeps, SendWaitKeeps,
     SendWaitedKeeps, PurgeFlushedKeeps, PurgeReadKeeps, PurgeDoneKeeps,
     WriteChunkKeeps, WriteFlushKeeps, WriteDoneKeeps, WriteFailedKeeps,
     AnswerOldKeeps, AnswerKeeps, QuitDrainKeeps, QuitCloseKeeps, ServeKeeps,
     ServerCloseKeeps, OldKeeps, Zenon DEF Next, ClientStep
<1> QED
  BY <1>1, <1>2

\* The invariant of every reachable state.
THEOREM Invariant == Spec => []IndInv
BY InitIndInv, NextIndInv, PTL DEF Spec

\* Both buffers stay within MEMCACHED_MAX_BUFFER, whatever is written, read
\* back, purged or lost: _io_write never copies past write_buffer and
\* repack_input_buffer never reads past read_buffer.
THEOREM Types == Spec => []TypeOK
<1>1. IndInv => TypeOK
  BY DEF IndInv
<1> QED
  BY <1>1, Invariant, PTL

\* memcached_purge is never on the stack twice: the flag memcached_is_purging
\* stops io_flush and io_wait from starting it again.
THEOREM PurgeOnce == Spec => []RecursionStops
<1>1. IndInv => RecursionStops
  <2> SUFFICES ASSUME IndInv PROVE RecursionStops
    OBVIOUS
  <2>1. stack \in Seq(Frames)
    BY DEF IndInv, TypeOK
  <2>2. \A i \in DOMAIN stack : i \in 1..Len(stack)
    BY <2>1
  <2> QED
    BY <2>1, <2>2 DEF IndInv, Shape, RecursionStops
<1> QED
  BY <1>1, Invariant, PTL
=============================================================================
