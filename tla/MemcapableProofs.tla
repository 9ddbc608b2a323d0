-------------------------- MODULE MemcapableProofs --------------------------
(***************************************************************************)
(* Proofs about the example server under memcapable, for any set of peers, *)
(* any probes and any sizes of chunk, socket buffer and counter.           *)
(*                                                                         *)
(* The first part is about the store (example/storage.c): its list never   *)
(* holds a key twice, because every callback that calls put_item deletes   *)
(* the key first or has found it absent.  Finding a key absent is reading  *)
(* NoItem back from get_item, which is right only because every number of  *)
(* the list is one that update_cas gave out, and none of those is 0.       *)
(*                                                                         *)
(* The second part is about the input that client_work saves for its next  *)
(* call: it is what was received and no command consumed, except where the *)
(* code saves from another place (flaws.endptr, flaws.shifted).            *)
(***************************************************************************)
EXTENDS Memcapable, SequenceTheorems, WellFoundedInduction, TLAPS

(***************************************************************************)
(* The store.                                                              *)
(***************************************************************************)
Listed(list) == \E S : list \in Seq(S)

Apart(list) ==
    \A i, j \in 1..Len(list) :
        i # j => list[i].key # list[j].key /\ list[i].cas # list[j].cas

GivenOut(list, n) == \A i \in 1..Len(list) : list[i].cas \in 1..n

\* The invariant of the store: what OneEntryPerKey says, and the shape the
\* operators of Storage need.
Sound(s) ==
    /\ s = [list |-> s.list, cas |-> s.cas]
    /\ s.cas \in Nat
    /\ Listed(s.list)
    /\ Apart(s.list)
    /\ GivenOut(s.list, s.cas)

Absent(s, key) == \A i \in 1..Len(s.list) : s.list[i].key # key

\* A nonempty set of positions has a first one.
LEMMA First ==
    ASSUME NEW S \in SUBSET Nat, S # {}
    PROVE  \E i \in S : \A j \in S : i <= j
<1>1. PICK i \in S : \A j \in S : ~ (<<j, i>> \in OpToRel(<, Nat))
    BY WFMin, NatLessThanWellFounded
<1>2. \A j \in S : ~ (j < i)
    BY <1>1, Zenon DEF OpToRel
<1>3. \A j \in S : i <= j
    BY <1>2
<1> QED  BY <1>3

\* The store starts empty.
LEMMA EmptySound == Sound(EmptyStore)
<1>1. Listed(<<>>)
    BY EmptySeq DEF Listed
<1>2. Len(<<>>) = 0
    BY EmptySeq
<1> QED  BY <1>1, <1>2 DEF Sound, EmptyStore, Apart, GivenOut

\* get_item finds an item exactly when the list has the key.
LEMMA FoundIsPresent ==
    ASSUME NEW s, Sound(s), NEW key
    PROVE  Exists(s, key) <=> ~Absent(s, key)
<1> DEFINE P == Places(s, key)
<1>0. PICK S : s.list \in Seq(S)
    BY DEF Sound, Listed
<1>1. Len(s.list) \in Nat
    BY <1>0, LenProperties
<1>2. P \in SUBSET Nat
    BY <1>1 DEF Places
<1>3. P = {} <=> Absent(s, key)
    BY DEF Places, Absent
<1>4. ASSUME P # {} PROVE Exists(s, key)
    <2>1. PICK i \in P : i = CHOOSE k \in P : \A j \in P : k <= j
        BY <1>2, <1>4, First
    <2>2. get_item(s, key) = s.list[i]
        BY <1>4, <2>1, Zenon DEF get_item
    <2>3. s.list[i].cas \in 1..s.cas /\ s.cas \in Nat
        BY <2>1 DEF Sound, GivenOut, Places
    <2>4. s.list[i].cas # NoItem.cas
        BY <2>3 DEF NoItem
    <2> QED  BY <2>2, <2>4, Zenon DEF Exists
<1>5. P = {} => ~Exists(s, key)
    BY Zenon DEF Exists, get_item
<1> QED  BY <1>3, <1>4, <1>5

\* put_item for a key that is absent keeps the store sound.
LEMMA PutSound ==
    ASSUME NEW s, Sound(s), NEW key, NEW val, Absent(s, key)
    PROVE  Sound(put_item(s, create_item(key, val)))
<1> DEFINE n == s.cas + 1
           new == [key |-> key, val |-> val, cas |-> n]
           l == <<new>> \o s.list
<1>0. PICK S : s.list \in Seq(S)
    BY DEF Sound, Listed
<1> DEFINE T == S \cup {new}
<1>1. s.list \in Seq(T) /\ <<new>> \in Seq(T) /\ Len(<<new>>) = 1 /\ <<new>>[1] = new
    <2>1. s.list \in Seq(T)
        BY <1>0, SeqMonotonic, Zenon
    <2> QED  BY <2>1
<1>2. put_item(s, create_item(key, val)) = [list |-> l, cas |-> n]
    <2>1. [create_item(key, val) EXCEPT !.cas = n] = new
        BY DEF create_item
    <2> QED  BY <2>1, Zenon DEF put_item
<1> HIDE DEF new
<1>3. /\ l \in Seq(T)
      /\ Len(l) = Len(s.list) + 1
      /\ Len(s.list) \in Nat
      /\ l[1] = new
      /\ \A i \in 1..Len(l) : i # 1 => l[i] = s.list[i - 1]
    <2>1. /\ l \in Seq(T)
          /\ Len(l) = 1 + Len(s.list)
          /\ \A i \in 1..(1 + Len(s.list)) : l[i] = IF i <= 1 THEN <<new>>[i] ELSE s.list[i - 1]
        BY <1>1, ConcatProperties
    <2>2. Len(s.list) \in Nat
        BY <1>0, LenProperties
    <2> QED  BY <1>1, <2>1, <2>2
<1>4. new.key = key /\ new.cas = n /\ n \in Nat /\ s.cas \in Nat /\ n = s.cas + 1
    BY DEF new, Sound
<1> HIDE DEF l, n
<1>5. Listed(l)
    BY <1>3 DEF Listed
<1>6. GivenOut(l, n)
    <2> SUFFICES ASSUME NEW i \in 1..Len(l) PROVE l[i].cas \in 1..n
        BY DEF GivenOut
    <2>1. CASE i = 1
        BY <2>1, <1>3, <1>4
    <2>2. CASE i # 1
        <3>1. i - 1 \in 1..Len(s.list) /\ l[i] = s.list[i - 1]
            BY <2>2, <1>3
        <3>2. s.list[i - 1].cas \in 1..s.cas
            BY <3>1 DEF Sound, GivenOut
        <3> QED  BY <3>1, <3>2, <1>4
    <2> QED  BY <2>1, <2>2
<1>7. Apart(l)
    <2>1. \A i \in 1..Len(l) : i # 1 => l[i].key # key /\ l[i].cas # n
        <3> SUFFICES ASSUME NEW i \in 1..Len(l), i # 1 PROVE l[i].key # key /\ l[i].cas # n
            OBVIOUS
        <3>1. i - 1 \in 1..Len(s.list) /\ l[i] = s.list[i - 1]
            BY <1>3
        <3>2. s.list[i - 1].cas \in 1..s.cas /\ s.list[i - 1].key # key
            BY <3>1 DEF Sound, GivenOut, Absent
        <3> QED  BY <3>1, <3>2, <1>4
    <2> SUFFICES ASSUME NEW i \in 1..Len(l), NEW j \in 1..Len(l), i # j
                 PROVE l[i].key # l[j].key /\ l[i].cas # l[j].cas
        BY DEF Apart
    <2>2. CASE i = 1
        BY <2>1, <2>2, <1>3, <1>4
    <2>3. CASE j = 1
        BY <2>1, <2>3, <1>3, <1>4
    <2>4. CASE i # 1 /\ j # 1
        <3>1. /\ i - 1 \in 1..Len(s.list) /\ l[i] = s.list[i - 1]
              /\ j - 1 \in 1..Len(s.list) /\ l[j] = s.list[j - 1]
              /\ i - 1 # j - 1
            BY <2>4, <1>3
        <3> QED  BY <3>1, Zenon DEF Sound, Apart
    <2> QED  BY <2>2, <2>3, <2>4
<1> QED  BY <1>2, <1>4, <1>5, <1>6, <1>7 DEF Sound

\* delete_item reads the list from the successor of the entry it unlinks: the
\* other entries, each once.
LEMMA Unlinked ==
    ASSUME NEW S, NEW q \in Seq(S), NEW i \in 1..Len(q)
    PROVE  LET n == Len(q)
               l == SubSeq(q, i + 1, n) \o SubSeq(q, 1, i - 1)
               Was(k) == IF k <= n - i THEN i + k ELSE k - (n - i)
           IN /\ l \in Seq(S) /\ Len(l) = n - 1
              /\ \A k \in 1..(n - 1) : l[k] = q[Was(k)] /\ Was(k) \in 1..n /\ Was(k) # i
              /\ \A j, k \in 1..(n - 1) : j # k => Was(j) # Was(k)
<1>1. PICK n \in Nat : n = Len(q)
    BY LenProperties
<1>2. i \in 1..n
    BY <1>1
<1>3. \A k \in 1..n : q[k] \in S
    BY <1>1, ElementOfSeq
<1>4. PICK a \in Seq(S) : /\ a = SubSeq(q, i + 1, n) /\ Len(a) = n - i
                          /\ \A k \in 1..(n - i) : a[k] = q[i + k]
    <2>1. \A k \in (i + 1)..n : q[k] \in S
        BY <1>2, <1>3
    <2>2. i + 1 \in Int /\ n \in Int
        BY <1>2
    <2>3. /\ SubSeq(q, i + 1, n) \in Seq(S)
          /\ Len(SubSeq(q, i + 1, n)) = IF i + 1 <= n THEN n - (i + 1) + 1 ELSE 0
          /\ \A k \in 1..(n - (i + 1) + 1) : SubSeq(q, i + 1, n)[k] = q[(i + 1) + k - 1]
        BY <2>1, <2>2, SubSeqProperties
    <2>4. Len(SubSeq(q, i + 1, n)) = n - i
        BY <2>3, <1>2
    <2>5. \A k \in 1..(n - i) : SubSeq(q, i + 1, n)[k] = q[i + k]
        <3> TAKE k \in 1..(n - i)
        <3>1. (i + 1) + k - 1 = i + k /\ k \in 1..(n - (i + 1) + 1)
            BY <1>2
        <3> QED  BY <2>3, <3>1, Zenon
    <2> QED  BY <2>3, <2>4, <2>5, Zenon
<1>5. PICK b \in Seq(S) : /\ b = SubSeq(q, 1, i - 1) /\ Len(b) = i - 1
                          /\ \A k \in 1..(i - 1) : b[k] = q[k]
    <2>1. \A k \in 1..(i - 1) : q[k] \in S
        BY <1>2, <1>3
    <2>2. 1 \in Int /\ i - 1 \in Int
        BY <1>2
    <2>3. /\ SubSeq(q, 1, i - 1) \in Seq(S)
          /\ Len(SubSeq(q, 1, i - 1)) = IF 1 <= i - 1 THEN (i - 1) - 1 + 1 ELSE 0
          /\ \A k \in 1..((i - 1) - 1 + 1) : SubSeq(q, 1, i - 1)[k] = q[1 + k - 1]
        BY <2>1, <2>2, SubSeqProperties
    <2>4. Len(SubSeq(q, 1, i - 1)) = i - 1
        BY <2>3, <1>2
    <2>5. \A k \in 1..(i - 1) : SubSeq(q, 1, i - 1)[k] = q[k]
        <3> TAKE k \in 1..(i - 1)
        <3>1. 1 + k - 1 = k /\ k \in 1..((i - 1) - 1 + 1)
            BY <1>2
        <3> QED  BY <2>3, <3>1, Zenon
    <2> QED  BY <2>3, <2>4, <2>5, Zenon
<1>6. PICK l \in Seq(S) : /\ l = a \o b /\ Len(l) = Len(a) + Len(b)
                          /\ \A k \in 1..(Len(a) + Len(b)) :
                                l[k] = IF k <= Len(a) THEN a[k] ELSE b[k - Len(a)]
    <2>1. /\ a \o b \in Seq(S) /\ Len(a \o b) = Len(a) + Len(b)
          /\ \A k \in 1..(Len(a) + Len(b)) :
                (a \o b)[k] = IF k <= Len(a) THEN a[k] ELSE b[k - Len(a)]
        BY ConcatProperties
    <2> QED  BY <2>1, Zenon
<1> DEFINE Was(k) == IF k <= n - i THEN i + k ELSE k - (n - i)
<1>7. Len(l) = n - 1
    BY <1>2, <1>4, <1>5, <1>6
<1>8. \A k \in 1..(n - 1) : Was(k) \in 1..n /\ Was(k) # i
    BY <1>2
<1>9. \A k \in 1..(n - 1) : l[k] = q[Was(k)]
    <2> SUFFICES ASSUME NEW k \in 1..(n - 1) PROVE l[k] = q[Was(k)]
        OBVIOUS
    <2>1. l[k] = IF k <= n - i THEN a[k] ELSE b[k - (n - i)]
        <3>1. Len(a) = n - i /\ Len(a) + Len(b) = n - 1
            BY <1>2, <1>4, <1>5
        <3>2. l[k] = IF k <= Len(a) THEN a[k] ELSE b[k - Len(a)]
            BY <1>6, <3>1
        <3> QED  BY <3>1, <3>2, Zenon
    <2>2. CASE k <= n - i
        BY <2>1, <2>2, <1>2, <1>4
    <2>3. CASE ~ (k <= n - i)
        <3>1. k - (n - i) \in 1..(i - 1)
            BY <2>3, <1>2
        <3> QED  BY <2>1, <2>3, <3>1, <1>5
    <2> QED  BY <2>2, <2>3
<1>10. \A j, k \in 1..(n - 1) : j # k => Was(j) # Was(k)
    BY <1>2
<1> QED  BY <1>1, <1>4, <1>5, <1>6, <1>7, <1>8, <1>9, <1>10

\* delete_item keeps the store sound and leaves no entry of the key.
LEMMA DeleteSound ==
    ASSUME NEW s, Sound(s), NEW key
    PROVE  /\ Sound(delete_item(s, key))
           /\ Absent(delete_item(s, key), key)
           /\ delete_item(s, key).cas = s.cas
<1> DEFINE P == Places(s, key)
           d == delete_item(s, key)
<1>0. PICK S : s.list \in Seq(S)
    BY DEF Sound, Listed
<1>1. Len(s.list) \in Nat
    BY <1>0, LenProperties
<1>2. CASE P = {}
    <2>1. d = s
        BY <1>2, Zenon DEF delete_item
    <2>2. Absent(s, key)
        BY <1>2 DEF Places, Absent
    <2> QED  BY <2>1, <2>2
<1>3. CASE P # {}
    <2>1. P \in SUBSET Nat
        BY <1>1 DEF Places
    <2>2. PICK i \in P : i = CHOOSE k \in P : \A j \in P : k <= j
        BY <2>1, <1>3, First
    <2> DEFINE n == Len(s.list)
               a == SubSeq(s.list, i + 1, n)
               b == SubSeq(s.list, 1, i - 1)
               l == a \o b
    <2>3. i \in 1..n /\ s.list[i].key = key
        BY DEF Places
    <2>4. d = [s EXCEPT !.list = l]
        BY <1>3, <2>2, Zenon DEF delete_item
    <2>5. d = [list |-> l, cas |-> s.cas]
        BY <2>4 DEF Sound
    <2> DEFINE Was(k) == IF k <= n - i THEN i + k ELSE k - (n - i)
    <2>9. /\ l \in Seq(S) /\ Len(l) = n - 1
          /\ \A k \in 1..(n - 1) : l[k] = s.list[Was(k)] /\ Was(k) \in 1..n /\ Was(k) # i
          /\ \A j, k \in 1..(n - 1) : j # k => Was(j) # Was(k)
        BY <1>0, <2>3, Unlinked
    <2> HIDE DEF l, Was
    <2>10. Listed(l)
        BY <2>9 DEF Listed
    <2>11. Apart(l)
        <3> SUFFICES ASSUME NEW j \in 1..Len(l), NEW k \in 1..Len(l), j # k
                     PROVE l[j].key # l[k].key /\ l[j].cas # l[k].cas
            BY DEF Apart
        <3>1. /\ l[j] = s.list[Was(j)] /\ l[k] = s.list[Was(k)] /\ Was(j) # Was(k)
              /\ Was(j) \in 1..n /\ Was(k) \in 1..n
            BY <2>9
        <3> QED  BY <3>1, Zenon DEF Sound, Apart
    <2>12. GivenOut(l, s.cas)
        BY <2>9 DEF Sound, GivenOut
    <2>13. \A k \in 1..Len(l) : l[k].key # key
        <3> SUFFICES ASSUME NEW k \in 1..Len(l) PROVE l[k].key # s.list[i].key
            BY <2>3
        <3>1. l[k] = s.list[Was(k)] /\ Was(k) \in 1..n /\ Was(k) # i
            BY <2>9
        <3> QED  BY <3>1, <2>3, Zenon DEF Sound, Apart
    <2> QED  BY <2>5, <2>10, <2>11, <2>12, <2>13 DEF Sound, Absent
<1> QED  BY <1>2, <1>3

\* flush leaves an empty list; the numbers go on.
LEMMA FlushSound ==
    ASSUME NEW s, Sound(s)
    PROVE  Sound(flush(s))
<1>1. flush(s) = [list |-> <<>>, cas |-> s.cas]
    BY DEF Sound, flush
<1>2. Listed(<<>>) /\ Len(<<>>) = 0
    BY EmptySeq DEF Listed
<1> QED  BY <1>1, <1>2 DEF Sound, Apart, GivenOut

-----------------------------------------------------------------------------
(***************************************************************************)
(* The callbacks.                                                          *)
(***************************************************************************)
\* A callback's result, with a sound store.
Sane(h) == h = Result(h.s, h.rval, h.cas, h.num) /\ Sound(h.s)

\* A callback that fails leaves the store it names.
LEMMA FailsSane ==
    ASSUME NEW s, Sound(s), NEW rval
    PROVE  Sane(Fails(s, rval))
BY DEF Sane, Fails, Result

\* A callback that stores does so for an absent key.
LEMMA StoresSane ==
    ASSUME NEW s, Sound(s), NEW key, Absent(s, key), NEW val, NEW num
    PROVE  Sane(Stores(s, create_item(key, val), num))
<1>1. PICK t : t = put_item(s, create_item(key, val))
    OBVIOUS
<1>2. Sound(t)
    BY <1>1, PutSound
<1>3. Stores(s, create_item(key, val), num) = Result(t, "SUCCESS", s.cas + 1, num)
    BY <1>1, Zenon DEF Stores
<1> QED  BY <1>2, <1>3 DEF Sane, Result

\* ... or for one that it has just deleted.
LEMMA ReplacesSane ==
    ASSUME NEW s, Sound(s), NEW key, NEW val, NEW num
    PROVE  Sane(Stores(delete_item(s, key), create_item(key, val), num))
BY DeleteSound, StoresSane, Zenon

\* add: only for a key that is absent.
LEMMA AddSane ==
    ASSUME NEW s, Sound(s), NEW key, NEW val, NEW mem
    PROVE  Sane(add_handler(s, key, val, mem))
BY FoundIsPresent, FailsSane, StoresSane, Zenon DEF add_handler

\* append and prepend.
LEMMA ConcatSane ==
    ASSUME NEW s, Sound(s), NEW key, NEW cas, NEW mem, NEW joined
    PROVE  Sane(Concat(s, key, cas, mem, joined))
BY FailsSane, ReplacesSane, Zenon DEF Concat

\* append.
LEMMA AppendSane ==
    ASSUME NEW s, Sound(s), NEW key, NEW val, NEW cas, NEW mem
    PROVE  Sane(append_handler(s, key, val, cas, mem))
BY ConcatSane, Zenon DEF append_handler

\* prepend.
LEMMA PrependSane ==
    ASSUME NEW s, Sound(s), NEW key, NEW val, NEW cas, NEW mem
    PROVE  Sane(prepend_handler(s, key, val, cas, mem))
BY ConcatSane, Zenon DEF prepend_handler

\* replace, with the cas of a binary request or of an ASCII cas.
LEMMA ReplaceSane ==
    ASSUME NEW s, Sound(s), NEW key, NEW val, NEW cas, NEW mem
    PROVE  Sane(replace_handler(s, key, val, cas, mem))
BY DeleteSound, FailsSane, ReplacesSane, Zenon DEF replace_handler

\* set.
LEMMA SetSane ==
    ASSUME NEW s, Sound(s), NEW key, NEW val, NEW cas, NEW mem
    PROVE  Sane(set_handler(s, key, val, cas, mem))
BY DeleteSound, FailsSane, ReplacesSane, Zenon DEF set_handler

\* delete.
LEMMA DeleteSane ==
    ASSUME NEW s, Sound(s), NEW key, NEW cas
    PROVE  Sane(delete_handler(s, key, cas))
BY DeleteSound, FailsSane, Zenon DEF delete_handler

\* flush.
LEMMA FlushSane ==
    ASSUME NEW s, Sound(s)
    PROVE  Sane(flush_handler(s))
BY FlushSound, FailsSane, Zenon DEF flush_handler

\* The counters: deleted and stored again, or lost for want of memory.
LEMMA ArithmeticSane ==
    ASSUME NEW s, Sound(s), NEW key, NEW mem, NEW num
    PROVE  Sane(Arithmetic(s, key, mem, num))
BY DeleteSound, FailsSane, ReplacesSane, Zenon DEF Arithmetic

\* increment.
LEMMA IncrementSane ==
    ASSUME NEW s, Sound(s), NEW key, NEW delta, NEW initial, NEW mem, NEW old
    PROVE  Sane(increment_handler(s, key, delta, initial, mem, old))
BY ArithmeticSane, Zenon DEF increment_handler

\* decrement.
LEMMA DecrementSane ==
    ASSUME NEW s, Sound(s), NEW key, NEW delta, NEW initial, NEW mem, NEW old
    PROVE  Sane(decrement_handler(s, key, delta, initial, mem, old))
BY ArithmeticSane, Zenon DEF decrement_handler

-----------------------------------------------------------------------------
(***************************************************************************)
(* The commands of the two interfaces, and of the ASCII protocol.          *)
(***************************************************************************)
\* An answer around a callback's result.
SaneAnswer(a) == a = Answer(a.h, a.raw, a.packet) /\ Sane(a.h)

\* An answer built around a result is one.
LEMMA AnswerSane ==
    ASSUME NEW h, Sane(h), NEW raw, NEW packet
    PROVE  SaneAnswer(Answer(h, raw, packet))
BY DEF SaneAnswer, Answer

\* The answer of a command that stores keeps the callback's store.
LEMMA StoreAnswerSane ==
    ASSUME NEW r, NEW h, Sane(h)
    PROVE  SaneAnswer(StoreAnswer(r, h))
BY AnswerSane, Zenon DEF StoreAnswer

\* The answer of a counter.
LEMMA CounterAnswerSane ==
    ASSUME NEW r, NEW h, Sane(h)
    PROVE  SaneAnswer(CounterAnswer(r, h))
BY AnswerSane, Zenon DEF CounterAnswer

\* The answer of a get, which changes nothing.
LEMMA GetSane ==
    ASSUME NEW s, Sound(s), NEW r
    PROVE  SaneAnswer(get_command_handler(s, r))
BY AnswerSane, FailsSane, Zenon DEF get_command_handler, Silent

\* A failure an interface_v0 handler reports itself leaves the same store.
LEMMA ReportedSane ==
    ASSUME NEW r, NEW a, SaneAnswer(a)
    PROVE  SaneAnswer(Reported(r, a))
<1>1. [a.h EXCEPT !.rval = "SUCCESS"] = Result(a.h.s, "SUCCESS", a.h.cas, a.h.num)
    BY DEF SaneAnswer, Sane, Result
<1>2. Sane([a.h EXCEPT !.rval = "SUCCESS"])
    BY <1>1 DEF SaneAnswer, Sane, Result
<1> QED  BY <1>2, AnswerSane, Zenon DEF Reported

\* An answer with its raw field changed.
LEMMA RawField ==
    ASSUME NEW h, NEW raw, NEW packet, NEW b, NEW a, a = Answer(h, raw, packet)
    PROVE  [a EXCEPT !.raw = b] = Answer(h, b, packet)
BY DEF Answer

\* An answer that is written at once instead of spooled.
LEMMA RawSane ==
    ASSUME NEW a, SaneAnswer(a)
    PROVE  SaneAnswer([a EXCEPT !.raw = TRUE])
<1>1. PICK h, raw, packet : a = Answer(h, raw, packet) /\ Sane(h)
    BY Zenon DEF SaneAnswer
<1>2. [a EXCEPT !.raw = TRUE] = Answer(h, TRUE, packet)
    <2>1. \A b : [a EXCEPT !.raw = b] = Answer(h, b, packet)
        BY <1>1, RawField
    <2> QED  BY <2>1
<1> QED  BY <1>1, <1>2, AnswerSane, Zenon

\* The arithmetic commands of interface_v1.
LEMMA CountersSane ==
    ASSUME NEW s, Sound(s), NEW r, NEW mem, NEW old
    PROVE  /\ SaneAnswer(increment_command_handler(s, r, mem, old))
           /\ SaneAnswer(decrement_command_handler(s, r, mem, old))
BY IncrementSane, DecrementSane, CounterAnswerSane, Zenon
   DEF increment_command_handler, decrement_command_handler

\* The commands that store.
LEMMA StorersSane ==
    ASSUME NEW s, Sound(s), NEW r, NEW mem
    PROVE  /\ SaneAnswer(add_command_handler(s, r, mem))
           /\ SaneAnswer(append_command_handler(s, r, mem))
           /\ SaneAnswer(prepend_command_handler(s, r, mem))
           /\ SaneAnswer(replace_command_handler(s, r, mem))
           /\ SaneAnswer(set_command_handler(s, r, mem))
           /\ SaneAnswer(delete_command_handler(s, r))
           /\ SaneAnswer(flush_command_handler(s, r))
<1>1. SaneAnswer(add_command_handler(s, r, mem))
    BY AddSane, StoreAnswerSane, Zenon DEF add_command_handler
<1>2. SaneAnswer(append_command_handler(s, r, mem))
    BY AppendSane, StoreAnswerSane, Zenon DEF append_command_handler
<1>3. SaneAnswer(prepend_command_handler(s, r, mem))
    BY PrependSane, StoreAnswerSane, Zenon DEF prepend_command_handler
<1>4. SaneAnswer(replace_command_handler(s, r, mem))
    BY ReplaceSane, StoreAnswerSane, Zenon DEF replace_command_handler
<1>5. SaneAnswer(set_command_handler(s, r, mem))
    BY SetSane, StoreAnswerSane, Zenon DEF set_command_handler
<1>6. SaneAnswer(delete_command_handler(s, r))
    BY DeleteSane, StoreAnswerSane, Zenon DEF delete_command_handler
<1>7. SaneAnswer(flush_command_handler(s, r))
    BY FlushSane, StoreAnswerSane, Zenon DEF flush_command_handler
<1> QED  BY <1>1, <1>2, <1>3, <1>4, <1>5, <1>6, <1>7

\* The commands that only answer.
LEMMA SpeakersSane ==
    ASSUME NEW s, Sound(s), NEW r
    PROVE  /\ SaneAnswer(noop_command_handler(s, r))
           /\ SaneAnswer(quit_command_handler(s, r))
           /\ SaneAnswer(stat_command_handler(s, r))
           /\ SaneAnswer(version_command_handler(s, r))
           /\ SaneAnswer(Silent(Fails(s, "UNKNOWN_COMMAND")))
BY AnswerSane, FailsSane, Zenon
   DEF noop_command_handler, quit_command_handler, stat_command_handler,
       version_command_handler, Silent

\* comcode_v0_v1_remap: whatever the opcode, the store stays sound.
LEMMA V1Sane ==
    ASSUME NEW s, Sound(s), NEW r, NEW mem, NEW old
    PROVE  SaneAnswer(V1Handler(s, r, mem, old))
BY StorersSane, SpeakersSane, CountersSane, GetSane, Zenon DEF V1Handler

\* initialize_interface_v0_handler: the same through the other table.
LEMMA V0Sane ==
    ASSUME NEW s, Sound(s), NEW r, NEW mem, NEW old
    PROVE  SaneAnswer(V0Handler(s, r, mem, old))
<1>1. /\ SaneAnswer(v0_set_command_handler(s, r, mem))
      /\ SaneAnswer(v0_add_command_handler(s, r, mem))
      /\ SaneAnswer(v0_replace_command_handler(s, r, mem))
    BY StorersSane, ReportedSane, Zenon
       DEF v0_set_command_handler, v0_add_command_handler, v0_replace_command_handler
<1>2. SaneAnswer(v0_concat_command_handler(s, r, mem))
    BY StorersSane, Zenon DEF v0_concat_command_handler
<1>3. SaneAnswer(v0_arithmetic_command_handler(s, r, mem, old))
    BY CountersSane, ReportedSane, Zenon DEF v0_arithmetic_command_handler
<1>4. SaneAnswer(v0_delete_command_handler(s, r))
    BY DeleteSane, StoreAnswerSane, ReportedSane, Zenon DEF v0_delete_command_handler
<1>5. SaneAnswer(v0_get_command_handler(s, r))
    BY GetSane, ReportedSane, RawSane, Zenon DEF v0_get_command_handler
<1>6. /\ SaneAnswer(v0_flush_command_handler(s, r))
      /\ SaneAnswer(v0_noop_command_handler(s, r))
      /\ SaneAnswer(v0_quit_command_handler(s, r))
    BY StorersSane, SpeakersSane, Zenon
       DEF v0_flush_command_handler, v0_noop_command_handler, v0_quit_command_handler
<1>7. /\ SaneAnswer(v0_stat_command_handler(s, r))
      /\ SaneAnswer(v0_version_command_handler(s, r))
    BY SpeakersSane, RawSane, Zenon DEF v0_stat_command_handler, v0_version_command_handler
<1> QED  BY <1>1, <1>2, <1>3, <1>4, <1>5, <1>6, <1>7, SpeakersSane, Zenon DEF V0Handler

\* The nine callbacks behind the data block of an ASCII storage command.
LEMMA StorageSane ==
    ASSUME NEW s, Sound(s), NEW r, r.op \in StorageOps, NEW val, NEW mem
    PROVE  Sound(process_storage_command(s, r, val, mem).s)
<1>1. Sane(StorageCallback(s, r, val, mem))
    BY SetSane, AddSane, ReplaceSane, AppendSane, PrependSane, Zenon
       DEF StorageCallback, StorageOps
<1>2. PICK h : h = StorageCallback(s, r, val, mem)
    OBVIOUS
<1>3. process_storage_command(s, r, val, mem)
        = Command(h.s, r.quiet, <<Line(StorageReply(r, h.rval))>>)
    BY <1>2, Zenon DEF process_storage_command
<1>4. process_storage_command(s, r, val, mem).s = h.s
    BY <1>3 DEF Command
<1> QED  BY <1>1, <1>2, <1>4 DEF Sane

\* What a command record says of the store.
LEMMA CommandStore ==
    ASSUME NEW s, NEW mute, NEW lines
    PROVE  Command(s, mute, lines).s = s
BY DEF Command

\* The other ASCII commands.
LEMMA DispatchSane ==
    ASSUME NEW s, Sound(s), NEW mute, NEW r, NEW mem, NEW old
    PROVE  Sound(Dispatch(s, mute, r, mem, old).s)
<1>1. Sound(send_command_usage(s).s)
    BY CommandStore, Zenon DEF send_command_usage
<1>2. Sound(ascii_process_gets(s, mute, r).s)
    BY <1>1, CommandStore, ZenonT(60) DEF ascii_process_gets
<1>3. Sound(process_delete(s, r).s)
    <2>1. Sound(delete_handler(s, KeyOf(r), 0).s)
        BY DeleteSane, Zenon DEF Sane
    <2>2. PICK h : h = delete_handler(s, KeyOf(r), 0)
        OBVIOUS
    <2>3. CASE r.ntok # 2
        BY <2>3, <1>1, Zenon DEF process_delete
    <2>4. CASE r.ntok = 2
        <3>1. process_delete(s, r)
                = Command(h.s, r.quiet,
                          <<Line(IF h.rval = "SUCCESS" THEN "DELETED" ELSE "NOT_FOUND")>>)
            BY <2>2, <2>4, Zenon DEF process_delete
        <3>2. process_delete(s, r).s = h.s
            BY <3>1 DEF Command
        <3> QED  BY <2>1, <2>2, <3>2, Zenon
    <2> QED  BY <2>3, <2>4
<1>4. Sound(process_arithmetic(s, r, mem, old).s)
    <2>1. Sound(increment_handler(s, KeyOf(r), r.delta, 0, mem, old).s)
        BY IncrementSane, Zenon DEF Sane
    <2>2. Sound(decrement_handler(s, KeyOf(r), r.delta, 0, mem, old).s)
        BY DecrementSane, Zenon DEF Sane
    <2>3. PICK h : /\ h = IF r.op = "incr" THEN increment_handler(s, KeyOf(r), r.delta, 0, mem, old)
                          ELSE decrement_handler(s, KeyOf(r), r.delta, 0, mem, old)
                   /\ Sound(h.s)
        BY <2>1, <2>2, Zenon
    <2>4. CASE r.ntok # 3
        BY <2>4, <1>1, Zenon DEF process_arithmetic
    <2>5. CASE r.ntok = 3
        <3>1. process_arithmetic(s, r, mem, old)
                = Command(h.s, r.quiet,
                          IF h.rval = "SUCCESS" THEN <<[Line("NUMBER") EXCEPT !.val = Counter(h.num)]>>
                          ELSE <<Line("NOT_FOUND")>>)
            BY <2>3, <2>5, Zenon DEF process_arithmetic
        <3>2. process_arithmetic(s, r, mem, old).s = h.s
            BY <3>1 DEF Command
        <3> QED  BY <2>3, <3>2, Zenon
    <2> QED  BY <2>4, <2>5
<1>5. Sound(process_stats(s, r).s)
    BY <1>1, CommandStore, Zenon DEF process_stats
<1>6. Sound(process_flush(s, r).s)
    BY <1>1, FlushSound, CommandStore, Zenon DEF process_flush
<1>7. Sound(process_version(s, r).s)
    BY <1>1, CommandStore, ZenonT(60) DEF process_version
<1>8. Sound(process_verbosity(s, r).s)
    BY <1>1, CommandStore, ZenonT(60) DEF process_verbosity
<1> QED  BY <1>1, <1>2, <1>3, <1>4, <1>5, <1>6, <1>7, <1>8, Zenon DEF Dispatch

-----------------------------------------------------------------------------
(***************************************************************************)
(* The steps.                                                              *)
(***************************************************************************)
\* Only commands touch the store.
LEMMA ServerKeepsSound ==
    ASSUME NEW c \in Clients, Sound(store), ServerStep(c)
    PROVE  Sound(store')
<1>1. CASE AsciiStorage(c)
    <2>1. PICK mem : Perform(c, process_storage_command(store, NextRequest, Remaining[2].r.val, mem), 2)
        BY <1>1, Zenon DEF AsciiStorage
    <2>2. NextRequest.op \in StorageOps
        BY <1>1, Zenon DEF AsciiStorage, IsStorage, NextRequest
    <2>3. store' = process_storage_command(store, NextRequest, Remaining[2].r.val, mem).s
        BY <2>1, Zenon DEF Perform
    <2> QED  BY <2>2, <2>3, StorageSane, Zenon
<1>2. CASE AsciiCommand(c)
    <2>1. PICK mem, old :
            Perform(c, Dispatch(store, cl[c].mute, NextRequest, mem, old),
                    IF OneUnit(Remaining[1]) THEN 1 ELSE 2)
        BY <1>2, Zenon DEF AsciiCommand
    <2>2. store' = Dispatch(store, cl[c].mute, NextRequest, mem, old).s
        BY <2>1, Zenon DEF Perform
    <2> QED  BY <2>2, DispatchSane, Zenon
<1>3. CASE BinaryCommand(c)
    <2>1. PICK mem, old : store' = Handle(store, NextRequest, mem, old).h.s
        BY <1>3, Zenon DEF BinaryCommand
    <2>2. SaneAnswer(Handle(store, NextRequest, mem, old))
        BY V0Sane, V1Sane, Zenon DEF Handle
    <2> QED  BY <2>1, <2>2 DEF SaneAnswer, Sane
<1>4. CASE \/ Accept(c) \/ Recv(c) \/ Unsupported(c)
           \/ RecvBlocks(c) \/ RecvEof(c) \/ Consumed(c)
           \/ AsciiPartialLine(c) \/ AsciiPartialData(c)
           \/ AsciiBadKey(c) \/ AsciiQuit(c)
           \/ BinaryPartial(c) \/ BinaryPartialFirst(c)
           \/ BinaryBadMagic(c)
    <2>1. store' = store
        BY <1>4, Zenon
           DEF Accept, Recv, Unsupported, RecvBlocks, RecvEof, Consumed, AsciiPartialLine,
               AsciiPartialData, AsciiBadKey, AsciiQuit, BinaryPartial, BinaryPartialFirst,
               BinaryBadMagic, Save
    <2> QED  BY <2>1, Zenon
<1>5. CASE SendFails(c)
    BY <1>5, Zenon DEF SendFails
<1> QED  BY <1>1, <1>2, <1>3, <1>4, <1>5, Zenon DEF ServerStep, Works

\* The peers never do.
LEMMA PeerKeepsStore ==
    ASSUME NEW c \in Clients, PeerStep(c)
    PROVE  store' = store
BY Zenon DEF PeerStep, ClientSend, ClientRecv, ClientClosed, ClientFails, ClientPasses, Connect,
             ProbeSend, ProbeRead, ProbeHangUp, serverVars

\* Sound is invariant.
THEOREM StoreSound == Spec => []Sound(store)
<1>1. Init => Sound(store)
    BY EmptySound, Zenon DEF Init, ServerInit
<1>2. Sound(store) /\ [Next]_allVars => Sound(store)'
    <2> SUFFICES ASSUME Sound(store), [Next]_allVars PROVE Sound(store')
        BY Zenon
    <2>1. CASE \E c \in Clients : ServerStep(c) /\ UNCHANGED clientVars
        BY <2>1, ServerKeepsSound, Zenon
    <2>2. CASE \E c \in Clients : PeerStep(c)
        BY <2>2, PeerKeepsStore, Zenon
    <2>3. CASE Over \/ UNCHANGED allVars
        <3>1. store' = store
            BY <2>3 DEF Over, allVars, vars
        <3> QED  BY <3>1, Zenon
    <2> QED  BY <2>1, <2>2, <2>3, Zenon DEF Next
<1> QED  BY <1>1, <1>2, PTL DEF Spec

\* The list of the store has one entry per key, each with a number of its own
\* that update_cas gave out, whatever requests reach the server on whatever
\* connections, in both interfaces, cut anywhere, in memory or out of it.
THEOREM OneEntry == Spec => []OneEntryPerKey
<1>1. Sound(store) => OneEntryPerKey
    BY Zenon DEF Sound, Apart, GivenOut, OneEntryPerKey
<1> QED  BY <1>1, StoreSound, PTL

-----------------------------------------------------------------------------
(***************************************************************************)
(* The input kept between two calls of client_work.                        *)
(*                                                                         *)
(* Output and input meet in the client structure only: whatever is drained *)
(* or spooled leaves the saved input alone.                                *)
(***************************************************************************)
Fields == {"work", "mute", "saved", "out", "w", "mixed"}
Shaped(v) == \E T : v \in [Fields -> T]

\* v2 is v with another output, or other units in the socket.
SameInput(v2, v) == Shaped(v2) /\ v2.saved = v.saved /\ v2.work = v.work

\* A client structure is such a record.
LEMMA RecordShaped ==
    ASSUME NEW work, NEW mute, NEW saved, NEW out, NEW w, NEW mixed, NEW v,
           v = [work |-> work, mute |-> mute, saved |-> saved, out |-> out, w |-> w,
                mixed |-> mixed]
    PROVE  Shaped(v) /\ v.saved = saved
<1>1. v \in [Fields -> {work, mute, saved, out, w, mixed}]
    BY DEF Fields
<1> QED  BY <1>1, Zenon DEF Shaped

\* A field of a view changes, and only that one.
LEMMA FieldChanges ==
    ASSUME NEW v, Shaped(v), NEW f \in Fields, NEW x
    PROVE  /\ Shaped([v EXCEPT ![f] = x])
           /\ [v EXCEPT ![f] = x][f] = x
           /\ \A g \in Fields : g # f => [v EXCEPT ![f] = x][g] = v[g]
<1>1. PICK T : v \in [Fields -> T]
    BY Zenon DEF Shaped
<1>2. [v EXCEPT ![f] = x] \in [Fields -> T \cup {x}]
    BY <1>1
<1> QED  BY <1>1, <1>2 DEF Shaped

\* The output list, the socket or the mute flag of a view changes.
LEMMA OutputChanges ==
    ASSUME NEW v, Shaped(v), NEW x, NEW y
    PROVE  /\ SameInput([v EXCEPT !.w = x], v)
           /\ SameInput([v EXCEPT !.out = x], v)
           /\ SameInput([v EXCEPT !.mute = x], v)
           /\ SameInput([v EXCEPT !.w = x, !.out = y], v)
           /\ SameInput([v EXCEPT !.w = x, !.mixed = y], v)
           /\ SameInput([v EXCEPT !.out = x, !.mixed = y], v)
           /\ SameInput(v, v)
<1>1. SameInput([v EXCEPT !.w = x], v)
    BY FieldChanges DEF SameInput, Fields
<1>2. SameInput([v EXCEPT !.out = x], v)
    BY FieldChanges DEF SameInput, Fields
<1>3. SameInput([v EXCEPT !.mute = x], v)
    BY FieldChanges DEF SameInput, Fields
<1>4. SameInput([v EXCEPT !.w = x, !.out = y], v)
    <2>1. PICK T : v \in [Fields -> T]
        BY Zenon DEF Shaped
    <2>2. [v EXCEPT !.w = x, !.out = y] \in [Fields -> T \cup {x, y}]
        BY <2>1 DEF Fields
    <2>3. /\ [v EXCEPT !.w = x, !.out = y].saved = v.saved
          /\ [v EXCEPT !.w = x, !.out = y].work = v.work
        BY <2>1 DEF Fields
    <2> QED  BY <2>2, <2>3, Zenon DEF SameInput, Shaped
<1>5. SameInput([v EXCEPT !.w = x, !.mixed = y], v)
    <2>1. PICK T : v \in [Fields -> T]
        BY Zenon DEF Shaped
    <2>2. [v EXCEPT !.w = x, !.mixed = y] \in [Fields -> T \cup {x, y}]
        BY <2>1 DEF Fields
    <2>3. /\ [v EXCEPT !.w = x, !.mixed = y].saved = v.saved
          /\ [v EXCEPT !.w = x, !.mixed = y].work = v.work
        BY <2>1 DEF Fields
    <2> QED  BY <2>2, <2>3, Zenon DEF SameInput, Shaped
<1>6. SameInput([v EXCEPT !.out = x, !.mixed = y], v)
    <2>1. PICK T : v \in [Fields -> T]
        BY Zenon DEF Shaped
    <2>2. [v EXCEPT !.out = x, !.mixed = y] \in [Fields -> T \cup {x, y}]
        BY <2>1 DEF Fields
    <2>3. /\ [v EXCEPT !.out = x, !.mixed = y].saved = v.saved
          /\ [v EXCEPT !.out = x, !.mixed = y].work = v.work
        BY <2>1 DEF Fields
    <2> QED  BY <2>2, <2>3, Zenon DEF SameInput, Shaped
<1> QED  BY <1>1, <1>2, <1>3, <1>4, <1>5, <1>6, Zenon DEF SameInput

\* The input of a view changes: its protocol, or what it saved.
LEMMA InputChanges ==
    ASSUME NEW v, Shaped(v), NEW x, NEW z
    PROVE  /\ z = [v EXCEPT !.work = x] => Shaped(z) /\ z.saved = v.saved
           /\ z = [v EXCEPT !.saved = x] => Shaped(z) /\ z.saved = x
           /\ z = [v EXCEPT !.out = x, !.saved = x] => Shaped(z) /\ z.saved = x
<1>1. Shaped([v EXCEPT !.work = x]) /\ [v EXCEPT !.work = x].saved = v.saved
    BY FieldChanges DEF Fields
<1>2. Shaped([v EXCEPT !.saved = x]) /\ [v EXCEPT !.saved = x].saved = x
    BY FieldChanges DEF Fields
<1>3. ASSUME z = [v EXCEPT !.out = x, !.saved = x]
      PROVE  Shaped(z) /\ z.saved = x
    <2>1. PICK T : v \in [Fields -> T]
        BY Zenon DEF Shaped
    <2>2. z \in [Fields -> T \cup {x}]
        BY <1>3, <2>1 DEF Fields
    <2>3. z.saved = x
        BY <1>3, <2>1 DEF Fields
    <2> QED  BY <2>2, <2>3, Zenon DEF Shaped
<1> QED  BY <1>1, <1>2, <1>3

\* SameInput composes.
LEMMA SameInputTrans ==
    ASSUME NEW v, NEW v2, NEW v3, SameInput(v2, v), SameInput(v3, v2)
    PROVE  SameInput(v3, v)
BY Zenon DEF SameInput

\* drain_output.
LEMMA DrainInput ==
    ASSUME NEW v, Shaped(v)
    PROVE  SameInput(drain_output(v), v)
<1>1. PICK x, y : drain_output(v) = [v EXCEPT !.w = x, !.out = y]
    BY Zenon DEF drain_output
<1>2. SameInput([v EXCEPT !.w = x, !.out = y], v)
    BY OutputChanges
<1> QED  BY <1>1, <1>2

\* spool_output.
LEMMA SpoolInput ==
    ASSUME NEW v, Shaped(v), NEW data
    PROVE  SameInput(spool_output(v, data), v)
<1>1. PICK x, y : \/ spool_output(v, data) = [v EXCEPT !.out = x, !.mixed = y]
                   \/ spool_output(v, data) = v
    BY Zenon DEF spool_output
<1>2. SameInput([v EXCEPT !.out = x, !.mixed = y], v)
    BY OutputChanges
<1>3. SameInput(v, v)
    BY OutputChanges
<1> QED  BY <1>1, <1>2, <1>3

\* Several calls of it.
LEMMA SpoolEachInput ==
    ASSUME NEW v, Shaped(v), NEW units
    PROVE  SameInput(SpoolEach(v, units), v)
<1>1. PICK x, y : \/ SpoolEach(v, units) = [v EXCEPT !.out = x, !.mixed = y]
                   \/ SpoolEach(v, units) = v
    BY Zenon DEF SpoolEach
<1>2. SameInput([v EXCEPT !.out = x, !.mixed = y], v)
    BY OutputChanges
<1>3. SameInput(v, v)
    BY OutputChanges
<1> QED  BY <1>1, <1>2, <1>3

\* raw_response_handler.
LEMMA RawInput ==
    ASSUME NEW v, Shaped(v), NEW packet
    PROVE  SameInput(raw_response_handler(v, packet), v)
<1>1. PICK d : d = drain_output(v)
    OBVIOUS
<1>2. SameInput(d, v) /\ Shaped(d)
    BY <1>1, DrainInput, Zenon DEF SameInput
<1>3. PICK x, y, rest :
        raw_response_handler(v, packet) = spool_output([d EXCEPT !.w = x, !.mixed = y], rest)
    BY <1>1, Zenon DEF raw_response_handler
<1>4. SameInput([d EXCEPT !.w = x, !.mixed = y], d) /\ Shaped([d EXCEPT !.w = x, !.mixed = y])
    <2>1. SameInput([d EXCEPT !.w = x, !.mixed = y], d)
        BY <1>2, OutputChanges
    <2> QED  BY <2>1, Zenon DEF SameInput
<1>5. SameInput(raw_response_handler(v, packet), [d EXCEPT !.w = x, !.mixed = y])
    BY <1>3, <1>4, SpoolInput, Zenon
<1> QED  BY <1>2, <1>4, <1>5, SameInputTrans, Zenon

\* Whatever a binary command says.
LEMMA SayInput ==
    ASSUME NEW v, Shaped(v), NEW raw, NEW packet
    PROVE  SameInput(Say(v, raw, packet), v)
<1>1. SameInput(v, v)
    BY OutputChanges, Zenon
<1> QED  BY <1>1, RawInput, SpoolEachInput, Zenon DEF Say

-----------------------------------------------------------------------------
\* What of the input the exceptions of TailKept leave open.
Astray(c) == flaws.endptr \/ c \in flaws.shifted

\* The client being served has the rest of the buffer before it, and nothing
\* saved; the others have what they saved.
OwnTail(c) ==
    ~Astray(c) => /\ serving = c => tail[c] = Remaining
                  /\ serving # c /\ conn[c] = "up" => cl[c].saved = tail[c]

IsTable(f) == \E T : f \in [Clients -> T]
FlawFields == {"memory", "overread", "endptr", "dead", "shifted", "reread"}
Noted == \E T : flaws \in [FlawFields -> T]

Streams(S) ==
    /\ ibuf \in Seq(S)
    /\ win \in [Clients -> Seq(S)]
    /\ tail \in [Clients -> Seq(S)]
    /\ \A c \in Clients : cl[c].saved \in Seq(S)

TailInv ==
    /\ \E S : Streams(S)
    /\ IsTable(conn) /\ IsTable(cl) /\ \A c \in Clients : Shaped(cl[c])
    /\ Noted
    /\ pos \in 0..Len(ibuf)
    /\ serving \in Clients \cup {Nobody}
    /\ serving # Nobody => cl[serving].saved = <<>>
    /\ \A c \in Clients : OwnTail(c)
    /\ IsTable(test) /\ \A c \in Probers : test[c] \in 1..Len(Probes)

\* What is left of a rest, after n more units.
LEMMA RestOfRest ==
    ASSUME NEW S, NEW q \in Seq(S), NEW p \in 0..Len(q), NEW n \in 0..(Len(q) - p)
    PROVE  LET rest == SubSeq(q, p + 1, Len(q))
           IN /\ rest \in Seq(S) /\ Len(rest) = Len(q) - p
              /\ SubSeq(rest, n + 1, Len(rest)) = SubSeq(q, (p + n) + 1, Len(q))
<1>1. PICK l \in Nat : l = Len(q)
    BY LenProperties
<1>2. p \in 0..l /\ n \in 0..(l - p)
    BY <1>1
<1>3. PICK rest : rest = SubSeq(q, p + 1, l)
    OBVIOUS
<1>4. \A k \in 1..l : q[k] \in S
    BY <1>1, ElementOfSeq
<1>5. rest \in Seq(S) /\ Len(rest) = l - p
    <2>1. \A k \in (p + 1)..l : q[k] \in S
        BY <1>2, <1>4
    <2>2. p + 1 \in Int /\ l \in Int
        BY <1>2
    <2>3. SubSeq(q, p + 1, l) \in Seq(S) /\ Len(SubSeq(q, p + 1, l)) = IF p + 1 <= l THEN l - (p + 1) + 1 ELSE 0
        BY <2>1, <2>2, SubSeqProperties
    <2> QED  BY <2>3, <1>2, <1>3
<1>6. SubSeq(rest, n + 1, l - p) = SubSeq(q, (p + n) + 1, l)
    <2>1. CASE n = l - p
        <3>1. n + 1 \in Int /\ l - p \in Int /\ l - p < n + 1
            BY <2>1, <1>2
        <3>2. (p + n) + 1 \in Int /\ l \in Int /\ l < (p + n) + 1
            BY <2>1, <1>2
        <3> QED  BY <3>1, <3>2, SubSeqEmpty
    <2>2. CASE n # l - p
        <3>1. /\ p + 1 \in 1..Len(q) /\ l \in 1..Len(q)
              /\ n + 1 \in 1..(l - (p + 1) + 1) /\ l - p \in 1..(l - (p + 1) + 1)
            BY <2>2, <1>1, <1>2
        <3>2. SubSeq(SubSeq(q, p + 1, l), n + 1, l - p)
                = SubSeq(q, (p + 1) + (n + 1) - 1, (p + 1) + (l - p) - 1)
            BY <3>1, SubSeqOfSubSeq
        <3>3. (p + 1) + (n + 1) - 1 = (p + n) + 1 /\ (p + 1) + (l - p) - 1 = l
            BY <1>2
        <3> QED  BY <3>2, <3>3, <1>3
    <2> QED  BY <2>1, <2>2
<1> QED  BY <1>1, <1>3, <1>5, <1>6

\* A server step is about one client: the others keep what they have.
LEMMA OneClient ==
    ASSUME TailInv, NEW c \in Clients,
           serving \in {c, Nobody}, serving' \in {c, Nobody},
           \A d \in Clients \ {c} :
               conn'[d] = conn[d] /\ cl'[d] = cl[d] /\ tail'[d] = tail[d],
           \E S : Streams(S)',
           IsTable(conn)', IsTable(cl)', Shaped(cl'[c]), Noted',
           flaws.endptr => flaws'.endptr,
           \A d \in Clients \ {c} : d \in flaws.shifted => d \in flaws'.shifted,
           pos' \in 0..Len(ibuf'),
           serving' = c => cl'[c].saved = <<>>,
           OwnTail(c)', test' = test
    PROVE  TailInv'
<1>1. \A d \in Clients \ {c} : OwnTail(d)'
    <2> SUFFICES ASSUME NEW d \in Clients \ {c} PROVE OwnTail(d)'
        OBVIOUS
    <2>1. OwnTail(d)
        BY DEF TailInv
    <2>2. serving # d /\ serving' # d
        BY NobodyAssumption
    <2> QED  BY <2>1, <2>2, Zenon DEF OwnTail, Astray
<1>2. \A d \in Clients : Shaped(cl'[d])
    BY Zenon DEF TailInv
<1>3. serving' \in Clients \cup {Nobody}
    OBVIOUS
<1>4. IsTable(test') /\ \A d \in Probers : test'[d] \in 1..Len(Probes)
    BY DEF TailInv
<1>5. serving' # Nobody => cl'[serving'].saved = <<>>
    OBVIOUS
<1> QED  BY <1>1, <1>2, <1>3, <1>4, <1>5, Zenon DEF TailInv

\* What Update does to the view and the state of the connection.
LEMMA Updated ==
    ASSUME TailInv, NEW c \in Clients, NEW v, Shaped(v), NEW said, NEW closing \in BOOLEAN,
           Update(c, v, said, closing)
    PROVE  /\ IsTable(conn)' /\ IsTable(cl)' /\ Shaped(cl'[c])
           /\ closing => cl'[c].saved = <<>> /\ conn'[c] = "closed"
           /\ ~closing => cl'[c] = v /\ conn'[c] = conn[c]
           /\ \A d \in Clients \ {c} : conn'[d] = conn[d] /\ cl'[d] = cl[d]
<1>1. PICK x : x = IF closing THEN [v EXCEPT !.out = <<>>, !.saved = <<>>] ELSE v
    OBVIOUS
<1>2. PICK y : y = IF closing THEN "closed" ELSE conn[c]
    OBVIOUS
<1>3. cl' = [cl EXCEPT ![c] = x] /\ conn' = [conn EXCEPT ![c] = y]
    BY <1>1, <1>2, Zenon DEF Update
<1>4. Shaped(x) /\ (closing => x.saved = <<>>)
    <2>1. CASE closing
        <3>1. x = [v EXCEPT !.out = <<>>, !.saved = <<>>]
            BY <1>1, <2>1
        <3> QED  BY <3>1, InputChanges, ZenonT(60)
    <2>2. CASE ~closing
        BY <1>1, <2>2
    <2> QED  BY <2>1, <2>2
<1>5. IsTable(conn) /\ IsTable(cl)
    BY DEF TailInv
<1>6. /\ IsTable(cl') /\ cl'[c] = x
      /\ \A d \in Clients \ {c} : cl'[d] = cl[d]
    <2>1. PICK T : cl \in [Clients -> T]
        BY <1>5, Zenon DEF IsTable
    <2>2. cl' \in [Clients -> T \cup {x}]
        BY <1>3, <2>1
    <2>3. cl'[c] = x /\ \A d \in Clients \ {c} : cl'[d] = cl[d]
        BY <1>3, <2>1
    <2> QED  BY <2>2, <2>3, Zenon DEF IsTable
<1>7. /\ IsTable(conn') /\ conn'[c] = y
      /\ \A d \in Clients \ {c} : conn'[d] = conn[d]
    <2>1. PICK T : conn \in [Clients -> T]
        BY <1>5, Zenon DEF IsTable
    <2>2. conn' \in [Clients -> T \cup {y}]
        BY <1>3, <2>1
    <2>3. conn'[c] = y /\ \A d \in Clients \ {c} : conn'[d] = conn[d]
        BY <1>3, <2>1
    <2> QED  BY <2>2, <2>3, Zenon DEF IsTable
<1> QED  BY <1>1, <1>2, <1>4, <1>6, <1>7, Zenon

\* What goes wrong stays on record.
FlawsGrow ==
    /\ Noted'
    /\ flaws.endptr => flaws'.endptr
    /\ \A d \in Clients : d \in flaws.shifted => d \in flaws'.shifted

\* A step without a flaw.
LEMMA FlawsSame ==
    ASSUME TailInv, flaws' = flaws
    PROVE  FlawsGrow
BY Zenon DEF TailInv, FlawsGrow, Noted

\* Note counts failures of create_item and counters read out of a text only.
LEMMA NoteGrows ==
    ASSUME TailInv, NEW r, NEW mem, Note(r, mem)
    PROVE  FlawsGrow
<1>1. PICK T : flaws \in [FlawFields -> T]
    BY Zenon DEF TailInv, Noted
<1>2. PICK x, y : flaws' = [flaws EXCEPT !.memory = x, !.overread = y]
    BY Zenon DEF Note
<1>3. flaws' \in [FlawFields -> T \cup {x, y}]
    BY <1>1, <1>2 DEF FlawFields
<1>4. flaws'.endptr = flaws.endptr /\ flaws'.shifted = flaws.shifted
    BY <1>1, <1>2 DEF FlawFields
<1> QED  BY <1>3, <1>4, Zenon DEF FlawsGrow, Noted

\* The connection ends and control returns to the event loop.
LEMMA Ended ==
    ASSUME TailInv, NEW c \in Clients, serving \in {c, Nobody},
           NEW v, Shaped(v), NEW said, Update(c, v, said, TRUE), Return,
           NEW S, Streams(S), win' = win, tail' \in [Clients -> Seq(S)],
           \A d \in Clients \ {c} : tail'[d] = tail[d],
           FlawsGrow, test' = test
    PROVE  TailInv'
<1>1. /\ IsTable(conn)' /\ IsTable(cl)' /\ Shaped(cl'[c])
      /\ cl'[c].saved = <<>> /\ conn'[c] = "closed"
      /\ \A d \in Clients \ {c} : conn'[d] = conn[d] /\ cl'[d] = cl[d]
    BY Updated
<1>2. serving' = Nobody /\ ibuf' = <<>> /\ pos' = 0
    BY DEF Return
<1>3. <<>> \in Seq(S) /\ Len(<<>>) = 0
    BY EmptySeq
<1>4. Streams(S)'
    <2>1. \A d \in Clients : cl'[d].saved \in Seq(S)
        BY <1>1, <1>3, Zenon DEF Streams
    <2> QED  BY <2>1, <1>2, <1>3, Zenon DEF Streams
<1>5. pos' \in 0..Len(ibuf')
    BY <1>2, <1>3
<1>6. OwnTail(c)'
    <2>1. serving' # c /\ conn'[c] # "up"
        BY <1>1, <1>2, NobodyAssumption
    <2> QED  BY <2>1, Zenon DEF OwnTail
<1>7. serving' \in {c, Nobody} /\ (serving' = c => cl'[c].saved = <<>>)
    BY <1>1, <1>2
<1> QED  BY <1>1, <1>4, <1>5, <1>6, <1>7, OneClient, Zenon DEF FlawsGrow

\* The rest of the buffer is kept for the next call.
LEMMA InputKept ==
    ASSUME TailInv, NEW c \in Clients, serving = c,
           NEW v, Shaped(v), NEW said, NEW closing \in BOOLEAN, Update(c, v, said, closing), Return,
           NEW S, Streams(S), win' = win, tail' = tail, v.saved \in Seq(S),
           FlawsGrow, ~Astray(c)' => v.saved = tail[c], test' = test
    PROVE  TailInv'
<1>1. /\ IsTable(conn)' /\ IsTable(cl)' /\ Shaped(cl'[c])
      /\ closing => cl'[c].saved = <<>> /\ conn'[c] = "closed"
      /\ ~closing => cl'[c] = v /\ conn'[c] = conn[c]
      /\ \A d \in Clients \ {c} : conn'[d] = conn[d] /\ cl'[d] = cl[d]
    BY Updated
<1>2. serving' = Nobody /\ ibuf' = <<>> /\ pos' = 0
    BY DEF Return
<1>3. <<>> \in Seq(S) /\ Len(<<>>) = 0
    BY EmptySeq
<1>4. Streams(S)'
    <2>1. \A d \in Clients : cl'[d].saved \in Seq(S)
        BY <1>1, <1>3, Zenon DEF Streams
    <2> QED  BY <2>1, <1>2, <1>3, Zenon DEF Streams
<1>5. pos' \in 0..Len(ibuf')
    BY <1>2, <1>3
<1>6. OwnTail(c)'
    <2>1. serving' # c
        BY <1>2, NobodyAssumption
    <2>2. CASE closing
        <3>1. conn'[c] # "up"
            BY <2>2, <1>1
        <3> QED  BY <2>1, <3>1, Zenon DEF OwnTail
    <2>3. CASE ~closing
        <3>1. ~Astray(c)' => cl'[c].saved = tail'[c]
            BY <2>3, <1>1
        <3> QED  BY <2>1, <3>1, Zenon DEF OwnTail
    <2> QED  BY <2>2, <2>3
<1>7. serving' \in {c, Nobody} /\ (serving' = c => cl'[c].saved = <<>>)
    BY <1>2, NobodyAssumption
<1> QED  BY <1>1, <1>4, <1>5, <1>6, <1>7, OneClient, Zenon DEF FlawsGrow

\* A command of n units is executed and the connection goes on.
LEMMA Executed ==
    ASSUME TailInv, NEW c \in Clients, serving = c,
           NEW v, Shaped(v), v.saved = <<>>, NEW said, Update(c, v, said, FALSE),
           NEW S, Streams(S), NEW n \in 1..Len(Remaining),
           pos' = pos + n, tail' = [tail EXCEPT ![c] = SubSeq(@, n + 1, Len(@))],
           UNCHANGED <<win, serving, ibuf, test>>, FlawsGrow
    PROVE  TailInv'
<1>1. /\ IsTable(conn)' /\ IsTable(cl)' /\ Shaped(cl'[c])
      /\ cl'[c] = v
      /\ \A d \in Clients \ {c} : conn'[d] = conn[d] /\ cl'[d] = cl[d]
    BY Updated
<1>2. ibuf \in Seq(S) /\ pos \in 0..Len(ibuf)
    BY DEF Streams, TailInv
<1>3. Len(ibuf) \in Nat
    BY <1>2, LenProperties
<1>4. Len(Remaining) = Len(ibuf) - pos /\ Remaining \in Seq(S)
    <2>1. 0 \in 0..(Len(ibuf) - pos)
        BY <1>2, <1>3
    <2> QED  BY <1>2, <2>1, RestOfRest DEF Remaining
<1>5. n \in 0..(Len(ibuf) - pos)
    BY <1>2, <1>3, <1>4
<1>6. SubSeq(Remaining, n + 1, Len(Remaining)) = SubSeq(ibuf, (pos + n) + 1, Len(ibuf))
    BY <1>2, <1>5, RestOfRest DEF Remaining
<1>7. Remaining' = SubSeq(Remaining, n + 1, Len(Remaining))
    <2>1. Remaining' = SubSeq(ibuf, (pos + n) + 1, Len(ibuf))
        BY Zenon DEF Remaining
    <2> QED  BY <2>1, <1>6
<1>8. pos' \in 0..Len(ibuf')
    BY <1>2, <1>3, <1>5
<1>9. /\ tail' \in [Clients -> Seq(S)]
      /\ tail'[c] = SubSeq(tail[c], n + 1, Len(tail[c]))
      /\ \A d \in Clients \ {c} : tail'[d] = tail[d]
    <2>1. tail \in [Clients -> Seq(S)] /\ tail[c] \in Seq(S)
        BY DEF Streams
    <2>2. SubSeq(tail[c], n + 1, Len(tail[c])) \in Seq(S)
        <3>1. Len(tail[c]) \in Nat /\ \A i \in 1..Len(tail[c]) : tail[c][i] \in S
            BY <2>1, LenProperties, ElementOfSeq
        <3>2. n + 1 \in Int /\ Len(tail[c]) \in Int /\ \A i \in (n + 1)..Len(tail[c]) : tail[c][i] \in S
            BY <3>1, <1>5, <1>3, <1>2
        <3> QED  BY <3>2, SubSeqProperties
    <2> QED  BY <2>1, <2>2
<1>10. OwnTail(c)'
    <2>1. ASSUME ~Astray(c)' PROVE tail'[c] = Remaining'
        <3>1. ~Astray(c)
            BY <2>1 DEF FlawsGrow, Astray
        <3>2. tail[c] = Remaining
            BY <3>1, Zenon DEF TailInv, OwnTail
        <3> QED  BY <3>2, <1>7, <1>9
    <2> QED  BY <2>1, Zenon DEF OwnTail
<1>11. Streams(S)'
    <2>1. \A d \in Clients : cl'[d].saved \in Seq(S)
        <3>1. <<>> \in Seq(S)
            BY EmptySeq
        <3> QED  BY <1>1, <3>1, Zenon DEF Streams
    <2> QED  BY <2>1, <1>9, Zenon DEF Streams
<1> QED  BY <1>1, <1>8, <1>9, <1>10, <1>11, OneClient, Zenon DEF FlawsGrow

-----------------------------------------------------------------------------
(***************************************************************************)
(* The server's steps, one by one.                                         *)
(***************************************************************************)
\* accept_handler: a new connection starts with nothing.
LEMMA AcceptTail ==
    ASSUME TailInv, NEW c \in Clients, Accept(c), test' = test
    PROVE  TailInv'
<1>1. PICK S : Streams(S)
    BY Zenon DEF TailInv
<1>2. PICK x : x = create_client
    OBVIOUS
<1>3. Shaped(x) /\ x.saved = <<>>
    <2>1. x = [work |-> "determine", mute |-> FALSE, saved |-> <<>>, out |-> <<>>, w |-> <<>>,
             mixed |-> FALSE]
        BY <1>2, Zenon DEF create_client
    <2> QED  BY <2>1, RecordShaped
<1>4. /\ IsTable(cl') /\ cl'[c] = x
      /\ \A d \in Clients \ {c} : cl'[d] = cl[d]
    <2>1. PICK T : cl \in [Clients -> T]
        BY Zenon DEF TailInv, IsTable
    <2>2. cl' = [cl EXCEPT ![c] = x]
        BY <1>2, Zenon DEF Accept
    <2>3. cl' \in [Clients -> T \cup {x}]
        BY <2>1, <2>2
    <2>4. cl'[c] = x /\ \A d \in Clients \ {c} : cl'[d] = cl[d]
        BY <2>1, <2>2
    <2> QED  BY <2>3, <2>4, Zenon DEF IsTable
<1>5. /\ IsTable(conn')
      /\ \A d \in Clients \ {c} : conn'[d] = conn[d]
    <2>1. PICK T : conn \in [Clients -> T]
        BY Zenon DEF TailInv, IsTable
    <2>2. conn' = [conn EXCEPT ![c] = "up"]
        BY Zenon DEF Accept
    <2>3. conn' \in [Clients -> T \cup {"up"}]
        BY <2>1, <2>2
    <2>4. \A d \in Clients \ {c} : conn'[d] = conn[d]
        BY <2>1, <2>2
    <2> QED  BY <2>3, <2>4, Zenon DEF IsTable
<1>6. /\ tail' \in [Clients -> Seq(S)] /\ tail'[c] = <<>>
      /\ \A d \in Clients \ {c} : tail'[d] = tail[d]
    <2>1. tail \in [Clients -> Seq(S)] /\ <<>> \in Seq(S)
        BY <1>1, EmptySeq DEF Streams
    <2>2. tail' = [tail EXCEPT ![c] = <<>>]
        BY Zenon DEF Accept
    <2> QED  BY <2>1, <2>2
<1>7. /\ Noted' /\ (flaws.endptr => flaws'.endptr)
      /\ \A d \in Clients \ {c} : d \in flaws.shifted => d \in flaws'.shifted
    <2>1. PICK T : flaws \in [FlawFields -> T]
        BY Zenon DEF TailInv, Noted
    <2>2. PICK x2 : flaws' = [flaws EXCEPT !.shifted = x2] /\ x2 = flaws.shifted \ {c}
        BY Zenon DEF Accept
    <2>3. flaws' \in [FlawFields -> T \cup {x2}]
        BY <2>1, <2>2 DEF FlawFields
    <2>4. flaws'.endptr = flaws.endptr /\ flaws'.shifted = x2
        BY <2>1, <2>2 DEF FlawFields
    <2> QED  BY <2>2, <2>3, <2>4, Zenon DEF Noted
<1>8. serving = Nobody /\ serving' = Nobody /\ serving' # c
    BY NobodyAssumption DEF Accept
<1>9. /\ ibuf' = ibuf /\ pos' = pos /\ win' = win
    BY Zenon DEF Accept
<1>10. OwnTail(c)'
    BY <1>3, <1>4, <1>6, <1>8, Zenon DEF OwnTail
<1>11. Streams(S)'
    <2>1. \A d \in Clients : cl'[d].saved \in Seq(S)
        <3>1. <<>> \in Seq(S)
            BY EmptySeq
        <3> QED  BY <3>1, <1>1, <1>3, <1>4, Zenon DEF Streams
    <2> QED  BY <2>1, <1>1, <1>6, <1>9, Zenon DEF Streams
<1>12. pos' \in 0..Len(ibuf')
    BY <1>9 DEF TailInv
<1> QED  BY <1>3, <1>4, <1>5, <1>6, <1>7, <1>8, <1>10, <1>11, <1>12, OneClient, Zenon

\* recv: what was saved goes in front of what arrives.
LEMMA RecvTail ==
    ASSUME TailInv, NEW c \in Clients, Recv(c), test' = test
    PROVE  TailInv'
<1>1. PICK S : Streams(S)
    BY Zenon DEF TailInv
<1>2. PICK n \in Segment(c) :
        /\ win' = [win EXCEPT ![c] = SubSeq(@, n + 1, Len(@))]
        /\ tail' = [tail EXCEPT ![c] = @ \o SubSeq(win[c], 1, n)]
        /\ ibuf' = cl[c].saved \o SubSeq(win[c], 1, n)
        /\ pos' = 0
        /\ cl' = [cl EXCEPT ![c] =
                     [determine_protocol(cl[c], (cl[c].saved \o SubSeq(win[c], 1, n))[1])
                         EXCEPT !.saved = <<>>]]
    BY Zenon DEF Recv
<1>3. PICK q : q = win[c]
    OBVIOUS
<1>4. q \in Seq(S) /\ Len(q) \in Nat /\ n \in 1..Len(q) /\ \A i \in 1..Len(q) : q[i] \in S
    BY <1>1, <1>3, LenProperties, ElementOfSeq DEF Streams, Segment
<1>5. PICK got : got = SubSeq(q, 1, n)
    OBVIOUS
<1>6. got \in Seq(S)
    <2>1. 1 \in Int /\ n \in Int /\ \A i \in 1..n : q[i] \in S
        BY <1>4
    <2> QED  BY <1>5, <2>1, SubSeqProperties
<1>7. PICK left2 : left2 = SubSeq(q, n + 1, Len(q))
    OBVIOUS
<1>8. left2 \in Seq(S)
    <2>1. n + 1 \in Int /\ Len(q) \in Int /\ \A i \in (n + 1)..Len(q) : q[i] \in S
        BY <1>4
    <2> QED  BY <1>7, <2>1, SubSeqProperties
<1>9. PICK saved : saved = cl[c].saved /\ saved \in Seq(S)
    BY <1>1 DEF Streams
<1>10. saved \o got \in Seq(S)
    BY <1>6, <1>9, ConcatProperties
<1>11. /\ win' \in [Clients -> Seq(S)]
    <2>1. win' = [win EXCEPT ![c] = left2]
        BY <1>2, <1>3, <1>7
    <2> QED  BY <1>1, <1>8, <2>1 DEF Streams
<1>12. /\ tail' \in [Clients -> Seq(S)] /\ tail'[c] = tail[c] \o got
       /\ \A d \in Clients \ {c} : tail'[d] = tail[d]
    <2>1. tail \in [Clients -> Seq(S)] /\ tail[c] \in Seq(S)
        BY <1>1 DEF Streams
    <2>2. tail[c] \o got \in Seq(S)
        BY <1>6, <2>1, ConcatProperties
    <2>3. PICK t : t = tail[c] \o got
        OBVIOUS
    <2>4. tail' = [tail EXCEPT ![c] = t]
        BY <1>2, <1>3, <1>5, <2>3
    <2> QED  BY <2>1, <2>2, <2>3, <2>4
<1>13. ibuf' = saved \o got /\ ibuf' \in Seq(S) /\ Len(ibuf') \in Nat /\ pos' = 0
    BY <1>2, <1>3, <1>5, <1>9, <1>10, LenProperties
<1>14. Remaining' = ibuf'
    <2>1. Remaining' = SubSeq(ibuf', 0 + 1, Len(ibuf'))
        BY <1>13, Zenon DEF Remaining
    <2>2. SubSeq(ibuf', 1, Len(ibuf')) = ibuf'
        BY <1>13, SubSeqFull
    <2> QED  BY <2>1, <2>2
<1>15. PICK view : /\ view = [determine_protocol(cl[c], (saved \o got)[1]) EXCEPT !.saved = <<>>]
                   /\ Shaped(view) /\ view.saved = <<>>
    <2>1. Shaped(cl[c])
        BY Zenon DEF TailInv
    <2>2. PICK v : v = determine_protocol(cl[c], (saved \o got)[1])
        OBVIOUS
    <2>3. v = cl[c] \/ \E x : v = [cl[c] EXCEPT !.work = x]
        BY <2>2, Zenon DEF determine_protocol
    <2>4. Shaped(v)
        BY <2>1, <2>3, InputChanges
    <2>5. PICK view : view = [v EXCEPT !.saved = <<>>]
        OBVIOUS
    <2>6. Shaped(view) /\ view.saved = <<>>
        BY <2>4, <2>5, InputChanges, ZenonT(60)
    <2> QED  BY <2>2, <2>5, <2>6
<1>16. /\ IsTable(cl') /\ cl'[c] = view
       /\ \A d \in Clients \ {c} : cl'[d] = cl[d]
    <2>1. PICK T : cl \in [Clients -> T]
        BY Zenon DEF TailInv, IsTable
    <2>2. cl' = [cl EXCEPT ![c] = view]
        BY <1>2, <1>3, <1>5, <1>9, <1>15
    <2>3. cl' \in [Clients -> T \cup {view}]
        BY <2>1, <2>2
    <2>4. cl'[c] = view /\ \A d \in Clients \ {c} : cl'[d] = cl[d]
        BY <2>1, <2>2
    <2> QED  BY <2>3, <2>4, Zenon DEF IsTable
<1>17. /\ serving \in {c, Nobody} /\ serving' = c /\ conn' = conn /\ flaws' = flaws
       /\ ibuf = <<>> /\ conn[c] = "up"
    BY DEF Recv, Driven
<1>18. OwnTail(c)'
    <2>1. ASSUME ~Astray(c)' PROVE tail'[c] = Remaining'
        <3>1. ~Astray(c)
            BY <2>1, <1>17 DEF Astray
        <3>2. tail[c] = saved
            <4>1. CASE serving = c
                <5>1. tail[c] = SubSeq(<<>>, pos + 1, 0)
                    BY <3>1, <4>1, <1>17, EmptySeq DEF TailInv, OwnTail, Remaining
                <5>2. pos \in Nat
                    BY <1>17, EmptySeq DEF TailInv
                <5>3. tail[c] = <<>>
                    BY <5>1, <5>2, SubSeqEmpty
                <5>4. saved = <<>>
                    BY <4>1, <1>9, NobodyAssumption DEF TailInv
                <5> QED  BY <5>3, <5>4
            <4>2. CASE serving # c
                BY <3>1, <4>2, <1>9, <1>17 DEF TailInv, OwnTail
            <4> QED  BY <4>1, <4>2
        <3> QED  BY <3>2, <1>12, <1>13, <1>14
    <2> QED  BY <2>1, <1>17, Zenon DEF OwnTail
<1>19. Streams(S)'
    <2>1. \A d \in Clients : cl'[d].saved \in Seq(S)
        <3>1. <<>> \in Seq(S)
            BY EmptySeq
        <3> QED  BY <1>1, <3>1, <1>15, <1>16, Zenon DEF Streams
    <2> QED  BY <2>1, <1>11, <1>12, <1>13, Zenon DEF Streams
<1>20. pos' \in 0..Len(ibuf')
    BY <1>13
<1>21. IsTable(conn') /\ FlawsGrow
    BY <1>17, FlawsSame, Zenon DEF TailInv
<1> QED  BY <1>12, <1>15, <1>16, <1>17, <1>18, <1>19, <1>20, <1>21, OneClient, Zenon DEF FlawsGrow

\* The buffer and what is left of it, while a client is served.
LEMMA Serving ==
    ASSUME TailInv, NEW c \in Clients, serving = c, NEW S, Streams(S)
    PROVE  /\ serving \in {c, Nobody} /\ Shaped(cl[c]) /\ cl[c].saved = <<>>
           /\ tail \in [Clients -> Seq(S)] /\ <<>> \in Seq(S)
           /\ Remaining \in Seq(S) /\ Len(Remaining) \in Nat
           /\ ibuf \in Seq(S) /\ Len(ibuf) \in Nat /\ Len(Remaining) = Len(ibuf) - pos
           /\ ~Astray(c) => tail[c] = Remaining
<1>1. ibuf \in Seq(S) /\ Len(ibuf) \in Nat /\ pos \in 0..Len(ibuf)
    BY LenProperties DEF Streams, TailInv
<1>2. 0 \in 0..(Len(ibuf) - pos)
    BY <1>1
<1>3. Remaining \in Seq(S) /\ Len(Remaining) = Len(ibuf) - pos
    BY <1>1, <1>2, RestOfRest DEF Remaining
<1>4. Len(Remaining) \in Nat
    BY <1>3, LenProperties
<1>5. cl[c].saved = <<>> /\ Shaped(cl[c]) /\ (~Astray(c) => tail[c] = Remaining)
    BY NobodyAssumption, Zenon DEF TailInv, OwnTail
<1>6. <<>> \in Seq(S)
    BY EmptySeq
<1> QED  BY <1>1, <1>3, <1>4, <1>5, <1>6, Zenon DEF Streams

\* The steps that end the connection.
LEMMA EndsTail ==
    ASSUME TailInv, NEW c \in Clients, test' = test,
           \/ Unsupported(c) \/ RecvEof(c) \/ AsciiBadKey(c) \/ AsciiQuit(c) \/ BinaryBadMagic(c)
           \/ SendFails(c)
    PROVE  TailInv'
<1>1. PICK S : Streams(S)
    BY Zenon DEF TailInv
<1>2. Shaped(cl[c])
    BY DEF TailInv
<1>3. PICK v, said : Shaped(v) /\ Update(c, v, said, TRUE)
    <2>1. CASE Unsupported(c)
        <3>1. PICK x : x = spool_output(cl[c], Lines(<<"ERROR">>))
            OBVIOUS
        <3>2. Shaped(x)
            BY <3>1, <1>2, SpoolInput, Zenon DEF SameInput
        <3>3. Shaped(drain_output(x))
            BY <3>2, DrainInput, Zenon DEF SameInput
        <3> QED  BY <2>1, <3>1, <3>3, Zenon DEF Unsupported
    <2>2. CASE RecvEof(c)
        <3>1. Shaped(drain_output(cl[c]))
            BY <1>2, DrainInput, Zenon DEF SameInput
        <3> QED  BY <2>2, <3>1, Zenon DEF RecvEof
    <2>3. CASE AsciiBadKey(c)
        <3>1. PICK x : x = [cl[c] EXCEPT !.mute = NextRequest.quiet]
            OBVIOUS
        <3>2. Shaped(x)
            BY <3>1, <1>2, OutputChanges DEF SameInput
        <3>3. Shaped(SpoolEach(x, Lines(<<"ERROR">>)))
            BY <3>2, SpoolEachInput, Zenon DEF SameInput
        <3> QED  BY <2>3, <3>1, <3>3, Zenon DEF AsciiBadKey
    <2>4. CASE AsciiQuit(c)
        <3>1. PICK x : x = [cl[c] EXCEPT !.mute = FALSE]
            OBVIOUS
        <3>2. Shaped(x)
            BY <3>1, <1>2, OutputChanges DEF SameInput
        <3> QED  BY <2>4, <3>1, <3>2, Zenon DEF AsciiQuit
    <2>5. CASE BinaryBadMagic(c)
        BY <2>5, <1>2, Zenon DEF BinaryBadMagic
    <2>6. CASE SendFails(c)
        <3>1. PICK x, y : y = SubSeq(cl[c].w, 1, NetCap) /\ x = [cl[c] EXCEPT !.w = y]
            OBVIOUS
        <3>2. Shaped(x)
            BY <3>1, <1>2, OutputChanges DEF SameInput
        <3> QED  BY <2>6, <3>1, <3>2, Zenon DEF SendFails
    <2> QED  BY <2>1, <2>2, <2>3, <2>4, <2>5, <2>6
<1>4. serving \in {c, Nobody} /\ Return /\ win' = win /\ tail' = tail /\ flaws' = flaws
    BY Zenon DEF Unsupported, RecvEof, AsciiBadKey, AsciiQuit, BinaryBadMagic, SendFails,
                 Driven, AsciiTurn, BinaryTurn
<1>5. FlawsGrow
    BY <1>4, FlawsSame
<1>6. tail' \in [Clients -> Seq(S)] /\ \A d \in Clients \ {c} : tail'[d] = tail[d]
    BY <1>1, <1>4 DEF Streams
<1> QED  BY <1>1, <1>3, <1>4, <1>5, <1>6, Ended, Zenon

\* A view that only drains.
LEMMA Drained ==
    ASSUME NEW v, Shaped(v)
    PROVE  Shaped(drain_output(v)) /\ drain_output(v).saved = v.saved
BY DrainInput, Zenon DEF SameInput

\* Save puts some units aside and returns.
LEMMA SaveTail ==
    ASSUME TailInv, NEW c \in Clients, serving = c, NEW S, Streams(S),
           NEW units \in Seq(S), Save(c, units), FlawsGrow, test' = test,
           ~Astray(c)' => units = tail[c]
    PROVE  TailInv'
<1>1. PICK x : x = [cl[c] EXCEPT !.saved = units]
    OBVIOUS
<1>2. Shaped(x) /\ x.saved = units
    <2>1. PICK u : u = cl[c]
        OBVIOUS
    <2>2. Shaped(u)
        BY <2>1 DEF TailInv
    <2>3. x = [u EXCEPT !.saved = units]
        BY <1>1, <2>1
    <2>4. PICK T : u \in [Fields -> T]
        BY <2>2, Zenon DEF Shaped
    <2>5. x \in [Fields -> T \cup {units}] /\ x.saved = units
        BY <2>3, <2>4 DEF Fields
    <2> QED  BY <2>5, Zenon DEF Shaped
<1>3. PICK v : v = drain_output(x)
    OBVIOUS
<1>4. Shaped(v) /\ v.saved = units
    BY <1>2, <1>3, Drained, Zenon
<1>5. PICK fail \in BOOLEAN : Update(c, v, <<>>, fail)
    BY <1>1, <1>3, Zenon DEF Save, Fail
<1>6. Return /\ win' = win /\ tail' = tail
    BY Zenon DEF Save
<1>7. v.saved \in Seq(S) /\ (~Astray(c)' => v.saved = tail[c])
    BY <1>4
<1> QED  BY <1>4, <1>5, <1>6, <1>7, InputKept, Zenon

\* recv would block: nothing was left over.
LEMMA RecvBlocksTail ==
    ASSUME TailInv, NEW c \in Clients, RecvBlocks(c), test' = test
    PROVE  TailInv'
<1>1. PICK S : Streams(S)
    BY Zenon DEF TailInv
<1>2. serving = c /\ ibuf = <<>> /\ Return /\ win' = win /\ tail' = tail /\ flaws' = flaws
    BY Zenon DEF RecvBlocks
<1>3. /\ Shaped(cl[c]) /\ cl[c].saved = <<>> /\ <<>> \in Seq(S)
      /\ Len(Remaining) = Len(ibuf) - pos
      /\ ~Astray(c) => tail[c] = Remaining
    BY <1>1, <1>2, Serving
<1>4. PICK v : v = drain_output(cl[c])
    OBVIOUS
<1>5. Shaped(v) /\ v.saved = <<>>
    BY <1>3, <1>4, Drained, Zenon
<1>6. PICK closing \in BOOLEAN : closing = FALSE
    OBVIOUS
<1>7. Update(c, v, <<>>, closing)
    BY <1>4, <1>6, Zenon DEF RecvBlocks
<1>8. FlawsGrow
    BY <1>2, FlawsSame
<1>9. ~Astray(c)' => v.saved = tail[c]
    <2>1. Remaining = SubSeq(<<>>, pos + 1, 0)
        BY <1>2, EmptySeq DEF Remaining
    <2>2. pos \in 0..0
        BY <1>2, EmptySeq DEF TailInv
    <2>3. Remaining = <<>>
        BY <2>1, <2>2, SubSeqEmpty
    <2>4. Astray(c)' = Astray(c)
        BY <1>2, Zenon DEF Astray
    <2> QED  BY <2>3, <2>4, <1>3, <1>5
<1> QED  BY <1>1, <1>2, <1>3, <1>5, <1>7, <1>8, <1>9, InputKept, Zenon

\* Everything is consumed: the buffer is empty and so is the tail.
LEMMA ConsumedTail ==
    ASSUME TailInv, NEW c \in Clients, Consumed(c), test' = test
    PROVE  TailInv'
<1>1. PICK S : Streams(S)
    BY Zenon DEF TailInv
<1>2. /\ serving = c /\ serving' = serving /\ Remaining = <<>> /\ ibuf' = <<>> /\ pos' = 0
      /\ win' = win /\ tail' = tail /\ flaws' = flaws /\ cl' = cl /\ conn' = conn
    BY Zenon DEF Consumed
<1>3. /\ Shaped(cl[c]) /\ cl[c].saved = <<>> /\ <<>> \in Seq(S)
      /\ ~Astray(c) => tail[c] = Remaining
    BY <1>1, <1>2, Serving
<1>4. Remaining' = <<>>
    <2>1. Remaining' = SubSeq(<<>>, 0 + 1, 0)
        BY <1>2, EmptySeq DEF Remaining
    <2>2. SubSeq(<<>>, 1, 0) = <<>>
        BY SubSeqEmpty
    <2> QED  BY <2>1, <2>2
<1>5. OwnTail(c)'
    <2>1. Astray(c)' = Astray(c)
        BY <1>2, Zenon DEF Astray
    <2> QED  BY <2>1, <1>2, <1>3, <1>4, Zenon DEF OwnTail
<1>6. Streams(S)'
    BY <1>1, <1>2, <1>3, Zenon DEF Streams
<1>7. pos' \in 0..Len(ibuf')
    BY <1>2, EmptySeq
<1>8. FlawsGrow
    BY <1>2, FlawsSame
<1>9. IsTable(conn') /\ IsTable(cl') /\ Shaped(cl'[c]) /\ cl'[c].saved = <<>>
    BY <1>2, <1>3, Zenon DEF TailInv
<1>10. serving \in {c, Nobody} /\ serving' \in {c, Nobody}
    BY <1>2
<1> QED  BY <1>2, <1>5, <1>6, <1>7, <1>8, <1>9, <1>10, OneClient, Zenon DEF FlawsGrow

\* An ASCII line without its end, or a binary packet behind another one.
LEMMA PartialTail ==
    ASSUME TailInv, NEW c \in Clients, test' = test, AsciiPartialLine(c) \/ BinaryPartial(c)
    PROVE  TailInv'
<1>1. PICK S : Streams(S)
    BY Zenon DEF TailInv
<1>2. serving = c /\ Save(c, Remaining) /\ flaws' = flaws
    BY Zenon DEF AsciiPartialLine, BinaryPartial, AsciiTurn, BinaryTurn
<1>3. Remaining \in Seq(S) /\ (~Astray(c) => tail[c] = Remaining)
    BY <1>1, <1>2, Serving
<1>4. FlawsGrow
    BY <1>2, FlawsSame
<1>5. Astray(c)' = Astray(c)
    BY <1>2, Zenon DEF Astray
<1> QED  BY <1>1, <1>2, <1>3, <1>4, <1>5, SaveTail, Zenon

\* A storage command without its data: what is saved is the rest only when the
\* buffer begins with it.
LEMMA PartialDataTail ==
    ASSUME TailInv, NEW c \in Clients, test' = test, AsciiPartialData(c)
    PROVE  TailInv'
<1>1. PICK S : Streams(S)
    BY Zenon DEF TailInv
<1>2. /\ serving = c /\ Save(c, Unfinished)
      /\ flaws' = [flaws EXCEPT !.shifted = IF pos > 0 THEN @ \cup {c} ELSE @,
                                !.reread = IF pos > 0 THEN @ \cup {c} ELSE @]
    BY Zenon DEF AsciiPartialData, AsciiTurn
<1>3. /\ Remaining \in Seq(S) /\ ibuf \in Seq(S) /\ Len(ibuf) \in Nat
      /\ Len(Remaining) = Len(ibuf) - pos
      /\ ~Astray(c) => tail[c] = Remaining
    BY <1>1, <1>2, Serving
<1>4. pos \in 0..Len(ibuf)
    BY DEF TailInv
<1>5. PICK x : x = IF pos > 0 THEN flaws.shifted \cup {c} ELSE flaws.shifted
    OBVIOUS
<1>6. Noted' /\ flaws'.endptr = flaws.endptr /\ flaws'.shifted = x
    <2>1. PICK T : flaws \in [FlawFields -> T]
        BY Zenon DEF TailInv, Noted
    <2> DEFINE y == IF pos > 0 THEN flaws.reread \cup {c} ELSE flaws.reread
    <2>2. flaws' = [flaws EXCEPT !.shifted = x, !.reread = y]
        BY <1>2, <1>5, <2>1 DEF FlawFields
    <2> HIDE DEF y
    <2>3. flaws' \in [FlawFields -> T \cup {x, y}]
        BY <2>1, <2>2 DEF FlawFields
    <2>4. flaws'.endptr = flaws.endptr /\ flaws'.shifted = x
        BY <2>1, <2>2 DEF FlawFields
    <2> QED  BY <2>3, <2>4, Zenon DEF Noted
<1>7. FlawsGrow
    <2>1. \A d \in Clients : d \in flaws.shifted => d \in x
        BY <1>5
    <2> QED  BY <2>1, <1>6, Zenon DEF FlawsGrow
<1> DEFINE T == S \cup {Junk}
<1>8. Unfinished \in Seq(T)
    <2>1. PICK l \in Nat : l = Len(Remaining)
        BY <1>3, LenProperties
    <2>2. \A i \in 1..l : ibuf[i] \in S
        BY <2>1, <1>3, <1>4, ElementOfSeq
    <2>3. \A i \in 1..l : (IF i > pos THEN ibuf[i] ELSE Tokenized(ibuf[i])) \in T
        BY <2>2, Zenon DEF Tokenized
    <2>4. PICK g : g = [i \in 1..l |-> IF i > pos THEN ibuf[i] ELSE Tokenized(ibuf[i])]
        OBVIOUS
    <2>5. g \in [1..l -> T]
        BY <2>3, <2>4, Zenon
    <2>6. g \in Seq(T)
        BY <2>1, <2>5, SeqDef
    <2> QED  BY <2>1, <2>4, <2>6, Zenon DEF Unfinished
<1>10. Streams(T)
    <2>1. S \subseteq T
        OBVIOUS
    <2>2. \A q \in Seq(S) : q \in Seq(T)
        BY <2>1, SeqMonotonic, Zenon
    <2>3. win \in [Clients -> Seq(T)] /\ tail \in [Clients -> Seq(T)]
        BY <1>1, <2>2 DEF Streams
    <2> QED  BY <1>1, <2>2, <2>3, Zenon DEF Streams
<1>9. ~Astray(c)' => Unfinished = tail[c]
    <2> SUFFICES ASSUME ~Astray(c)' PROVE Unfinished = tail[c]
        OBVIOUS
    <2>1. c \notin x /\ ~flaws.endptr
        BY <1>6, Zenon DEF Astray
    <2>2. ~ (pos > 0) /\ c \notin flaws.shifted
        BY <2>1, <1>5
    <2>3. pos = 0
        BY <2>2, <1>3, <1>4
    <2>4. Remaining = SubSeq(ibuf, 1, Len(ibuf)) /\ Unfinished = SubSeq(ibuf, 1, Len(ibuf))
        <3>1. PICK l \in Nat : l = Len(ibuf)
            BY <1>3
        <3>2. Remaining = SubSeq(ibuf, 1, l) /\ Len(Remaining) = l
            BY <2>3, <1>3, <3>1 DEF Remaining
        <3>3. Unfinished = [i \in 1..l |-> IF i > 0 THEN ibuf[i] ELSE Tokenized(ibuf[i])]
            BY <2>3, <3>2, Zenon DEF Unfinished
        <3>4. [i \in 1..l |-> IF i > 0 THEN ibuf[i] ELSE Tokenized(ibuf[i])] = [i \in 1..l |-> ibuf[i]]
            OBVIOUS
        <3>5. SubSeq(ibuf, 1, l) = [i \in 1..l |-> ibuf[i]]
            BY <1>3, <3>1
        <3> QED  BY <3>1, <3>2, <3>3, <3>4, <3>5
    <2>5. tail[c] = Remaining
        BY <2>1, <2>2, <1>3, Zenon DEF Astray
    <2> QED  BY <2>4, <2>5
<1> QED  BY <1>10, <1>2, <1>7, <1>8, <1>9, SaveTail, Zenon

\* The uninitialised endptr: from then on nothing is claimed.
LEMMA PartialFirstTail ==
    ASSUME TailInv, NEW c \in Clients, test' = test, BinaryPartialFirst(c)
    PROVE  TailInv'
<1>1. PICK S : Streams(S)
    BY Zenon DEF TailInv
<1>2. serving = c
    BY DEF BinaryPartialFirst, BinaryTurn
<1>3. ASSUME NEW y, flaws' = [flaws EXCEPT !.endptr = TRUE, !.dead = y] \/ flaws' = [flaws EXCEPT !.endptr = TRUE]
      PROVE  FlawsGrow /\ flaws'.endptr
    <2>1. PICK T : flaws \in [FlawFields -> T]
        BY Zenon DEF TailInv, Noted
    <2>2. \A x : /\ flaws' = [flaws EXCEPT !.endptr = x, !.dead = y] \/ flaws' = [flaws EXCEPT !.endptr = x]
                 => /\ flaws' \in [FlawFields -> T \cup {x, y}]
                    /\ flaws'.endptr = x /\ flaws'.shifted = flaws.shifted
        BY <2>1 DEF FlawFields
    <2>3. /\ flaws' \in [FlawFields -> T \cup {TRUE, y}]
          /\ flaws'.endptr = TRUE /\ flaws'.shifted = flaws.shifted
        BY <1>3, <2>2
    <2> QED  BY <2>3, Zenon DEF FlawsGrow, Noted
<1>4. CASE Save(c, <<Junk>>) /\ flaws' = [flaws EXCEPT !.endptr = TRUE]
    <2>1. FlawsGrow /\ flaws'.endptr
        BY <1>3, <1>4
    <2> DEFINE T == S \cup {Junk}
    <2>2. Streams(T)
        <3>1. S \subseteq T
            OBVIOUS
        <3>2. \A q \in Seq(S) : q \in Seq(T)
            BY <3>1, SeqMonotonic, Zenon
        <3>3. win \in [Clients -> Seq(T)] /\ tail \in [Clients -> Seq(T)]
            BY <1>1, <3>2 DEF Streams
        <3> QED  BY <1>1, <3>2, <3>3, Zenon DEF Streams
    <2>3. <<Junk>> \in Seq(T)
        OBVIOUS
    <2>4. Astray(c)'
        BY <2>1, Zenon DEF Astray
    <2> QED  BY <1>2, <1>4, <2>1, <2>2, <2>3, <2>4, SaveTail, Zenon
<1>5. CASE /\ flaws' = [flaws EXCEPT !.endptr = TRUE, !.dead = TRUE]
           /\ Return
           /\ UNCHANGED <<server, store, conn, eof, win, cl, tail, owed>>
    <2>1. FlawsGrow /\ flaws'.endptr
        BY <1>3, <1>5
    <2>2. serving' = Nobody /\ ibuf' = <<>> /\ pos' = 0
        BY <1>5 DEF Return
    <2>3. <<>> \in Seq(S) /\ Len(<<>>) = 0
        BY EmptySeq
    <2>4. win' = win /\ tail' = tail /\ cl' = cl /\ conn' = conn
        BY <1>5
    <2>5. Streams(S)'
        BY <1>1, <2>2, <2>3, <2>4, Zenon DEF Streams
    <2>6. OwnTail(c)'
        BY <2>1, Zenon DEF OwnTail, Astray
    <2>7. pos' \in 0..Len(ibuf')
        BY <2>2, <2>3
    <2>8. serving \in {c, Nobody} /\ serving' \in {c, Nobody} /\ serving' # c
        BY <1>2, <2>2, NobodyAssumption
    <2>9. IsTable(conn') /\ IsTable(cl') /\ Shaped(cl'[c])
        BY <2>4, Zenon DEF TailInv
    <2> QED  BY <2>1, <2>4, <2>5, <2>6, <2>7, <2>8, <2>9, OneClient, Zenon DEF FlawsGrow
<1> QED  BY <1>4, <1>5, Zenon DEF BinaryPartialFirst

\* One ASCII command, whatever it answers.
LEMMA PerformTail ==
    ASSUME TailInv, NEW c \in Clients, serving = c, NEW cmd, NEW n \in 1..Len(Remaining),
           Perform(c, cmd, n), FlawsGrow, test' = test
    PROVE  TailInv'
<1>1. PICK S : Streams(S)
    BY Zenon DEF TailInv
<1>2. Shaped(cl[c]) /\ cl[c].saved = <<>>
    BY <1>1, Serving
<1>3. PICK m : m = [cl[c] EXCEPT !.mute = cmd.mute]
    OBVIOUS
<1>4. Shaped(m) /\ m.saved = <<>>
    <2>1. SameInput([cl[c] EXCEPT !.mute = cmd.mute], cl[c])
        BY <1>2, OutputChanges
    <2> QED  BY <2>1, <1>2, <1>3, Zenon DEF SameInput
<1>5. PICK v : v = SpoolEach(m, cmd.lines)
    OBVIOUS
<1>6. Shaped(v) /\ v.saved = <<>>
    <2>1. SameInput(SpoolEach(m, cmd.lines), m)
        BY <1>4, SpoolEachInput, Zenon
    <2> QED  BY <2>1, <1>4, <1>5, Zenon DEF SameInput
<1>7. PICK said : Update(c, v, said, FALSE)
    BY <1>3, <1>5, Zenon DEF Perform
<1>8. /\ pos' = pos + n /\ tail' = [tail EXCEPT ![c] = SubSeq(@, n + 1, Len(@))]
      /\ UNCHANGED <<win, serving, ibuf, test>>
    BY Zenon DEF Perform
<1> QED  BY <1>1, <1>6, <1>7, <1>8, Executed, Zenon

\* How much of the buffer there is for an ASCII command.
LEMMA AsciiLength ==
    ASSUME TailInv, NEW c \in Clients, AsciiTurn(c), ~Incomplete
    PROVE  /\ serving = c
           /\ 1 \in 1..Len(Remaining)
           /\ ~OneUnit(Remaining[1]) => 2 \in 1..Len(Remaining)
<1>1. PICK S : Streams(S)
    BY Zenon DEF TailInv
<1>2. serving = c /\ Remaining # <<>>
    BY Zenon DEF AsciiTurn
<1>3. Remaining \in Seq(S)
    BY <1>1, <1>2, Serving
<1>4. Len(Remaining) \in Nat /\ Len(Remaining) # 0
    BY <1>2, <1>3, LenProperties, EmptySeq
<1>5. ~OneUnit(Remaining[1]) => Len(Remaining) # 1
    BY Zenon DEF Incomplete
<1> QED  BY <1>2, <1>4, <1>5

\* A storage command with its data, and any other command.
LEMMA CommandTail ==
    ASSUME TailInv, NEW c \in Clients, test' = test, AsciiStorage(c) \/ AsciiCommand(c)
    PROVE  TailInv'
<1>1. CASE AsciiStorage(c)
    <2>1. PICK cmd, r, mem : Perform(c, cmd, 2) /\ Note(r, mem)
        BY <1>1, Zenon DEF AsciiStorage
    <2>2. AsciiTurn(c) /\ ~Incomplete /\ IsStorage(Remaining[1])
        BY <1>1, Zenon DEF AsciiStorage
    <2>3. ~OneUnit(Remaining[1])
        <3>1. Remaining[1].part = 1
            BY <2>2, Zenon DEF IsStorage
        <3>2. Remaining[1].part # 2
            BY <3>1
        <3> QED  BY <3>2, <2>2, Zenon DEF OneUnit
    <2>4. serving = c /\ 2 \in 1..Len(Remaining)
        BY <2>2, <2>3, AsciiLength, Zenon
    <2>5. FlawsGrow
        BY <2>1, NoteGrows, Zenon
    <2> QED  BY <2>1, <2>4, <2>5, PerformTail, Zenon
<1>2. CASE AsciiCommand(c)
    <2>1. PICK cmd, r, mem : /\ Perform(c, cmd, IF OneUnit(Remaining[1]) THEN 1 ELSE 2)
                             /\ Note(r, mem)
        BY <1>2, Zenon DEF AsciiCommand
    <2>2. AsciiTurn(c) /\ ~Incomplete
        BY <1>2, Zenon DEF AsciiCommand
    <2>3. FlawsGrow
        BY <2>1, NoteGrows, Zenon
    <2>4. PICK n : n = IF OneUnit(Remaining[1]) THEN 1 ELSE 2
        OBVIOUS
    <2>5. serving = c /\ n \in 1..Len(Remaining)
        BY <2>2, <2>4, AsciiLength, Zenon
    <2>6. Perform(c, cmd, n)
        BY <2>1, <2>4
    <2> QED  BY <2>3, <2>5, <2>6, PerformTail, Zenon
<1> QED  BY <1>1, <1>2

\* A binary command.
LEMMA BinaryTail ==
    ASSUME TailInv, NEW c \in Clients, test' = test, BinaryCommand(c)
    PROVE  TailInv'
<1>1. PICK S : Streams(S)
    BY Zenon DEF TailInv
<1>2. PICK raw, packet, more, said, closing, r, mem :
        /\ Update(c, Say(Say(cl[c], raw, packet), TRUE, more), said, closing)
        /\ closing \in BOOLEAN
        /\ Note(r, mem)
        /\ tail' = [tail EXCEPT ![c] = SubSeq(@, 3, Len(@))]
        /\ IF closing THEN Return ELSE pos' = pos + 2 /\ UNCHANGED <<serving, ibuf>>
        /\ UNCHANGED <<server, eof, win>>
    BY ZenonT(60) DEF BinaryCommand
<1>3. serving = c /\ Len(Remaining) >= 2
    BY Zenon DEF BinaryCommand, BinaryTurn
<1>4. /\ Shaped(cl[c]) /\ cl[c].saved = <<>> /\ Remaining \in Seq(S)
    BY <1>1, <1>3, Serving
<1>5. PICK u : u = Say(cl[c], raw, packet)
    OBVIOUS
<1>6. Shaped(u) /\ u.saved = <<>>
    <2>1. SameInput(Say(cl[c], raw, packet), cl[c])
        BY <1>4, SayInput, Zenon
    <2> QED  BY <2>1, <1>4, <1>5, Zenon DEF SameInput
<1>7. PICK v : v = Say(u, TRUE, more)
    OBVIOUS
<1>8. Shaped(v) /\ v.saved = <<>>
    <2>1. SameInput(Say(u, TRUE, more), u)
        BY <1>6, SayInput, Zenon
    <2> QED  BY <2>1, <1>6, <1>7, Zenon DEF SameInput
<1>9. Update(c, v, said, closing)
    BY <1>2, <1>5, <1>7, Zenon
<1>10. FlawsGrow
    BY <1>2, NoteGrows, Zenon
<1>11. tail' = [tail EXCEPT ![c] = SubSeq(@, 2 + 1, Len(@))]
    BY <1>2
<1>12. CASE closing
    <2>1. Return /\ Update(c, v, said, TRUE)
        BY <1>2, <1>9, <1>12, Zenon
    <2>2. /\ tail' \in [Clients -> Seq(S)]
          /\ \A d \in Clients \ {c} : tail'[d] = tail[d]
        <3>1. tail \in [Clients -> Seq(S)] /\ tail[c] \in Seq(S)
            BY <1>1 DEF Streams
        <3>2. PICK q : q = SubSeq(tail[c], 3, Len(tail[c]))
            OBVIOUS
        <3>3. q \in Seq(S)
            <4>1. Len(tail[c]) \in Nat /\ \A i \in 1..Len(tail[c]) : tail[c][i] \in S
                BY <3>1, LenProperties, ElementOfSeq
            <4>2. 3 \in Int /\ Len(tail[c]) \in Int /\ \A i \in 3..Len(tail[c]) : tail[c][i] \in S
                BY <4>1
            <4> QED  BY <4>2, <3>2, SubSeqProperties
        <3>4. tail' = [tail EXCEPT ![c] = q]
            BY <1>2, <3>2, Zenon
        <3> QED  BY <3>1, <3>3, <3>4
    <2>3. serving \in {c, Nobody} /\ win' = win
        BY <1>2, <1>3
    <2> QED  BY <1>1, <1>8, <1>10, <2>1, <2>2, <2>3, Ended, Zenon
<1>13. CASE ~closing
    <2>1. pos' = pos + 2 /\ UNCHANGED <<win, serving, ibuf, test>>
        BY <1>2, <1>13, Zenon
    <2>2. Update(c, v, said, FALSE)
        <3>1. closing = FALSE
            BY <1>2, <1>13, Zenon
        <3> QED  BY <3>1, <1>9, Zenon
    <2>3. 2 \in 1..Len(Remaining)
        BY <1>3, <1>4, LenProperties
    <2> QED  BY <1>1, <1>3, <1>8, <1>10, <1>11, <2>1, <2>2, <2>3, Executed, Zenon
<1> QED  BY <1>12, <1>13

\* A step of the server.
LEMMA ServerKeepsTail ==
    ASSUME TailInv, NEW c \in Clients, ServerStep(c), UNCHANGED clientVars
    PROVE  TailInv'
<1>1. test' = test
    BY DEF clientVars
<1>2. CASE Accept(c) \/ Recv(c)
    BY <1>1, <1>2, AcceptTail, RecvTail, Zenon
<1>3. CASE \/ Unsupported(c) \/ RecvEof(c) \/ AsciiBadKey(c) \/ AsciiQuit(c) \/ BinaryBadMagic(c)
           \/ SendFails(c)
    BY <1>1, <1>3, EndsTail, Zenon
<1>4. CASE RecvBlocks(c) \/ Consumed(c)
    BY <1>1, <1>4, RecvBlocksTail, ConsumedTail, Zenon
<1>5. CASE AsciiPartialLine(c) \/ BinaryPartial(c) \/ AsciiPartialData(c) \/ BinaryPartialFirst(c)
    BY <1>1, <1>5, PartialTail, PartialDataTail, PartialFirstTail, Zenon
<1>6. CASE AsciiStorage(c) \/ AsciiCommand(c) \/ BinaryCommand(c)
    BY <1>1, <1>6, CommandTail, BinaryTail, Zenon
<1> QED  BY <1>2, <1>3, <1>4, <1>5, <1>6, Zenon DEF ServerStep, Works

-----------------------------------------------------------------------------
(***************************************************************************)
(* The peers: they write into win, read from the socket and reconnect.     *)
(***************************************************************************)
\* What a peer may touch: no saved input, no buffer, no connection that is up.
LEMMA PeerFrame ==
    ASSUME TailInv, UNCHANGED <<serving, ibuf, pos, flaws, tail>>,
           NEW S, Streams(S), win' \in [Clients -> Seq(S)],
           IsTable(conn)', \A d \in Clients : conn'[d] = "up" => conn[d] = "up",
           IsTable(cl)', \A d \in Clients : Shaped(cl'[d]) /\ cl'[d].saved = cl[d].saved,
           IsTable(test)', \A d \in Probers : test'[d] = test[d]
    PROVE  TailInv'
<1>1. Streams(S)'
    BY Zenon DEF Streams
<1>2. \A d \in Clients : OwnTail(d)'
    <2> SUFFICES ASSUME NEW d \in Clients PROVE OwnTail(d)'
        OBVIOUS
    <2>1. OwnTail(d)
        BY DEF TailInv
    <2>2. Remaining' = Remaining
        BY Zenon DEF Remaining
    <2> QED  BY <2>1, <2>2, Zenon DEF OwnTail, Astray
<1>3. Noted' /\ pos' \in 0..Len(ibuf') /\ serving' \in Clients \cup {Nobody}
    <2>1. Noted /\ pos \in 0..Len(ibuf) /\ serving \in Clients \cup {Nobody}
        BY Zenon DEF TailInv
    <2> QED  BY <2>1, Zenon DEF Noted
<1>4. serving' # Nobody => cl'[serving'].saved = <<>>
    BY DEF TailInv
<1>5. \A d \in Probers : test'[d] \in 1..Len(Probes)
    BY Zenon DEF TailInv
<1> QED  BY <1>1, <1>2, <1>3, <1>4, <1>5, Zenon DEF TailInv

\* The same, for the steps that leave the clients' structures alone.
LEMMA PeerIdle ==
    ASSUME TailInv, UNCHANGED <<serving, ibuf, pos, flaws, tail, conn, cl>>,
           NEW S, Streams(S), win' \in [Clients -> Seq(S)],
           IsTable(test)', \A d \in Probers : test'[d] = test[d]
    PROVE  TailInv'
<1>1. IsTable(conn) /\ IsTable(cl) /\ \A d \in Clients : Shaped(cl[d])
    BY Zenon DEF TailInv
<1> QED  BY <1>1, PeerFrame

\* More kinds of units.
LEMMA WiderStreams ==
    ASSUME NEW S, Streams(S), NEW U
    PROVE  Streams(S \cup U)
<1>1. S \subseteq S \cup U
    OBVIOUS
<1>2. \A q \in Seq(S) : q \in Seq(S \cup U)
    BY <1>1, SeqMonotonic, Zenon
<1>3. win \in [Clients -> Seq(S \cup U)] /\ tail \in [Clients -> Seq(S \cup U)]
    BY <1>2 DEF Streams
<1> QED  BY <1>2, <1>3, Zenon DEF Streams

\* retry_write: two units more on their way.
LEMMA ClientSendTail ==
    ASSUME TailInv, NEW c \in Clients, ClientSend(c)
    PROVE  TailInv'
<1>1. PICK S : Streams(S)
    BY Zenon DEF TailInv
<1>2. PICK r : /\ win' = [win EXCEPT ![c] = @ \o Wire(r)]
               /\ test' = test
    BY Zenon DEF ClientSend
<1>3. UNCHANGED <<serving, ibuf, pos, flaws, tail, conn, cl>>
    BY DEF ClientSend, serverVars
<1>4. PICK x, y : Wire(r) = <<x, y>>
    BY Zenon DEF Wire
<1>5. PICK T : T = S \cup {x, y}
    OBVIOUS
<1>6. Streams(T)
    BY <1>1, <1>5, WiderStreams
<1>7. win \in [Clients -> Seq(T)]
    BY <1>6 DEF Streams
<1>8. <<x, y>> \in Seq(T)
    BY <1>5
<1>9. win[c] \o <<x, y>> \in Seq(T)
    BY <1>7, <1>8, ConcatProperties
<1>10. win' \in [Clients -> Seq(T)]
    BY <1>2, <1>4, <1>7, <1>9
<1>11. IsTable(test') /\ \A d \in Probers : test'[d] = test[d]
    BY <1>2, Zenon DEF TailInv
<1> QED  BY <1>3, <1>6, <1>10, <1>11, PeerIdle

\* A prober's one write.
LEMMA ProbeSendTail ==
    ASSUME TailInv, NEW c \in Clients, ProbeSend(c)
    PROVE  TailInv'
<1>1. PICK S : Streams(S)
    BY Zenon DEF TailInv
<1>2. PICK q : q = Probes[test[c]]
    OBVIOUS
<1>3. /\ win' = [win EXCEPT ![c] = Wires(q)] /\ test' = test
      /\ c \in Probers
    BY <1>2, Zenon DEF ProbeSend
<1>4. UNCHANGED <<serving, ibuf, pos, flaws, tail, conn, cl>>
    BY DEF ProbeSend, serverVars
<1>5. Len(q) \in Nat
    BY <1>2, <1>3, ClientAssumption DEF TailInv
<1>6. PICK l \in Nat : l = 2 * Len(q)
    BY <1>5
<1>7. PICK s : s = Wires(q)
    OBVIOUS
<1>8. PICK U : s \in [1..l -> U]
    <2> DEFINE E(n) == [r |-> q[(n + 1) \div 2], part |-> 2 - (n % 2)]
    <2>1. s = [n \in 1..l |-> E(n)]
        BY <1>6, <1>7, Zenon DEF Wires
    <2> HIDE DEF E
    <2>2. s \in [1..l -> {E(n) : n \in 1..l}]
        BY <2>1, Zenon
    <2> QED  BY <2>2, Zenon
<1>9. PICK T : T = S \cup U
    OBVIOUS
<1>10. Streams(T)
    BY <1>1, <1>9, WiderStreams
<1>11. s \in Seq(T)
    <2>1. s \in [1..l -> T]
        BY <1>8, <1>9
    <2> QED  BY <2>1, SeqDef
<1>12. win' \in [Clients -> Seq(T)]
    <2>1. win \in [Clients -> Seq(T)]
        BY <1>10 DEF Streams
    <2> QED  BY <2>1, <1>3, <1>7, <1>11
<1>13. IsTable(test') /\ \A d \in Probers : test'[d] = test[d]
    BY <1>3, Zenon DEF TailInv
<1> QED  BY <1>4, <1>10, <1>12, <1>13, PeerIdle

\* A peer reads from its socket.
LEMMA ReadTail ==
    ASSUME TailInv, NEW c \in Clients, NEW x, cl' = [cl EXCEPT ![c].w = x],
           UNCHANGED <<serving, ibuf, pos, flaws, tail, test>>,
           NEW S, Streams(S), win' \in [Clients -> Seq(S)],
           IsTable(conn)', \A d \in Clients : conn'[d] = "up" => conn[d] = "up"
    PROVE  TailInv'
<1>1. PICK u : u = [cl[c] EXCEPT !.w = x]
    OBVIOUS
<1>2. Shaped(u) /\ u.saved = cl[c].saved
    <2>1. Shaped(cl[c])
        BY DEF TailInv
    <2>2. SameInput([cl[c] EXCEPT !.w = x], cl[c])
        BY <2>1, OutputChanges
    <2> QED  BY <2>2, <1>1, Zenon DEF SameInput
<1>3. cl' = [cl EXCEPT ![c] = u]
    BY <1>1
<1>4. /\ IsTable(cl') /\ cl'[c] = u
      /\ \A d \in Clients \ {c} : cl'[d] = cl[d]
    <2>1. PICK T : cl \in [Clients -> T]
        BY Zenon DEF TailInv, IsTable
    <2>2. cl' \in [Clients -> T \cup {u}]
        BY <1>3, <2>1
    <2>3. cl'[c] = u /\ \A d \in Clients \ {c} : cl'[d] = cl[d]
        BY <1>3, <2>1
    <2> QED  BY <2>2, <2>3, Zenon DEF IsTable
<1>5. \A d \in Clients : Shaped(cl'[d]) /\ cl'[d].saved = cl[d].saved
    BY <1>2, <1>4, Zenon DEF TailInv
<1>6. IsTable(test') /\ \A d \in Probers : test'[d] = test[d]
    BY Zenon DEF TailInv
<1> QED  BY <1>4, <1>5, <1>6, PeerFrame, Zenon

\* A tester goes on with its next test case.
LEMMA NextTestTail ==
    ASSUME TailInv, NEW c \in Testers, NEW x, test' = [test EXCEPT ![c] = x],
           UNCHANGED <<serving, ibuf, pos, flaws, tail, conn, cl, win>>
    PROVE  TailInv'
<1>1. PICK S : Streams(S)
    BY Zenon DEF TailInv
<1>2. PICK T : test \in [Clients -> T]
    BY Zenon DEF TailInv, IsTable
<1>3. test' \in [Clients -> T \cup {x}]
    BY <1>2
<1>4. \A d \in Probers : test'[d] = test[d]
    BY <1>2, ClientAssumption DEF Testers
<1>5. win' \in [Clients -> Seq(S)]
    BY <1>1 DEF Streams
<1>6. IsTable(test')
    BY <1>3, Zenon DEF IsTable
<1> QED  BY <1>1, <1>4, <1>5, <1>6, PeerIdle

\* A step of a peer.
LEMMA PeerKeepsTail ==
    ASSUME TailInv, NEW c \in Clients, PeerStep(c)
    PROVE  TailInv'
<1>1. PICK S : Streams(S)
    BY Zenon DEF TailInv
<1>2. CASE win' = win /\ UNCHANGED <<serving, ibuf, pos, flaws, tail, conn, cl, test>>
    <2>1. win' \in [Clients -> Seq(S)]
        BY <1>1, <1>2 DEF Streams
    <2>2. IsTable(test') /\ \A d \in Probers : test'[d] = test[d]
        BY <1>2, Zenon DEF TailInv
    <2> QED  BY <1>1, <1>2, <2>1, <2>2, PeerIdle
<1>3. ASSUME NEW x, cl' = [cl EXCEPT ![c].w = x],
             UNCHANGED <<serving, ibuf, pos, flaws, tail, test, conn, win>>
      PROVE  TailInv'
    <2>1. win' \in [Clients -> Seq(S)]
        BY <1>1, <1>3 DEF Streams
    <2>2. IsTable(conn') /\ \A d \in Clients : conn'[d] = "up" => conn[d] = "up"
        BY <1>3, Zenon DEF TailInv
    <2> QED  BY <1>1, <1>3, <2>1, <2>2, ReadTail
<1>4. CASE Connect(c)
    <2>1. /\ conn' = [conn EXCEPT ![c] = "pending"]
          /\ win' = [win EXCEPT ![c] = <<>>]
          /\ cl' = [cl EXCEPT ![c].w = <<>>]
          /\ UNCHANGED <<serving, ibuf, pos, flaws, tail, test>>
        BY <1>4 DEF Connect, serverVars, clientVars
    <2>2. win' \in [Clients -> Seq(S)]
        <3>1. win \in [Clients -> Seq(S)] /\ <<>> \in Seq(S)
            BY <1>1, EmptySeq DEF Streams
        <3> QED  BY <3>1, <2>1
    <2>3. IsTable(conn') /\ \A d \in Clients : conn'[d] = "up" => conn[d] = "up"
        <3>1. PICK T : conn \in [Clients -> T]
            BY Zenon DEF TailInv, IsTable
        <3>2. conn' \in [Clients -> T \cup {"pending"}]
            BY <2>1, <3>1
        <3>3. \A d \in Clients : conn'[d] = "up" => conn[d] = "up"
            BY <2>1, <3>1
        <3> QED  BY <3>2, <3>3, Zenon DEF IsTable
    <2> QED  BY <1>1, <2>1, <2>2, <2>3, ReadTail
<1>5. CASE ClientRecv(c)
    <2>1. PICK x : cl' = [cl EXCEPT ![c].w = x]
        BY <1>5, Zenon DEF ClientRecv, Consume
    <2>2. UNCHANGED <<serving, ibuf, pos, flaws, tail, test, conn, win>>
        BY <1>5 DEF ClientRecv, serverVars
    <2> QED  BY <2>1, <2>2, <1>3
<1>6. CASE ProbeRead(c)
    <2>1. /\ cl' = [cl EXCEPT ![c].w = <<>>]
          /\ UNCHANGED <<serving, ibuf, pos, flaws, tail, test, conn, win>>
        BY <1>6 DEF ProbeRead, serverVars, clientVars
    <2> QED  BY <2>1, <1>3
<1>7. CASE ClientFails(c) \/ ClientPasses(c)
    <2>1. c \in Testers
        BY <1>7, Zenon DEF ClientFails, ClientPasses, Fails1, Reading, Busy
    <2>2. PICK x : test' = [test EXCEPT ![c] = x]
        BY <1>7, Zenon DEF ClientFails, ClientPasses
    <2>3. UNCHANGED <<serving, ibuf, pos, flaws, tail, conn, cl, win>>
        BY <1>7 DEF ClientFails, ClientPasses, serverVars
    <2> QED  BY <2>1, <2>2, <2>3, NextTestTail
<1>8. CASE ClientClosed(c) \/ ProbeHangUp(c)
    <2>1. win' = win /\ UNCHANGED <<serving, ibuf, pos, flaws, tail, conn, cl, test>>
        BY <1>8 DEF ClientClosed, ProbeHangUp, serverVars
    <2> QED  BY <2>1, <1>2
<1> QED  BY <1>4, <1>5, <1>6, <1>7, <1>8, ClientSendTail, ProbeSendTail, Zenon DEF PeerStep

-----------------------------------------------------------------------------
\* The invariant.
THEOREM TailInvariant == Spec => []TailInv
<1>1. Init => TailInv
    <2> SUFFICES ASSUME Init PROVE TailInv
        OBVIOUS
    <2>1. PICK x : x = create_client
        OBVIOUS
    <2>2. Shaped(x) /\ x.saved = <<>>
        <3>1. x = [work |-> "determine", mute |-> FALSE, saved |-> <<>>, out |-> <<>>, w |-> <<>>,
             mixed |-> FALSE]
            BY <2>1, Zenon DEF create_client
        <3> QED  BY <3>1, RecordShaped
    <2>3. /\ conn = [c \in Clients |-> "none"] /\ win = [c \in Clients |-> <<>>]
          /\ cl = [c \in Clients |-> x] /\ tail = [c \in Clients |-> <<>>]
          /\ serving = Nobody /\ ibuf = <<>> /\ pos = 0 /\ flaws = NoFlaws
        BY <2>1, Zenon DEF Init, ServerInit
    <2>4. <<>> \in Seq({}) /\ Len(<<>>) = 0
        BY EmptySeq
    <2>5. Streams({})
        BY <2>2, <2>3, <2>4 DEF Streams
    <2>6. IsTable(conn) /\ IsTable(cl)
        <3>1. conn \in [Clients -> {"none"}] /\ cl \in [Clients -> {x}]
            BY <2>3
        <3> QED  BY <3>1, Zenon DEF IsTable
    <2>7. \A c \in Clients : Shaped(cl[c])
        BY <2>2, <2>3
    <2>8. Noted
        <3>1. PICK f : f = FALSE
            OBVIOUS
        <3>2. flaws = [memory |-> 0, overread |-> f, endptr |-> f, dead |-> f, shifted |-> {},
                      reread |-> {}]
            BY <2>3, <3>1, Zenon DEF NoFlaws
        <3>3. flaws \in [FlawFields -> {0, f, {}}]
            BY <3>2 DEF FlawFields
        <3> QED  BY <3>3, Zenon DEF Noted
    <2>9. pos \in 0..Len(ibuf) /\ serving \in Clients \cup {Nobody}
        BY <2>3, <2>4
    <2>10. \A c \in Clients : OwnTail(c)
        <3> SUFFICES ASSUME NEW c \in Clients PROVE OwnTail(c)
            OBVIOUS
        <3>1. serving # c /\ conn[c] # "up"
            BY <2>3, NobodyAssumption
        <3> QED  BY <3>1, Zenon DEF OwnTail
    <2>11. IsTable(test) /\ \A c \in Probers : test[c] \in 1..Len(Probes)
        <3>1. test \in [Clients -> 1..(55 - Runs)] /\ \A c \in Probers : test[c] <= Len(Probes)
            BY Zenon DEF Init
        <3>2. \A c \in Probers : test[c] \in 1..Len(Probes)
            BY <3>1, ClientAssumption
        <3> QED  BY <3>1, <3>2, Zenon DEF IsTable
    <2> QED  BY <2>3, <2>5, <2>6, <2>7, <2>8, <2>9, <2>10, <2>11, Zenon DEF TailInv
<1>2. TailInv /\ [Next]_allVars => TailInv'
    <2> SUFFICES ASSUME TailInv, [Next]_allVars PROVE TailInv'
        OBVIOUS
    <2>1. CASE UNCHANGED allVars
        <3>1. UNCHANGED <<serving, ibuf, pos, flaws, tail, conn, cl, win, test>>
            BY <2>1 DEF allVars, vars, clientVars
        <3>2. PICK S : Streams(S)
            BY Zenon DEF TailInv
        <3>3. win' \in [Clients -> Seq(S)]
            BY <3>1, <3>2 DEF Streams
        <3>4. IsTable(test') /\ \A d \in Probers : test'[d] = test[d]
            BY <3>1, Zenon DEF TailInv
        <3> QED  BY <3>1, <3>2, <3>3, <3>4, PeerIdle
    <2>2. ASSUME NEW c \in Clients, ServerStep(c) /\ UNCHANGED clientVars
          PROVE  TailInv'
        BY <2>2, ServerKeepsTail
    <2>3. ASSUME NEW c \in Clients, PeerStep(c)
          PROVE  TailInv'
        BY <2>3, PeerKeepsTail
    <2>4. CASE Over
        BY <2>1, <2>4, Zenon DEF Over
    <2> QED  BY <2>1, <2>2, <2>3, <2>4, Zenon DEF Next
<1> QED  BY <1>1, <1>2, PTL DEF Spec

\* client_work hands the next call exactly what it received and no command
\* consumed, for any peers, any requests, any cuts and any sizes of buffers --
\* up to the two defects that are on record in flaws.
THEOREM SavedTail == Spec => []TailKept
<1>1. TailInv => TailKept
    BY Zenon DEF TailInv, OwnTail, Astray, TailKept, SavedIsTailOf
<1> QED  BY <1>1, TailInvariant, PTL
=============================================================================
