--------------------------- MODULE CommandsProofs ---------------------------
(***************************************************************************)
(* Proofs about the commands of a handle in the text protocol: whatever the *)
(* servers do, cursor_active of every connection is the number of answers   *)
(* owed, so that no answer goes to another call and no wait is in vain.     *)
(***************************************************************************)
EXTENDS Commands, FiniteSetTheorems, SequenceTheorems, TLAPS

\* What the connections carry: a text request is answered once, unless it
\* is quiet, and what ends with an END or leaves more to come says so.
TextOps == {"none", "set", "add", "replace", "delete", "incr", "get", "flush",
            "version", "stat", "dump"}
TextCodes == {"SUCCESS", "END", "STAT", "ITEM", "NOTFOUND", "NOTSTORED", "SERVER_ERROR"}
Requests ==
    {r \in [op : TextOps, quiet : BOOLEAN, keys : Seq(Keys), id : 0..Calls] :
        r.quiet => r.op \notin {"get", "stat", "dump"}}
Answers ==
    {a \in [op : TextOps, quiet : BOOLEAN, rc : TextCodes, key : Keys, val : 0..Calls,
            more : BOOLEAN, id : 0..Calls] :
        (a.rc \in {"STAT", "ITEM"} => a.more) /\ (a.rc = "END" => ~a.more)}
Insts == [fd : BOOLEAN, broken : BOOLEAN, wbuf : Seq(Requests), rbuf : Seq(Answers),
          cursor : Nat]
Srvs == [up : BOOLEAN, data : [Keys -> 0..Calls], full : BOOLEAN]

-----------------------------------------------------------------------------
(* Counting answers.                                                       *)

\* The answers that end in s, and one more that is cut off.
Finals(s) == Cardinality({j \in 1..Len(s) : ~s[j].more})
Cut(s) == s # <<>> /\ s[Len(s)].more
Owed(s) == Finals(s) + (IF Cut(s) THEN 1 ELSE 0)

\* The requests that will be answered.
Asked(w) == Cardinality({j \in 1..Len(w) : ~w[j].quiet})

\* A set of natural numbers has a least one.
LEMMA LeastNat ==
    ASSUME NEW T \in SUBSET Nat, T # {}
    PROVE  \E n \in T : \A m \in T : n <= m
<1>1. PICK n \in T : \A m \in T : ~ (<<m, n>> \in OpToRel(<, Nat))
    BY NatLessThanWellFounded, WFMin, Zenon
<1>2. \A m \in T : ~ (m < n)
    BY <1>1 DEF OpToRel
<1> QED  BY <1>2

\* Positions m further on.
Shifted(B, m) == {m + j : j \in B}

\* C holds the positions A of one sequence and the positions B of the next.
Joins(A, B, C, m, n) ==
    A \subseteq 1..m /\ B \subseteq 1..n /\ C = A \cup Shifted(B, m)

\* Positions of a concatenation are counted on either side.
LEMMA CountConcat ==
    ASSUME NEW m \in Nat, NEW n \in Nat, NEW A, NEW B, NEW C, Joins(A, B, C, m, n)
    PROVE  /\ Cardinality(A) \in Nat /\ Cardinality(B) \in Nat
           /\ Cardinality(C) = Cardinality(A) + Cardinality(B)
<1> DEFINE D == {m + j : j \in B}
<1>. A \subseteq 1..m /\ B \subseteq 1..n /\ C = A \cup D
    BY DEF Joins, Shifted
<1>1. IsFiniteSet(A) /\ IsFiniteSet(B)
    <2>1. IsFiniteSet(1..m) /\ IsFiniteSet(1..n)
        BY FS_Interval, 1 \in Int, m \in Int, n \in Int, Zenon
    <2> QED  BY <2>1, FS_Subset
<1>2. Cardinality(A) \in Nat /\ Cardinality(B) \in Nat
    BY <1>1, FS_CardinalityType
<1>3. [j \in B |-> m + j] \in Bijection(B, D)
    <2>1. [j \in B |-> m + j] \in Surjection(B, D)
        BY DEF Surjection
    <2>2. [j \in B |-> m + j] \in Injection(B, D)
        BY DEF Injection, IsInjective
    <2> QED  BY <2>1, <2>2 DEF Bijection
<1>4. IsFiniteSet(D) /\ Cardinality(D) = Cardinality(B)
    <2>1. ExistsBijection(B, D)
        BY <1>3 DEF ExistsBijection
    <2> HIDE DEF D
    <2> QED  BY <1>1, <1>3, <2>1, FS_Bijection
<1>5. A \cap D = {}
    OBVIOUS
<1> HIDE DEF D
<1>6. Cardinality(A \cup D) = Cardinality(A) + Cardinality(D) - Cardinality(A \cap D)
    BY <1>1, <1>4, FS_Union
<1>7. Cardinality(A \cap D) = 0
    BY <1>5, FS_EmptySet
<1> QED  BY <1>2, <1>4, <1>6, <1>7

\* A function on 1..n is a sequence.
LEMMA SeqOfFcn ==
    ASSUME NEW S, NEW n \in Nat, NEW f, f = [i \in 1..n |-> f[i]],
           \A i \in 1..n : f[i] \in S
    PROVE  f \in Seq(S) /\ Len(f) = n
<1>1. f \in [1..n -> S]
    OBVIOUS
<1>2. f \in Seq(S)
    BY <1>1, SeqDef
<1>3. DOMAIN f = 1..n /\ DOMAIN f = 1..Len(f) /\ Len(f) \in Nat
    BY <1>1, <1>2, LenProperties
<1> QED  BY <1>2, <1>3

\* Answers that end are counted piece by piece.
LEMMA FinalsConcat ==
    ASSUME NEW s \in Seq(Answers), NEW t \in Seq(Answers)
    PROVE  /\ Finals(s) \in Nat /\ Finals(t) \in Nat
           /\ Finals(s \o t) = Finals(s) + Finals(t)
<1> DEFINE A == {j \in 1..Len(s) : ~s[j].more}
           B == {j \in 1..Len(t) : ~t[j].more}
           C == {j \in 1..Len(s \o t) : ~(s \o t)[j].more}
<1>1. Len(s) \in Nat /\ Len(t) \in Nat
    BY LenProperties
<1>2. Len(s \o t) = Len(s) + Len(t)
      /\ \A i \in 1..(Len(s) + Len(t)) : (s \o t)[i] = IF i <= Len(s) THEN s[i] ELSE t[i - Len(s)]
    BY ConcatProperties
<1>3. C = A \cup Shifted(B, Len(s))
    <2>1. ASSUME NEW i \in C PROVE i \in A \cup {Len(s) + j : j \in B}
        <3>1. CASE i <= Len(s)
            BY <1>1, <1>2, <3>1
        <3>2. CASE i > Len(s)
            <4>1. i - Len(s) \in B /\ i = Len(s) + (i - Len(s))
                BY <1>1, <1>2, <3>2
            <4> QED  BY <4>1
        <3> QED  BY <1>1, <1>2, <3>1, <3>2
    <2>2. ASSUME NEW i \in A PROVE i \in C
        BY <1>1, <1>2
    <2>3. ASSUME NEW j \in B PROVE Len(s) + j \in C
        BY <1>1, <1>2
    <2> QED  BY <2>1, <2>2, <2>3 DEF Shifted
<1>4. Joins(A, B, C, Len(s), Len(t))
    BY <1>3 DEF Joins
<1>5. Finals(s) = Cardinality(A) /\ Finals(t) = Cardinality(B) /\ Finals(s \o t) = Cardinality(C)
    BY Zenon DEF Finals
<1> HIDE DEF A, B, C
<1>6. /\ Cardinality(A) \in Nat /\ Cardinality(B) \in Nat
      /\ Cardinality(C) = Cardinality(A) + Cardinality(B)
    BY <1>1, <1>4, CountConcat
<1> QED  BY <1>5, <1>6

\* So are requests that will be answered.
LEMMA AskedConcat ==
    ASSUME NEW s \in Seq(Requests), NEW t \in Seq(Requests)
    PROVE  /\ Asked(s) \in Nat /\ Asked(t) \in Nat
           /\ Asked(s \o t) = Asked(s) + Asked(t)
<1> DEFINE A == {j \in 1..Len(s) : ~s[j].quiet}
           B == {j \in 1..Len(t) : ~t[j].quiet}
           C == {j \in 1..Len(s \o t) : ~(s \o t)[j].quiet}
<1>1. Len(s) \in Nat /\ Len(t) \in Nat
    BY LenProperties
<1>2. Len(s \o t) = Len(s) + Len(t)
      /\ \A i \in 1..(Len(s) + Len(t)) : (s \o t)[i] = IF i <= Len(s) THEN s[i] ELSE t[i - Len(s)]
    BY ConcatProperties
<1>3. C = A \cup Shifted(B, Len(s))
    <2>1. ASSUME NEW i \in C PROVE i \in A \cup {Len(s) + j : j \in B}
        <3>1. CASE i <= Len(s)
            BY <1>1, <1>2, <3>1
        <3>2. CASE i > Len(s)
            <4>1. i - Len(s) \in B /\ i = Len(s) + (i - Len(s))
                BY <1>1, <1>2, <3>2
            <4> QED  BY <4>1
        <3> QED  BY <1>1, <1>2, <3>1, <3>2
    <2>2. ASSUME NEW i \in A PROVE i \in C
        BY <1>1, <1>2
    <2>3. ASSUME NEW j \in B PROVE Len(s) + j \in C
        BY <1>1, <1>2
    <2> QED  BY <2>1, <2>2, <2>3 DEF Shifted
<1>4. Joins(A, B, C, Len(s), Len(t))
    BY <1>3 DEF Joins
<1>5. Asked(s) = Cardinality(A) /\ Asked(t) = Cardinality(B) /\ Asked(s \o t) = Cardinality(C)
    BY Zenon DEF Asked
<1> HIDE DEF A, B, C
<1>6. /\ Cardinality(A) \in Nat /\ Cardinality(B) \in Nat
      /\ Cardinality(C) = Cardinality(A) + Cardinality(B)
    BY <1>1, <1>4, CountConcat
<1> QED  BY <1>5, <1>6

-----------------------------------------------------------------------------
(* What a server does with a sequence of requests: recursive functions on   *)
(* the first natural numbers.                                               *)

\* What holds of 0, and of n when of n - 1, holds up to L.
LEMMA UpTo ==
    ASSUME NEW L \in Nat, NEW S, 0 \in S, \A n \in 1..L : n - 1 \in S => n \in S
    PROVE  \A n \in 0..L : n \in S
<1> DEFINE Bad == {n \in 0..L : n \notin S}
<1> SUFFICES ASSUME Bad # {} PROVE FALSE
    OBVIOUS
<1>1. PICK k \in Bad : \A m \in Bad : k <= m
    <2>1. Bad \in SUBSET Nat
        OBVIOUS
    <2> HIDE DEF Bad
    <2> QED  BY <2>1, LeastNat
<1>2. k # 0 /\ k - 1 \in 0..L
    BY <1>1
<1> QED  BY <1>1, <1>2

\* f is defined up to L by its value at 0 and by steps.
Recursive(f, T, L, base, step) ==
    /\ f \in [0..L -> T]
    /\ \A n \in 0..L : f[n] = IF n = 0 THEN base ELSE step[n][f[n - 1]]

\* Such a function exists: the recursive definitions of Commands mean something.
LEMMA Recursion ==
    ASSUME NEW T, NEW L \in Nat, NEW base \in T, NEW step \in [1..L -> [T -> T]]
    PROVE  \E f : Recursive(f, T, L, base, step)
<1> DEFINE Good(f, k) == f \in [0..k -> T]
                        /\ \A n \in 0..k : f[n] = IF n = 0 THEN base ELSE step[n][f[n - 1]]
           S == {k \in Nat : \E f : Good(f, k)}
<1>1. \E f : Good(f, 0)
    <2>1. Good([n \in 0..0 |-> base], 0)
        OBVIOUS
    <2> QED  BY <2>1
<1>2. ASSUME NEW k \in 1..L, NEW f, Good(f, k - 1) PROVE \E g : Good(g, k)
    <2> DEFINE g == [n \in 0..k |-> IF n = k THEN step[k][f[k - 1]] ELSE f[n]]
    <2>1. f[k - 1] \in T /\ \A n \in 0..(k - 1) : f[n] \in T
        BY <1>2
    <2>2. g \in [0..k -> T]
        BY <2>1
    <2>3. ASSUME NEW n \in 0..k PROVE g[n] = IF n = 0 THEN base ELSE step[n][g[n - 1]]
        <3>1. CASE n = k
            BY <3>1
        <3>2. CASE n # k
            <4>1. n \in 0..(k - 1) /\ g[n] = f[n]
                BY <3>2
            <4>2. n # 0 => g[n - 1] = f[n - 1]
                BY <4>1
            <4> QED  BY <1>2, <4>1, <4>2
        <3> QED  BY <3>1, <3>2
    <2> QED  BY <2>2, <2>3
<1>3. \A k \in 0..L : k \in S
    <2>1. 0 \in S
        BY <1>1
    <2>2. ASSUME NEW k \in 1..L, k - 1 \in S PROVE k \in S
        <3>1. PICK f : Good(f, k - 1)
            BY <2>2
        <3> HIDE DEF Good
        <3>2. \E g : Good(g, k)
            BY <1>2, <3>1
        <3> QED  BY <3>2
    <2> HIDE DEF S
    <2> QED  BY <2>1, <2>2, UpTo
<1>4. L \in 0..L
    OBVIOUS
<1> QED  BY <1>3, <1>4 DEF Recursive

\* The function in the definition of Present.
Found(f, v, keys) ==
    f = [n \in 0..Len(keys) |->
            IF n = 0 THEN <<>>
            ELSE IF v.data[keys[n]] # Nothing THEN Append(f[n - 1], keys[n])
            ELSE f[n - 1]]

\* Present lists keys.
LEMMA PresentType ==
    ASSUME NEW v, NEW keys \in Seq(Keys)
    PROVE  Present(v, keys) \in Seq(Keys)
<1> DEFINE T == Seq(Keys)
           L == Len(keys)
           step == [n \in 1..L |-> [x \in T |-> IF v.data[keys[n]] # Nothing
                                              THEN Append(x, keys[n]) ELSE x]]
<1>1. L \in Nat /\ \A n \in 1..L : keys[n] \in Keys
    BY LenProperties, ElementOfSeq
<1>2. step \in [1..L -> [T -> T]]
    BY <1>1, AppendProperties
<1>3. <<>> \in T
    OBVIOUS
<1>4. PICK f : Recursive(f, T, L, <<>>, step)
    <2>1. L \in Nat
        BY <1>1
    <2> HIDE DEF step, L, T
    <2> QED  BY <1>2, <1>3, <2>1, Recursion
<1>5. Found(f, v, keys)
    <2>. f \in [0..L -> T]
        BY <1>4 DEF Recursive
    <2>1. ASSUME NEW n \in 0..L, n # 0 PROVE n \in 1..L /\ f[n - 1] \in T
        BY <1>1, <2>1
    <2>2. \A n \in 0..L : f[n] = IF n = 0 THEN <<>>
                                ELSE IF v.data[keys[n]] # Nothing THEN Append(f[n - 1], keys[n])
                                ELSE f[n - 1]
        BY <1>4, <2>1 DEF Recursive
    <2> HIDE DEF step, T
    <2> QED  BY <1>4, <2>2 DEF Found
<1>6. PICK g : Found(g, v, keys) /\ Present(v, keys) = g[L]
    BY <1>5, Zenon DEF Present, Found
<1>7. \A n \in 0..L : g[n] \in T
    <2> DEFINE S == {n \in 0..L : g[n] \in T}
    <2>1. \A n \in 0..L : g[n] = IF n = 0 THEN <<>>
              ELSE IF v.data[keys[n]] # Nothing THEN Append(g[n - 1], keys[n])
              ELSE g[n - 1]
        BY <1>6 DEF Found
    <2>2. 0 \in S
        <3>1. 0 \in 0..L /\ g[0] = <<>>
            BY <1>1, <2>1
        <3> QED  BY <1>3, <3>1
    <2>3. ASSUME NEW n \in 1..L, n - 1 \in S PROVE n \in S
        <3>1. g[n - 1] \in T /\ keys[n] \in Keys /\ n \in 0..L /\ n # 0
            BY <1>1, <2>3
        <3>2. Append(g[n - 1], keys[n]) \in T
            BY <3>1, AppendProperties
        <3> HIDE DEF T
        <3> QED  BY <2>1, <3>1, <3>2
    <2> HIDE DEF S, T
    <2>4. \A n \in 0..L : n \in S
        BY <1>1, <2>2, <2>3, UpTo
    <2> QED  BY <2>4 DEF S
<1> QED  BY <1>1, <1>6, <1>7

-----------------------------------------------------------------------------
(* The answers of a server to one text request.                            *)

\* There is a key.
LEMMA FirstKey == KeySeq[1] \in Keys
<1>1. KeySeq \in Seq(Keys) /\ Len(KeySeq) \in Nat \ {0}
    BY CommandsAssumption, EmptySeq DEF CommandsAssumption
<1> QED  BY <1>1, ElementOfSeq

\* An answer to r, as far as the counts care: it ends unless r is quiet.
Answered(out, r) ==
    /\ out \in Seq(Answers)
    /\ Finals(out) = IF r.quiet THEN 0 ELSE 1
    /\ ~Cut(out)
    /\ r.quiet => out = <<>>
    /\ \A j \in 1..Len(out) : out[j].id = r.id

\* No answers: none that ends, none cut off.
LEMMA FinalsNone == Finals(<<>>) = 0 /\ ~Cut(<<>>)
<1>1. {j \in 1..Len(<<>>) : ~(<<>>)[j].more} = {}
    OBVIOUS
<1> QED  BY <1>1, FS_EmptySet DEF Finals, Cut

\* One answer with nothing more to come.
LEMMA FinalsOne ==
    ASSUME NEW a \in Answers, ~a.more
    PROVE  <<a>> \in Seq(Answers) /\ Finals(<<a>>) = 1 /\ ~Cut(<<a>>)
<1>1. {j \in 1..Len(<<a>>) : ~(<<a>>)[j].more} = {1}
    OBVIOUS
<1>2. Cardinality({1}) = 1
    BY FS_Singleton
<1> QED  BY <1>1, <1>2 DEF Finals, Cut

\* Answer makes an answer.
LEMMA AnswerType ==
    ASSUME NEW r \in Requests, NEW code \in TextCodes, NEW k \in Keys, NEW x \in 0..Calls,
           NEW more \in BOOLEAN, code \in {"STAT", "ITEM"} => more, code = "END" => ~more
    PROVE  /\ Answer(r, code, k, x, more) \in Answers
           /\ Answer(r, code, k, x, more).more = more
           /\ Answer(r, code, k, x, more).id = r.id
<1>1. r.op \in TextOps /\ r.quiet \in BOOLEAN /\ r.id \in 0..Calls
    BY DEF Requests
<1> QED  BY <1>1 DEF Answers, Answer

\* No value is among the values.
LEMMA ZeroIsValue == Nothing \in 0..Calls
    BY CommandsAssumption DEF Nothing, CommandsAssumption

\* A request answered by one line.
LEMMA PlainAnswer ==
    ASSUME NEW r \in Requests, NEW code \in TextCodes \ {"STAT", "ITEM"}
    PROVE  /\ Plain(r, code) \in Seq(Answers) /\ Finals(Plain(r, code)) = 1
           /\ ~Cut(Plain(r, code)) /\ Len(Plain(r, code)) = 1
           /\ Plain(r, code)[1].id = r.id /\ ~Plain(r, code)[1].more
<1> DEFINE a == Answer(r, code, KeySeq[1], Nothing, FALSE)
<1>1. a \in Answers /\ ~a.more /\ a.id = r.id
    BY FirstKey, ZeroIsValue, AnswerType
<1>2. Plain(r, code) = <<a>>
    BY DEF Plain
<1> HIDE DEF a
<1>3. Len(<<a>>) = 1 /\ (<<a>>)[1] = a
    OBVIOUS
<1> QED  BY <1>1, <1>2, <1>3, FinalsOne

\* Answers that leave more to come, and the END.
LEMMA ListAnswer ==
    ASSUME NEW r \in Requests, ~r.quiet, NEW x \in Seq(Answers),
           \A j \in 1..Len(x) : x[j].more /\ x[j].id = r.id
    PROVE  Answered(x \o Plain(r, "END"), r)
<1> DEFINE e == Plain(r, "END")
<1>1. /\ e \in Seq(Answers) /\ Finals(e) = 1 /\ Len(e) = 1
      /\ e[1].id = r.id /\ ~e[1].more
    <2>1. "END" \in TextCodes \ {"STAT", "ITEM"}
        BY DEF TextCodes
    <2> QED  BY <2>1, PlainAnswer
<1>2. Finals(x) = 0
    <2>1. {j \in 1..Len(x) : ~x[j].more} = {}
        OBVIOUS
    <2> QED  BY <2>1, FS_EmptySet DEF Finals
<1> HIDE DEF e
<1>3. x \o e \in Seq(Answers) /\ Finals(x \o e) = 1
    BY <1>1, <1>2, FinalsConcat, ConcatProperties
<1>4. /\ Len(x) \in Nat /\ Len(x \o e) = Len(x) + 1
      /\ \A j \in 1..(Len(x) + 1) : (x \o e)[j] = IF j <= Len(x) THEN x[j] ELSE e[j - Len(x)]
    <2>1. Len(x) \in Nat
        BY LenProperties
    <2>2. /\ Len(x \o e) = Len(x) + Len(e)
          /\ \A j \in 1..(Len(x) + Len(e)) :
                (x \o e)[j] = IF j <= Len(x) THEN x[j] ELSE e[j - Len(x)]
        BY <1>1, ConcatProperties
    <2> QED  BY <1>1, <2>1, <2>2
<1>5. (x \o e)[Len(x) + 1] = e[1]
    BY <1>4
<1>6. ~Cut(x \o e)
    BY <1>1, <1>4, <1>5 DEF Cut
<1>7. ASSUME NEW j \in 1..Len(x \o e) PROVE (x \o e)[j].id = r.id
    <2>1. CASE j <= Len(x)
        BY <1>4, <2>1
    <2>2. CASE j > Len(x)
        BY <1>1, <1>4, <1>5, <2>2
    <2> QED  BY <1>4, <2>1, <2>2
<1> QED  BY <1>3, <1>6, <1>7 DEF Answered, e

\* The server answers a text request once, and a quiet one never.
LEMMA ReplyAnswers ==
    ASSUME NEW v \in Srvs, NEW r \in Requests, ~mode.binary
    PROVE  Answered(Reply(v, r), r)
<1>1. r.quiet \in BOOLEAN /\ (r.quiet => r.op \notin {"get", "stat", "dump"})
      /\ r.keys \in Seq(Keys) /\ r.op \in TextOps
    BY DEF Requests
<1>2. ASSUME NEW code \in TextCodes \ {"STAT", "ITEM"}, ~r.quiet
      PROVE  Answered(Plain(r, code), r)
    <2>1. \A j \in 1..Len(Plain(r, code)) : j = 1
        <3>1. Len(Plain(r, code)) = 1
            BY PlainAnswer
        <3> QED  BY <3>1
    <2> QED  BY <1>2, <2>1, PlainAnswer DEF Answered
<1>3. r.quiet => Answered(<<>>, r)
    BY FinalsNone DEF Answered
<1>4. CASE r.op \in StorageOps \cup {"delete", "incr"}
    <2>1. Reply(v, r) = IF r.quiet THEN <<>> ELSE Plain(r, Outcome(v, r))
        BY <1>4 DEF Reply, StorageOps
    <2>2. Outcome(v, r) \in {"SERVER_ERROR", "NOTSTORED", "NOTFOUND", "SUCCESS"}
        <3>1. CASE r.op \in StorageOps /\ v.full
            BY <3>1 DEF Outcome
        <3>2. CASE ~(r.op \in StorageOps /\ v.full)
            BY <3>2 DEF Outcome, StorageOps
        <3> QED  BY <3>1, <3>2
    <2>3. Outcome(v, r) \in TextCodes \ {"STAT", "ITEM"}
        BY <2>2 DEF TextCodes
    <2> QED  BY <1>1, <1>2, <1>3, <2>1, <2>3
<1>5. CASE r.op = "get"
    <2> DEFINE h == Hits(v, r)
               x == [i \in 1..Len(h) |-> Answer(r, "SUCCESS", h[i], v.data[h[i]], TRUE)]
    <2>1. Reply(v, r) = x \o Plain(r, "END")
        BY <1>5 DEF Reply, StorageOps
    <2>2. h \in Seq(Keys)
        BY <1>1, PresentType DEF Hits
    <2>3. Len(h) \in Nat /\ \A i \in 1..Len(h) : h[i] \in Keys
        BY <2>2, LenProperties, ElementOfSeq
    <2> HIDE DEF h
    <2>4. ASSUME NEW i \in 1..Len(h) PROVE x[i] \in Answers /\ x[i].more /\ x[i].id = r.id
        <3>1. v.data[h[i]] \in 0..Calls
            BY <2>3 DEF Srvs
        <3>2. "SUCCESS" \in TextCodes
            BY DEF TextCodes
        <3>3. x[i] = Answer(r, "SUCCESS", h[i], v.data[h[i]], TRUE)
            OBVIOUS
        <3> QED  BY <2>3, <3>1, <3>2, <3>3, AnswerType
    <2>5. x = [i \in 1..Len(h) |-> x[i]]
        OBVIOUS
    <2> HIDE DEF x
    <2>6. x \in Seq(Answers) /\ Len(x) = Len(h)
        BY <2>3, <2>4, <2>5, SeqOfFcn
    <2> QED  BY <1>1, <1>5, <2>1, <2>4, <2>6, ListAnswer
<1>6. CASE r.op = "stat"
    <2> DEFINE a == Answer(r, "STAT", KeySeq[1], Nothing, TRUE)
    <2>1. Reply(v, r) = <<a>> \o Plain(r, "END")
        BY <1>6 DEF Reply, StorageOps
    <2>2. a \in Answers /\ a.more /\ a.id = r.id
        <3>1. "STAT" \in TextCodes
            BY DEF TextCodes
        <3> QED  BY <3>1, FirstKey, ZeroIsValue, AnswerType
    <2> HIDE DEF a
    <2>3. <<a>> \in Seq(Answers) /\ \A j \in 1..Len(<<a>>) : (<<a>>)[j] = a
        BY <2>2
    <2> QED  BY <1>1, <1>6, <2>1, <2>2, <2>3, ListAnswer
<1>7. CASE r.op = "dump"
    <2> DEFINE h == Stored(v)
               x == [i \in 1..Len(h) |-> Answer(r, "ITEM", h[i], Nothing, TRUE)]
    <2>1. Reply(v, r) = x \o Plain(r, "END")
        BY <1>7 DEF Reply, StorageOps
    <2>2. h \in Seq(Keys)
        BY CommandsAssumption, PresentType DEF Stored, CommandsAssumption
    <2>3. Len(h) \in Nat /\ \A i \in 1..Len(h) : h[i] \in Keys
        BY <2>2, LenProperties, ElementOfSeq
    <2> HIDE DEF h
    <2>4. ASSUME NEW i \in 1..Len(h) PROVE x[i] \in Answers /\ x[i].more /\ x[i].id = r.id
        <3>1. "ITEM" \in TextCodes
            BY DEF TextCodes
        <3>2. x[i] = Answer(r, "ITEM", h[i], Nothing, TRUE)
            OBVIOUS
        <3> QED  BY <2>3, <3>1, <3>2, ZeroIsValue, AnswerType
    <2>5. x = [i \in 1..Len(h) |-> x[i]]
        OBVIOUS
    <2> HIDE DEF x
    <2>6. x \in Seq(Answers) /\ Len(x) = Len(h)
        BY <2>3, <2>4, <2>5, SeqOfFcn
    <2> QED  BY <1>1, <1>7, <2>1, <2>4, <2>6, ListAnswer
<1>8. CASE r.op \notin StorageOps \cup {"delete", "incr", "get", "stat", "dump"}
    <2>1. Reply(v, r) = IF r.quiet THEN <<>> ELSE Plain(r, "SUCCESS")
        BY <1>1, <1>8 DEF Reply, TextOps
    <2>2. "SUCCESS" \in TextCodes \ {"STAT", "ITEM"}
        BY DEF TextCodes
    <2> QED  BY <1>1, <1>2, <1>3, <2>1, <2>2
<1> QED  BY <1>4, <1>5, <1>6, <1>7, <1>8

\* A request leaves the server a server.
LEMMA EffectType ==
    ASSUME NEW v \in Srvs, NEW r \in Requests
    PROVE  Effect(v, r) \in Srvs
<1>1. r.id \in 0..Calls /\ Nothing \in 0..Calls
    BY CommandsAssumption DEF Requests, Nothing, CommandsAssumption
<1>2. /\ v = [up |-> v.up, data |-> v.data, full |-> v.full]
      /\ v.up \in BOOLEAN /\ v.full \in BOOLEAN /\ v.data \in [Keys -> 0..Calls]
    BY DEF Srvs
<1>3. ASSUME NEW k, NEW x \in 0..Calls
      PROVE  [v EXCEPT !.data[k] = x] \in Srvs
    BY <1>2 DEF Srvs
<1>4. [v EXCEPT !.data = [k \in Keys |-> Nothing]] \in Srvs
    BY <1>1, <1>2 DEF Srvs
<1>5. CASE r.op \in StorageOps \cup {"delete", "incr"} /\ Outcome(v, r) = "SUCCESS"
    <2> DEFINE x == IF r.op = "delete" THEN Nothing ELSE r.id
    <2>1. Effect(v, r) = [v EXCEPT !.data[r.keys[1]] = x]
        BY <1>5 DEF Effect, StorageOps
    <2>2. x \in 0..Calls
        BY <1>1
    <2> HIDE DEF x
    <2> QED  BY <1>3, <2>1, <2>2
<1>6. CASE ~(r.op \in StorageOps \cup {"delete", "incr"} /\ Outcome(v, r) = "SUCCESS")
    BY <1>4, <1>6 DEF Effect
<1> QED  BY <1>5, <1>6

-----------------------------------------------------------------------------
(* The answers of a server to a sequence of text requests.                 *)
Outs == [v : Srvs, out : Seq(Answers)]

\* The function in the definition of Execute.
Ran(f, v, w) ==
    f = [n \in 0..Len(w) |->
            IF n = 0 THEN [v |-> v, out |-> <<>>]
            ELSE [v |-> Effect(f[n - 1].v, w[n]),
                  out |-> f[n - 1].out \o Reply(f[n - 1].v, w[n])]]

\* So does one more request of those sent together, with the answers so far.
LEMMA StepOut ==
    ASSUME NEW x \in Outs, NEW r \in Requests, ~mode.binary
    PROVE  [v |-> Effect(x.v, r), out |-> x.out \o Reply(x.v, r)] \in Outs
<1>1. x.v \in Srvs /\ x.out \in Seq(Answers)
    BY DEF Outs
<1>2. Effect(x.v, r) \in Srvs
    BY <1>1, EffectType
<1>3. Reply(x.v, r) \in Seq(Answers)
    BY <1>1, ReplyAnswers DEF Answered
<1>4. x.out \o Reply(x.v, r) \in Seq(Answers)
    BY <1>1, <1>3, ConcatProperties
<1> QED  BY <1>2, <1>4 DEF Outs

\* Execute runs the requests one by one.
LEMMA ExecuteRuns ==
    ASSUME NEW v \in Srvs, NEW w \in Seq(Requests), ~mode.binary
    PROVE  \E g : /\ Ran(g, v, w) /\ Execute(v, w) = g[Len(w)]
                 /\ \A n \in 0..Len(w) : g[n] \in Outs
<1> DEFINE L == Len(w)
           base == [v |-> v, out |-> <<>>]
           step == [n \in 1..L |-> [x \in Outs |->
                      [v |-> Effect(x.v, w[n]), out |-> x.out \o Reply(x.v, w[n])]]]
<1>1. L \in Nat /\ \A n \in 1..L : w[n] \in Requests
    BY LenProperties, ElementOfSeq
<1>2. step \in [1..L -> [Outs -> Outs]]
    BY <1>1, StepOut
<1>3. base \in Outs
    BY DEF Outs
<1>4. PICK f : Recursive(f, Outs, L, base, step)
    <2>1. L \in Nat
        BY <1>1
    <2> HIDE DEF step, L, base
    <2> QED  BY <1>2, <1>3, <2>1, Recursion
<1>5. Ran(f, v, w)
    <2>. f \in [0..L -> Outs]
        BY <1>4 DEF Recursive
    <2>1. ASSUME NEW n \in 0..L, n # 0 PROVE n \in 1..L /\ f[n - 1] \in Outs
        BY <1>1, <2>1
    <2>2. \A n \in 0..L : f[n] = IF n = 0 THEN base
              ELSE [v |-> Effect(f[n - 1].v, w[n]),
                    out |-> f[n - 1].out \o Reply(f[n - 1].v, w[n])]
        BY <1>4, <2>1 DEF Recursive
    <2> HIDE DEF step
    <2> QED  BY <1>4, <2>2 DEF Ran
<1>6. PICK g : Ran(g, v, w) /\ Execute(v, w) = g[L]
    BY <1>5, Zenon DEF Execute, Ran
<1>7. \A n \in 0..L : g[n] \in Outs
    <2> DEFINE S == {n \in 0..L : g[n] \in Outs}
    <2>1. \A n \in 0..L : g[n] = IF n = 0 THEN base
              ELSE [v |-> Effect(g[n - 1].v, w[n]),
                    out |-> g[n - 1].out \o Reply(g[n - 1].v, w[n])]
        BY <1>6 DEF Ran
    <2>2. 0 \in S
        <3>1. 0 \in 0..L
            BY <1>1
        <3>2. g[0] = base
            BY <2>1, <3>1, Zenon
        <3> QED  BY <1>3, <3>1, <3>2
    <2>3. ASSUME NEW n \in 1..L, n - 1 \in S PROVE n \in S
        <3>1. g[n - 1] \in Outs /\ w[n] \in Requests /\ n \in 0..L /\ n # 0
            BY <1>1, <2>3
        <3>2. [v |-> Effect(g[n - 1].v, w[n]),
               out |-> g[n - 1].out \o Reply(g[n - 1].v, w[n])] \in Outs
            BY <3>1, StepOut
        <3> QED  BY <2>1, <3>1, <3>2
    <2> HIDE DEF S
    <2>4. \A n \in 0..L : n \in S
        BY <1>1, <2>2, <2>3, UpTo
    <2> QED  BY <2>4 DEF S
<1> QED  BY <1>6, <1>7

\* No requests, no answers.
LEMMA ExecuteNone ==
    ASSUME NEW v \in Srvs, ~mode.binary
    PROVE  Execute(v, <<>>) = [v |-> v, out |-> <<>>]
<1>1. <<>> \in Seq(Requests) /\ Len(<<>>) = 0
    OBVIOUS
<1>2. PICK g : Ran(g, v, <<>>) /\ Execute(v, <<>>) = g[Len(<<>>)]
    BY <1>1, ExecuteRuns
<1> QED  BY <1>1, <1>2 DEF Ran

\* One more request is executed after the others.
LEMMA ExecuteAppend ==
    ASSUME NEW v \in Srvs, NEW w \in Seq(Requests), NEW r \in Requests, ~mode.binary
    PROVE  Execute(v, Append(w, r)) =
             [v |-> Effect(Execute(v, w).v, r),
              out |-> Execute(v, w).out \o Reply(Execute(v, w).v, r)]
<1> DEFINE u == Append(w, r)
           L == Len(w)
<1>1. /\ u \in Seq(Requests) /\ Len(u) = L + 1 /\ u[L + 1] = r
      /\ \A n \in 1..L : u[n] = w[n]
    BY AppendProperties
<1>2. L \in Nat
    BY LenProperties
<1> HIDE DEF u, L
<1>3. PICK g : Ran(g, v, u) /\ Execute(v, u) = g[L + 1]
    BY <1>1, ExecuteRuns
<1>4. PICK h : Ran(h, v, w) /\ Execute(v, w) = h[L]
    BY ExecuteRuns DEF L
<1>5. \A n \in 0..L : g[n] = h[n]
    <2> DEFINE S == {n \in 0..L : g[n] = h[n]}
    <2>1. \A n \in 0..(L + 1) : g[n] = IF n = 0 THEN [v |-> v, out |-> <<>>]
              ELSE [v |-> Effect(g[n - 1].v, u[n]),
                    out |-> g[n - 1].out \o Reply(g[n - 1].v, u[n])]
        BY <1>1, <1>3 DEF Ran
    <2>2. \A n \in 0..L : h[n] = IF n = 0 THEN [v |-> v, out |-> <<>>]
              ELSE [v |-> Effect(h[n - 1].v, w[n]),
                    out |-> h[n - 1].out \o Reply(h[n - 1].v, w[n])]
        BY <1>4 DEF Ran, L
    <2>3. 0 \in S
        <3>1. 0 \in 0..L /\ 0 \in 0..(L + 1)
            BY <1>2
        <3>2. g[0] = h[0]
            BY <2>1, <2>2, <3>1, Zenon
        <3> QED  BY <3>1, <3>2
    <2>4. ASSUME NEW n \in 1..L, n - 1 \in S PROVE n \in S
        <3>1. g[n - 1] = h[n - 1] /\ n \in 0..L /\ n \in 0..(L + 1) /\ n # 0 /\ u[n] = w[n]
            BY <1>1, <1>2, <2>4
        <3> QED  BY <2>1, <2>2, <3>1
    <2> HIDE DEF S
    <2>5. \A n \in 0..L : n \in S
        BY <1>2, <2>3, <2>4, UpTo
    <2> QED  BY <2>5 DEF S
<1>6. g[L + 1] = [v |-> Effect(g[L].v, r), out |-> g[L].out \o Reply(g[L].v, r)]
    <2>1. L + 1 \in 0..Len(u) /\ L + 1 # 0 /\ (L + 1) - 1 = L
        BY <1>1, <1>2
    <2> QED  BY <1>1, <1>3, <2>1 DEF Ran
<1>7. g[L] = h[L]
    BY <1>2, <1>5
<1> QED  BY <1>3, <1>4, <1>6, <1>7 DEF u

\* Whole answers put together are whole.
LEMMA CutConcat ==
    ASSUME NEW s \in Seq(Answers), NEW t \in Seq(Answers), ~Cut(s), ~Cut(t)
    PROVE  ~Cut(s \o t)
<1>1. Len(s) \in Nat /\ Len(t) \in Nat
    BY LenProperties
<1>2. Len(s \o t) = Len(s) + Len(t)
      /\ \A i \in 1..(Len(s) + Len(t)) : (s \o t)[i] = IF i <= Len(s) THEN s[i] ELSE t[i - Len(s)]
    BY ConcatProperties
<1>3. CASE t = <<>>
    <2>1. s \o t = s
        BY <1>3, ConcatEmptySeq
    <2> QED  BY <2>1
<1>4. CASE t # <<>>
    <2>1. Len(t) > 0
        BY <1>1, <1>4, EmptySeq
    <2>2. (s \o t)[Len(s \o t)] = t[Len(t)]
        BY <1>1, <1>2, <2>1
    <2> QED  BY <1>4, <2>2 DEF Cut
<1> QED  BY <1>3, <1>4

\* No requests: nothing will be answered.
LEMMA AskedNone == Asked(<<>>) = 0
<1>1. {j \in 1..Len(<<>>) : ~(<<>>)[j].quiet} = {}
    OBVIOUS
<1> QED  BY <1>1, FS_EmptySet DEF Asked

\* One more request: one more answer, unless it is quiet.
LEMMA AskedAppend ==
    ASSUME NEW w \in Seq(Requests), NEW r \in Requests
    PROVE  Asked(w) \in Nat /\ Asked(Append(w, r)) = Asked(w) + (IF r.quiet THEN 0 ELSE 1)
<1>1. <<r>> \in Seq(Requests) /\ Append(w, r) = w \o <<r>>
    BY AppendIsConcat
<1>2. Asked(<<r>>) = IF r.quiet THEN 0 ELSE 1
    <2>1. CASE r.quiet
        <3>1. {j \in 1..Len(<<r>>) : ~(<<r>>)[j].quiet} = {}
            BY <2>1
        <3> QED  BY <2>1, <3>1, FS_EmptySet DEF Asked
    <2>2. CASE ~r.quiet
        <3>1. {j \in 1..Len(<<r>>) : ~(<<r>>)[j].quiet} = {1}
            BY <2>2
        <3>2. Cardinality({1}) = 1
            BY FS_Singleton
        <3> QED  BY <2>2, <3>1, <3>2 DEF Asked
    <2> QED  BY <2>1, <2>2
<1>3. Asked(w) \in Nat /\ Asked(w \o <<r>>) = Asked(w) + Asked(<<r>>)
    BY <1>1, AskedConcat
<1> QED  BY <1>1, <1>2, <1>3

\* The outcome e of the requests w: an answer to each that is not quiet.
Served(e, w) ==
    /\ e \in Outs
    /\ Finals(e.out) = Asked(w) /\ ~Cut(e.out)
    /\ \A j \in 1..Len(e.out) : \E k \in 1..Len(w) : ~w[k].quiet /\ w[k].id = e.out[j].id

\* No requests are served by no answers.
LEMMA ServedNone ==
    ASSUME NEW v \in Srvs
    PROVE  Served([v |-> v, out |-> <<>>], <<>>)
BY FinalsNone, AskedNone DEF Served, Outs

\* Serving one more request.
LEMMA ServedAppend ==
    ASSUME NEW e, NEW w \in Seq(Requests), NEW r \in Requests, Served(e, w), ~mode.binary
    PROVE  Served([v |-> Effect(e.v, r), out |-> e.out \o Reply(e.v, r)], Append(w, r))
<1> DEFINE x == Reply(e.v, r)
           y == [v |-> Effect(e.v, r), out |-> e.out \o x]
           u == Append(w, r)
<1>1. e.v \in Srvs /\ e.out \in Seq(Answers) /\ e \in Outs
    BY DEF Served, Outs
<1>2. Answered(x, r)
    BY <1>1, ReplyAnswers
<1>3. y \in Outs
    BY <1>1, StepOut
<1>4. x \in Seq(Answers)
    BY <1>2 DEF Answered
<1> HIDE DEF x
<1>5. /\ Finals(e.out \o x) = Finals(e.out) + Finals(x)
      /\ ~Cut(e.out \o x)
    BY <1>1, <1>2, <1>4, FinalsConcat, CutConcat DEF Answered, Served
<1>6. Finals(e.out \o x) = Asked(u)
    BY <1>2, <1>5, AskedAppend DEF Answered, Served
<1>7. ASSUME NEW j \in 1..Len(e.out \o x)
      PROVE  \E k \in 1..Len(u) : ~u[k].quiet /\ u[k].id = (e.out \o x)[j].id
    <2>1. Len(e.out) \in Nat /\ Len(x) \in Nat /\ Len(w) \in Nat
        BY <1>1, <1>4, LenProperties
    <2>2. /\ Len(e.out \o x) = Len(e.out) + Len(x)
          /\ \A i \in 1..(Len(e.out) + Len(x)) :
                (e.out \o x)[i] = IF i <= Len(e.out) THEN e.out[i] ELSE x[i - Len(e.out)]
        BY <1>1, <1>4, ConcatProperties
    <2>3. /\ Len(u) = Len(w) + 1 /\ u[Len(w) + 1] = r
          /\ \A i \in 1..Len(w) : u[i] = w[i]
        BY AppendProperties
    <2>4. CASE j <= Len(e.out)
        <3>1. PICK k \in 1..Len(w) : ~w[k].quiet /\ w[k].id = e.out[j].id
            BY <2>1, <2>2, <2>4 DEF Served
        <3>2. k \in 1..Len(u) /\ u[k] = w[k]
            BY <2>1, <2>3
        <3> QED  BY <2>1, <2>2, <2>4, <3>1, <3>2
    <2>5. CASE j > Len(e.out)
        <3>1. j - Len(e.out) \in 1..Len(x) /\ (e.out \o x)[j] = x[j - Len(e.out)]
            BY <2>1, <2>2, <2>5
        <3>2. ~r.quiet
            <4>1. Len(x) # 0
                BY <2>1, <3>1
            <4> QED  BY <1>2, <4>1, EmptySeq DEF Answered
        <3>3. x[j - Len(e.out)].id = r.id
            BY <1>2, <3>1 DEF Answered
        <3>4. Len(w) + 1 \in 1..Len(u)
            BY <2>1, <2>3
        <3> QED  BY <2>3, <3>1, <3>2, <3>3, <3>4
    <2>6. j <= Len(e.out) \/ j > Len(e.out)
        BY <2>1, <2>2
    <2> QED  BY <2>4, <2>5, <2>6, Zenon
<1>8. y.out = e.out \o x
    OBVIOUS
<1> HIDE DEF y, u
<1>9. Served(y, u)
    BY <1>3, <1>5, <1>6, <1>7, <1>8 DEF Served
<1> QED  BY <1>9 DEF y, u, x

\* The server gives one answer to every request that is not quiet, in order.
LEMMA ExecuteServes ==
    ASSUME NEW v \in Srvs, NEW w \in Seq(Requests), ~mode.binary
    PROVE  Served(Execute(v, w), w)
<1> DEFINE S == {n \in Nat : \A u \in Seq(Requests) : Len(u) = n => Served(Execute(v, u), u)}
<1>1. 0 \in S
    <2>1. ASSUME NEW u \in Seq(Requests), Len(u) = 0 PROVE Served(Execute(v, u), u)
        <3>1. u = <<>>
            BY <2>1, EmptySeq
        <3> QED  BY <3>1, ExecuteNone, ServedNone
    <2> QED  BY <2>1
<1>2. Len(w) \in Nat
    BY LenProperties
<1>3. ASSUME NEW n \in 1..Len(w), n - 1 \in S PROVE n \in S
    <2>1. ASSUME NEW u \in Seq(Requests), Len(u) = n PROVE Served(Execute(v, u), u)
        <3>1. u # <<>>
            BY <2>1, EmptySeq
        <3>2. PICK t \in Seq(Requests), r \in Requests : u = Append(t, r)
            BY <3>1, SequenceEmptyOrAppend
        <3>3. Len(t) \in Nat /\ Len(u) = Len(t) + 1
            BY <3>2, AppendProperties, LenProperties
        <3>4. Len(t) = n - 1
            BY <2>1, <3>3
        <3>5. Served(Execute(v, t), t)
            BY <1>3, <3>4
        <3> QED  BY <3>2, <3>5, ExecuteAppend, ServedAppend
    <2> QED  BY <2>1
<1> HIDE DEF S
<1>4. Len(w) \in S
    <2>1. \A n \in 0..Len(w) : n \in S
        BY <1>1, <1>2, <1>3, UpTo
    <2> QED  BY <1>2, <2>1
<1> QED  BY <1>4 DEF S

-----------------------------------------------------------------------------
(* What is owed on a connection.                                           *)

\* No answers: none owed.
LEMMA OwedNone == Owed(<<>>) = 0
BY FinalsNone DEF Owed

\* What is owed is a number.
LEMMA OwedNat ==
    ASSUME NEW s \in Seq(Answers)
    PROVE  Finals(s) \in Nat /\ Owed(s) \in Nat /\ Finals(s) <= Owed(s)
BY FinalsConcat DEF Owed

\* Something unread is owed at least one answer.
LEMMA OwedSome ==
    ASSUME NEW s \in Seq(Answers), s # <<>>
    PROVE  Owed(s) >= 1
<1>1. Len(s) \in Nat /\ Len(s) >= 1
    BY EmptySeq, LenProperties
<1>2. CASE Cut(s)
    BY <1>2, OwedNat DEF Owed
<1>3. CASE ~Cut(s)
    <2>1. ~s[Len(s)].more
        BY <1>3 DEF Cut
    <2>2. Len(s) \in {j \in 1..Len(s) : ~s[j].more}
        BY <1>1, <2>1
    <2>3. IsFiniteSet({j \in 1..Len(s) : ~s[j].more})
        <3>1. IsFiniteSet(1..Len(s))
            BY FS_Interval, 1 \in Int, Len(s) \in Int, <1>1, Zenon
        <3> QED  BY <3>1, FS_Subset
    <2>4. Cardinality({j \in 1..Len(s) : ~s[j].more}) # 0
        BY <2>2, <2>3, FS_EmptySet
    <2> QED  BY <2>4, OwedNat DEF Finals
<1> QED  BY <1>2, <1>3

\* What is owed by whole answers and more behind them.
LEMMA OwedConcat ==
    ASSUME NEW s \in Seq(Answers), NEW t \in Seq(Answers), t # <<>>
    PROVE  Owed(s \o t) = Finals(s) + Owed(t) /\ (Cut(s \o t) <=> Cut(t))
<1>1. Len(s) \in Nat /\ Len(t) \in Nat /\ Len(t) > 0
    BY EmptySeq, LenProperties
<1>2. Len(s \o t) = Len(s) + Len(t)
      /\ \A i \in 1..(Len(s) + Len(t)) : (s \o t)[i] = IF i <= Len(s) THEN s[i] ELSE t[i - Len(s)]
    BY ConcatProperties
<1>3. (s \o t)[Len(s \o t)] = t[Len(t)] /\ s \o t # <<>>
    BY <1>1, <1>2
<1>4. Cut(s \o t) <=> Cut(t)
    BY <1>3 DEF Cut
<1>5. Finals(s \o t) = Finals(s) + Finals(t) /\ Finals(s) \in Nat /\ Finals(t) \in Nat
    BY FinalsConcat
<1> QED  BY <1>4, <1>5 DEF Owed

\* A loss at the end does not make more owed.
LEMMA OwedPrefix ==
    ASSUME NEW s \in Seq(Answers), NEW n \in 0..Len(s)
    PROVE  SubSeq(s, 1, n) \in Seq(Answers) /\ Owed(SubSeq(s, 1, n)) <= Owed(s)
<1> DEFINE p == SubSeq(s, 1, n)
           q == SubSeq(s, n + 1, Len(s))
<1>1. Len(s) \in Nat /\ \A i \in 1..Len(s) : s[i] \in Answers
    BY LenProperties, ElementOfSeq
<1>2. p \in Seq(Answers) /\ q \in Seq(Answers)
    <2>1. n \in Int /\ n + 1 \in Int /\ Len(s) \in Int /\ 1 \in Int
        BY <1>1
    <2>2. (\A i \in 1..n : s[i] \in Answers) /\ (\A i \in (n + 1)..Len(s) : s[i] \in Answers)
        BY <1>1
    <2> QED  BY <2>1, <2>2, SubSeqProperties
<1>3. s = p \o q
    <2>1. 1 \in 1..(Len(s) + 1) /\ n \in (1 - 1)..Len(s) /\ Len(s) \in n..Len(s)
        BY <1>1
    <2>2. SubSeq(s, 1, Len(s)) = p \o q
        BY <2>1, ConcatAdjacentSubSeq
    <2> QED  BY <2>2, SubSeqFull
<1> HIDE DEF p, q
<1>4. CASE q = <<>>
    <2>1. p \o q = p
        BY <1>2, <1>4, ConcatEmptySeq
    <2>2. s = p
        BY <1>3, <2>1
    <2>3. Owed(p) = Owed(s)
        BY <2>2, Zenon
    <2>4. Owed(p) <= Owed(s)
        BY <2>3, OwedNat
    <2> QED  BY <1>2, <2>4 DEF p
<1>5. CASE q # <<>>
    <2>1. Owed(s) = Finals(p) + Owed(q)
        BY <1>2, <1>3, <1>5, OwedConcat
    <2>2. Owed(q) >= 1 /\ Owed(q) \in Nat
        BY <1>2, <1>5, OwedSome, OwedNat
    <2>3. Owed(p) <= Finals(p) + 1 /\ Finals(p) \in Nat
        BY <1>2, OwedNat DEF Owed
    <2>4. Owed(p) \in Nat
        BY <1>2, OwedNat
    <2> QED  BY <1>2, <2>1, <2>2, <2>3, <2>4 DEF p
<1> QED  BY <1>4, <1>5

\* The head and the tail of a sequence that is not empty.
LEMMA HeadTail ==
    ASSUME NEW S, NEW s \in Seq(S), s # <<>>
    PROVE  /\ s[1] \in S /\ Tail(s) \in Seq(S) /\ s = <<s[1]>> \o Tail(s)
           /\ Len(Tail(s)) = Len(s) - 1 /\ Len(s) \in Nat \ {0}
           /\ \A j \in 1..Len(Tail(s)) : j + 1 \in 1..Len(s) /\ Tail(s)[j] = s[j + 1]
           /\ SubSeq(s, 2, Len(s)) = Tail(s)
<1>1. Len(s) \in Nat \ {0}
    BY EmptySeq
<1>2. s[1] \in S
    BY <1>1, ElementOfSeq
<1>3. Tail(s) \in Seq(S) /\ Len(Tail(s)) = Len(s) - 1
      /\ \A j \in 1..Len(Tail(s)) : Tail(s)[j] = s[j + 1]
    BY HeadTailProperties
<1>4. Tail(s) = SubSeq(s, 2, Len(s))
    BY TailIsSubSeq
<1>5. s = <<s[1]>> \o Tail(s)
    <2>1. 1 \in 1..Len(s) /\ Len(s) \in 1..Len(s) /\ 1 + 1 = 2
        BY <1>1
    <2>2. SubSeq(s, 1, Len(s)) = <<s[1]>> \o SubSeq(s, 1 + 1, Len(s))
        BY <2>1, SubSeqRecursiveFirst
    <2> QED  BY <1>4, <2>1, <2>2, SubSeqFull
<1> QED  BY <1>1, <1>2, <1>3, <1>4, <1>5

\* Reading one answer.
LEMMA OwedTail ==
    ASSUME NEW s \in Seq(Answers), s # <<>>
    PROVE  /\ Finals(s) = Finals(Tail(s)) + (IF s[1].more THEN 0 ELSE 1)
           /\ Owed(Tail(s)) + (IF s[1].more THEN 0 ELSE 1) <= Owed(s)
           /\ Cut(Tail(s)) => Cut(s)
           /\ Owed(s) >= 1
<1> DEFINE h == <<s[1]>>
           t == Tail(s)
<1>1. s[1] \in Answers /\ t \in Seq(Answers) /\ s = h \o t
    BY HeadTail
<1>2. h \in Seq(Answers)
    BY <1>1
<1>3. Finals(h) = IF s[1].more THEN 0 ELSE 1
    <2>1. CASE s[1].more
        <3>1. {j \in 1..Len(h) : ~h[j].more} = {}
            BY <2>1
        <3> QED  BY <2>1, <3>1, FS_EmptySet DEF Finals
    <2>2. CASE ~s[1].more
        BY <1>1, <2>2, FinalsOne
    <2> QED  BY <2>1, <2>2
<1> HIDE DEF h, t
<1>4. Finals(s) = Finals(h) + Finals(t) /\ Finals(t) \in Nat
    BY <1>1, <1>2, FinalsConcat
<1>5. Owed(s) >= 1 /\ Owed(s) \in Nat
    BY OwedSome, OwedNat
<1>6. CASE t = <<>>
    <2>1. Owed(t) = 0 /\ ~Cut(t)
        BY <1>6, OwedNone, FinalsNone, Zenon
    <2> QED  BY <1>3, <1>4, <1>5, <2>1 DEF t
<1>7. CASE t # <<>>
    <2>1. Owed(s) = Finals(h) + Owed(t) /\ (Cut(s) <=> Cut(t))
        BY <1>1, <1>2, <1>7, OwedConcat
    <2>2. Owed(t) \in Nat
        BY <1>1, OwedNat
    <2> QED  BY <1>3, <1>4, <1>5, <2>1, <2>2 DEF t
<1> QED  BY <1>6, <1>7

-----------------------------------------------------------------------------
(* One connection.  The counts: c covers what is owed and asked for, and is *)
(* exact until the connection breaks.                                       *)
Balance(i, c) ==
    /\ Owed(i.rbuf) + Asked(i.wbuf) <= c
    /\ ~i.broken => c = Finals(i.rbuf) + Asked(i.wbuf) /\ ~Cut(i.rbuf)

\* Nothing belongs to a call later than id.
Past(i, id) ==
    /\ \A j \in 1..Len(i.rbuf) : i.rbuf[j].id <= id
    /\ \A j \in 1..Len(i.wbuf) : i.wbuf[j].id <= id

InstOK(i, id) ==
    /\ i \in Insts /\ (~i.fd => i = Closed)
    /\ Balance(i, i.cursor) /\ Past(i, id) /\ i.cursor <= id

\* Nothing that will be answered belongs to call id yet.
Fresh(i, id) ==
    /\ \A j \in 1..Len(i.rbuf) : i.rbuf[j].id < id
    /\ \A j \in 1..Len(i.wbuf) : ~i.wbuf[j].quiet => i.wbuf[j].id < id
    /\ i.cursor < id

\* The answers of call id come last, and the count tells where they begin.
Reading(i, id) == i.fd =>
    /\ i.wbuf = <<>>
    /\ \E old, own \in Seq(Answers) :
          /\ i.rbuf = old \o own /\ Owed(old) < i.cursor
          /\ \A j \in 1..Len(own) : own[j].id = id

\* All that will be answered belongs to call id, and is one answer.
Mine(i, id) ==
    /\ i.cursor <= 1
    /\ \A j \in 1..Len(i.rbuf) : i.rbuf[j].id = id
    /\ \A j \in 1..Len(i.wbuf) : ~i.wbuf[j].quiet => i.wbuf[j].id = id
Sent(i) == i.cursor # 0 => i.wbuf = <<>>

\* Nothing is a sequence of requests and of answers.
LEMMA NoItems == <<>> \in Seq(Requests) /\ <<>> \in Seq(Answers)
BY EmptySeq

\* A connection just made or closed carries nothing.
LEMMA NewInst ==
    ASSUME NEW i \in {Closed, Opened}, NEW id \in Nat
    PROVE  /\ InstOK(i, id) /\ Mine(i, id) /\ Sent(i) /\ (id > 0 => Fresh(i, id))
           /\ i.rbuf = <<>> /\ i.wbuf = <<>> /\ i.cursor = 0 /\ ~i.broken
<1>1. /\ i.rbuf = <<>> /\ i.wbuf = <<>> /\ i.cursor = 0 /\ ~i.broken
      /\ i \in Insts /\ (~i.fd => i = Closed)
    <2>1. CASE i = Closed
        BY <2>1, NoItems DEF Closed, Insts
    <2>2. CASE i = Opened
        BY <2>2, NoItems DEF Closed, Opened, Insts
    <2> QED  BY <2>1, <2>2
<1>2. Owed(<<>>) = 0 /\ Asked(<<>>) = 0 /\ Finals(<<>>) = 0 /\ ~Cut(<<>>)
    BY OwedNone, AskedNone, FinalsNone
<1>3. Len(i.rbuf) = 0 /\ Len(i.wbuf) = 0
    BY <1>1
<1>4. Balance(i, i.cursor)
    <2>1. Balance(i, 0)
        BY <1>1, <1>2 DEF Balance
    <2> QED  BY <1>1, <2>1
<1>5. Past(i, id) /\ Mine(i, id) /\ (id > 0 => Fresh(i, id)) /\ Sent(i)
    BY <1>1, <1>3 DEF Past, Mine, Fresh, Sent
<1> QED  BY <1>1, <1>4, <1>5 DEF InstOK

\* The parts of an instance.
LEMMA InstFields ==
    ASSUME NEW i \in Insts
    PROVE  /\ i.wbuf \in Seq(Requests) /\ i.rbuf \in Seq(Answers)
           /\ Len(i.wbuf) \in Nat /\ Len(i.rbuf) \in Nat /\ i.cursor \in Nat
           /\ i.fd \in BOOLEAN /\ i.broken \in BOOLEAN
           /\ Asked(i.wbuf) \in Nat /\ Finals(i.rbuf) \in Nat /\ Owed(i.rbuf) \in Nat
<1>1. i.wbuf \in Seq(Requests) /\ i.rbuf \in Seq(Answers) /\ i.cursor \in Nat
      /\ i.fd \in BOOLEAN /\ i.broken \in BOOLEAN
    BY DEF Insts
<1> QED  BY <1>1, LenProperties, AskedConcat, OwedNat

\* What io_flush leaves: all sent, or the connection closed.
LEMMA FlushOut ==
    ASSUME NEW i \in Insts, NEW v \in Srvs, NEW o \in io_flush(i, v), ~mode.binary
    PROVE  /\ o.v \in Srvs
           /\ \/ ~o.ok /\ o.i = Closed
              \/ /\ o.ok /\ o.i \in Insts /\ o.i.wbuf = <<>> /\ o.i.cursor = i.cursor
                 /\ o.i.fd = i.fd /\ o.i.broken = i.broken
                 /\ \E out \in Seq(Answers) :
                      /\ o.i.rbuf = i.rbuf \o out
                      /\ \/ out = <<>> /\ (i.broken \/ i.wbuf = <<>>)
                         \/ ~i.broken /\ out = Execute(v, i.wbuf).out
<1>1. i.rbuf \o <<>> = i.rbuf /\ <<>> \in Seq(Answers)
    BY InstFields, ConcatEmptySeq
<1>2. CASE i.wbuf = <<>>
    <2>1. o.v = v /\ o.i = i /\ o.ok
        BY <1>2 DEF io_flush, Out
    <2> QED  BY <1>1, <1>2, <2>1
<1>3. CASE i.wbuf # <<>> /\ ~i.fd
    <2>1. o.v = v /\ o.i = Closed /\ ~o.ok
        BY <1>3 DEF io_flush, Out
    <2> QED  BY <2>1
<1>4. CASE i.wbuf # <<>> /\ i.fd /\ i.broken
    <2>1. o \in {Out(Closed, v, FALSE), Out([i EXCEPT !.wbuf = <<>>], v, TRUE)}
        BY <1>4 DEF io_flush
    <2>2. CASE o = Out(Closed, v, FALSE)
        BY <2>2 DEF Out
    <2>3. CASE o = Out([i EXCEPT !.wbuf = <<>>], v, TRUE)
        <3>1. o.v = v /\ o.ok /\ o.i = [i EXCEPT !.wbuf = <<>>]
            BY <2>3 DEF Out
        <3>2. /\ o.i \in Insts /\ o.i.wbuf = <<>> /\ o.i.cursor = i.cursor
              /\ o.i.fd = i.fd /\ o.i.broken = i.broken /\ o.i.rbuf = i.rbuf
            BY <3>1, NoItems DEF Insts
        <3> QED  BY <1>1, <1>4, <3>1, <3>2
    <2> QED  BY <2>1, <2>2, <2>3
<1>5. CASE i.wbuf # <<>> /\ i.fd /\ ~i.broken
    <2> DEFINE x == Execute(v, i.wbuf)
    <2>1. Served(x, i.wbuf)
        BY InstFields, ExecuteServes
    <2>2. x.v \in Srvs /\ x.out \in Seq(Answers)
        BY <2>1 DEF Served, Outs
    <2>3. o = Out([i EXCEPT !.wbuf = <<>>, !.rbuf = i.rbuf \o x.out], x.v, TRUE)
        BY <1>5 DEF io_flush
    <2> HIDE DEF x
    <2>4. o.v = x.v /\ o.ok /\ o.i = [i EXCEPT !.wbuf = <<>>, !.rbuf = i.rbuf \o x.out]
        BY <2>3 DEF Out
    <2>5. i.rbuf \o x.out \in Seq(Answers)
        BY <2>2, InstFields, ConcatProperties
    <2>6. /\ o.i \in Insts /\ o.i.wbuf = <<>> /\ o.i.cursor = i.cursor
          /\ o.i.fd = i.fd /\ o.i.broken = i.broken /\ o.i.rbuf = i.rbuf \o x.out
        BY <2>4, <2>5, NoItems DEF Insts
    <2> QED  BY <1>5, <2>2, <2>4, <2>6 DEF x
<1>6. i.fd \in BOOLEAN /\ i.broken \in BOOLEAN
    BY InstFields
<1> QED  BY <1>2, <1>3, <1>4, <1>5, <1>6

\* After a successful io_flush nothing is buffered and the count is the same.
LEMMA FlushSent ==
    ASSUME NEW i \in Insts, NEW v \in Srvs, NEW o \in io_flush(i, v), ~mode.binary, o.ok
    PROVE  /\ o.i \in Insts /\ o.i.wbuf = <<>> /\ o.i.cursor = i.cursor
           /\ o.i.fd = i.fd /\ o.i.broken = i.broken
BY FlushOut

\* io_flush keeps the counts: the answers take the place of the requests.
LEMMA FlushBalance ==
    ASSUME NEW i \in Insts, NEW v \in Srvs, NEW o \in io_flush(i, v), ~mode.binary, o.ok,
           NEW c \in Nat, Balance(i, c)
    PROVE  Balance(o.i, c)
<1>1. /\ o.i \in Insts /\ o.i.wbuf = <<>> /\ o.i.broken = i.broken
    BY FlushOut, NewInst DEF Closed
<1>2. PICK out \in Seq(Answers) :
        /\ o.i.rbuf = i.rbuf \o out
        /\ \/ out = <<>> /\ (i.broken \/ i.wbuf = <<>>)
           \/ ~i.broken /\ out = Execute(v, i.wbuf).out
    BY FlushOut
<1>3. i.rbuf \in Seq(Answers) /\ Asked(i.wbuf) \in Nat /\ Owed(i.rbuf) \in Nat
      /\ Finals(i.rbuf) \in Nat
    BY InstFields
<1>4. CASE out = <<>> /\ (i.broken \/ i.wbuf = <<>>)
    <2>1. o.i.rbuf = i.rbuf
        BY <1>2, <1>3, <1>4, ConcatEmptySeq
    <2>2. Asked(o.i.wbuf) = 0
        BY <1>1, AskedNone
    <2>3. Owed(o.i.rbuf) = Owed(i.rbuf) /\ Finals(o.i.rbuf) = Finals(i.rbuf)
          /\ (Cut(o.i.rbuf) <=> Cut(i.rbuf))
        BY <2>1
    <2>4. ~i.broken => Asked(i.wbuf) = 0
        BY <1>4, AskedNone
    <2> QED  BY <1>1, <1>3, <2>2, <2>3, <2>4 DEF Balance
<1>5. CASE ~i.broken /\ out = Execute(v, i.wbuf).out
    <2>1. Finals(out) = Asked(i.wbuf) /\ ~Cut(out)
        BY <1>5, InstFields, ExecuteServes DEF Served
    <2>2. ~Cut(i.rbuf) /\ c = Finals(i.rbuf) + Asked(i.wbuf)
        BY <1>5 DEF Balance
    <2>3. ~Cut(o.i.rbuf) /\ Finals(o.i.rbuf) = c
        BY <1>2, <1>3, <2>1, <2>2, CutConcat, FinalsConcat
    <2>4. Owed(o.i.rbuf) = c
        BY <2>3 DEF Owed
    <2>5. Asked(o.i.wbuf) = 0
        BY <1>1, AskedNone
    <2> QED  BY <2>3, <2>4, <2>5 DEF Balance
<1> QED  BY <1>2, <1>4, <1>5

\* A flush leaves nothing of this call that was not asked for.
LEMMA FlushIds ==
    ASSUME NEW i \in Insts, NEW v \in Srvs, NEW o \in io_flush(i, v), ~mode.binary, o.ok,
           NEW j \in 1..Len(o.i.rbuf)
    PROVE  \/ \E k \in 1..Len(i.rbuf) : i.rbuf[k].id = o.i.rbuf[j].id
           \/ \E k \in 1..Len(i.wbuf) : ~i.wbuf[k].quiet /\ i.wbuf[k].id = o.i.rbuf[j].id
<1>1. PICK out \in Seq(Answers) :
        /\ o.i.rbuf = i.rbuf \o out
        /\ \/ out = <<>> /\ (i.broken \/ i.wbuf = <<>>)
           \/ ~i.broken /\ out = Execute(v, i.wbuf).out
    BY FlushOut
<1>2. i.rbuf \in Seq(Answers) /\ Len(i.rbuf) \in Nat /\ Len(out) \in Nat
    BY InstFields, LenProperties
<1>3. /\ Len(o.i.rbuf) = Len(i.rbuf) + Len(out)
      /\ \A k \in 1..(Len(i.rbuf) + Len(out)) :
            o.i.rbuf[k] = IF k <= Len(i.rbuf) THEN i.rbuf[k] ELSE out[k - Len(i.rbuf)]
    BY <1>1, <1>2, ConcatProperties
<1>4. CASE j <= Len(i.rbuf)
    BY <1>2, <1>3, <1>4
<1>5. CASE j > Len(i.rbuf)
    <2>1. j - Len(i.rbuf) \in 1..Len(out) /\ o.i.rbuf[j] = out[j - Len(i.rbuf)]
        BY <1>2, <1>3, <1>5
    <2>2. out = Execute(v, i.wbuf).out
        <3>1. Len(out) # 0
            BY <1>2, <2>1
        <3> QED  BY <1>1, <3>1
    <2> QED  BY <2>1, <2>2, InstFields, ExecuteServes DEF Served
<1>6. j <= Len(i.rbuf) \/ j > Len(i.rbuf)
    BY <1>2, <1>3
<1> QED  BY <1>4, <1>5, <1>6, Zenon

\* io_flush between two requests.
LEMMA FlushOK ==
    ASSUME NEW i, NEW v \in Srvs, NEW o \in io_flush(i, v), ~mode.binary,
           NEW id \in Nat, InstOK(i, id)
    PROVE  /\ InstOK(o.i, id) /\ o.v \in Srvs /\ o.i.wbuf = <<>> /\ Sent(o.i)
           /\ o.i.cursor \in {0, i.cursor}
           /\ Mine(i, id) => Mine(o.i, id)
<1>1. i \in Insts /\ Balance(i, i.cursor) /\ Past(i, id) /\ i.cursor <= id
    BY DEF InstOK
<1>2. o.v \in Srvs /\ (o.ok \/ (~o.ok /\ o.i = Closed))
    BY <1>1, FlushOut
<1>3. CASE ~o.ok /\ o.i = Closed
    BY <1>2, <1>3, NewInst
<1>4. CASE o.ok
    <2>1. /\ o.i \in Insts /\ o.i.wbuf = <<>> /\ o.i.cursor = i.cursor
          /\ o.i.fd = i.fd /\ o.i.broken = i.broken
        BY <1>1, <1>4, FlushOut
    <2>2. Balance(o.i, i.cursor)
        BY <1>1, <1>4, FlushBalance, InstFields
    <2>3. Len(o.i.wbuf) = 0
        BY <2>1
    <2>4. \A j \in 1..Len(o.i.rbuf) :
            \/ \E k \in 1..Len(i.rbuf) : i.rbuf[k].id = o.i.rbuf[j].id
            \/ \E k \in 1..Len(i.wbuf) : ~i.wbuf[k].quiet /\ i.wbuf[k].id = o.i.rbuf[j].id
        BY <1>1, <1>4, FlushIds
    <2>5. Past(o.i, id)
        <3>1. ASSUME NEW j \in 1..Len(o.i.rbuf) PROVE o.i.rbuf[j].id <= id
            <4>1. CASE \E k \in 1..Len(i.rbuf) : i.rbuf[k].id = o.i.rbuf[j].id
                BY <1>1, <4>1 DEF Past
            <4>2. CASE \E k \in 1..Len(i.wbuf) :
                         ~i.wbuf[k].quiet /\ i.wbuf[k].id = o.i.rbuf[j].id
                BY <1>1, <4>2 DEF Past
            <4> QED  BY <2>4, <4>1, <4>2
        <3>2. \A j \in 1..Len(o.i.wbuf) : FALSE
            BY <2>3
        <3> QED  BY <3>1, <3>2 DEF Past
    <2>6. ASSUME Mine(i, id) PROVE Mine(o.i, id)
        <3>1. ASSUME NEW j \in 1..Len(o.i.rbuf) PROVE o.i.rbuf[j].id = id
            <4>1. CASE \E k \in 1..Len(i.rbuf) : i.rbuf[k].id = o.i.rbuf[j].id
                BY <2>6, <4>1 DEF Mine
            <4>2. CASE \E k \in 1..Len(i.wbuf) :
                         ~i.wbuf[k].quiet /\ i.wbuf[k].id = o.i.rbuf[j].id
                BY <2>6, <4>2 DEF Mine
            <4> QED  BY <2>4, <4>1, <4>2
        <3>2. \A j \in 1..Len(o.i.wbuf) : FALSE
            BY <2>3
        <3>3. o.i.cursor <= 1
            BY <2>1, <2>6 DEF Mine
        <3> QED  BY <3>1, <3>2, <3>3 DEF Mine
    <2>7. ~o.i.fd => o.i = Closed
        <3>1. SUFFICES ASSUME ~i.fd PROVE o.i = Closed
            BY <2>1
        <3>2. i = Closed
            BY <3>1 DEF InstOK
        <3>3. i.wbuf = <<>>
            BY <3>2 DEF Closed
        <3>4. io_flush(i, v) = {Out(i, v, TRUE)}
            BY <3>3 DEF io_flush
        <3> QED  BY <3>2, <3>4 DEF Out
    <2>8. InstOK(o.i, id)
        <3>1. Balance(o.i, o.i.cursor) /\ o.i.cursor <= id
            BY <1>1, <2>1, <2>2
        <3> QED  BY <2>1, <2>5, <2>7, <3>1 DEF InstOK
    <2> QED  BY <1>2, <2>1, <2>6, <2>8 DEF Sent
<1> QED  BY <1>2, <1>3, <1>4

\* A request appended to what is buffered.
Buffered(i, r) == [i EXCEPT !.wbuf = Append(i.wbuf, r)]
Cost(r) == IF r.quiet THEN 0 ELSE 1

\* A request is buffered, and will be counted unless it is quiet.
LEMMA BufferedBalance ==
    ASSUME NEW i \in Insts, Balance(i, i.cursor), NEW r \in Requests
    PROVE  /\ Buffered(i, r) \in Insts /\ Balance(Buffered(i, r), i.cursor + Cost(r))
           /\ Buffered(i, r).wbuf = Append(i.wbuf, r) /\ Buffered(i, r).rbuf = i.rbuf
           /\ Buffered(i, r).cursor = i.cursor /\ i.cursor + Cost(r) \in Nat
           /\ Buffered(i, r).fd = i.fd /\ Buffered(i, r).broken = i.broken
<1> DEFINE k == Buffered(i, r)
<1>1. Append(i.wbuf, r) \in Seq(Requests)
    BY InstFields, AppendProperties
<1>2. /\ k \in Insts /\ k.wbuf = Append(i.wbuf, r) /\ k.rbuf = i.rbuf
      /\ k.cursor = i.cursor /\ k.fd = i.fd /\ k.broken = i.broken
    BY <1>1 DEF Buffered, Insts
<1> HIDE DEF k
<1>3. /\ Owed(k.rbuf) = Owed(i.rbuf) /\ Finals(k.rbuf) = Finals(i.rbuf)
      /\ (Cut(k.rbuf) <=> Cut(i.rbuf))
    BY <1>2
<1>4. Asked(k.wbuf) = Asked(i.wbuf) + Cost(r)
    BY <1>2, AskedAppend, InstFields DEF Cost
<1>5. Owed(i.rbuf) \in Nat /\ Asked(i.wbuf) \in Nat /\ Finals(i.rbuf) \in Nat /\ i.cursor \in Nat
      /\ Cost(r) \in Nat
    BY InstFields DEF Cost
<1>6. Balance(k, i.cursor + Cost(r))
    <2>1. i.broken \in BOOLEAN /\ k.broken = i.broken
        BY <1>2, InstFields
    <2>2. Owed(k.rbuf) + Asked(k.wbuf) <= i.cursor + Cost(r)
        BY <1>3, <1>4, <1>5 DEF Balance
    <2>3. ~i.broken => /\ i.cursor + Cost(r) = Finals(k.rbuf) + Asked(k.wbuf)
                       /\ ~Cut(k.rbuf)
        BY <1>3, <1>4, <1>5 DEF Balance
    <2> QED  BY <2>1, <2>2, <2>3 DEF Balance
<1> QED  BY <1>2, <1>5, <1>6 DEF k

\* What a memcached_io_write of r leaves on connection i.
Written(i, o, r, id, flush) ==
    LET k == IF r.quiet THEN o.i ELSE Increment(o.i)
    IN /\ InstOK(k, id) /\ k.cursor = i.cursor + Cost(r)
       /\ IF flush THEN k.wbuf = <<>> ELSE k.wbuf = Append(i.wbuf, r) /\ k.rbuf = i.rbuf
       /\ flush /\ ~r.quiet /\ r.id = id => Reading(k, id)

\* A count below the modulus is the count itself.
LEMMA SmallMod ==
    ASSUME NEW a \in Nat, a < CursorMod
    PROVE  a % CursorMod = a
<1>1. CursorMod \in Nat
    BY CommandsAssumption DEF CommandsAssumption
<1> QED  BY <1>1

\* memcached_server_response_increment adds one.
LEMMA IncrementIs ==
    ASSUME NEW i \in Insts, i.cursor + 1 < CursorMod
    PROVE  /\ Increment(i) \in Insts /\ Increment(i).cursor = i.cursor + 1
           /\ Increment(i).fd = i.fd /\ Increment(i).broken = i.broken
           /\ Increment(i).wbuf = i.wbuf /\ Increment(i).rbuf = i.rbuf
<1>1. (i.cursor + 1) % CursorMod = i.cursor + 1 /\ i.cursor + 1 \in Nat
    BY InstFields, SmallMod
<1> QED  BY <1>1 DEF Increment, Insts

\* A request written and sent at once: its answer comes last.
LEMMA WriteFlushed ==
    ASSUME NEW i, NEW v \in Srvs, NEW r \in Requests, ~mode.binary, NEW id \in 1..Calls,
           InstOK(i, id), i.cursor + Cost(r) <= id, r.id <= id, i.fd,
           NEW o \in io_flush(Buffered(i, r), v), o.ok
    PROVE  Written(i, o, r, id, TRUE)
<1> DEFINE k == Buffered(i, r)
           c == i.cursor + Cost(r)
           n == IF r.quiet THEN o.i ELSE Increment(o.i)
<1>1. i \in Insts /\ Balance(i, i.cursor) /\ Past(i, id)
    BY DEF InstOK
<1>2. /\ k \in Insts /\ Balance(k, c) /\ k.wbuf = Append(i.wbuf, r) /\ k.rbuf = i.rbuf
      /\ k.cursor = i.cursor /\ c \in Nat /\ k.fd = i.fd /\ k.broken = i.broken
    BY <1>1, BufferedBalance
<1> HIDE DEF k
<1>3. o \in io_flush(k, v)
    BY DEF k
<1>4. /\ o.i \in Insts /\ o.i.wbuf = <<>> /\ o.i.cursor = i.cursor
      /\ o.i.fd /\ o.i.broken = i.broken /\ Balance(o.i, c)
    <2>1. Balance(o.i, c)
        BY <1>2, <1>3, FlushBalance
    <2>2. /\ o.i \in Insts /\ o.i.wbuf = <<>> /\ o.i.cursor = k.cursor
          /\ o.i.fd = k.fd /\ o.i.broken = k.broken
        BY <1>2, <1>3, FlushSent, Zenon
    <2> QED  BY <1>2, <2>1, <2>2
<1>5. /\ n \in Insts /\ n.wbuf = <<>> /\ n.cursor = c /\ n.rbuf = o.i.rbuf
      /\ n.fd /\ n.broken = i.broken
    <2>1. CASE r.quiet
        BY <1>1, <1>4, <2>1, InstFields DEF Cost
    <2>2. CASE ~r.quiet
        <3>1. o.i.cursor + 1 < CursorMod
            BY <1>1, <1>4, <2>2, InstFields, CommandsAssumption DEF Cost, CommandsAssumption
        <3> QED  BY <1>4, <2>2, <3>1, IncrementIs DEF Cost
    <2> QED  BY <2>1, <2>2
<1> HIDE DEF n
<1>6. Balance(n, n.cursor)
    <2>1. n.rbuf = o.i.rbuf /\ n.wbuf = o.i.wbuf /\ n.broken = o.i.broken
        BY <1>4, <1>5
    <2> QED  BY <1>4, <1>5, <2>1 DEF Balance
<1>7. Len(i.wbuf) \in Nat /\ Len(k.wbuf) = Len(i.wbuf) + 1 /\ k.wbuf[Len(i.wbuf) + 1] = r
      /\ \A j \in 1..Len(i.wbuf) : k.wbuf[j] = i.wbuf[j]
    BY <1>1, <1>2, InstFields, AppendProperties
<1>8. Past(n, id)
    <2>1. ASSUME NEW j \in 1..Len(n.rbuf) PROVE n.rbuf[j].id <= id
        <3>1. j \in 1..Len(o.i.rbuf) /\ n.rbuf[j] = o.i.rbuf[j]
            BY <1>5
        <3>2. \/ \E m \in 1..Len(k.rbuf) : k.rbuf[m].id = o.i.rbuf[j].id
              \/ \E m \in 1..Len(k.wbuf) : ~k.wbuf[m].quiet /\ k.wbuf[m].id = o.i.rbuf[j].id
            BY <1>2, <1>3, <3>1, FlushIds
        <3>3. CASE \E m \in 1..Len(k.rbuf) : k.rbuf[m].id = o.i.rbuf[j].id
            BY <1>1, <1>2, <3>1, <3>3 DEF Past
        <3>4. CASE \E m \in 1..Len(k.wbuf) : k.wbuf[m].id = o.i.rbuf[j].id
            <4>1. PICK m \in 1..Len(k.wbuf) : k.wbuf[m].id = o.i.rbuf[j].id
                BY <3>4
            <4>2. m = Len(i.wbuf) + 1 \/ m \in 1..Len(i.wbuf)
                BY <1>7
            <4>3. k.wbuf[m].id <= id
                BY <1>1, <1>7, <4>2 DEF Past
            <4> QED  BY <3>1, <4>1, <4>3
        <3> QED  BY <3>2, <3>3, <3>4
    <2>2. Len(n.wbuf) = 0
        BY <1>5
    <2>3. \A j \in 1..Len(n.wbuf) : FALSE
        BY <2>2
    <2> QED  BY <2>1, <2>3 DEF Past
<1>9. InstOK(n, id)
    BY <1>5, <1>6, <1>8 DEF InstOK
<1>10. ASSUME ~r.quiet, r.id = id PROVE Reading(n, id)
    <2>1. PICK out \in Seq(Answers) :
            /\ n.rbuf = i.rbuf \o out
            /\ \/ out = <<>> /\ i.broken
               \/ ~i.broken /\ out = Execute(v, Append(i.wbuf, r)).out
        <3>1. k.wbuf # <<>>
            BY <1>7
        <3>2. \E out \in Seq(Answers) :
                /\ o.i.rbuf = k.rbuf \o out
                /\ \/ out = <<>> /\ (k.broken \/ k.wbuf = <<>>)
                   \/ ~k.broken /\ out = Execute(v, k.wbuf).out
            BY <1>2, <1>3, <1>4, FlushOut
        <3> QED  BY <1>2, <1>5, <3>1, <3>2
    <2>2. i.rbuf \in Seq(Answers) /\ i.wbuf \in Seq(Requests) /\ Owed(i.rbuf) \in Nat
          /\ Asked(i.wbuf) \in Nat /\ n.cursor = i.cursor + 1 /\ i.cursor \in Nat
          /\ Finals(i.rbuf) \in Nat
        BY <1>1, <1>5, <1>10, InstFields DEF Cost
    <2>3. CASE out = <<>> /\ i.broken
        <3>1. Owed(i.rbuf) < n.cursor
            BY <1>1, <2>2 DEF Balance
        <3>2. \A j \in 1..Len(out) : out[j].id = id
            BY <2>3
        <3> QED  BY <1>5, <2>1, <2>2, <3>1, <3>2 DEF Reading
    <2>4. CASE ~i.broken /\ out = Execute(v, Append(i.wbuf, r)).out
        <3> DEFINE e == Execute(v, i.wbuf)
                   own == Reply(e.v, r)
                   old == i.rbuf \o e.out
        <3>1. Served(e, i.wbuf)
            BY <2>2, ExecuteServes
        <3>2. e.v \in Srvs /\ e.out \in Seq(Answers) /\ ~Cut(e.out)
              /\ Finals(e.out) = Asked(i.wbuf)
            BY <3>1 DEF Served, Outs
        <3>3. out = e.out \o own
            <4>1. Execute(v, Append(i.wbuf, r)) = [v |-> Effect(e.v, r), out |-> e.out \o own]
                BY <2>2, ExecuteAppend
            <4> HIDE DEF e, own
            <4> QED  BY <2>4, <4>1
        <3> HIDE DEF e
        <3>4. Answered(own, r)
            BY <3>2, ReplyAnswers
        <3>5. own \in Seq(Answers) /\ \A j \in 1..Len(own) : own[j].id = id
            BY <1>10, <3>4 DEF Answered
        <3> HIDE DEF own
        <3>6. n.rbuf = old \o own /\ old \in Seq(Answers)
            <4>1. old \o own = i.rbuf \o (e.out \o own)
                <5>1. \A x, y, z \in Seq(Answers) : (x \o y) \o z = x \o (y \o z)
                    BY ConcatAssociative
                <5> QED  BY <2>2, <3>2, <3>5, <5>1
            <4>2. old \in Seq(Answers)
                BY <2>2, <3>2, ConcatProperties
            <4> QED  BY <2>1, <3>3, <4>1, <4>2
        <3>7. ~Cut(i.rbuf) /\ i.cursor = Finals(i.rbuf) + Asked(i.wbuf)
            BY <1>1, <2>4 DEF Balance
        <3>8. ~Cut(old) /\ Finals(old) = i.cursor
            BY <2>2, <3>2, <3>7, CutConcat, FinalsConcat
        <3>9. Owed(old) < n.cursor
            BY <2>2, <3>8 DEF Owed
        <3> QED  BY <1>5, <3>5, <3>6, <3>9 DEF Reading
    <2> QED  BY <2>1, <2>3, <2>4
<1> QED  BY <1>5, <1>9, <1>10 DEF Written, n

\* A request written, sent or not, keeps the counts with its answer counted.
LEMMA WriteOK ==
    ASSUME NEW i, NEW v \in Srvs, NEW r \in Requests, ~mode.binary, NEW id \in 1..Calls,
           InstOK(i, id), i.cursor + Cost(r) <= id, r.id <= id, i.fd,
           NEW flush \in BOOLEAN, NEW o \in memcached_io_write(i, v, r, flush)
    PROVE  /\ o.v \in Srvs /\ (o.ok => Written(i, o, r, id, flush))
           /\ ~o.ok => o.i = Closed /\ flush
<1>1. i \in Insts /\ Balance(i, i.cursor) /\ Past(i, id)
    BY DEF InstOK
<1>2. /\ Buffered(i, r) \in Insts /\ Balance(Buffered(i, r), i.cursor + Cost(r))
      /\ Buffered(i, r).wbuf = Append(i.wbuf, r) /\ Buffered(i, r).rbuf = i.rbuf
      /\ Buffered(i, r).cursor = i.cursor
      /\ Buffered(i, r).fd = i.fd /\ Buffered(i, r).broken = i.broken
    BY <1>1, BufferedBalance
<1>3. CASE flush
    <2>1. o \in io_flush(Buffered(i, r), v)
        BY <1>3 DEF memcached_io_write, Buffered
    <2>2. o.v \in Srvs /\ (o.ok \/ (~o.ok /\ o.i = Closed))
        BY <1>2, <2>1, FlushOut
    <2>3. o.ok => Written(i, o, r, id, TRUE)
        BY <2>1, WriteFlushed
    <2> QED  BY <1>3, <2>2, <2>3
<1>4. CASE ~flush
    <2>1. o = Out(Buffered(i, r), v, TRUE)
        BY <1>4 DEF memcached_io_write, Buffered
    <2> DEFINE k == IF r.quiet THEN Buffered(i, r) ELSE Increment(Buffered(i, r))
    <2>2. o.v = v /\ o.ok /\ o.i = Buffered(i, r)
        BY <2>1 DEF Out
    <2>3. /\ k \in Insts /\ k.wbuf = Append(i.wbuf, r) /\ k.rbuf = i.rbuf /\ k.fd
          /\ k.broken = i.broken /\ k.cursor = i.cursor + Cost(r)
        <3>1. CASE r.quiet
            <4>1. k = Buffered(i, r)
                BY <3>1
            <4>2. i.cursor + Cost(r) = i.cursor
                BY <1>1, <3>1, InstFields DEF Cost
            <4> HIDE DEF k
            <4> QED  BY <1>2, <4>1, <4>2
        <3>2. CASE ~r.quiet
            <4>1. Buffered(i, r).cursor + 1 < CursorMod
                BY <1>1, <1>2, <3>2, InstFields, CommandsAssumption DEF Cost, CommandsAssumption
            <4> QED  BY <1>2, <3>2, <4>1, IncrementIs DEF Cost
        <3> QED  BY <3>1, <3>2
    <2> HIDE DEF k
    <2>4. Balance(k, k.cursor)
        <3>1. /\ k.rbuf = Buffered(i, r).rbuf /\ k.wbuf = Buffered(i, r).wbuf
              /\ k.broken = Buffered(i, r).broken
            BY <1>2, <2>3
        <3> QED  BY <1>2, <2>3, <3>1 DEF Balance
    <2>5. Past(k, id)
        <3>1. /\ Len(i.wbuf) \in Nat /\ Len(k.wbuf) = Len(i.wbuf) + 1
              /\ k.wbuf[Len(i.wbuf) + 1] = r
              /\ \A j \in 1..Len(i.wbuf) : k.wbuf[j] = i.wbuf[j]
            BY <1>1, <2>3, InstFields, AppendProperties
        <3>2. ASSUME NEW j \in 1..Len(k.wbuf) PROVE k.wbuf[j].id <= id
            <4>1. j = Len(i.wbuf) + 1 \/ j \in 1..Len(i.wbuf)
                BY <3>1
            <4> QED  BY <1>1, <3>1, <4>1 DEF Past
        <3>3. \A j \in 1..Len(k.rbuf) : k.rbuf[j].id <= id
            BY <1>1, <2>3 DEF Past
        <3> QED  BY <3>2, <3>3 DEF Past
    <2>6. InstOK(k, id)
        BY <2>3, <2>4, <2>5 DEF InstOK
    <2> QED  BY <1>4, <2>2, <2>3, <2>6 DEF Written, k
<1> QED  BY <1>3, <1>4

-----------------------------------------------------------------------------
(* Reading one answer of a text connection.                                *)

\* In text no answer is thrown away: the first one is kept.
LEMMA FirstIsKept ==
    ASSUME NEW s \in Seq(Answers), ~mode.binary
    PROVE  /\ Kept(s) = 1..Len(s)
           /\ s # <<>> => Kept(s) # {} /\ FirstKept(s) = 1
           /\ s = <<>> => Kept(s) = {}
<1>1. Kept(s) = 1..Len(s)
    BY DEF Kept, Discarded
<1>2. Len(s) \in Nat /\ (s # <<>> => Len(s) >= 1) /\ (s = <<>> => Len(s) = 0)
    BY EmptySeq, LenProperties
<1>3. s # <<>> => FirstKept(s) = 1
    <2>1. SUFFICES ASSUME s # <<>> PROVE (CHOOSE j \in 1..Len(s) : \A k \in 1..Len(s) : j <= k) = 1
        BY <1>1 DEF FirstKept
    <2>2. \E j \in 1..Len(s) : \A k \in 1..Len(s) : j <= k
        <3>1. 1 \in 1..Len(s) /\ \A k \in 1..Len(s) : 1 <= k
            BY <1>2, <2>1
        <3> QED  BY <3>1
    <2> DEFINE c == CHOOSE j \in 1..Len(s) : \A k \in 1..Len(s) : j <= k
    <2>3. c \in 1..Len(s) /\ \A k \in 1..Len(s) : c <= k
        BY <2>2, Zenon
    <2> HIDE DEF c
    <2>4. c = 1
        BY <1>2, <2>1, <2>3
    <2> QED  BY <2>4 DEF c
<1> QED  BY <1>1, <1>2, <1>3

\* With no answer to read the connection is closed.
LEMMA ReadNothing ==
    ASSUME NEW i \in Insts, ~mode.binary, i.rbuf = <<>>
    PROVE  memcached_read_one_response(i) = [i |-> Closed, a |-> NoAnswer]
BY FirstIsKept, InstFields DEF memcached_read_one_response

\* In text the next answer is the first, and it is counted off when it ends.
LEMMA ReadSome ==
    ASSUME NEW i, ~mode.binary, NEW id \in 0..Calls, InstOK(i, id), i.rbuf # <<>>,
           NEW x, x = memcached_read_one_response(i)
    PROVE  /\ x.a = i.rbuf[1] /\ x.a \in Answers /\ x.a # NoAnswer
           /\ x.i \in Insts /\ x.i.rbuf = Tail(i.rbuf) /\ x.i.wbuf = i.wbuf
           /\ x.i.fd = i.fd /\ x.i.broken = i.broken /\ i.fd
           /\ x.i.cursor = i.cursor - (IF x.a.more THEN 0 ELSE 1)
           /\ i.cursor >= 1
<1> DEFINE a == i.rbuf[1]
           read == [Decrement(i) EXCEPT !.rbuf = SubSeq(i.rbuf, 2, Len(i.rbuf))]
<1>1. i \in Insts /\ Balance(i, i.cursor) /\ i.cursor <= id /\ (~i.fd => i = Closed)
    BY DEF InstOK
<1>2. /\ i.rbuf \in Seq(Answers) /\ i.cursor \in Nat /\ Asked(i.wbuf) \in Nat
      /\ Owed(i.rbuf) \in Nat
    BY <1>1, InstFields
<1>3. i.cursor >= 1
    <2>1. Owed(i.rbuf) >= 1
        BY <1>2, OwedTail
    <2> QED  BY <1>1, <1>2, <2>1 DEF Balance
<1>4. a \in Answers /\ a.more \in BOOLEAN /\ a.rc # "NOMEM" /\ a # NoAnswer
    <2>1. a \in Answers
        BY <1>2, HeadTail
    <2>2. a.rc \in TextCodes /\ a.more \in BOOLEAN
        BY <2>1 DEF Answers
    <2>3. NoAnswer.rc = "FAILURE"
        BY DEF NoAnswer, Answer
    <2>4. a.rc # "FAILURE" /\ a.rc # "NOMEM"
        BY <2>2 DEF TextCodes
    <2> HIDE DEF a
    <2> QED  BY <2>1, <2>2, <2>3, <2>4
<1>5. SubSeq(i.rbuf, 2, Len(i.rbuf)) = Tail(i.rbuf) /\ Tail(i.rbuf) \in Seq(Answers)
    BY <1>2, HeadTail
<1>6. x = [i |-> IF a.more THEN Increment(read) ELSE read, a |-> a]
    <2>1. Kept(i.rbuf) # {} /\ FirstKept(i.rbuf) = 1
        BY <1>2, FirstIsKept
    <2>2. 1 + 1 = 2
        OBVIOUS
    <2>3. read = [Decrement(i) EXCEPT !.rbuf = SubSeq(Decrement(i).rbuf, 2, Len(Decrement(i).rbuf))]
        BY <1>1 DEF Decrement, Insts
    <2> HIDE DEF a, read
    <2>4. x = [i |-> CASE a.rc = "NOMEM" -> Closed
                       [] a.rc # "NOMEM" /\ a.more -> Increment(read)
                       [] OTHER -> read,
               a |-> a]
        BY <2>1, <2>2, <2>3, Zenon DEF memcached_read_one_response, a
    <2> QED  BY <1>4, <2>4
<1>7. /\ read \in Insts /\ read.rbuf = Tail(i.rbuf) /\ read.wbuf = i.wbuf /\ read.fd = i.fd
      /\ read.broken = i.broken /\ read.cursor = i.cursor - 1
    <2>1. (i.cursor - 1) % CursorMod = i.cursor - 1 /\ i.cursor - 1 \in Nat
        <3>1. i.cursor - 1 \in Nat /\ i.cursor - 1 < CursorMod
            BY <1>1, <1>2, <1>3, CommandsAssumption DEF CommandsAssumption
        <3> QED  BY <3>1, SmallMod
    <2> QED  BY <1>1, <1>5, <2>1 DEF Decrement, Insts
<1> HIDE DEF a, read
<1>8. ASSUME a.more
      PROVE  /\ x.a = a /\ x.i \in Insts /\ x.i.rbuf = Tail(i.rbuf) /\ x.i.wbuf = i.wbuf
             /\ x.i.fd = i.fd /\ x.i.broken = i.broken
             /\ x.i.cursor = i.cursor - (IF a.more THEN 0 ELSE 1)
    <2>1. read.cursor + 1 < CursorMod
        BY <1>1, <1>2, <1>7, CommandsAssumption DEF CommandsAssumption
    <2>2. /\ Increment(read) \in Insts /\ Increment(read).cursor = read.cursor + 1
          /\ Increment(read).fd = read.fd /\ Increment(read).broken = read.broken
          /\ Increment(read).wbuf = read.wbuf /\ Increment(read).rbuf = read.rbuf
        BY <1>7, <2>1, IncrementIs
    <2>3. x.i = Increment(read) /\ x.a = a
        BY <1>6, <1>8
    <2>4. /\ x.i \in Insts /\ x.i.rbuf = Tail(i.rbuf) /\ x.i.wbuf = i.wbuf
          /\ x.i.fd = i.fd /\ x.i.broken = i.broken
        BY <1>7, <2>2, <2>3, Zenon
    <2>5. x.i.cursor = i.cursor - 0
        BY <1>2, <1>7, <2>2, <2>3
    <2> QED  BY <1>8, <2>3, <2>4, <2>5, Zenon
<1>9. ASSUME ~a.more
      PROVE  /\ x.a = a /\ x.i \in Insts /\ x.i.rbuf = Tail(i.rbuf) /\ x.i.wbuf = i.wbuf
             /\ x.i.fd = i.fd /\ x.i.broken = i.broken
             /\ x.i.cursor = i.cursor - (IF a.more THEN 0 ELSE 1)
    <2>1. x.i = read /\ x.a = a
        BY <1>6, <1>9
    <2>2. /\ x.i \in Insts /\ x.i.rbuf = Tail(i.rbuf) /\ x.i.wbuf = i.wbuf
          /\ x.i.fd = i.fd /\ x.i.broken = i.broken /\ x.i.cursor = i.cursor - 1
        BY <1>7, <2>1, Zenon
    <2> QED  BY <1>9, <2>1, <2>2, Zenon
<1>10. i.fd
    <2>1. i.rbuf = <<>> \/ i.fd
        BY <1>1 DEF Closed
    <2> QED  BY <2>1
<1>11. a = i.rbuf[1]
    BY DEF a
<1>12. /\ x.a = a /\ x.i \in Insts /\ x.i.rbuf = Tail(i.rbuf) /\ x.i.wbuf = i.wbuf
       /\ x.i.fd = i.fd /\ x.i.broken = i.broken
       /\ x.i.cursor = i.cursor - (IF a.more THEN 0 ELSE 1)
    <2>1. CASE a.more
        BY <1>8, <2>1, Zenon
    <2>2. CASE ~a.more
        BY <1>9, <2>2, Zenon
    <2> QED  BY <2>1, <2>2, Zenon
<1> QED  BY <1>3, <1>4, <1>10, <1>11, <1>12, Zenon

\* What a reading leaves of the invariants of connection i.
ReadKeeps(i, x, id) ==
    /\ InstOK(x.i, id) /\ x.i.cursor <= i.cursor
    /\ (i.wbuf = <<>> => x.i.wbuf = <<>>)
    /\ (Sent(i) => Sent(x.i))
    /\ (Mine(i, id) => Mine(x.i, id))
    /\ (Fresh(i, id) => Fresh(x.i, id))

\* Reading an answer keeps the counts.
LEMMA ReadOK ==
    ASSUME NEW i, ~mode.binary, NEW id \in 1..Calls, InstOK(i, id),
           NEW x, x = memcached_read_one_response(i)
    PROVE  /\ ReadKeeps(i, x, id)
           /\ \/ i.rbuf = <<>> /\ x.i = Closed /\ x.a = NoAnswer
              \/ /\ i.rbuf # <<>> /\ x.a = i.rbuf[1] /\ x.a \in Answers /\ x.a # NoAnswer
                 /\ x.i.fd = i.fd /\ x.i.wbuf = i.wbuf /\ x.i.rbuf = Tail(i.rbuf)
                 /\ x.i.cursor = i.cursor - (IF x.a.more THEN 0 ELSE 1) /\ i.cursor >= 1
<1>1. i \in Insts /\ Balance(i, i.cursor) /\ Past(i, id) /\ i.cursor <= id
    BY DEF InstOK
<1>2. /\ i.rbuf \in Seq(Answers) /\ i.cursor \in Nat /\ Asked(i.wbuf) \in Nat
      /\ Owed(i.rbuf) \in Nat /\ Finals(i.rbuf) \in Nat
    BY <1>1, InstFields
<1>3. ASSUME i.rbuf = <<>>
      PROVE  ReadKeeps(i, x, id) /\ x.i = Closed /\ x.a = NoAnswer
    <2>1. x = [i |-> Closed, a |-> NoAnswer]
        BY <1>1, <1>3, ReadNothing
    <2>2. x.i = Closed /\ x.a = NoAnswer
        BY <2>1
    <2>3. /\ InstOK(Closed, id) /\ Mine(Closed, id) /\ Sent(Closed) /\ Fresh(Closed, id)
          /\ Closed.wbuf = <<>> /\ Closed.cursor = 0
        BY NewInst
    <2> QED  BY <1>2, <2>2, <2>3 DEF ReadKeeps
<1>4. ASSUME i.rbuf # <<>>
      PROVE  /\ ReadKeeps(i, x, id)
             /\ i.rbuf # <<>> /\ x.a = i.rbuf[1] /\ x.a \in Answers /\ x.a # NoAnswer
             /\ x.i.fd = i.fd /\ x.i.wbuf = i.wbuf /\ x.i.rbuf = Tail(i.rbuf)
             /\ x.i.cursor = i.cursor - (IF x.a.more THEN 0 ELSE 1) /\ i.cursor >= 1
    <2>1. /\ x.a = i.rbuf[1] /\ x.a \in Answers /\ x.a # NoAnswer
          /\ x.i \in Insts /\ x.i.rbuf = Tail(i.rbuf) /\ x.i.wbuf = i.wbuf
          /\ x.i.fd = i.fd /\ x.i.broken = i.broken /\ i.fd
          /\ x.i.cursor = i.cursor - (IF x.a.more THEN 0 ELSE 1)
          /\ i.cursor >= 1
        BY <1>4, ReadSome
    <2> DEFINE d == IF i.rbuf[1].more THEN 0 ELSE 1
    <2>2. /\ Finals(i.rbuf) = Finals(Tail(i.rbuf)) + d
          /\ Owed(Tail(i.rbuf)) + d <= Owed(i.rbuf)
          /\ Cut(Tail(i.rbuf)) => Cut(i.rbuf)
        BY <1>2, <1>4, OwedTail
    <2>3. /\ Tail(i.rbuf) \in Seq(Answers) /\ Len(Tail(i.rbuf)) = Len(i.rbuf) - 1
          /\ \A j \in 1..Len(Tail(i.rbuf)) : j + 1 \in 1..Len(i.rbuf) /\ Tail(i.rbuf)[j] = i.rbuf[j + 1]
        BY <1>2, <1>4, HeadTail
    <2>4. Finals(Tail(i.rbuf)) \in Nat /\ Owed(Tail(i.rbuf)) \in Nat
        BY <2>3, OwedNat
    <2>5. d \in {0, 1} /\ x.i.cursor = i.cursor - d
        BY <2>1
    <2> HIDE DEF d
    <2>6. x.i.cursor \in Nat /\ x.i.cursor <= i.cursor /\ x.i.cursor <= id
        BY <1>1, <1>2, <2>1, <2>5
    <2>7. Balance(x.i, x.i.cursor)
        <3>1. Owed(x.i.rbuf) + Asked(x.i.wbuf) <= x.i.cursor
            <4>1. Owed(i.rbuf) + Asked(i.wbuf) <= i.cursor
                BY <1>1 DEF Balance
            <4> QED  BY <1>2, <2>1, <2>2, <2>4, <2>5, <4>1
        <3>2. ~x.i.broken => x.i.cursor = Finals(x.i.rbuf) + Asked(x.i.wbuf) /\ ~Cut(x.i.rbuf)
            <4>1. SUFFICES ASSUME ~i.broken
                           PROVE  /\ x.i.cursor = Finals(Tail(i.rbuf)) + Asked(i.wbuf)
                                  /\ ~Cut(Tail(i.rbuf))
                BY <2>1
            <4>2. i.cursor = Finals(i.rbuf) + Asked(i.wbuf) /\ ~Cut(i.rbuf)
                BY <1>1, <4>1 DEF Balance
            <4> QED  BY <1>2, <2>2, <2>4, <2>5, <4>2
        <3> QED  BY <3>1, <3>2 DEF Balance
    <2>8. \A j \in 1..Len(x.i.rbuf) : \E k \in 1..Len(i.rbuf) : x.i.rbuf[j] = i.rbuf[k]
        BY <2>1, <2>3
    <2>9. Past(x.i, id)
        BY <1>1, <2>1, <2>8 DEF Past
    <2>10. InstOK(x.i, id)
        BY <2>1, <2>6, <2>7, <2>9 DEF InstOK
    <2>11. Fresh(i, id) => Fresh(x.i, id)
        BY <1>1, <1>2, <2>1, <2>6, <2>8 DEF Fresh
    <2>12. Mine(i, id) => Mine(x.i, id)
        BY <1>2, <2>1, <2>6, <2>8 DEF Mine
    <2>13. Sent(i) => Sent(x.i)
        BY <2>1 DEF Sent
    <2> QED  BY <1>4, <2>1, <2>6, <2>10, <2>11, <2>12, <2>13 DEF ReadKeeps
<1> QED  BY <1>3, <1>4

\* On a sound connection that is owed an answer and has sent all, there is one
\* to read.
LEMMA ReadFinds ==
    ASSUME NEW i, NEW id, InstOK(i, id), i.wbuf = <<>>, i.cursor # 0, i.fd, ~i.broken
    PROVE  i.rbuf # <<>>
<1>1. i \in Insts /\ Balance(i, i.cursor)
    BY DEF InstOK
<1>2. i.cursor = Finals(i.rbuf)
    BY <1>1, AskedNone, InstFields DEF Balance
<1> QED  BY <1>2, FinalsNone

\* While a command reads its answer: the older ones come first, and the last
\* one is its own.
LEMMA ReadReading ==
    ASSUME NEW i, ~mode.binary, NEW id \in 1..Calls, InstOK(i, id), Reading(i, id),
           NEW x, x = memcached_read_one_response(i)
    PROVE  /\ (x.i.fd /\ x.i.cursor = 0) \/ Reading(x.i, id)
           /\ x.a # NoAnswer /\ i.cursor <= 1 => x.a.id = id
           /\ i.fd /\ ~i.broken => x.a # NoAnswer
<1>1. i \in Insts /\ (~i.fd => i = Closed) /\ i.cursor \in Nat
    BY InstFields DEF InstOK
<1>2. CASE i.rbuf = <<>>
    <2>1. x.i = Closed /\ x.a = NoAnswer
        BY <1>2, ReadOK
    <2>2. ~Closed.fd
        BY DEF Closed
    <2>3. ASSUME i.fd, ~i.broken PROVE FALSE
        <3>1. PICK old, own \in Seq(Answers) : i.rbuf = old \o own /\ Owed(old) < i.cursor
            BY <2>3 DEF Reading
        <3>2. i.wbuf = <<>> /\ i.cursor # 0
            BY <1>1, <2>3, <3>1, OwedNat DEF Reading
        <3> QED  BY <1>2, <2>3, <3>2, ReadFinds
    <2> QED  BY <2>1, <2>2, <2>3 DEF Reading
<1>3. CASE i.rbuf # <<>>
    <2>1. /\ x.a = i.rbuf[1] /\ x.a \in Answers /\ x.a # NoAnswer
          /\ x.i.fd = i.fd /\ x.i.wbuf = i.wbuf /\ x.i.rbuf = Tail(i.rbuf)
          /\ x.i.cursor = i.cursor - (IF x.a.more THEN 0 ELSE 1) /\ i.cursor >= 1
          /\ x.i \in Insts
        BY <1>3, ReadOK DEF ReadKeeps, InstOK
    <2>2. i.fd
        <3>1. i.rbuf = <<>> \/ i.fd
            BY <1>1 DEF Closed
        <3> QED  BY <1>3, <3>1
    <2>3. PICK old, own \in Seq(Answers) : /\ i.rbuf = old \o own /\ Owed(old) < i.cursor
                                           /\ \A j \in 1..Len(own) : own[j].id = id
        BY <2>2 DEF Reading
    <2>4. i.wbuf = <<>> /\ Owed(old) \in Nat /\ x.i.cursor \in Nat
        BY <2>1, <2>2, <2>3, OwedNat, InstFields DEF Reading
    <2>5. CASE old = <<>>
        <3>1. i.rbuf = own /\ own # <<>>
            BY <1>3, <2>3, <2>5, EmptySeq, ConcatEmptySeq
        <3>2. /\ Tail(own) \in Seq(Answers) /\ Len(own) \in Nat \ {0}
              /\ \A j \in 1..Len(Tail(own)) : j + 1 \in 1..Len(own) /\ Tail(own)[j] = own[j + 1]
            BY <2>3, <3>1, HeadTail
        <3>3. x.a.id = id
            BY <2>1, <2>3, <3>1, <3>2
        <3>4. ASSUME x.i.cursor # 0 PROVE Reading(x.i, id)
            <4>1. x.i.rbuf = <<>> \o Tail(own)
                BY <2>1, <3>1, <3>2, ConcatEmptySeq
            <4>2. Owed(<<>>) < x.i.cursor
                BY <2>4, <3>4, OwedNone
            <4>3. \A j \in 1..Len(Tail(own)) : Tail(own)[j].id = id
                BY <2>3, <3>2
            <4>4. x.i.wbuf = <<>> /\ <<>> \in Seq(Answers)
                BY <2>1, <2>4, NoItems
            <4> QED  BY <3>2, <4>1, <4>2, <4>3, <4>4 DEF Reading
        <3> QED  BY <2>1, <2>2, <3>3, <3>4
    <2>6. CASE old # <<>>
        <3>1. /\ old[1] \in Answers /\ Tail(old) \in Seq(Answers)
              /\ old = <<old[1]>> \o Tail(old)
            BY <2>3, <2>6, HeadTail
        <3>2. i.rbuf[1] = old[1] /\ Tail(i.rbuf) = Tail(old) \o own
            <4>1. Len(old) \in Nat \ {0}
                BY <2>3, <2>6, HeadTail
            <4> QED  BY <2>3, <2>6, <4>1
        <3>3. Owed(Tail(old)) + (IF old[1].more THEN 0 ELSE 1) <= Owed(old) /\ Owed(old) >= 1
            BY <2>3, <2>6, OwedTail
        <3>4. Owed(Tail(old)) \in Nat /\ i.cursor > 1
            <4>1. Owed(Tail(old)) \in Nat
                BY <3>1, OwedNat
            <4>2. Owed(old) >= 1 /\ Owed(old) < i.cursor
                BY <2>3, <3>3
            <4> QED  BY <1>1, <2>4, <4>1, <4>2
        <3>5. Owed(Tail(old)) < x.i.cursor
            BY <1>1, <2>1, <2>3, <2>4, <3>2, <3>3, <3>4
        <3>6. Reading(x.i, id)
            BY <2>1, <2>3, <2>4, <3>1, <3>2, <3>5 DEF Reading
        <3> QED  BY <1>1, <2>1, <3>4, <3>6
    <2> QED  BY <2>5, <2>6
<1> QED  BY <1>2, <1>3

-----------------------------------------------------------------------------
(* memcached_do, and faults.                                               *)

\* A write leaves an outcome, and one that only buffers succeeds.
LEMMA WriteShape ==
    ASSUME NEW i, NEW v, NEW r, NEW flush, NEW o \in memcached_io_write(i, v, r, flush)
    PROVE  o = Out(o.i, o.v, o.ok) /\ (~flush => o.ok)
<1>1. \A x, y, z : Out(x, y, z).i = x /\ Out(x, y, z).v = y /\ Out(x, y, z).ok = z
    BY DEF Out
<1>2. \E x, y, z : o = Out(x, y, z)
    BY DEF memcached_io_write, io_flush
<1>3. ASSUME ~flush PROVE o.ok
    <2>1. o = Out([i EXCEPT !.wbuf = Append(i.wbuf, r)], v, TRUE)
        BY <1>3 DEF memcached_io_write
    <2> QED  BY <2>1 DEF Out
<1> QED  BY <1>1, <1>2, <1>3

\* The parts of an outcome.
LEMMA OutExcept ==
    ASSUME NEW x, NEW y, NEW z, NEW j
    PROVE  /\ [Out(x, y, z) EXCEPT !.i = j] = Out(j, y, z)
           /\ Out(x, y, z).i = x /\ Out(x, y, z).v = y /\ Out(x, y, z).ok = z
BY DEF Out

\* Without SASL a connection is the one there is, or a new one.
LEMMA ConnectIs ==
    ASSUME NEW s, mode.sasl = "off", NEW j \in memcached_connect(s)
    PROVE  j.fd /\ (j = inst[s] \/ (j = Opened /\ ~inst[s].fd))
<1>1. Opened.fd
    BY DEF Opened, Closed
<1> QED  BY <1>1 DEF memcached_connect

\* Connecting keeps what is known of the connection.
LEMMA ConnectOK ==
    ASSUME NEW s, mode.sasl = "off", NEW id \in 1..Calls, InstOK(inst[s], id),
           NEW j \in memcached_connect(s)
    PROVE  /\ j.fd /\ InstOK(j, id) /\ j.cursor <= inst[s].cursor
           /\ (Fresh(inst[s], id) => Fresh(j, id))
           /\ (Mine(inst[s], id) => Mine(j, id))
           /\ j.wbuf = inst[s].wbuf
<1>1. j.fd /\ (j = inst[s] \/ (j = Opened /\ ~inst[s].fd))
    BY ConnectIs
<1>2. CASE j = inst[s]
    <2>1. inst[s].cursor <= inst[s].cursor
        BY InstFields DEF InstOK
    <2> QED  BY <1>1, <1>2, <2>1
<1>3. CASE j = Opened /\ ~inst[s].fd
    <2>1. inst[s] = Closed
        BY <1>3 DEF InstOK
    <2>2. /\ InstOK(Opened, id) /\ Mine(Opened, id) /\ Fresh(Opened, id)
          /\ Opened.cursor = 0 /\ Closed.cursor = 0 /\ Opened.wbuf = <<>> /\ Closed.wbuf = <<>>
        BY NewInst
    <2> QED  BY <1>1, <1>3, <2>1, <2>2
<1> QED  BY <1>1, <1>2, <1>3

\* memcached_do for a request of this call, on a connection that carries no
\* other: with the request sent, its answer is the next to be read.
LEMMA DoOK ==
    ASSUME ~mode.binary, mode.sasl = "off", NEW s, srv[s] \in Srvs, NEW id \in 1..Calls,
           InstOK(inst[s], id), Fresh(inst[s], id), NEW r \in Requests, r.id = id,
           r.quiet = no_reply, NEW flush \in BOOLEAN, NEW o \in memcached_do(s, r, flush)
    PROVE  /\ o = Out(o.i, o.v, o.ok) /\ o.v \in Srvs /\ InstOK(o.i, id)
           /\ (~o.ok => o.i = Closed)
           /\ (o.ok /\ flush => o.i.wbuf = <<>>)
           /\ (o.ok /\ flush /\ ~r.quiet => Reading(o.i, id))
<1>1. CASE memcached_connect(s) = {}
    <2>1. o = Out(inst[s], srv[s], FALSE) /\ ~inst[s].fd
        BY <1>1 DEF memcached_do, memcached_connect
    <2>2. o.i = inst[s] /\ o.v = srv[s] /\ o.ok = FALSE
        BY <2>1 DEF Out
    <2>3. inst[s] = Closed
        BY <2>1 DEF InstOK
    <2> QED  BY <2>1, <2>2, <2>3
<1>2. CASE memcached_connect(s) # {}
    <2>a. PICK j \in memcached_connect(s) : \E w \in memcached_io_write(j, srv[s], r, flush) :
              o = IF w.ok /\ ~no_reply THEN [w EXCEPT !.i = Increment(@)] ELSE w
        BY <1>2 DEF memcached_do
    <2>1. PICK w \in memcached_io_write(j, srv[s], r, flush) :
              o = IF w.ok /\ ~no_reply THEN [w EXCEPT !.i = Increment(@)] ELSE w
        BY <2>a
    <2>2. /\ j.fd /\ InstOK(j, id) /\ j.cursor + Cost(r) <= id
        <3>1. j.fd /\ InstOK(j, id) /\ Fresh(j, id)
            BY ConnectOK
        <3>2. j.cursor \in Nat /\ j.cursor < id /\ Cost(r) \in {0, 1}
            BY <3>1, InstFields DEF InstOK, Fresh, Cost
        <3> QED  BY <3>1, <3>2
    <2>3. /\ w.v \in Srvs /\ (w.ok => Written(j, w, r, id, flush))
          /\ ~w.ok => w.i = Closed /\ flush
        BY <2>2, WriteOK
    <2>4. w = Out(w.i, w.v, w.ok)
        BY WriteShape
    <2>5. CASE ~w.ok
        <3>1. o = w
            BY <2>1, <2>5
        <3>2. InstOK(Closed, id)
            BY NewInst
        <3> QED  BY <2>3, <2>4, <2>5, <3>1, <3>2
    <2>6. CASE w.ok
        <3> DEFINE k == IF r.quiet THEN w.i ELSE Increment(w.i)
        <3>1. o = Out(k, w.v, w.ok)
            <4>1. CASE no_reply
                BY <2>1, <2>4, <4>1
            <4>2. CASE ~no_reply
                <5>1. o = [w EXCEPT !.i = Increment(w.i)]
                    BY <2>1, <2>6, <4>2
                <5>2. [Out(w.i, w.v, w.ok) EXCEPT !.i = Increment(w.i)] = Out(Increment(w.i), w.v, w.ok)
                    BY OutExcept
                <5> QED  BY <2>4, <4>2, <5>1, <5>2
            <4> QED  BY <4>1, <4>2
        <3>2. /\ InstOK(k, id)
              /\ (flush => k.wbuf = <<>>)
              /\ (flush /\ ~r.quiet => Reading(k, id))
            BY <2>3, <2>6 DEF Written
        <3> HIDE DEF k
        <3>3. o.i = k /\ o.v = w.v /\ o.ok = w.ok
            BY <3>1, OutExcept
        <3> QED  BY <2>3, <2>6, <3>1, <3>2, <3>3
    <2> QED  BY <2>5, <2>6
<1> QED  BY <1>1, <1>2

\* A connection that breaks loses the end of what has not been read.
LEMMA BreakOK ==
    ASSUME NEW s, NEW id, InstOK(inst[s], id), NEW j \in Break(s)
    PROVE  /\ InstOK(j, id) /\ j.cursor = inst[s].cursor /\ j.wbuf = inst[s].wbuf
           /\ (Fresh(inst[s], id) => Fresh(j, id))
           /\ (Mine(inst[s], id) => Mine(j, id))
           /\ (Sent(inst[s]) => Sent(j))
           /\ (Reading(inst[s], id) => Reading(j, id))
<1> DEFINE i == inst[s]
<1>1. i \in Insts /\ Balance(i, i.cursor) /\ Past(i, id) /\ i.cursor <= id
    BY DEF InstOK
<1>2. /\ i.rbuf \in Seq(Answers) /\ i.cursor \in Nat /\ Asked(i.wbuf) \in Nat
      /\ Owed(i.rbuf) \in Nat /\ Finals(i.rbuf) \in Nat /\ Len(i.rbuf) \in Nat
    BY <1>1, InstFields
<1>3. CASE ~i.fd
    BY <1>3 DEF Break
<1>4. CASE i.fd
    <2>1. PICK n \in 0..Len(i.rbuf) :
              j = [i EXCEPT !.broken = TRUE, !.rbuf = SubSeq(i.rbuf, 1, n)]
        BY <1>4 DEF Break
    <2>2. SubSeq(i.rbuf, 1, n) \in Seq(Answers) /\ Owed(SubSeq(i.rbuf, 1, n)) <= Owed(i.rbuf)
        BY <1>2, OwedPrefix
    <2>3. /\ j \in Insts /\ j.rbuf = SubSeq(i.rbuf, 1, n) /\ j.wbuf = i.wbuf /\ j.fd
          /\ j.cursor = i.cursor /\ j.broken
        BY <1>1, <1>4, <2>1, <2>2 DEF Insts
    <2>4. Owed(j.rbuf) \in Nat
        BY <2>2, <2>3, OwedNat
    <2>5. \A k \in 1..Len(j.rbuf) : k \in 1..Len(i.rbuf) /\ j.rbuf[k] = i.rbuf[k]
        <3>1. Len(j.rbuf) = n /\ \A k \in 1..n : j.rbuf[k] = i.rbuf[k]
            BY <1>2, <2>3
        <3> QED  BY <1>2, <3>1
    <2> HIDE DEF i
    <2>6. Balance(j, j.cursor)
        BY <1>1, <1>2, <2>2, <2>3, <2>4 DEF Balance
    <2>7. Past(j, id)
        BY <1>1, <2>3, <2>5 DEF Past
    <2>8. InstOK(j, id)
        BY <1>1, <2>3, <2>6, <2>7 DEF InstOK
    <2>9. /\ (Fresh(i, id) => Fresh(j, id)) /\ (Mine(i, id) => Mine(j, id))
          /\ (Sent(i) => Sent(j))
        <3>1. Fresh(i, id) => Fresh(j, id)
            BY <2>3, <2>5 DEF Fresh
        <3>2. Mine(i, id) => Mine(j, id)
            BY <2>3, <2>5 DEF Mine
        <3>3. Sent(i) => Sent(j)
            BY <2>3 DEF Sent
        <3> QED  BY <3>1, <3>2, <3>3
    <2>10. ASSUME Reading(i, id) PROVE Reading(j, id)
        <3>1. i.wbuf = <<>>
            BY <1>4, <2>10 DEF Reading
        <3>2. PICK old, own \in Seq(Answers) : /\ i.rbuf = old \o own /\ Owed(old) < i.cursor
                                               /\ \A k \in 1..Len(own) : own[k].id = id
            BY <1>4, <2>10 DEF Reading
        <3>3. Len(old) \in Nat /\ Len(own) \in Nat /\ Len(i.rbuf) = Len(old) + Len(own)
            BY <3>2, LenProperties, ConcatProperties
        <3>4. n <= Len(old) \/ n > Len(old)
            BY <1>2, <3>3
        <3>5. CASE n <= Len(old)
            <4>1. j.rbuf = SubSeq(old, 1, n) \o <<>>
                BY <2>3, <3>2, <3>3, <3>5
            <4>2. SubSeq(old, 1, n) \in Seq(Answers) /\ Owed(SubSeq(old, 1, n)) <= Owed(old)
                BY <3>2, <3>3, <3>5, OwedPrefix
            <4>3. Owed(SubSeq(old, 1, n)) < j.cursor
                <5>1. Owed(SubSeq(old, 1, n)) \in Nat /\ Owed(old) \in Nat
                    BY <3>2, <4>2, OwedNat
                <5> QED  BY <1>2, <2>3, <3>2, <4>2, <5>1
            <4>4. <<>> \in Seq(Answers) /\ \A k \in 1..Len(<<>>) : <<>>[k].id = id
                BY NoItems
            <4> QED  BY <2>3, <3>1, <4>1, <4>2, <4>3, <4>4 DEF Reading
        <3>6. CASE n > Len(old)
            <4> DEFINE m == n - Len(old)
                       t == SubSeq(own, 1, m)
            <4>1. m \in 0..Len(own)
                BY <1>2, <3>3, <3>6
            <4>2. j.rbuf = old \o t
                BY <2>3, <3>2, <3>3, <3>6, <4>1
            <4>3. t \in Seq(Answers)
                BY <3>2, <4>1, OwedPrefix
            <4>4. \A k \in 1..Len(t) : t[k].id = id
                <5>1. Len(t) = m /\ \A k \in 1..m : t[k] = own[k]
                    BY <3>2, <3>3, <4>1
                <5> QED  BY <3>2, <3>3, <4>1, <5>1
            <4> HIDE DEF t
            <4> QED  BY <2>3, <3>1, <3>2, <4>2, <4>3, <4>4 DEF Reading
        <3> QED  BY <3>4, <3>5, <3>6
    <2> QED  BY <2>3, <2>8, <2>9, <2>10 DEF i
<1> QED  BY <1>3, <1>4

-----------------------------------------------------------------------------
(* The invariant.  What a call still has to do, the answers its servers owe *)
(* it, and what each connection may carry meanwhile.                        *)
Readers == {"response", "stats", "dump"}
Getters == {"purge", "key", "newline", "fetch", "fetch_end"}
Dos == Readers \cup Getters \cup {"plan", "do", "quit"}
StepSet == [do : Dos, s : Servers, r : Requests, flush : BOOLEAN,
            fail : {"none", "return", "skip"}]
CmdOps == StorageOps \cup {"delete", "incr", "flush", "version", "stat", "dump", "quit",
                           "generate"}
GetOps == {"get", "mget"}
CallOps == CmdOps \cup GetOps \cup {"none", "fetch"}

\* The steps of a command that is no get: nothing is asked of a server twice,
\* and an answer is read right after the request that was sent for it.
Commanding(q, id, nr, buf) ==
    /\ \A j \in 1..Len(q) :
          /\ q[j].do \in Readers \cup {"do", "quit"}
          /\ q[j].do = "do" => /\ q[j].r.quiet = nr /\ q[j].r.id = id
                               /\ q[j].flush \/ buf
          /\ q[j].do \in Readers /\ j > 1 =>
                /\ q[j - 1].do = "do" /\ q[j - 1].s = q[j].s /\ q[j - 1].flush /\ ~nr
                /\ q[j].do = "dump" => q[j - 1].fail = "return"
    /\ \A j, k \in 1..Len(q) :
          j < k /\ q[j].s = q[k].s => k = j + 1 /\ q[j].do = "do" /\ q[k].do \in Readers

\* A server that will be written to owes this call nothing yet; the one that
\* will be read from owes it what comes last.
CmdConns(q, id, okay, in) ==
    /\ \A j \in 1..Len(q) : q[j].do = "do" => Fresh(in[q[j].s], id)
    /\ q # <<>> /\ q[1].do \in Readers /\ (okay \/ q[1].do = "dump") => Reading(in[q[1].s], id)

\* The steps of a get: servers are purged, then keys are written, then lines
\* ended, then values fetched; a key is never written without a line to end.
Rank(d) == IF d = "purge" THEN 1 ELSE IF d = "key" THEN 2 ELSE IF d = "newline" THEN 3
           ELSE IF d = "fetch" THEN 4 ELSE 5
Left(q, d, s) == \E j \in 1..Len(q) : q[j].do = d /\ q[j].s = s

Gets(q, id, op, home) ==
    /\ \A j \in 1..Len(q) :
          /\ q[j].do \in Getters
          /\ q[j].do = "key" => /\ ~q[j].r.quiet /\ q[j].r.id = id
                                /\ op = "get" => q[j].s = home
                                /\ \A s \in Servers : Left(q, "newline", s)
          /\ q[j].do \in {"fetch", "fetch_end"} => op = "get"
          /\ q[j].do = "fetch_end" /\ j > 1 => q[j - 1].do = "fetch"
    /\ \A j, k \in 1..Len(q) : j < k => Rank(q[j].do) <= Rank(q[k].do)

GetConn(i, id, purge, newline, away, buf) ==
    /\ ~purge => Mine(i, id) /\ (away => i.cursor = 0)
    /\ ~purge /\ ~newline => Sent(i)
    /\ ~buf /\ i.wbuf # <<>> => newline /\ ~purge /\ i.cursor # 0

GetConns(q, id, op, home, buf, in) ==
    \A s \in Servers :
        GetConn(in[s], id, Left(q, "purge", s), Left(q, "newline", s), op = "get" /\ s # home, buf)

\* A get reports a miss only when every answer has been read.
Missed(q, op, code, in) ==
    /\ q # <<>> /\ q[1].do = "fetch_end" => code = "SUCCESS"
    /\ op = "get" /\ code = "NOTFOUND" =>
          \/ q # <<>> /\ q[1].do = "fetch"
          \/ q = <<>> /\ \A s \in Servers : in[s].cursor = 0

\* An mget has been sent: at most one answer to come from each server.
Held(in, id) == \A s \in Servers : Mine(in[s], id) /\ Sent(in[s])
NoneBuffered(in) == \A s \in Servers : in[s].wbuf = <<>>
Planning(q) == q # <<>> /\ q[1].do = "plan"

Phase(op, id, home, q, nr, buf, okay, code, fet, in) ==
    /\ op = "none" => q = <<>>
    /\ op # "none" \/ fet => id > 0
    /\ fet => op \in {"none", "mget", "fetch"}
    /\ op = "fetch" /\ q # <<>> => fet
    /\ fet /\ op \in {"none", "fetch"} => Held(in, id)
    /\ ~buf /\ (op \notin GetOps \/ Planning(q)) => NoneBuffered(in)
    /\ Planning(q) => /\ Len(q) = 1 /\ op # "generate" /\ (op = "get" => code # "NOTFOUND")
                      /\ op # "fetch" => \A s \in Servers : Fresh(in[s], id)
    /\ ~Planning(q) /\ op \in CmdOps => Commanding(q, id, nr, buf) /\ CmdConns(q, id, okay, in)
    /\ ~Planning(q) /\ op \in GetOps =>
          /\ Gets(q, id, op, home) /\ GetConns(q, id, op, home, buf, in)
          /\ Missed(q, op, code, in)
    /\ ~Planning(q) /\ op = "fetch" => q = <<>> \/ (Len(q) = 1 /\ q[1].do = "fetch")

\* A handle of the text protocol.  Buffering is for non-blocking handles, and
\* the commands that do not heed NOREPLY are not used with it: Known
\* disagreements in the README says what happens otherwise.
TextHandle ==
    /\ ~mode.binary /\ (mode.buffer => mode.no_block)
    /\ mode.noreply => mode.ops \cap {"version", "stat", "dump"} = {}

Typed ==
    /\ mode \in Modes /\ no_reply \in BOOLEAN /\ (no_reply => mode.noreply)
    /\ srv \in [Servers -> Srvs] /\ inst \in [Servers -> Insts]
    /\ call \in [op : CallOps, id : 0..Calls, key : Keys]
    /\ mode.noreply => call.op \notin {"version", "stat", "dump"}
    /\ todo \in Seq(StepSet) /\ fetching \in BOOLEAN
    /\ faults \in 0..MaxFaults
Clean(f) == f \in [stray : {FALSE}, idle : {FALSE}, misread : BOOLEAN]

IInv ==
    /\ Typed /\ Clean(flaws)
    /\ \A s \in Servers : InstOK(inst[s], call.id)
    /\ Phase(call.op, call.id, Hash[call.key], todo, no_reply, mode.buffer, ok, rc, fetching, inst)

\* What the hypothesis on the modes says of the one in use.
LEMMA TextMode ==
    ASSUME TextHandle, mode \in Modes
    PROVE  /\ ~mode.binary /\ mode.sasl = "off" /\ mode.replicas = 0
           /\ mode.buffer \in BOOLEAN /\ mode.no_block \in BOOLEAN /\ mode.noreply \in BOOLEAN
           /\ mode.randomize \in BOOLEAN
           /\ mode.buffer => mode.no_block
           /\ mode.noreply => mode.ops \cap {"version", "stat", "dump"} = {}
           /\ mode.ops \in SUBSET Ops
<1>1. mode \in Mode /\ (mode.sasl # "off" => mode.binary) /\ (mode.replicas > 0 => mode.binary)
    BY CommandsAssumption DEF CommandsAssumption
<1>2. ~mode.binary /\ (mode.buffer => mode.no_block)
      /\ (mode.noreply => mode.ops \cap {"version", "stat", "dump"} = {})
    BY DEF TextHandle
<1>3. /\ mode.replicas \in 0..(N - 1) /\ mode.buffer \in BOOLEAN /\ mode.no_block \in BOOLEAN
      /\ mode.noreply \in BOOLEAN /\ mode.ops \in SUBSET Ops /\ mode.randomize \in BOOLEAN
    BY <1>1 DEF Mode
<1>4. mode.replicas = 0
    BY <1>1, <1>2, <1>3, CommandsAssumption DEF CommandsAssumption
<1> QED  BY <1>1, <1>2, <1>3, <1>4

\* The parts of a step.
LEMMA StepFields ==
    ASSUME NEW q \in Seq(StepSet), NEW j \in 1..Len(q)
    PROVE  /\ q[j].do \in Dos /\ q[j].s \in Servers /\ q[j].r \in Requests
           /\ q[j].flush \in BOOLEAN /\ q[j].fail \in {"none", "return", "skip"}
           /\ q[j].r.quiet \in BOOLEAN /\ q[j].r.id \in 0..Calls
<1>1. q[j] \in StepSet
    BY ElementOfSeq
<1>2. q[j].r \in Requests
    BY <1>1 DEF StepSet
<1>3. q[j].r.quiet \in BOOLEAN /\ q[j].r.id \in 0..Calls
    BY <1>2 DEF Requests
<1> QED  BY <1>1, <1>2, <1>3 DEF StepSet

\* When its first step is taken the rest of a command is one.
LEMMA CommandingTail ==
    ASSUME NEW q \in Seq(StepSet), q # <<>>, NEW id, NEW nr, NEW buf, Commanding(q, id, nr, buf)
    PROVE  Commanding(Tail(q), id, nr, buf)
<1> DEFINE t == Tail(q)
<1>1. /\ Len(t) = Len(q) - 1 /\ Len(q) \in Nat \ {0}
      /\ \A j \in 1..Len(t) : j + 1 \in 1..Len(q) /\ t[j] = q[j + 1]
    BY HeadTail
<1> HIDE DEF t
<1>2. ASSUME NEW j \in 1..Len(t)
      PROVE  /\ t[j].do \in Readers \cup {"do", "quit"}
             /\ t[j].do = "do" => /\ t[j].r.quiet = nr /\ t[j].r.id = id
                                  /\ t[j].flush \/ buf
             /\ t[j].do \in Readers /\ j > 1 =>
                   /\ t[j - 1].do = "do" /\ t[j - 1].s = t[j].s /\ t[j - 1].flush /\ ~nr
                   /\ t[j].do = "dump" => t[j - 1].fail = "return"
    <2>1. j + 1 \in 1..Len(q) /\ t[j] = q[j + 1] /\ j + 1 > 1 /\ (j + 1) - 1 = j
        BY <1>1
    <2>2. j > 1 => t[j - 1] = q[j]
        <3>1. j > 1 => j - 1 \in 1..Len(t) /\ (j - 1) + 1 = j
            OBVIOUS
        <3> QED  BY <1>1, <3>1
    <2> QED  BY <2>1, <2>2 DEF Commanding
<1>3. ASSUME NEW j \in 1..Len(t), NEW k \in 1..Len(t), j < k, t[j].s = t[k].s
      PROVE  k = j + 1 /\ t[j].do = "do" /\ t[k].do \in Readers
    <2>1. j + 1 \in 1..Len(q) /\ k + 1 \in 1..Len(q) /\ j + 1 < k + 1
          /\ t[j] = q[j + 1] /\ t[k] = q[k + 1]
        BY <1>1, <1>3
    <2>2. k + 1 = (j + 1) + 1 /\ q[j + 1].do = "do" /\ q[k + 1].do \in Readers
        BY <1>3, <2>1 DEF Commanding
    <2> QED  BY <2>1, <2>2
<1>4. Commanding(t, id, nr, buf)
    BY <1>2, <1>3 DEF Commanding
<1> QED  BY <1>4 DEF t

\* When a step is taken the others are left.
LEMMA LeftTail ==
    ASSUME NEW q \in Seq(StepSet), q # <<>>, NEW d, NEW s
    PROVE  /\ Left(Tail(q), d, s) => Left(q, d, s)
           /\ Left(q, d, s) /\ ~(q[1].do = d /\ q[1].s = s) => Left(Tail(q), d, s)
<1>1. /\ Len(Tail(q)) = Len(q) - 1 /\ Len(q) \in Nat \ {0}
      /\ \A j \in 1..Len(Tail(q)) : j + 1 \in 1..Len(q) /\ Tail(q)[j] = q[j + 1]
    BY HeadTail
<1>2. ASSUME Left(q, d, s), ~(q[1].do = d /\ q[1].s = s) PROVE Left(Tail(q), d, s)
    <2>1. PICK k \in 1..Len(q) : q[k].do = d /\ q[k].s = s
        BY <1>2 DEF Left
    <2>2. k - 1 \in 1..Len(Tail(q)) /\ (k - 1) + 1 = k
        BY <1>1, <1>2, <2>1
    <2>3. Tail(q)[k - 1] = q[k]
        BY <1>1, <2>2
    <2> QED  BY <2>1, <2>2, <2>3 DEF Left
<1>3. Left(Tail(q), d, s) => Left(q, d, s)
    BY <1>1 DEF Left
<1> QED  BY <1>2, <1>3

\* When its first step is taken the rest of a get is one.
LEMMA GetsTail ==
    ASSUME NEW q \in Seq(StepSet), q # <<>>, NEW id, NEW op, NEW home, Gets(q, id, op, home)
    PROVE  Gets(Tail(q), id, op, home)
<1> DEFINE t == Tail(q)
<1>1. /\ Len(t) = Len(q) - 1 /\ Len(q) \in Nat \ {0}
      /\ \A j \in 1..Len(t) : j + 1 \in 1..Len(q) /\ t[j] = q[j + 1]
    BY HeadTail
<1>2. \A s : Left(q, "newline", s) /\ q[1].do # "newline" => Left(t, "newline", s)
    BY LeftTail
<1> HIDE DEF t
<1>3. ASSUME NEW j \in 1..Len(t)
      PROVE  /\ t[j].do \in Getters
             /\ t[j].do = "key" => /\ ~t[j].r.quiet /\ t[j].r.id = id
                                   /\ op = "get" => t[j].s = home
                                   /\ \A s \in Servers : Left(t, "newline", s)
             /\ t[j].do \in {"fetch", "fetch_end"} => op = "get"
             /\ t[j].do = "fetch_end" /\ j > 1 => t[j - 1].do = "fetch"
    <2>1. j + 1 \in 1..Len(q) /\ t[j] = q[j + 1] /\ j + 1 > 1 /\ (j + 1) - 1 = j /\ 1 < j + 1
        BY <1>1
    <2>2. j > 1 => t[j - 1] = q[j]
        <3>1. j > 1 => j - 1 \in 1..Len(t) /\ (j - 1) + 1 = j
            OBVIOUS
        <3> QED  BY <1>1, <3>1
    <2>3. t[j].do = "key" => q[1].do # "newline"
        <3>1. 1 \in 1..Len(q) /\ Rank(q[1].do) <= Rank(q[j + 1].do)
            BY <1>1, <2>1 DEF Gets
        <3> QED  BY <2>1, <3>1 DEF Rank
    <2>4. t[j].do = "key" => \A s \in Servers : Left(q, "newline", s)
        BY <2>1 DEF Gets
    <2>5. t[j].do = "key" => \A s \in Servers : Left(t, "newline", s)
        BY <1>2, <2>3, <2>4
    <2> QED  BY <2>1, <2>2, <2>5 DEF Gets
<1>4. ASSUME NEW j \in 1..Len(t), NEW k \in 1..Len(t), j < k
      PROVE  Rank(t[j].do) <= Rank(t[k].do)
    <2>1. j + 1 \in 1..Len(q) /\ k + 1 \in 1..Len(q) /\ j + 1 < k + 1
          /\ t[j] = q[j + 1] /\ t[k] = q[k + 1]
        BY <1>1, <1>4
    <2> QED  BY <2>1 DEF Gets
<1>5. Gets(t, id, op, home)
    BY <1>3, <1>4 DEF Gets
<1> QED  BY <1>5 DEF t

\* A connection whose count is zero carries nothing that will be answered.
LEMMA NothingOwed ==
    ASSUME NEW i, NEW id \in Nat, InstOK(i, id), i.cursor = 0
    PROVE  Mine(i, id) /\ Sent(i) /\ (id > 0 => Fresh(i, id))
<1>1. i \in Insts /\ Balance(i, 0)
    BY DEF InstOK
<1>2. /\ i.rbuf \in Seq(Answers) /\ i.wbuf \in Seq(Requests) /\ Len(i.wbuf) \in Nat
      /\ Owed(i.rbuf) \in Nat /\ Asked(i.wbuf) \in Nat
    BY <1>1, InstFields
<1>3. Owed(i.rbuf) = 0 /\ Asked(i.wbuf) = 0
    BY <1>1, <1>2 DEF Balance
<1>4. i.rbuf = <<>>
    <2>1. i.rbuf # <<>> => Owed(i.rbuf) >= 1
        BY <1>2, OwedSome
    <2> QED  BY <1>3, <2>1
<1>5. Len(i.rbuf) = 0
    BY <1>4
<1>6. \A j \in 1..Len(i.wbuf) : i.wbuf[j].quiet
    <2> DEFINE A == {j \in 1..Len(i.wbuf) : ~i.wbuf[j].quiet}
    <2>1. IsFiniteSet(1..Len(i.wbuf))
        <3>1. 1 \in Int /\ Len(i.wbuf) \in Int
            BY <1>2
        <3> QED  BY <3>1, FS_Interval, Zenon
    <2>2. IsFiniteSet(A)
        <3>1. A \subseteq 1..Len(i.wbuf)
            OBVIOUS
        <3> QED  BY <2>1, <3>1, FS_Subset, Zenon
    <2>3. Cardinality(A) = 0
        BY <1>3 DEF Asked
    <2>4. A = {}
        BY <2>2, <2>3, FS_EmptySet, Zenon
    <2> QED  BY <2>4
<1> QED  BY <1>5, <1>6 DEF Mine, Sent, Fresh

\* All that a connection carries is old for the next call.
LEMMA NextCall ==
    ASSUME NEW i, NEW id \in Nat, InstOK(i, id)
    PROVE  InstOK(i, id + 1) /\ Fresh(i, id + 1)
<1>1. i \in Insts /\ Balance(i, i.cursor) /\ Past(i, id) /\ i.cursor <= id /\ i.cursor \in Nat
      /\ (~i.fd => i = Closed)
    BY InstFields DEF InstOK
<1>2. i.rbuf \in Seq(Answers) /\ i.wbuf \in Seq(Requests)
    BY <1>1, InstFields
<1>3. \A j \in 1..Len(i.rbuf) : i.rbuf[j].id \in Nat
    <2>1. \A j \in 1..Len(i.rbuf) : i.rbuf[j] \in Answers
        BY <1>2, ElementOfSeq
    <2> QED  BY <2>1, CommandsAssumption DEF Answers, CommandsAssumption
<1>4. \A j \in 1..Len(i.wbuf) : i.wbuf[j].id \in Nat
    <2>1. \A j \in 1..Len(i.wbuf) : i.wbuf[j] \in Requests
        BY <1>2, ElementOfSeq
    <2> QED  BY <2>1, CommandsAssumption DEF Requests, CommandsAssumption
<1>5. Past(i, id + 1)
    BY <1>1, <1>3, <1>4 DEF Past
<1>6. Fresh(i, id + 1)
    BY <1>1, <1>3, <1>4 DEF Past, Fresh
<1>7. i.cursor <= id + 1
    BY <1>1
<1> QED  BY <1>1, <1>5, <1>6, <1>7 DEF InstOK

-----------------------------------------------------------------------------
(* What a step may change: one connection.                                 *)

\* The whole state but the work to do.
LEMMA OneServer ==
    ASSUME NEW s \in Servers, NEW in \in [Servers -> Insts], NEW j, NEW new,
           new = [in EXCEPT ![s] = j]
    PROVE  /\ new[s] = j /\ \A t \in Servers : t # s => new[t] = in[t]
           /\ j \in Insts => new \in [Servers -> Insts]
           /\ DOMAIN new = Servers
OBVIOUS

\* Which commands a step may belong to.
LEMMA CommandOf ==
    ASSUME IInv, todo # <<>>, Now.do \in Readers \cup {"do", "quit"}
    PROVE  /\ call.op \in CmdOps /\ ~Planning(todo) /\ call.op \notin GetOps
           /\ call.op \notin {"none", "fetch", "get", "mget"} /\ call.id \in 1..Calls /\ ~fetching
           /\ Commanding(todo, call.id, no_reply, mode.buffer)
           /\ CmdConns(todo, call.id, ok, inst)
           /\ ~mode.buffer => NoneBuffered(inst)
<1>1. todo \in Seq(StepSet) /\ call.op \in CallOps /\ call.id \in 0..Calls
    BY DEF IInv, Typed
<1>2. 1 \in 1..Len(todo) /\ Now = todo[1]
    BY <1>1, HeadTail DEF Now
<1>3. Now.do # "plan" /\ Now.do \notin Getters
    BY DEF Readers, Getters
<1>4. ~Planning(todo)
    BY <1>2, <1>3 DEF Planning
<1>5. call.op # "none" /\ call.id > 0
    BY DEF IInv, Phase
<1>6. call.op \notin GetOps
    BY <1>2, <1>3, <1>4 DEF IInv, Phase, Gets
<1>7. call.op # "fetch"
    BY <1>2, <1>3, <1>4 DEF IInv, Phase, Getters
<1>8. call.op \in CmdOps
    BY <1>1, <1>5, <1>6, <1>7 DEF CallOps
<1>9. call.op \notin {"none", "fetch", "get", "mget"}
    BY <1>5, <1>6, <1>7 DEF GetOps
<1> QED  BY <1>1, <1>4, <1>5, <1>6, <1>8, <1>9 DEF IInv, Phase

\* A step of a command that is no get: it leaves connection j.
LEMMA CommandStep ==
    ASSUME IInv, todo # <<>>, Now.do \in Readers \cup {"do", "quit"},
           UNCHANGED <<mode, no_reply, call, fetching, faults>>, Clean(flaws'),
           NEW j, InstOK(j, call.id), inst' = [inst EXCEPT ![Now.s] = j],
           srv' \in [Servers -> Srvs], ~mode.buffer => j.wbuf = <<>>,
           \/ todo' = <<>>
           \/ /\ todo' = Later
              /\ Now.do = "do" /\ Now.flush /\ ~Now.r.quiet /\ (ok' \/ Now.fail = "return")
                    => Reading(j, call.id)
           \/ todo' = todo /\ Now.do \in Readers /\ Reading(j, call.id)
    PROVE  IInv'
<1> DEFINE id == call.id
<1>1. /\ call.op \in CmdOps /\ ~Planning(todo) /\ call.op \notin GetOps
      /\ call.op \notin {"none", "fetch", "get", "mget"} /\ id \in 1..Calls /\ ~fetching
      /\ Commanding(todo, id, no_reply, mode.buffer)
      /\ CmdConns(todo, id, ok, inst)
      /\ ~mode.buffer => NoneBuffered(inst)
    BY CommandOf
<1>2. /\ todo \in Seq(StepSet) /\ inst \in [Servers -> Insts]
      /\ \A s \in Servers : InstOK(inst[s], id)
    BY DEF IInv, Typed
<1>3. /\ Len(Later) = Len(todo) - 1 /\ Len(todo) \in Nat \ {0} /\ Later \in Seq(StepSet)
      /\ \A m \in 1..Len(Later) : m + 1 \in 1..Len(todo) /\ Later[m] = todo[m + 1]
      /\ Now = todo[1] /\ 1 \in 1..Len(todo)
    BY <1>2, HeadTail DEF Later, Now
<1>4. Now.s \in Servers
    BY <1>2, <1>3, StepFields
<1>5. /\ inst'[Now.s] = j /\ \A t \in Servers : t # Now.s => inst'[t] = inst[t]
      /\ inst' \in [Servers -> Insts]
    BY <1>2, <1>4, OneServer DEF InstOK
<1>6. \A s \in Servers : InstOK(inst'[s], id)
    BY <1>2, <1>5
<1>7. ~mode.buffer => NoneBuffered(inst')
    BY <1>1, <1>5 DEF NoneBuffered
<1>8. \A m \in 1..Len(todo) : m # 1 /\ todo[m].do = "do" =>
          /\ todo[m].s \in Servers /\ todo[m].s # Now.s
          /\ Fresh(inst'[todo[m].s], id)
    <2>1. SUFFICES ASSUME NEW m \in 1..Len(todo), m # 1, todo[m].do = "do"
                   PROVE  /\ todo[m].s \in Servers /\ todo[m].s # Now.s
                          /\ Fresh(inst'[todo[m].s], id)
        OBVIOUS
    <2>2. todo[m].s \in Servers
        BY <1>2, StepFields
    <2>3. todo[m].s # Now.s
        <3>1. 1 < m
            BY <1>3, <2>1
        <3>2. todo[1].s = todo[m].s => todo[m].do \in Readers
            BY <1>1, <1>3, <3>1 DEF Commanding
        <3> QED  BY <1>3, <2>1, <3>2 DEF Readers
    <2>4. Fresh(inst[todo[m].s], id)
        BY <1>1, <2>1 DEF CmdConns
    <2> QED  BY <1>5, <2>2, <2>3, <2>4
<1>9. /\ todo' \in Seq(StepSet) /\ ~Planning(todo')
      /\ Commanding(todo', id, no_reply, mode.buffer)
      /\ CmdConns(todo', id, ok', inst')
    <2>1. CASE todo' = <<>>
        <3>1. <<>> \in Seq(StepSet) /\ Len(<<>>) = 0
            BY EmptySeq
        <3> QED  BY <2>1, <3>1 DEF Planning, Commanding, CmdConns
    <2>2. CASE /\ todo' = Later
               /\ Now.do = "do" /\ Now.flush /\ ~Now.r.quiet /\ (ok' \/ Now.fail = "return")
                    => Reading(j, call.id)
        <3>1. Commanding(Later, id, no_reply, mode.buffer)
            BY <1>1, <1>2, CommandingTail DEF Later
        <3>2. ~Planning(Later)
            <4>1. SUFFICES ASSUME Later # <<>>, Later[1].do = "plan" PROVE FALSE
                BY DEF Planning
            <4>2. 1 \in 1..Len(Later)
                BY <1>3, <4>1, HeadTail
            <4> QED  BY <3>1, <4>1, <4>2 DEF Commanding, Readers
        <3>3. \A m \in 1..Len(Later) : Later[m].do = "do" => Fresh(inst'[Later[m].s], id)
            <4>1. SUFFICES ASSUME NEW m \in 1..Len(Later), Later[m].do = "do"
                           PROVE  Fresh(inst'[Later[m].s], id)
                OBVIOUS
            <4>2. m + 1 \in 1..Len(todo) /\ Later[m] = todo[m + 1] /\ m + 1 # 1
                BY <1>3
            <4> QED  BY <1>8, <4>1, <4>2
        <3>4. ASSUME Later # <<>>, Later[1].do \in Readers, ok' \/ Later[1].do = "dump"
              PROVE  Reading(inst'[Later[1].s], id)
            <4>1. 1 \in 1..Len(Later) /\ 1 + 1 = 2 /\ 2 - 1 = 1 /\ 2 > 1
                BY <1>3, <3>4, HeadTail
            <4>2. 2 \in 1..Len(todo) /\ Later[1] = todo[2]
                BY <1>3, <4>1
            <4>3. /\ todo[1].do = "do" /\ todo[1].s = todo[2].s /\ todo[1].flush /\ ~no_reply
                  /\ todo[1].r.quiet = no_reply
                  /\ Later[1].do = "dump" => todo[1].fail = "return"
                BY <1>1, <1>3, <3>4, <4>1, <4>2 DEF Commanding
            <4> QED  BY <1>3, <1>5, <2>2, <3>4, <4>2, <4>3
        <3> QED  BY <1>3, <2>2, <3>1, <3>2, <3>3, <3>4 DEF CmdConns
    <2>3. CASE todo' = todo /\ Now.do \in Readers /\ Reading(j, call.id)
        <3>1. todo[1].do # "do"
            BY <1>3, <2>3 DEF Readers
        <3>2. \A m \in 1..Len(todo) : todo[m].do = "do" => Fresh(inst'[todo[m].s], id)
            BY <1>8, <3>1
        <3>3. Reading(inst'[todo[1].s], id)
            BY <1>3, <1>5, <2>3
        <3> QED  BY <1>1, <1>2, <2>3, <3>2, <3>3 DEF CmdConns
    <2> QED  BY <2>1, <2>2, <2>3
<1>10. Typed'
    BY <1>5, <1>9 DEF IInv, Typed
<1>11. Phase(call.op, id, Hash[call.key], todo', no_reply, mode.buffer, ok', rc', fetching, inst')
    <2>1. id > 0
        BY <1>1
    <2> HIDE DEF id
    <2> QED  BY <1>1, <1>7, <1>9, <2>1 DEF Phase
<1> QED  BY <1>6, <1>10, <1>11 DEF IInv

\* memcached_do.
LEMMA DoStep ==
    ASSUME TextHandle, IInv, StepDo
    PROVE  IInv'
<1>1. todo # <<>> /\ Now.do = "do" /\ UNCHANGED <<call, rep, flaws>> /\ Frame
    BY DEF StepDo, Running
<1>2. /\ call.id \in 1..Calls /\ Commanding(todo, call.id, no_reply, mode.buffer)
      /\ CmdConns(todo, call.id, ok, inst) /\ (~mode.buffer => NoneBuffered(inst))
    BY <1>1, CommandOf
<1>3. todo \in Seq(StepSet) /\ srv \in [Servers -> Srvs] /\ mode \in Modes
      /\ (\A s \in Servers : InstOK(inst[s], call.id)) /\ Clean(flaws)
    BY DEF IInv, Typed
<1>4. ~mode.binary /\ mode.sasl = "off" /\ mode.buffer \in BOOLEAN
    BY <1>3, TextMode
<1>5. 1 \in 1..Len(todo) /\ Now = todo[1]
    BY <1>1, <1>3, HeadTail DEF Now
<1>6. /\ Now.s \in Servers /\ Now.r \in Requests /\ Now.flush \in BOOLEAN
      /\ Now.fail # "replica"
    BY <1>3, <1>5, StepFields
<1>7. /\ Now.r.quiet = no_reply /\ Now.r.id = call.id /\ (Now.flush \/ mode.buffer)
      /\ Fresh(inst[Now.s], call.id)
    BY <1>1, <1>2, <1>5 DEF Commanding, CmdConns
<1>8. PICK o \in memcached_do(Now.s, Now.r, Now.flush) :
          /\ Becomes(Now.s, o) /\ ok' = o.ok
          /\ todo' = IF ~o.ok /\ Now.fail = "return" THEN <<>> ELSE Later
    BY <1>6 DEF StepDo
<1>9. /\ o.v \in Srvs /\ InstOK(o.i, call.id)
      /\ (~o.ok => o.i = Closed)
      /\ (o.ok /\ Now.flush => o.i.wbuf = <<>>)
      /\ (o.ok /\ Now.flush /\ ~Now.r.quiet => Reading(o.i, call.id))
    <2>1. srv[Now.s] \in Srvs /\ InstOK(inst[Now.s], call.id)
        BY <1>3, <1>6
    <2> QED  BY <1>2, <1>4, <1>6, <1>7, <2>1, DoOK
<1>10. inst' = [inst EXCEPT ![Now.s] = o.i] /\ srv' \in [Servers -> Srvs]
    BY <1>3, <1>6, <1>8, <1>9 DEF Becomes
<1>11. ~mode.buffer => o.i.wbuf = <<>>
    <2>1. Closed.wbuf = <<>>
        BY DEF Closed
    <2> QED  BY <1>6, <1>7, <1>9, <2>1
<1>12. UNCHANGED <<mode, no_reply, call, fetching, faults>> /\ Clean(flaws')
    BY <1>1, <1>3 DEF Frame
<1>13. \/ todo' = <<>>
       \/ /\ todo' = Later
          /\ Now.do = "do" /\ Now.flush /\ ~Now.r.quiet /\ (ok' \/ Now.fail = "return")
                => Reading(o.i, call.id)
    BY <1>8, <1>9
<1> QED  BY <1>1, <1>9, <1>10, <1>11, <1>12, <1>13, CommandStep

\* memcached_quit_server.
LEMMA QuitStep ==
    ASSUME TextHandle, IInv, StepQuit
    PROVE  IInv'
<1>1. todo # <<>> /\ Now.do = "quit" /\ UNCHANGED <<call, ok, rc, rep, flaws>> /\ Frame
      /\ todo' = Later
    BY DEF StepQuit, Running
<1>2. todo \in Seq(StepSet) /\ srv \in [Servers -> Srvs] /\ mode \in Modes /\ Clean(flaws)
      /\ (\A s \in Servers : InstOK(inst[s], call.id)) /\ call.id \in 1..Calls
    BY <1>1, CommandOf DEF IInv, Typed
<1>3. ~mode.binary
    BY <1>2, TextMode
<1>4. Now.s \in Servers
    BY <1>1, <1>2, HeadTail, StepFields DEF Now
<1>5. PICK o : /\ o \in IF inst[Now.s].fd THEN io_flush(inst[Now.s], srv[Now.s])
                        ELSE {Out(Closed, srv[Now.s], TRUE)}
               /\ Becomes(Now.s, [o EXCEPT !.i = Closed])
    BY DEF StepQuit
<1>6. o.v \in Srvs /\ o = Out(o.i, o.v, o.ok)
    <2>1. CASE inst[Now.s].fd
        <3>1. o \in io_flush(inst[Now.s], srv[Now.s])
            BY <1>5, <2>1
        <3>2. o.v \in Srvs
            BY <1>2, <1>3, <1>4, <3>1, FlushOK
        <3>3. o = Out(o.i, o.v, o.ok)
            BY <3>1 DEF io_flush, Out
        <3> QED  BY <3>2, <3>3
    <2>2. CASE ~inst[Now.s].fd
        BY <1>2, <1>4, <1>5, <2>2 DEF Out
    <2> QED  BY <2>1, <2>2
<1>7. [o EXCEPT !.i = Closed] = Out(Closed, o.v, o.ok)
    BY <1>6, OutExcept
<1>8. inst' = [inst EXCEPT ![Now.s] = Closed] /\ srv' \in [Servers -> Srvs]
    <2>1. inst' = [inst EXCEPT ![Now.s] = Closed] /\ srv' = [srv EXCEPT ![Now.s] = o.v]
        BY <1>5, <1>7 DEF Becomes, Out
    <2> QED  BY <1>2, <1>4, <1>6, <2>1
<1>9. InstOK(Closed, call.id) /\ Closed.wbuf = <<>>
    BY <1>2, NewInst
<1>10. UNCHANGED <<mode, no_reply, call, fetching, faults>> /\ Clean(flaws')
    BY <1>1, <1>2 DEF Frame
<1> QED  BY <1>1, <1>8, <1>9, <1>10, CommandStep

\* Reading the answer of a command: the next to be read is one of an older
\* call, or its own.
LEMMA ReaderReads ==
    ASSUME TextHandle, IInv, todo # <<>>, Now.do \in Readers, ok \/ Now.do = "dump",
           NEW x, x = memcached_read_one_response(inst[Now.s])
    PROVE  /\ InstOK(x.i, call.id) /\ (~mode.buffer => x.i.wbuf = <<>>)
           /\ (x.i.fd /\ x.i.cursor = 0) \/ Reading(x.i, call.id)
           /\ ~(x.a = NoAnswer /\ inst[Now.s].fd /\ ~inst[Now.s].broken)
           /\ ~Old(inst[Now.s]) => ~(x.a # NoAnswer /\ x.a.id # call.id)
           /\ x.a = NoAnswer \/ x.a \in Answers
           /\ Old(inst[Now.s]) /\ x.i.fd => x.i.cursor # 0
           /\ x.a.rc \in {"STAT", "ITEM"} /\ x.i.fd => x.i.cursor # 0
           /\ Now.s \in Servers
<1> DEFINE i == inst[Now.s]
<1>1. /\ call.id \in 1..Calls /\ CmdConns(todo, call.id, ok, inst)
      /\ (~mode.buffer => NoneBuffered(inst))
    BY CommandOf
<1>2. todo \in Seq(StepSet) /\ mode \in Modes /\ (\A s \in Servers : InstOK(inst[s], call.id))
    BY DEF IInv, Typed
<1>3. ~mode.binary
    BY <1>2, TextMode
<1>4. Now.s \in Servers /\ Now = todo[1]
    BY <1>2, HeadTail, StepFields DEF Now
<1>5. InstOK(i, call.id) /\ Reading(i, call.id) /\ (~mode.buffer => i.wbuf = <<>>)
    BY <1>1, <1>2, <1>4 DEF CmdConns, NoneBuffered
<1> HIDE DEF i
<1>6. x = memcached_read_one_response(i)
    BY DEF i
<1>7. /\ (x.i.fd /\ x.i.cursor = 0) \/ Reading(x.i, call.id)
      /\ x.a # NoAnswer /\ i.cursor <= 1 => x.a.id = call.id
      /\ i.fd /\ ~i.broken => x.a # NoAnswer
    BY <1>1, <1>3, <1>5, <1>6, ReadReading
<1>8. /\ ReadKeeps(i, x, call.id)
      /\ \/ i.rbuf = <<>> /\ x.i = Closed /\ x.a = NoAnswer
         \/ /\ i.rbuf # <<>> /\ x.a = i.rbuf[1] /\ x.a \in Answers /\ x.a # NoAnswer
            /\ x.i.fd = i.fd /\ x.i.wbuf = i.wbuf /\ x.i.rbuf = Tail(i.rbuf)
            /\ x.i.cursor = i.cursor - (IF x.a.more THEN 0 ELSE 1) /\ i.cursor >= 1
    BY <1>1, <1>3, <1>5, <1>6, ReadOK
<1>9. InstOK(x.i, call.id) /\ (~mode.buffer => x.i.wbuf = <<>>)
    BY <1>5, <1>8 DEF ReadKeeps
<1>10. i.cursor \in Nat
    BY <1>5, InstFields DEF InstOK
<1>11. ~Old(i) => i.cursor <= 1
    BY <1>3, <1>10 DEF Old
<1>12. ~Closed.fd
    BY DEF Closed
<1>13. ASSUME x.a \in Answers, x.i.cursor = i.cursor - (IF x.a.more THEN 0 ELSE 1), i.cursor >= 1
       PROVE  /\ Old(i) => x.i.cursor # 0
              /\ x.a.rc \in {"STAT", "ITEM"} => x.i.cursor # 0
    <2>1. x.a.rc \in {"STAT", "ITEM"} => x.a.more
        BY <1>13 DEF Answers
    <2>2. Old(i) => i.cursor > 1
        BY DEF Old
    <2>3. x.i.cursor = i.cursor \/ x.i.cursor = i.cursor - 1
        BY <1>10, <1>13
    <2>4. x.a.more => x.i.cursor = i.cursor
        BY <1>10, <1>13
    <2>5. Old(i) => x.i.cursor # 0
        BY <1>10, <2>2, <2>3
    <2>6. x.a.more => x.i.cursor # 0
        BY <1>10, <1>13, <2>4
    <2> QED  BY <2>1, <2>5, <2>6
<1>14. NoAnswer.rc \notin {"STAT", "ITEM"}
    BY DEF NoAnswer, Answer
<1>15. /\ Old(i) /\ x.i.fd => x.i.cursor # 0
       /\ x.a.rc \in {"STAT", "ITEM"} /\ x.i.fd => x.i.cursor # 0
    BY <1>8, <1>12, <1>13
<1>16. x.a = NoAnswer \/ x.a \in Answers
    BY <1>8
<1>17. ~Old(i) => ~(x.a # NoAnswer /\ x.a.id # call.id)
    BY <1>7, <1>11
<1> QED  BY <1>4, <1>7, <1>9, <1>15, <1>16, <1>17 DEF i

\* What a reading step leaves is an instance of CommandStep.
LEMMA ReadOldStep ==
    ASSUME TextHandle, IInv, todo # <<>>, Now.do \in Readers, ok \/ Now.do = "dump",
           ReadOld(inst[Now.s])
    PROVE  IInv'
<1> DEFINE x == memcached_read_one_response(inst[Now.s])
<1>1. /\ InstOK(x.i, call.id) /\ (~mode.buffer => x.i.wbuf = <<>>)
      /\ (x.i.fd /\ x.i.cursor = 0) \/ Reading(x.i, call.id)
      /\ ~(x.a = NoAnswer /\ inst[Now.s].fd /\ ~inst[Now.s].broken)
      /\ Old(inst[Now.s]) /\ x.i.fd => x.i.cursor # 0
    BY ReaderReads
<1>2. /\ Old(inst[Now.s]) /\ inst' = [inst EXCEPT ![Now.s] = x.i] /\ UNCHANGED srv
      /\ flaws' = [flaws EXCEPT !.idle = @ \/ (x.a = NoAnswer /\ inst[Now.s].fd
                                                /\ ~inst[Now.s].broken)]
      /\ todo' = todo \/ todo' = Later
      /\ UNCHANGED <<call, ok, rep>> /\ Frame
    BY DEF ReadOld, Touch
<1>3. Clean(flaws) /\ srv \in [Servers -> Srvs]
    BY DEF IInv, Typed
<1>4. Clean(flaws')
    <2>1. flaws' = [flaws EXCEPT !.idle = FALSE]
        BY <1>1, <1>2, <1>3 DEF Clean
    <2> QED  BY <1>3, <2>1 DEF Clean
<1>5. Reading(x.i, call.id)
    BY <1>1, <1>2
<1> HIDE DEF x
<1>6. UNCHANGED <<mode, no_reply, call, fetching, faults>> /\ srv' \in [Servers -> Srvs]
    BY <1>2, <1>3 DEF Frame
<1>7. Now.do \in Readers \cup {"do", "quit"} /\ (Now.do # "do")
    BY DEF Readers
<1> QED  BY <1>1, <1>2, <1>4, <1>5, <1>6, <1>7, CommandStep

\* Reading the answer of this call.
LEMMA ReadLastStep ==
    ASSUME TextHandle, IInv, todo # <<>>, Now.do \in Readers, ok \/ Now.do = "dump",
           NEW remaining, NEW code, ReadLast(inst[Now.s], remaining, code),
           \/ remaining \in {<<>>, Later}
           \/ remaining = todo /\ Read(inst[Now.s]).rc \in {"STAT", "ITEM"}
    PROVE  IInv'
<1> DEFINE x == memcached_read_one_response(inst[Now.s])
<1>1. /\ InstOK(x.i, call.id) /\ (~mode.buffer => x.i.wbuf = <<>>)
      /\ (x.i.fd /\ x.i.cursor = 0) \/ Reading(x.i, call.id)
      /\ ~(x.a = NoAnswer /\ inst[Now.s].fd /\ ~inst[Now.s].broken)
      /\ ~Old(inst[Now.s]) => ~(x.a # NoAnswer /\ x.a.id # call.id)
      /\ x.a.rc \in {"STAT", "ITEM"} /\ x.i.fd => x.i.cursor # 0
    BY ReaderReads
<1>2. /\ ~Old(inst[Now.s]) /\ inst' = [inst EXCEPT ![Now.s] = x.i] /\ UNCHANGED srv
      /\ flaws' = [flaws EXCEPT !.stray = @ \/ (x.a # NoAnswer /\ x.a.id # call.id),
                                !.idle = @ \/ (x.a = NoAnswer /\ inst[Now.s].fd
                                                /\ ~inst[Now.s].broken)]
      /\ todo' = remaining
      /\ UNCHANGED <<call, ok, rep>> /\ Frame
    BY DEF ReadLast, Touch, Taken
<1>3. Clean(flaws) /\ srv \in [Servers -> Srvs]
    BY DEF IInv, Typed
<1>4. Clean(flaws')
    <2>1. flaws' = [flaws EXCEPT !.stray = FALSE, !.idle = FALSE]
        BY <1>1, <1>2, <1>3 DEF Clean
    <2> QED  BY <1>3, <2>1 DEF Clean
<1>5. Read(inst[Now.s]).rc \in {"STAT", "ITEM"} => Reading(x.i, call.id)
    BY <1>1 DEF Read
<1> HIDE DEF x
<1>6. UNCHANGED <<mode, no_reply, call, fetching, faults>> /\ srv' \in [Servers -> Srvs]
    BY <1>2, <1>3 DEF Frame
<1>7. Now.do \in Readers \cup {"do", "quit"} /\ (Now.do # "do")
    BY DEF Readers
<1>8. \/ todo' = <<>>
      \/ todo' = Later
      \/ todo' = todo /\ Reading(x.i, call.id)
    BY <1>2, <1>5
<1> QED  BY <1>1, <1>2, <1>4, <1>6, <1>7, <1>8, CommandStep

\* Reading the answer to an increment: as above, whatever is made of it.
LEMMA ReadCounterStep ==
    ASSUME TextHandle, IInv, todo # <<>>, Now.do \in Readers, ok \/ Now.do = "dump",
           ReadCounter(inst[Now.s])
    PROVE  IInv'
<1> DEFINE x == memcached_read_one_response(inst[Now.s])
           last == ~Old(inst[Now.s]) \/ x.a.rc \in {"FAILURE", "SERVER_ERROR", "ITEM"}
           foreign == x.a # NoAnswer /\ x.a.id # call.id
           told == last /\ (foreign \/ x.a = NoAnswer)
<1>1. /\ InstOK(x.i, call.id) /\ (~mode.buffer => x.i.wbuf = <<>>)
      /\ (x.i.fd /\ x.i.cursor = 0) \/ Reading(x.i, call.id)
      /\ ~(x.a = NoAnswer /\ inst[Now.s].fd /\ ~inst[Now.s].broken)
      /\ ~Old(inst[Now.s]) => ~foreign
      /\ Old(inst[Now.s]) /\ x.i.fd => x.i.cursor # 0
    BY ReaderReads
<1>2. /\ inst' = [inst EXCEPT ![Now.s] = x.i] /\ UNCHANGED srv
      /\ flaws' = [stray |-> flaws.stray \/ (~Old(inst[Now.s]) /\ foreign),
                   idle |-> flaws.idle \/ (x.a = NoAnswer /\ inst[Now.s].fd
                                            /\ ~inst[Now.s].broken),
                   misread |-> flaws.misread \/ told]
      /\ todo' = IF last THEN Later ELSE todo
      /\ UNCHANGED <<call, ok, rep>> /\ Frame
    BY DEF ReadCounter, Touch
<1>3. Clean(flaws) /\ srv \in [Servers -> Srvs]
    BY DEF IInv, Typed
<1>4. Clean(flaws')
    <2>1. ~(~Old(inst[Now.s]) /\ foreign)
          /\ ~(x.a = NoAnswer /\ inst[Now.s].fd /\ ~inst[Now.s].broken)
        BY <1>1
    <2>2. told \in BOOLEAN
        OBVIOUS
    <2> HIDE DEF x, foreign, told
    <2>3. flaws' = [stray |-> FALSE, idle |-> FALSE, misread |-> flaws.misread \/ told]
        BY <1>2, <1>3, <2>1 DEF Clean
    <2> QED  BY <1>3, <2>2, <2>3 DEF Clean
<1>5. ~last => Reading(x.i, call.id)
    BY <1>1
<1>6. UNCHANGED <<mode, no_reply, call, fetching, faults>> /\ srv' \in [Servers -> Srvs]
    BY <1>2, <1>3 DEF Frame
<1>7. Now.do \in Readers \cup {"do", "quit"} /\ (Now.do # "do")
    BY DEF Readers
<1>8. \/ todo' = Later
      \/ todo' = todo /\ Reading(x.i, call.id)
    BY <1>2, <1>5
<1> HIDE DEF x
<1> QED  BY <1>1, <1>2, <1>4, <1>6, <1>7, <1>8, CommandStep

\* A read that is skipped because the request was not sent.
LEMMA SkipStep ==
    ASSUME TextHandle, IInv, todo # <<>>, Now.do \in Readers, Skip
    PROVE  IInv'
<1>1. todo' = Later /\ UNCHANGED <<srv, inst, call, ok, rc, rep, flaws>> /\ Frame
    BY DEF Skip
<1>2. /\ inst \in [Servers -> Insts] /\ srv \in [Servers -> Srvs] /\ Clean(flaws)
      /\ todo \in Seq(StepSet) /\ \A s \in Servers : InstOK(inst[s], call.id)
    BY DEF IInv, Typed
<1>3. Now.do \in Readers \cup {"do", "quit"} /\ Now.do # "do"
    BY DEF Readers
<1>4. Now.s \in Servers
    BY <1>2, HeadTail, StepFields DEF Now
<1>5. ~mode.buffer => inst[Now.s].wbuf = <<>>
    BY <1>3, <1>4, CommandOf DEF NoneBuffered
<1>6. inst' = [inst EXCEPT ![Now.s] = inst[Now.s]] /\ InstOK(inst[Now.s], call.id)
    BY <1>1, <1>2, <1>4
<1>7. UNCHANGED <<mode, no_reply, call, fetching, faults>> /\ Clean(flaws')
      /\ srv' \in [Servers -> Srvs]
    BY <1>1, <1>2 DEF Frame
<1> QED  BY <1>1, <1>3, <1>5, <1>6, <1>7, CommandStep

\* memcached_response.
LEMMA ResponseStep ==
    ASSUME TextHandle, IInv, StepResponse
    PROVE  IInv'
<1>1. todo # <<>> /\ Now.do = "response" /\ Now.do \in Readers
    BY DEF StepResponse, Running, Readers
<1>2. CASE ~ok
    BY <1>1, <1>2, SkipStep DEF StepResponse
<1>3. CASE ok
    <2>1. \/ ReadCounter(inst[Now.s])
          \/ ReadOld(inst[Now.s])
          \/ ReadLast(inst[Now.s], Later, Worse(Read(inst[Now.s]).rc))
        BY <1>3 DEF StepResponse
    <2>4. CASE ReadCounter(inst[Now.s])
        BY <1>1, <1>3, <2>4, ReadCounterStep
    <2>2. CASE ReadOld(inst[Now.s])
        BY <1>1, <1>3, <2>2, ReadOldStep
    <2>3. CASE ReadLast(inst[Now.s], Later, Worse(Read(inst[Now.s]).rc))
        <3>1. Later \in {<<>>, Later}
            OBVIOUS
        <3> QED  BY <1>1, <1>3, <2>3, <3>1, ReadLastStep
    <2> QED  BY <2>1, <2>2, <2>3, <2>4
<1> QED  BY <1>2, <1>3

\* ascii_stats_fetch.
LEMMA StatsStep ==
    ASSUME TextHandle, IInv, StepStats
    PROVE  IInv'
<1>1. todo # <<>> /\ Now.do = "stats" /\ Now.do \in Readers
    BY DEF StepStats, Running, Readers
<1>2. ~mode.binary
    BY TextMode DEF IInv, Typed
<1>3. CASE ~ok
    BY <1>1, <1>3, SkipStep DEF StepStats
<1>4. CASE ok
    <2> DEFINE code == Read(inst[Now.s]).rc
               again == code = "STAT"
               left == IF again THEN todo ELSE Later
               worse == IF again \/ code = "END" THEN rc ELSE code
    <2>1. ReadOld(inst[Now.s]) \/ ReadLast(inst[Now.s], left, worse)
        BY <1>2, <1>4 DEF StepStats
    <2>2. CASE ReadOld(inst[Now.s])
        BY <1>1, <1>4, <2>2, ReadOldStep
    <2>3. CASE ReadLast(inst[Now.s], left, worse)
        <3>1. left \in {<<>>, Later} \/ (left = todo /\ Read(inst[Now.s]).rc \in {"STAT", "ITEM"})
            OBVIOUS
        <3> HIDE DEF left, worse
        <3> QED  BY <1>1, <1>4, <2>3, <3>1, ReadLastStep
    <2> QED  BY <2>1, <2>2, <2>3
<1> QED  BY <1>3, <1>4

\* ascii_dump.
LEMMA DumpStep ==
    ASSUME TextHandle, IInv, StepDump
    PROVE  IInv'
<1> DEFINE code == Read(inst[Now.s]).rc
           left == CASE code = "ITEM" -> todo
                     [] code \in {"END", "SERVER_ERROR"} -> Later
                     [] OTHER -> <<>>
           worse == IF code \in {"ITEM", "END", "SERVER_ERROR"} THEN rc ELSE code
<1>1. todo # <<>> /\ Now.do = "dump" /\ Now.do \in Readers
    BY DEF StepDump, Running, Readers
<1>2. ReadOld(inst[Now.s]) \/ ReadLast(inst[Now.s], left, worse)
    BY DEF StepDump
<1>3. CASE ReadOld(inst[Now.s])
    BY <1>1, <1>3, ReadOldStep
<1>4. CASE ReadLast(inst[Now.s], left, worse)
    <2>1. left \in {<<>>, Later} \/ (left = todo /\ Read(inst[Now.s]).rc \in {"STAT", "ITEM"})
        <3> HIDE DEF code
        <3>1. CASE code = "ITEM"
            BY <3>1 DEF code
        <3>2. CASE code \in {"END", "SERVER_ERROR"}
            BY <3>2
        <3>3. CASE code \notin {"ITEM", "END", "SERVER_ERROR"}
            BY <3>3
        <3> QED  BY <3>1, <3>2, <3>3
    <2> HIDE DEF left, worse
    <2> QED  BY <1>1, <1>4, <2>1, ReadLastStep
<1> QED  BY <1>2, <1>3, <1>4

-----------------------------------------------------------------------------
(* The steps of a get.                                                     *)

\* Which commands a step of a get may belong to.
LEMMA GetterOf ==
    ASSUME IInv, todo # <<>>, Now.do \in {"purge", "key", "newline"}
    PROVE  /\ call.op \in GetOps /\ ~Planning(todo) /\ call.op \notin CmdOps
           /\ call.op \notin {"none", "fetch"} /\ call.id \in 1..Calls
           /\ Gets(todo, call.id, call.op, Hash[call.key])
           /\ GetConns(todo, call.id, call.op, Hash[call.key], mode.buffer, inst)
           /\ Missed(todo, call.op, rc, inst)
           /\ Now = todo[1] /\ 1 \in 1..Len(todo) /\ Now.s \in Servers /\ Now.r \in Requests
<1>1. todo \in Seq(StepSet) /\ call.op \in CallOps /\ call.id \in 0..Calls
    BY DEF IInv, Typed
<1>2. 1 \in 1..Len(todo) /\ Now = todo[1]
    BY <1>1, HeadTail DEF Now
<1>3. ~Planning(todo)
    BY <1>2 DEF Planning
<1>4. call.op # "none" /\ call.id > 0
    BY DEF IInv, Phase
<1>5. call.op \notin CmdOps
    BY <1>2, <1>3 DEF IInv, Phase, Commanding, Readers
<1>6. call.op # "fetch"
    BY <1>2, <1>3 DEF IInv, Phase
<1>7. call.op \in GetOps
    BY <1>1, <1>4, <1>5, <1>6 DEF CallOps
<1>8. Now.s \in Servers /\ Now.r \in Requests
    BY <1>1, <1>2, StepFields
<1> QED  BY <1>1, <1>2, <1>3, <1>4, <1>5, <1>6, <1>7, <1>8 DEF IInv, Phase

\* The steps that come before the first are done.
LEMMA NoneLeft ==
    ASSUME NEW q \in Seq(StepSet), q # <<>>, NEW id, NEW op, NEW home, Gets(q, id, op, home),
           NEW d, Rank(d) < Rank(q[1].do), NEW s
    PROVE  ~Left(q, d, s)
<1>1. Len(q) \in Nat \ {0} /\ 1 \in 1..Len(q)
    BY HeadTail
<1>2. \A x : Rank(x) \in 1..5
    BY DEF Rank
<1>3. ASSUME NEW k \in 1..Len(q), q[k].do = d PROVE FALSE
    <2>1. k # 1
        BY <1>2, <1>3
    <2>2. 1 < k
        BY <1>1, <2>1
    <2>3. Rank(q[1].do) <= Rank(q[k].do)
        BY <1>1, <2>2 DEF Gets
    <2>4. Rank(q[1].do) \in 1..5 /\ Rank(d) \in 1..5
        BY <1>2
    <2> QED  BY <1>3, <2>3, <2>4
<1> QED  BY <1>3 DEF Left

\* A step of a get before it fetches: it leaves connection j.
LEMMA GetStep ==
    ASSUME IInv, todo # <<>>, Now.do \in {"purge", "key", "newline"},
           UNCHANGED <<mode, no_reply, call, fetching, faults>>, Clean(flaws'),
           NEW j, InstOK(j, call.id), inst' = [inst EXCEPT ![Now.s] = j],
           srv' \in [Servers -> Srvs], rc' \in {rc, "FAILURE", "SOME_ERRORS"},
           todo' \in {todo, Later},
           GetConn(j, call.id, Left(todo', "purge", Now.s), Left(todo', "newline", Now.s),
                   call.op = "get" /\ Now.s # Hash[call.key], mode.buffer)
    PROVE  IInv'
<1> DEFINE id == call.id
           home == Hash[call.key]
<1>1. /\ call.op \in GetOps /\ ~Planning(todo) /\ call.op \notin CmdOps
      /\ call.op \notin {"none", "fetch"} /\ id \in 1..Calls
      /\ Gets(todo, id, call.op, home)
      /\ GetConns(todo, id, call.op, home, mode.buffer, inst)
      /\ Missed(todo, call.op, rc, inst)
      /\ Now = todo[1] /\ 1 \in 1..Len(todo) /\ Now.s \in Servers
    BY GetterOf
<1>2. /\ todo \in Seq(StepSet) /\ inst \in [Servers -> Insts]
      /\ \A s \in Servers : InstOK(inst[s], id)
      /\ fetching => call.op \in {"none", "mget", "fetch"}
    BY DEF IInv, Typed, Phase
<1>3. /\ Len(Later) = Len(todo) - 1 /\ Len(todo) \in Nat \ {0} /\ Later \in Seq(StepSet)
      /\ \A m \in 1..Len(Later) : m + 1 \in 1..Len(todo) /\ Later[m] = todo[m + 1]
    BY <1>2, HeadTail DEF Later
<1>4. /\ inst'[Now.s] = j /\ \A t \in Servers : t # Now.s => inst'[t] = inst[t]
      /\ inst' \in [Servers -> Insts]
    BY <1>1, <1>2, OneServer DEF InstOK
<1>5. \A s \in Servers : InstOK(inst'[s], id)
    BY <1>2, <1>4
<1>6. todo' \in Seq(StepSet) /\ Gets(todo', id, call.op, home)
    <2>1. Gets(Later, id, call.op, home)
        BY <1>1, <1>2, GetsTail DEF Later
    <2> QED  BY <1>1, <1>2, <1>3, <2>1
<1>7. todo' # <<>> => todo'[1].do \in Getters \ {"fetch_end"}
    <2>1. CASE todo' = todo
        BY <1>1, <2>1 DEF Getters
    <2>2. CASE todo' = Later
        <3>1. SUFFICES ASSUME Later # <<>> PROVE Later[1].do \in Getters \ {"fetch_end"}
            BY <2>2
        <3>2. 1 \in 1..Len(Later) /\ 1 + 1 = 2 /\ 2 - 1 = 1 /\ 2 > 1
            BY <1>3, <3>1, HeadTail
        <3>3. 2 \in 1..Len(todo) /\ Later[1] = todo[2]
            BY <1>3, <3>2
        <3>4. todo[2].do \in Getters /\ (todo[2].do = "fetch_end" => todo[1].do = "fetch")
            BY <1>1, <3>2, <3>3 DEF Gets
        <3> QED  BY <1>1, <3>3, <3>4
    <2> QED  BY <2>1, <2>2
<1>8. ~Planning(todo')
    BY <1>7 DEF Planning, Getters
<1>9. GetConns(todo', id, call.op, home, mode.buffer, inst')
    <2>1. ASSUME NEW t \in Servers, t # Now.s
          PROVE  /\ inst'[t] = inst[t]
                 /\ Left(todo', "purge", t) <=> Left(todo, "purge", t)
                 /\ Left(todo', "newline", t) <=> Left(todo, "newline", t)
        <3>1. \A d : Left(Later, d, t) <=> Left(todo, d, t)
            BY <1>1, <1>2, <2>1, LeftTail DEF Later
        <3> QED  BY <1>4, <2>1, <3>1
    <2>2. ASSUME NEW t \in Servers
          PROVE  GetConn(inst'[t], id, Left(todo', "purge", t), Left(todo', "newline", t),
                         call.op = "get" /\ t # home, mode.buffer)
        <3>1. CASE t = Now.s
            BY <1>4, <3>1
        <3>2. CASE t # Now.s
            <4>1. GetConn(inst[t], id, Left(todo, "purge", t), Left(todo, "newline", t),
                          call.op = "get" /\ t # home, mode.buffer)
                BY <1>1 DEF GetConns
            <4> HIDE DEF id, home
            <4> QED  BY <2>1, <3>2, <4>1 DEF GetConn
        <3> QED  BY <3>1, <3>2
    <2> QED  BY <2>2 DEF GetConns
<1>10. Missed(todo', call.op, rc', inst')
    <2>1. call.op = "get" => rc # "NOTFOUND"
        BY <1>1 DEF Missed
    <2>2. call.op = "get" => rc' # "NOTFOUND"
        BY <2>1
    <2>3. todo' # <<>> => todo'[1].do # "fetch_end"
        BY <1>7
    <2> QED  BY <2>2, <2>3 DEF Missed
<1>11. Typed'
    BY <1>4, <1>6 DEF IInv, Typed
<1>12. Phase(call.op, id, home, todo', no_reply, mode.buffer, ok', rc', fetching, inst')
    <2>1. id > 0
        BY <1>1
    <2> HIDE DEF id, home
    <2> QED  BY <1>1, <1>2, <1>6, <1>8, <1>9, <1>10, <2>1 DEF Phase
<1> QED  BY <1>5, <1>11, <1>12 DEF IInv

\* memcached_purge.
LEMMA PurgeStep ==
    ASSUME TextHandle, IInv, StepPurge
    PROVE  IInv'
<1> DEFINE i == inst[Now.s]
           id == call.id
           x == memcached_read_one_response(i)
           away == call.op = "get" /\ Now.s # Hash[call.key]
<1>1. todo # <<>> /\ Now.do = "purge"
    BY DEF StepPurge, Running
<1>2. /\ id \in 1..Calls /\ GetConns(todo, id, call.op, Hash[call.key], mode.buffer, inst)
      /\ Now = todo[1] /\ 1 \in 1..Len(todo) /\ Now.s \in Servers
    BY <1>1, GetterOf
<1>3. /\ inst \in [Servers -> Insts] /\ srv \in [Servers -> Srvs] /\ Clean(flaws)
      /\ mode \in Modes /\ InstOK(i, id) /\ srv[Now.s] \in Srvs
    BY <1>2 DEF IInv, Typed
<1>4. ~mode.binary /\ (mode.buffer => mode.no_block) /\ mode.buffer \in BOOLEAN
    BY <1>3, TextMode
<1>5. Left(todo, "purge", Now.s)
    BY <1>1, <1>2 DEF Left
<1>6. ~mode.buffer => i.wbuf = <<>>
    <2>1. GetConn(i, id, Left(todo, "purge", Now.s), Left(todo, "newline", Now.s), away,
                  mode.buffer)
        BY <1>2 DEF GetConns
    <2> HIDE DEF i, away, id
    <2> QED  BY <1>5, <2>1 DEF GetConn
<1>7. CASE i.cursor = 0 /\ Skip
    <2>1. Mine(i, id) /\ Sent(i)
        BY <1>2, <1>3, <1>7, NothingOwed
    <2>2. todo' = Later /\ UNCHANGED <<srv, inst, call, ok, rc, rep, flaws>> /\ Frame
        BY <1>7 DEF Skip
    <2>3. inst' = [inst EXCEPT ![Now.s] = i]
        BY <1>3, <2>2
    <2> HIDE DEF i, away
    <2>4. GetConn(i, id, Left(Later, "purge", Now.s), Left(Later, "newline", Now.s), away,
                  mode.buffer)
        BY <1>6, <1>7, <2>1 DEF GetConn
    <2>5. UNCHANGED <<mode, no_reply, call, fetching, faults>> /\ Clean(flaws')
          /\ srv' \in [Servers -> Srvs] /\ rc' \in {rc, "FAILURE", "SOME_ERRORS"}
        BY <1>3, <2>2 DEF Frame
    <2> QED  BY <1>1, <1>3, <2>2, <2>3, <2>4, <2>5, GetStep DEF away
<1>8. CASE FlushFirst
    <2>1. PICK o \in io_flush(i, srv[Now.s]) : Becomes(Now.s, o)
        BY <1>8 DEF FlushFirst
    <2>2. UNCHANGED <<call, todo, ok, rc, rep, flaws>> /\ Frame
        BY <1>8 DEF FlushFirst
    <2>3. InstOK(o.i, id) /\ o.v \in Srvs /\ o.i.wbuf = <<>>
        BY <1>2, <1>3, <1>4, FlushOK, CommandsAssumption DEF CommandsAssumption
    <2>4. inst' = [inst EXCEPT ![Now.s] = o.i] /\ srv' \in [Servers -> Srvs]
        BY <1>2, <1>3, <2>1, <2>3 DEF Becomes
    <2> HIDE DEF i, away
    <2>5. GetConn(o.i, id, Left(todo, "purge", Now.s), Left(todo, "newline", Now.s), away,
                  mode.buffer)
        BY <1>5, <2>3 DEF GetConn
    <2>6. UNCHANGED <<mode, no_reply, call, fetching, faults>> /\ Clean(flaws') /\ todo' = todo
          /\ rc' \in {rc, "FAILURE", "SOME_ERRORS"}
        BY <1>3, <2>2 DEF Frame
    <2> QED  BY <1>1, <2>3, <2>4, <2>5, <2>6, GetStep DEF away
<1>9. CASE /\ i.cursor # 0 /\ Flushed(i) /\ Touch(Now.s, x.i)
           /\ flaws' = [flaws EXCEPT !.idle = @ \/ (x.a = NoAnswer /\ i.fd /\ ~i.broken)]
           /\ UNCHANGED <<call, todo, ok, rc, rep>> /\ Frame
    <2>1. i.wbuf = <<>>
        BY <1>4, <1>6, <1>9 DEF Flushed
    <2>2. i.fd /\ ~i.broken => i.rbuf # <<>>
        BY <1>3, <1>9, <2>1, ReadFinds
    <2>3. /\ ReadKeeps(i, x, id)
          /\ i.rbuf # <<>> => x.a # NoAnswer
        BY <1>2, <1>3, <1>4, ReadOK
    <2>4. InstOK(x.i, id) /\ x.i.wbuf = <<>>
        BY <2>1, <2>3 DEF ReadKeeps
    <2>5. Clean(flaws')
        <3>1. flaws' = [flaws EXCEPT !.idle = FALSE]
            BY <1>3, <1>9, <2>2, <2>3 DEF Clean
        <3> QED  BY <1>3, <3>1 DEF Clean
    <2>6. inst' = [inst EXCEPT ![Now.s] = x.i] /\ srv' \in [Servers -> Srvs]
        BY <1>3, <1>9 DEF Touch
    <2>7. UNCHANGED <<mode, no_reply, call, fetching, faults>> /\ todo' = todo
          /\ rc' \in {rc, "FAILURE", "SOME_ERRORS"}
        BY <1>9 DEF Frame
    <2> HIDE DEF i, away, x
    <2>8. GetConn(x.i, id, Left(todo, "purge", Now.s), Left(todo, "newline", Now.s), away,
                  mode.buffer)
        BY <1>5, <2>4 DEF GetConn
    <2> QED  BY <1>1, <2>4, <2>5, <2>6, <2>7, <2>8, GetStep DEF away
<1> QED  BY <1>7, <1>8, <1>9 DEF StepPurge

\* The end of the line of a get.
LEMMA NewlineStep ==
    ASSUME TextHandle, IInv, StepNewline
    PROVE  IInv'
<1> DEFINE i == inst[Now.s]
           id == call.id
           away == call.op = "get" /\ Now.s # Hash[call.key]
           newline == Left(Later, "newline", Now.s)
<1>1. todo # <<>> /\ Now.do = "newline"
    BY DEF StepNewline, Running
<1>2. /\ id \in 1..Calls /\ GetConns(todo, id, call.op, Hash[call.key], mode.buffer, inst)
      /\ Gets(todo, id, call.op, Hash[call.key])
      /\ Now = todo[1] /\ 1 \in 1..Len(todo) /\ Now.s \in Servers
    BY <1>1, GetterOf
<1>3. /\ inst \in [Servers -> Insts] /\ srv \in [Servers -> Srvs] /\ Clean(flaws)
      /\ mode \in Modes /\ InstOK(i, id) /\ srv[Now.s] \in Srvs /\ todo \in Seq(StepSet)
    BY <1>2 DEF IInv, Typed
<1>4. ~mode.binary
    BY <1>3, TextMode
<1>5. ~Left(todo, "purge", Now.s) /\ ~Left(Later, "purge", Now.s)
    <2>1. Rank("purge") < Rank(todo[1].do)
        BY <1>1, <1>2 DEF Rank
    <2>2. ~Left(todo, "purge", Now.s)
        BY <1>1, <1>2, <1>3, <2>1, NoneLeft
    <2> QED  BY <1>1, <1>3, <2>2, LeftTail DEF Later
<1>6. /\ Mine(i, id) /\ (away => i.cursor = 0)
      /\ ~mode.buffer /\ i.wbuf # <<>> => i.cursor # 0
    <2>1. GetConn(i, id, Left(todo, "purge", Now.s), Left(todo, "newline", Now.s), away,
                  mode.buffer)
        BY <1>2 DEF GetConns
    <2> HIDE DEF i, away, id
    <2> QED  BY <1>5, <2>1 DEF GetConn
<1>7. CASE i.cursor = 0 /\ Skip
    <2>1. todo' = Later /\ UNCHANGED <<srv, inst, call, ok, rc, rep, flaws>> /\ Frame
        BY <1>7 DEF Skip
    <2>2. inst' = [inst EXCEPT ![Now.s] = i]
        BY <1>3, <2>1
    <2> HIDE DEF i, away, newline
    <2>3. GetConn(i, id, Left(Later, "purge", Now.s), newline, away, mode.buffer)
        BY <1>5, <1>6, <1>7 DEF GetConn, Sent
    <2>4. UNCHANGED <<mode, no_reply, call, fetching, faults>> /\ Clean(flaws')
          /\ srv' \in [Servers -> Srvs] /\ rc' \in {rc, "FAILURE", "SOME_ERRORS"}
        BY <1>3, <2>1 DEF Frame
    <2> QED  BY <1>1, <1>3, <2>1, <2>2, <2>3, <2>4, GetStep DEF away, newline
<1>8. CASE /\ \E o \in io_flush(i, srv[Now.s]) :
                 Becomes(Now.s, o) /\ rc' = IF o.ok THEN rc ELSE "SOME_ERRORS"
           /\ todo' = Later
           /\ UNCHANGED <<call, ok, rep, flaws>> /\ Frame
    <2>1. PICK o \in io_flush(i, srv[Now.s]) :
              Becomes(Now.s, o) /\ rc' = IF o.ok THEN rc ELSE "SOME_ERRORS"
        BY <1>8
    <2>2. /\ InstOK(o.i, id) /\ o.v \in Srvs /\ o.i.wbuf = <<>> /\ Sent(o.i) /\ Mine(o.i, id)
          /\ o.i.cursor \in {0, i.cursor}
        BY <1>2, <1>3, <1>4, <1>6, FlushOK, CommandsAssumption DEF CommandsAssumption
    <2>3. inst' = [inst EXCEPT ![Now.s] = o.i] /\ srv' \in [Servers -> Srvs]
        BY <1>2, <1>3, <2>1, <2>2 DEF Becomes
    <2> HIDE DEF i, away, newline
    <2>4. GetConn(o.i, id, Left(Later, "purge", Now.s), newline, away, mode.buffer)
        BY <1>6, <2>2 DEF GetConn
    <2>5. UNCHANGED <<mode, no_reply, call, fetching, faults>> /\ Clean(flaws') /\ todo' = Later
          /\ rc' \in {rc, "FAILURE", "SOME_ERRORS"}
        BY <1>3, <1>8, <2>1 DEF Frame
    <2> QED  BY <1>1, <2>2, <2>3, <2>4, <2>5, GetStep DEF away, newline
<1> QED  BY <1>7, <1>8 DEF StepNewline

\* A key added to the request buffered last.
KeyInto(i, r) == [i EXCEPT !.wbuf[Len(i.wbuf)].keys = @ \o r.keys]
\* A key added to a get still buffered.
LEMMA KeyAdded ==
    ASSUME NEW i, NEW id, InstOK(i, id), NEW r \in Requests
    PROVE  /\ InstOK(KeyInto(i, r), id) /\ KeyInto(i, r).cursor = i.cursor
           /\ Mine(i, id) => Mine(KeyInto(i, r), id)
<1> DEFINE w == i.wbuf
           n == Len(w)
           u == [w EXCEPT ![n].keys = @ \o r.keys]
           j == KeyInto(i, r)
<1>1. i \in Insts /\ Balance(i, i.cursor) /\ Past(i, id) /\ i.cursor <= id /\ (~i.fd => i = Closed)
    BY DEF InstOK
<1>2. w \in Seq(Requests) /\ n \in Nat /\ i.cursor \in Nat /\ i.rbuf \in Seq(Answers)
    BY <1>1, InstFields
<1>3. j = [i EXCEPT !.wbuf = u]
    BY <1>1 DEF KeyInto
<1> HIDE DEF j
<1>4. CASE w = <<>>
    <2>1. n = 0 /\ u = w
        BY <1>2, <1>4
    <2>2. j = i
        <3>1. [i EXCEPT !.wbuf = i.wbuf] = i
            BY <1>1 DEF Insts
        <3> QED  BY <1>3, <2>1, <3>1
    <2> QED  BY <2>2 DEF j
<1>5. CASE w # <<>>
    <2>1. n \in 1..Len(w)
        BY <1>2, <1>5, HeadTail
    <2>2. w[n] \in Requests
        BY <1>2, <2>1, ElementOfSeq
    <2> DEFINE z == [w[n] EXCEPT !.keys = @ \o r.keys]
    <2>3. /\ z \in Requests /\ z.quiet = w[n].quiet /\ z.id = w[n].id
        <3>1. w[n].keys \in Seq(Keys) /\ r.keys \in Seq(Keys)
            BY <2>2 DEF Requests
        <3>2. w[n].keys \o r.keys \in Seq(Keys)
            BY <3>1, ConcatProperties
        <3> HIDE DEF w, n
        <3> QED  BY <2>2, <3>2 DEF Requests
    <2>4. u = [w EXCEPT ![n] = z]
        OBVIOUS
    <2> HIDE DEF z, u
    <2>5. /\ u \in Seq(Requests) /\ Len(u) = n
          /\ \A k \in 1..n : u[k].quiet = w[k].quiet /\ u[k].id = w[k].id
        <3>1. u \in Seq(Requests) /\ Len(u) = n
              /\ \A k \in 1..n : u[k] = IF k = n THEN z ELSE w[k]
            BY <1>2, <2>1, <2>3, <2>4, ExceptSeq
        <3> HIDE DEF w, n
        <3> QED  BY <2>3, <3>1
    <2>6. /\ j \in Insts /\ j.wbuf = u /\ j.rbuf = i.rbuf /\ j.cursor = i.cursor
          /\ j.fd = i.fd /\ j.broken = i.broken
        BY <1>1, <1>3, <2>5 DEF Insts
    <2>7. i.fd
        <3>1. i.wbuf = <<>> \/ i.fd
            BY <1>1 DEF Closed
        <3> QED  BY <1>5, <3>1
    <2>8. Asked(u) = Asked(w)
        <3>1. {k \in 1..Len(u) : ~u[k].quiet} = {k \in 1..Len(w) : ~w[k].quiet}
            BY <2>5
        <3> QED  BY <3>1 DEF Asked
    <2>9. Balance(j, j.cursor)
        BY <1>1, <2>6, <2>8 DEF Balance
    <2>10. Past(j, id)
        BY <1>1, <2>5, <2>6 DEF Past
    <2>11. InstOK(j, id)
        BY <1>1, <2>6, <2>7, <2>9, <2>10 DEF InstOK
    <2>12. ASSUME Mine(i, id) PROVE Mine(j, id)
        BY <2>5, <2>6, <2>12 DEF Mine
    <2> QED  BY <2>6, <2>11, <2>12 DEF j
<1> QED  BY <1>4, <1>5 DEF j

\* A request written is counted.
Counted(o) == [o EXCEPT !.i = Increment(@)]

\* A get started on a connection that carries no answer to come.
LEMMA KeyWritten ==
    ASSUME ~mode.binary, mode.sasl = "off", NEW s, srv[s] \in Srvs, NEW id \in 1..Calls,
           InstOK(inst[s], id), inst[s].cursor = 0, NEW r \in Requests, r.id = id, ~r.quiet,
           NEW i \in memcached_connect(s),
           NEW o \in memcached_io_write(i, srv[s], r, FALSE)
    PROVE  /\ Counted(o).v \in Srvs /\ InstOK(Counted(o).i, id) /\ Mine(Counted(o).i, id)
           /\ Counted(o).i.cursor = 1
<1> DEFINE p == Counted(o)
<1>1. i.fd /\ InstOK(i, id) /\ Mine(i, id) /\ i.cursor = 0
    <2>1. Mine(inst[s], id)
        BY NothingOwed
    <2>2. i.fd /\ InstOK(i, id) /\ i.cursor <= inst[s].cursor /\ Mine(i, id)
        BY <2>1, ConnectOK
    <2>3. i.cursor \in Nat
        BY <2>2, InstFields DEF InstOK
    <2> QED  BY <2>2, <2>3
<1>2. Cost(r) = 1 /\ i.cursor + Cost(r) <= id
    BY <1>1 DEF Cost
<1>3. o.v \in Srvs /\ o.ok /\ Written(i, o, r, id, FALSE)
    <2>1. r.id <= id /\ FALSE \in BOOLEAN
        OBVIOUS
    <2>2. o.v \in Srvs /\ (o.ok => Written(i, o, r, id, FALSE)) /\ (~o.ok => FALSE)
        BY <1>1, <1>2, <2>1, WriteOK
    <2> QED  BY <2>2
<1> DEFINE k == Increment(o.i)
<1>4. InstOK(k, id) /\ k.cursor = 1 /\ k.wbuf = Append(i.wbuf, r) /\ k.rbuf = i.rbuf
    BY <1>1, <1>2, <1>3 DEF Written
<1> HIDE DEF k
<1>5. i.wbuf \in Seq(Requests)
    BY <1>1, InstFields DEF InstOK
<1>6. Mine(k, id)
    <2>1. /\ Len(i.wbuf) \in Nat /\ Len(k.wbuf) = Len(i.wbuf) + 1
          /\ k.wbuf[Len(i.wbuf) + 1] = r
          /\ \A m \in 1..Len(i.wbuf) : k.wbuf[m] = i.wbuf[m]
        BY <1>4, <1>5, AppendProperties, LenProperties
    <2>2. ASSUME NEW m \in 1..Len(k.wbuf), ~k.wbuf[m].quiet PROVE k.wbuf[m].id = id
        <3>1. m = Len(i.wbuf) + 1 \/ m \in 1..Len(i.wbuf)
            BY <2>1
        <3> QED  BY <1>1, <2>1, <2>2, <3>1 DEF Mine
    <2>3. \A m \in 1..Len(k.rbuf) : k.rbuf[m].id = id
        BY <1>1, <1>4 DEF Mine
    <2> QED  BY <1>4, <2>2, <2>3 DEF Mine
<1>7. p = Out(k, o.v, o.ok)
    <2>1. o = Out(o.i, o.v, o.ok)
        BY WriteShape
    <2>2. [Out(o.i, o.v, o.ok) EXCEPT !.i = Increment(o.i)] = Out(Increment(o.i), o.v, o.ok)
        BY OutExcept
    <2>3. p = Out(Increment(o.i), o.v, o.ok)
        BY <2>1, <2>2 DEF Counted
    <2> QED  BY <2>3 DEF k
<1> HIDE DEF p
<1>8. p.i = k /\ p.v = o.v
    BY <1>7 DEF Out
<1> QED  BY <1>3, <1>4, <1>6, <1>8 DEF p

\* A key of a get.
LEMMA KeyStep ==
    ASSUME TextHandle, IInv, StepKey
    PROVE  IInv'
<1> DEFINE i == inst[Now.s]
           id == call.id
           away == call.op = "get" /\ Now.s # Hash[call.key]
           newline == Left(Later, "newline", Now.s)
           purge == Left(Later, "purge", Now.s)
<1>1. /\ todo # <<>> /\ Now.do = "key" /\ todo' = Later
      /\ UNCHANGED <<call, ok, rep, flaws>> /\ Frame
    BY DEF StepKey, Running
<1>2. /\ id \in 1..Calls /\ GetConns(todo, id, call.op, Hash[call.key], mode.buffer, inst)
      /\ Gets(todo, id, call.op, Hash[call.key])
      /\ Now = todo[1] /\ 1 \in 1..Len(todo) /\ Now.s \in Servers /\ Now.r \in Requests
    BY <1>1, GetterOf
<1>3. /\ inst \in [Servers -> Insts] /\ srv \in [Servers -> Srvs] /\ Clean(flaws)
      /\ mode \in Modes /\ InstOK(i, id) /\ srv[Now.s] \in Srvs /\ todo \in Seq(StepSet)
    BY <1>2 DEF IInv, Typed
<1>4. ~mode.binary /\ mode.sasl = "off"
    BY <1>3, TextMode
<1>5. ~Left(todo, "purge", Now.s) /\ ~purge
    <2>1. Rank("purge") < Rank(todo[1].do)
        BY <1>1, <1>2 DEF Rank
    <2>2. ~Left(todo, "purge", Now.s)
        BY <1>1, <1>2, <1>3, <2>1, NoneLeft
    <2> QED  BY <1>1, <1>3, <2>2, LeftTail DEF Later
<1>6. newline /\ ~away /\ ~Now.r.quiet /\ Now.r.id = id
    <2>1. /\ ~Now.r.quiet /\ Now.r.id = id /\ (call.op = "get" => Now.s = Hash[call.key])
          /\ Left(todo, "newline", Now.s)
        BY <1>1, <1>2 DEF Gets
    <2> QED  BY <1>1, <1>2, <1>3, <2>1, LeftTail DEF Later
<1>7. /\ Mine(i, id) /\ (~mode.buffer /\ i.wbuf # <<>> => i.cursor # 0)
    <2>1. GetConn(i, id, Left(todo, "purge", Now.s), Left(todo, "newline", Now.s), away,
                  mode.buffer)
        BY <1>2 DEF GetConns
    <2> HIDE DEF i, away, id
    <2> QED  BY <1>5, <2>1 DEF GetConn
<1>8. UNCHANGED <<mode, no_reply, call, fetching, faults>> /\ Clean(flaws')
    BY <1>1, <1>3 DEF Frame
<1>9. \A j : Mine(j, id) /\ (~mode.buffer /\ j.wbuf # <<>> => j.cursor # 0)
             => GetConn(j, id, purge, newline, away, mode.buffer)
    <2> HIDE DEF i, away, id, purge, newline
    <2> QED  BY <1>5, <1>6 DEF GetConn
<1>10. CASE i.cursor # 0
    <2>1. /\ inst' = [inst EXCEPT ![Now.s] = [i EXCEPT !.wbuf[Len(i.wbuf)].keys = @ \o Now.r.keys]]
          /\ UNCHANGED <<srv, rc>>
        BY <1>10 DEF StepKey, Touch
    <2> HIDE DEF i, away, purge, newline
    <2> DEFINE j == KeyInto(i, Now.r)
    <2>2. InstOK(j, id) /\ j.cursor = i.cursor /\ Mine(j, id)
        BY <1>2, <1>3, <1>7, KeyAdded
    <2>3. inst' = [inst EXCEPT ![Now.s] = j]
        BY <2>1 DEF KeyInto
    <2> HIDE DEF j
    <2>4. GetConn(j, id, purge, newline, away, mode.buffer)
        BY <1>9, <1>10, <2>2
    <2>5. srv' \in [Servers -> Srvs] /\ rc' \in {rc, "FAILURE", "SOME_ERRORS"}
        BY <1>3, <2>1
    <2> QED  BY <1>1, <1>8, <2>2, <2>3, <2>4, <2>5, GetStep DEF away, purge, newline
<1>11. CASE i.cursor = 0 /\ memcached_connect(Now.s) = {}
    <2>1. rc' = "FAILURE" /\ UNCHANGED <<srv, inst>>
        BY <1>11 DEF StepKey
    <2>2. inst' = [inst EXCEPT ![Now.s] = i]
        BY <1>3, <2>1
    <2> HIDE DEF i, away, purge, newline
    <2>3. GetConn(i, id, purge, newline, away, mode.buffer)
        BY <1>7, <1>9
    <2>4. srv' \in [Servers -> Srvs] /\ rc' \in {rc, "FAILURE", "SOME_ERRORS"}
        BY <1>3, <2>1
    <2> QED  BY <1>1, <1>3, <1>8, <2>2, <2>3, <2>4, GetStep DEF away, purge, newline
<1>12. CASE i.cursor = 0 /\ memcached_connect(Now.s) # {}
    <2>1. PICK o \in WritesTo(memcached_connect(Now.s), FALSE) :
              Becomes(Now.s, [o EXCEPT !.i = Increment(@)]) /\ UNCHANGED rc
        BY <1>12 DEF StepKey
    <2>2. PICK c \in memcached_connect(Now.s) :
              o \in memcached_io_write(c, srv[Now.s], Now.r, FALSE)
        BY <2>1 DEF WritesTo
    <2> DEFINE p == Counted(o)
    <2>3. p.v \in Srvs /\ InstOK(p.i, id) /\ Mine(p.i, id) /\ p.i.cursor = 1
        <3>1. /\ srv[Now.s] \in Srvs /\ InstOK(inst[Now.s], id) /\ inst[Now.s].cursor = 0
              /\ c \in memcached_connect(Now.s)
              /\ o \in memcached_io_write(c, srv[Now.s], Now.r, FALSE)
              /\ id \in 1..Calls /\ Now.r \in Requests /\ Now.r.id = id /\ ~Now.r.quiet
            BY <1>2, <1>3, <1>6, <1>12, <2>2
        <3> HIDE DEF p, id, i, away, purge, newline
        <3>2. Counted(o).v \in Srvs /\ InstOK(Counted(o).i, id) /\ Mine(Counted(o).i, id)
              /\ Counted(o).i.cursor = 1
            BY <1>4, <3>1, KeyWritten
        <3> QED  BY <3>2 DEF p
    <2>4. inst' = [inst EXCEPT ![Now.s] = p.i] /\ srv' = [srv EXCEPT ![Now.s] = p.v]
        BY <2>1 DEF Becomes, Counted
    <2> HIDE DEF p
    <2> HIDE DEF i, away, purge, newline
    <2>5. GetConn(p.i, id, purge, newline, away, mode.buffer)
        BY <1>9, <2>3
    <2>6. srv' \in [Servers -> Srvs] /\ rc' \in {rc, "FAILURE", "SOME_ERRORS"}
        BY <1>2, <1>3, <2>1, <2>3, <2>4
    <2> QED  BY <1>1, <1>8, <2>3, <2>4, <2>5, <2>6, GetStep DEF away, purge, newline
<1> QED  BY <1>10, <1>11, <1>12

-----------------------------------------------------------------------------
(* memcached_fetch, in a get and after an mget.                            *)

\* Which commands a fetch may belong to, and what the connections carry then.
LEMMA FetcherOf ==
    ASSUME IInv, todo # <<>>, Now.do \in {"fetch", "fetch_end"}
    PROVE  /\ call.op \in {"get", "fetch"} /\ call.id \in 1..Calls /\ Held(inst, call.id)
           /\ Now = todo[1] /\ (~mode.buffer => NoneBuffered(inst))
           /\ call.op = "get" =>
                /\ Gets(todo, call.id, "get", Hash[call.key]) /\ Missed(todo, "get", rc, inst)
                /\ \A s \in Servers : s # Hash[call.key] => inst[s].cursor = 0
                /\ \A s : ~Left(todo, "purge", s) /\ ~Left(todo, "newline", s)
                /\ ~fetching
           /\ call.op = "fetch" => Later = <<>> /\ Now.do = "fetch"
<1>1. todo \in Seq(StepSet) /\ call.op \in CallOps /\ call.id \in 0..Calls
    BY DEF IInv, Typed
<1>2. 1 \in 1..Len(todo) /\ Now = todo[1] /\ Len(Later) = Len(todo) - 1
      /\ Later \in Seq(StepSet) /\ Len(todo) \in Nat
    BY <1>1, HeadTail DEF Now, Later
<1>3. ~Planning(todo)
    BY <1>2 DEF Planning
<1>4. call.op # "none" /\ call.id > 0
    BY DEF IInv, Phase
<1>5. call.op \notin CmdOps
    BY <1>2, <1>3 DEF IInv, Phase, Commanding, Readers
<1>6. call.op # "mget"
    BY <1>2, <1>3 DEF IInv, Phase, Gets, GetOps
<1>7. call.op \in {"get", "fetch"}
    BY <1>1, <1>4, <1>5, <1>6 DEF CallOps, GetOps
<1>8. CASE call.op = "get"
    <2>1. /\ Gets(todo, call.id, "get", Hash[call.key]) /\ Missed(todo, "get", rc, inst)
          /\ GetConns(todo, call.id, "get", Hash[call.key], mode.buffer, inst)
          /\ ~fetching
        BY <1>3, <1>8 DEF IInv, Phase, GetOps
    <2>2. Rank("purge") < Rank(todo[1].do) /\ Rank("newline") < Rank(todo[1].do)
        BY <1>2 DEF Rank
    <2>3. \A s : ~Left(todo, "purge", s) /\ ~Left(todo, "newline", s)
        BY <1>1, <2>1, <2>2, NoneLeft
    <2>4. ASSUME NEW s \in Servers
          PROVE  /\ Mine(inst[s], call.id) /\ Sent(inst[s])
                 /\ (s # Hash[call.key] => inst[s].cursor = 0)
                 /\ (~mode.buffer => inst[s].wbuf = <<>>)
        <3>1. GetConn(inst[s], call.id, Left(todo, "purge", s), Left(todo, "newline", s),
                      s # Hash[call.key], mode.buffer)
            BY <2>1 DEF GetConns
        <3> QED  BY <2>3, <3>1 DEF GetConn
    <2> QED  BY <1>1, <1>2, <1>4, <1>7, <1>8, <2>1, <2>3, <2>4 DEF Held, NoneBuffered
<1>9. CASE call.op = "fetch"
    <2>1. Len(todo) = 1 /\ todo[1].do = "fetch" /\ fetching
        BY <1>3, <1>9 DEF IInv, Phase
    <2>2. Held(inst, call.id) /\ (~mode.buffer => NoneBuffered(inst))
        BY <1>9, <2>1 DEF IInv, Phase, GetOps
    <2>3. Later = <<>>
        BY <1>2, <2>1, EmptySeq
    <2> QED  BY <1>1, <1>2, <1>4, <1>9, <2>1, <2>2, <2>3
<1> QED  BY <1>7, <1>8, <1>9

\* A step of memcached_fetch preserves the invariant when what each connection
\* still carries belongs to this get, and a miss is reported only at the end.
LEMMA FetchLeaves ==
    ASSUME IInv, todo # <<>>, Now.do \in {"fetch", "fetch_end"},
           UNCHANGED <<mode, no_reply, call, srv>>, faults' \in 0..MaxFaults, Clean(flaws'),
           inst' \in [Servers -> Insts], \A s \in Servers : InstOK(inst'[s], call.id),
           Held(inst', call.id), ~mode.buffer => NoneBuffered(inst'),
           call.op = "get" =>
             /\ \A s \in Servers : s # Hash[call.key] => inst'[s].cursor = 0
             /\ todo' \in {todo, Later, <<>>} /\ fetching' = fetching
             /\ Missed(todo', "get", rc', inst'),
           call.op = "fetch" =>
             \/ todo' = todo /\ fetching' = fetching
             \/ todo' = <<>> /\ fetching' \in BOOLEAN
    PROVE  IInv'
<1>1. /\ call.op \in {"get", "fetch"} /\ call.id \in 1..Calls
      /\ call.op = "get" =>
            /\ Gets(todo, call.id, "get", Hash[call.key])
            /\ \A s : ~Left(todo, "purge", s) /\ ~Left(todo, "newline", s)
            /\ ~fetching
      /\ Now = todo[1]
    BY FetcherOf
<1>2. todo \in Seq(StepSet) /\ <<>> \in Seq(StepSet) /\ call.id > 0
      /\ Len(<<>>) = 0 /\ fetching \in BOOLEAN
    BY <1>1, EmptySeq DEF IInv, Typed
<1>3. Later \in Seq(StepSet)
    BY <1>2, HeadTail DEF Later
<1>4. CASE call.op = "get"
    <2>1. Gets(<<>>, call.id, "get", Hash[call.key])
        BY <1>2 DEF Gets
    <2>2. Gets(Later, call.id, "get", Hash[call.key])
        BY <1>1, <1>2, <1>4, GetsTail DEF Later
    <2>3. todo' \in Seq(StepSet) /\ Gets(todo', call.id, "get", Hash[call.key])
        BY <1>1, <1>2, <1>3, <1>4, <2>1, <2>2
    <2>4. \A s : ~Left(todo', "purge", s) /\ ~Left(todo', "newline", s)
        <3>1. \A s, d : ~Left(<<>>, d, s)
            BY <1>2 DEF Left
        <3>2. \A s, d : Left(Later, d, s) => Left(todo, d, s)
            BY <1>2, LeftTail DEF Later
        <3> QED  BY <1>1, <1>4, <3>1, <3>2
    <2>5. ~Planning(todo')
        <3>1. SUFFICES ASSUME todo' # <<>>, todo'[1].do = "plan" PROVE FALSE
            BY DEF Planning
        <3>2. 1 \in 1..Len(todo')
            BY <2>3, <3>1, HeadTail
        <3> QED  BY <2>3, <3>1, <3>2 DEF Gets, Getters
    <2>6. GetConns(todo', call.id, "get", Hash[call.key], mode.buffer, inst')
        <3>1. ASSUME NEW s \in Servers
              PROVE  GetConn(inst'[s], call.id, Left(todo', "purge", s), Left(todo', "newline", s),
                             s # Hash[call.key], mode.buffer)
            <4>1. /\ Mine(inst'[s], call.id) /\ Sent(inst'[s])
                  /\ (s # Hash[call.key] => inst'[s].cursor = 0)
                  /\ (~mode.buffer => inst'[s].wbuf = <<>>)
                BY <1>4 DEF Held, NoneBuffered
            <4> QED  BY <2>4, <4>1 DEF GetConn
        <3> QED  BY <3>1 DEF GetConns
    <2>7. Typed'
        BY <1>1, <1>2, <1>4, <2>3 DEF IInv, Typed
    <2>8. Phase("get", call.id, Hash[call.key], todo', no_reply, mode.buffer, ok', rc',
                fetching', inst')
        <3>1. "get" \in GetOps /\ "get" \notin CmdOps /\ ~fetching'
            BY <1>1, <1>4 DEF GetOps, CmdOps, StorageOps
        <3>2. Missed(todo', "get", rc', inst')
            BY <1>4
        <3> QED  BY <1>2, <2>3, <2>5, <2>6, <3>1, <3>2 DEF Phase
    <2> QED  BY <1>4, <2>7, <2>8 DEF IInv
<1>5. CASE call.op = "fetch"
    <2>1. Phase(call.op, call.id, Hash[call.key], todo, no_reply, mode.buffer, ok, rc, fetching, inst)
        BY DEF IInv
    <2>2. ~Planning(todo)
        BY <1>1 DEF Planning
    <2>3. Len(todo) = 1 /\ todo[1].do = "fetch" /\ fetching
        BY <1>5, <2>1, <2>2 DEF Phase
    <2>4. Typed'
        BY <1>1, <1>2, <1>5 DEF IInv, Typed
    <2>5. Phase("fetch", call.id, Hash[call.key], todo', no_reply, mode.buffer, ok', rc',
                fetching', inst')
        <3>1. "fetch" \notin GetOps /\ "fetch" \notin CmdOps
            BY DEF GetOps, CmdOps, StorageOps
        <3>2. \/ todo' = todo /\ fetching'
              \/ todo' = <<>>
            BY <1>5, <2>3
        <3>3. ~Planning(todo') /\ (todo' = <<>> \/ (Len(todo') = 1 /\ todo'[1].do = "fetch"))
            BY <2>2, <2>3, <3>2 DEF Planning
        <3>4. Held(inst', call.id) /\ (~mode.buffer => NoneBuffered(inst'))
            OBVIOUS
        <3> QED  BY <1>2, <3>1, <3>2, <3>3, <3>4 DEF Phase
    <2> QED  BY <1>5, <2>4, <2>5 DEF IInv
<1> QED  BY <1>1, <1>4, <1>5

\* What fetch_result makes of an answer is what the reading leaves.
LEMMA FetchReads ==
    ASSUME ~mode.binary, NEW id \in 1..Calls, NEW i, InstOK(i, id), Mine(i, id), Sent(i),
           i.cursor # 0, NEW x, x = memcached_read_one_response(i)
    PROVE  /\ (IF x.a.rc = "END" THEN [x.i EXCEPT !.cursor = 0] ELSE x.i) = x.i
           /\ InstOK(x.i, id) /\ Mine(x.i, id) /\ Sent(x.i) /\ x.i.wbuf = <<>>
           /\ ~(x.a = NoAnswer /\ i.fd /\ ~i.broken)
           /\ ~(x.a # NoAnswer /\ x.a.id # id)
<1>1. i \in Insts /\ i.cursor \in Nat /\ i.wbuf = <<>> /\ i.cursor = 1
      /\ i.rbuf \in Seq(Answers)
    BY InstFields DEF InstOK, Mine, Sent
<1>2. /\ ReadKeeps(i, x, id)
      /\ \/ i.rbuf = <<>> /\ x.i = Closed /\ x.a = NoAnswer
         \/ /\ i.rbuf # <<>> /\ x.a = i.rbuf[1] /\ x.a \in Answers /\ x.a # NoAnswer
            /\ x.i.fd = i.fd /\ x.i.wbuf = i.wbuf /\ x.i.rbuf = Tail(i.rbuf)
            /\ x.i.cursor = i.cursor - (IF x.a.more THEN 0 ELSE 1) /\ i.cursor >= 1
    BY ReadOK
<1>3. InstOK(x.i, id) /\ Mine(x.i, id) /\ Sent(x.i) /\ x.i.wbuf = <<>> /\ x.i \in Insts
    BY <1>1, <1>2 DEF ReadKeeps, InstOK
<1>4. i.fd /\ ~i.broken => i.rbuf # <<>>
    BY <1>1, ReadFinds
<1>5. x.a # NoAnswer => x.a.id = id
    <2>1. i.rbuf # <<>> => 1 \in 1..Len(i.rbuf)
        BY <1>1, HeadTail
    <2> QED  BY <1>2, <2>1 DEF Mine
<1>6. x.a.rc = "END" => x.i.cursor = 0
    <2>1. NoAnswer.rc # "END"
        BY DEF NoAnswer, Answer
    <2>2. ASSUME x.a.rc = "END" PROVE x.i.cursor = 0
        <3>1. x.a \in Answers /\ x.i.cursor = i.cursor - (IF x.a.more THEN 0 ELSE 1)
            BY <1>2, <2>1, <2>2
        <3>2. ~x.a.more
            BY <2>2, <3>1 DEF Answers
        <3>3. x.i.cursor = i.cursor - 1
            BY <3>1, <3>2
        <3> QED  BY <1>1, <3>3
    <2> QED  BY <2>2
<1>7. x.i.cursor = 0 => [x.i EXCEPT !.cursor = 0] = x.i
    <2>1. \A y \in Insts : y.cursor = 0 => [y EXCEPT !.cursor = 0] = y
        BY DEF Insts
    <2> QED  BY <1>3, <2>1
<1>8. (IF x.a.rc = "END" THEN [x.i EXCEPT !.cursor = 0] ELSE x.i) = x.i
    BY <1>6, <1>7
<1> QED  BY <1>2, <1>3, <1>4, <1>5, <1>8

\* memcached_fetch returns NULL.
LEMMA FetchNullLeaves ==
    ASSUME IInv, Now.do \in {"fetch", "fetch_end"}, todo # <<>>, NEW code, FetchNull(code),
           call.op = "get" => code # "NOTFOUND",
           call.op = "get" /\ Now.do = "fetch_end" => code = "SUCCESS",
           call.op = "get" /\ code = "END" => \A s \in Servers : inst'[s].cursor = 0
    PROVE  /\ call.op = "get" =>
                 /\ todo' \in {todo, Later, <<>>} /\ fetching' = fetching
                 /\ Missed(todo', "get", rc', inst')
           /\ call.op = "fetch" => todo' = <<>> /\ fetching' \in BOOLEAN
<1>1. call.op = "fetch" => todo' = <<>> /\ fetching' \in BOOLEAN
    BY FetcherOf DEF FetchNull
<1>2. ASSUME call.op = "get"
      PROVE  /\ todo' \in {todo, Later, <<>>} /\ fetching' = fetching
             /\ Missed(todo', "get", rc', inst')
    <2>1. /\ rc' = (IF code = "END" THEN "NOTFOUND" ELSE code)
          /\ todo' = (IF Now.do = "fetch" THEN <<>> ELSE Later) /\ fetching' = fetching
        BY <1>2 DEF FetchNull
    <2>2. CASE Now.do = "fetch"
        BY <1>2, <2>1, <2>2 DEF Missed
    <2>3. CASE Now.do = "fetch_end"
        BY <1>2, <2>1, <2>3 DEF Missed
    <2> QED  BY <2>1, <2>2, <2>3
<1> QED  BY <1>1, <1>2

\* memcached_fetch.
LEMMA FetchStep ==
    ASSUME TextHandle, IInv, StepFetch
    PROVE  IInv'
<1> DEFINE id == call.id
           home == Hash[call.key]
<1>1. todo # <<>> /\ Now.do \in {"fetch", "fetch_end"} /\ UNCHANGED <<mode, no_reply, abs, call, ok, rep>>
    BY DEF StepFetch, Running, FetchFrame
<1>2. /\ call.op \in {"get", "fetch"} /\ id \in 1..Calls /\ Held(inst, id)
      /\ Now = todo[1] /\ (~mode.buffer => NoneBuffered(inst))
      /\ call.op = "get" =>
           /\ Missed(todo, "get", rc, inst)
           /\ \A s \in Servers : s # home => inst[s].cursor = 0
           /\ ~fetching
      /\ call.op = "fetch" => Later = <<>> /\ Now.do = "fetch"
    BY <1>1, FetcherOf
<1>3. /\ inst \in [Servers -> Insts] /\ srv \in [Servers -> Srvs] /\ Clean(flaws)
      /\ mode \in Modes /\ faults \in 0..MaxFaults /\ fetching \in BOOLEAN
      /\ \A s \in Servers : InstOK(inst[s], id)
    BY DEF IInv, Typed
<1>4. ~mode.binary
    BY <1>3, TextMode
<1>5. call.op = "get" /\ Now.do = "fetch_end" => rc = "SUCCESS"
    BY <1>1, <1>2 DEF Missed
<1>6. CASE Pending = {} /\ FetchNull(rc)
           /\ UNCHANGED <<srv, inst, flaws, faults>>
    <2>1. \A s \in Servers : inst'[s].cursor = 0
        BY <1>6 DEF Pending
    <2>2. FetchNull(rc)
        BY <1>6
    <2>3. call.op = "get" =>
             /\ todo' \in {todo, Later, <<>>} /\ fetching' = fetching
             /\ Missed(todo', "get", rc', inst')
        <3>1. SUFFICES ASSUME call.op = "get"
                       PROVE  /\ todo' \in {todo, Later, <<>>} /\ fetching' = fetching
                              /\ Missed(todo', "get", rc', inst')
            OBVIOUS
        <3>2. /\ rc' = (IF rc = "END" THEN "NOTFOUND" ELSE rc)
              /\ todo' = (IF Now.do = "fetch" THEN <<>> ELSE Later) /\ fetching' = fetching
            BY <2>2, <3>1 DEF FetchNull
        <3>3. CASE Now.do = "fetch"
            BY <2>1, <3>2, <3>3 DEF Missed
        <3>4. CASE Now.do = "fetch_end"
            BY <1>5, <3>1, <3>2, <3>4 DEF Missed
        <3> QED  BY <1>1, <3>2, <3>3, <3>4
    <2>4. call.op = "fetch" => todo' = <<>> /\ fetching' \in BOOLEAN
        BY <1>2, <2>2 DEF FetchNull
    <2>5. /\ inst' \in [Servers -> Insts] /\ (\A s \in Servers : InstOK(inst'[s], id))
          /\ Held(inst', id) /\ (~mode.buffer => NoneBuffered(inst'))
          /\ Clean(flaws') /\ faults' \in 0..MaxFaults /\ UNCHANGED <<mode, no_reply, call, srv>>
          /\ (call.op = "get" => \A s \in Servers : s # home => inst'[s].cursor = 0)
        BY <1>1, <1>2, <1>3, <1>6
    <2> QED  BY <1>1, <2>3, <2>4, <2>5, FetchLeaves
<1>7. ASSUME NEW s \in memcached_io_get_readable_server, NEW x,
             x = memcached_read_one_response(inst[s]),
             Taken(x.a, inst[s]),
             Touch(s, IF x.a.rc = "END" THEN [x.i EXCEPT !.cursor = 0] ELSE x.i),
             UNCHANGED faults,
             CASE x.a.rc = "SUCCESS" ->
                    /\ ret' = Got(x.a.key, x.a.val)
                    /\ rc' = IF Now.do = "fetch_end" THEN rc ELSE "SUCCESS"
                    /\ todo' = Later /\ UNCHANGED fetching
               [] x.a.rc \in {"END", "NOTFOUND"} ->
                    /\ rc' = IF Now.do = "fetch_end" THEN rc ELSE x.a.rc
                    /\ UNCHANGED <<todo, fetching, ret>>
               [] OTHER -> FetchNull(IF Now.do = "fetch_end" THEN rc ELSE x.a.rc)
      PROVE  IInv'
    <2>1. s \in Servers /\ inst[s].cursor # 0
        BY <1>7 DEF memcached_io_get_readable_server, Pending
    <2>2. InstOK(inst[s], id) /\ Mine(inst[s], id) /\ Sent(inst[s])
        BY <1>2, <1>3, <2>1 DEF Held
    <2>3. /\ (IF x.a.rc = "END" THEN [x.i EXCEPT !.cursor = 0] ELSE x.i) = x.i
          /\ InstOK(x.i, id) /\ Mine(x.i, id) /\ Sent(x.i) /\ x.i.wbuf = <<>>
          /\ ~(x.a = NoAnswer /\ inst[s].fd /\ ~inst[s].broken)
          /\ ~(x.a # NoAnswer /\ x.a.id # id)
        BY <1>2, <1>4, <1>7, <2>1, <2>2, FetchReads
    <2>4. inst' = [inst EXCEPT ![s] = x.i] /\ UNCHANGED srv
        BY <1>7, <2>3 DEF Touch
    <2>5. Clean(flaws')
        <3>1. flaws' = [flaws EXCEPT !.stray = @ \/ (x.a # NoAnswer /\ x.a.id # call.id),
                                     !.idle = @ \/ (x.a = NoAnswer /\ inst[s].fd
                                                     /\ ~inst[s].broken)]
            BY <1>7 DEF Taken
        <3>2. flaws' = [flaws EXCEPT !.stray = FALSE, !.idle = FALSE]
            BY <1>3, <2>3, <3>1 DEF Clean
        <3> QED  BY <1>3, <3>2 DEF Clean
    <2>6. /\ inst'[s] = x.i /\ (\A t \in Servers : t # s => inst'[t] = inst[t])
          /\ inst' \in [Servers -> Insts]
        BY <1>3, <2>1, <2>3, <2>4, OneServer DEF InstOK
    <2>7. \A t \in Servers : InstOK(inst'[t], id)
        BY <1>3, <2>3, <2>6
    <2>8. Held(inst', id)
        BY <1>2, <2>3, <2>6 DEF Held
    <2>9. ~mode.buffer => NoneBuffered(inst')
        BY <1>2, <2>3, <2>6 DEF NoneBuffered
    <2>10. call.op = "get" => \A t \in Servers : t # home => inst'[t].cursor = 0
        BY <1>2, <2>1, <2>6
    <2>11. /\ call.op = "get" =>
                /\ todo' \in {todo, Later, <<>>} /\ fetching' = fetching
                /\ Missed(todo', "get", rc', inst')
           /\ call.op = "fetch" =>
                \/ todo' = todo /\ fetching' = fetching
                \/ todo' = <<>> /\ fetching' \in BOOLEAN
        <3>1. CASE x.a.rc = "SUCCESS"
            <4>1. /\ rc' = (IF Now.do = "fetch_end" THEN rc ELSE "SUCCESS")
                  /\ todo' = Later /\ fetching' = fetching
                BY <1>7, <3>1
            <4>2. call.op = "get" => rc' = "SUCCESS"
                BY <1>5, <4>1
            <4>3. call.op = "get" => Missed(todo', "get", rc', inst')
                BY <4>2 DEF Missed
            <4> QED  BY <1>2, <1>3, <4>1, <4>3
        <3>2. CASE x.a.rc \in {"END", "NOTFOUND"}
            <4>1. /\ rc' = (IF Now.do = "fetch_end" THEN rc ELSE x.a.rc)
                  /\ todo' = todo /\ fetching' = fetching
                BY <1>7, <3>2
            <4>2. call.op = "get" => Missed(todo', "get", rc', inst')
                <5>1. CASE Now.do = "fetch"
                    BY <1>1, <1>2, <4>1, <5>1 DEF Missed
                <5>2. CASE Now.do = "fetch_end"
                    BY <1>1, <1>2, <1>5, <4>1, <5>2 DEF Missed
                <5> QED  BY <1>1, <5>1, <5>2
            <4> QED  BY <4>1, <4>2
        <3>3. CASE x.a.rc \notin {"SUCCESS", "END", "NOTFOUND"}
            <4> DEFINE code == IF Now.do = "fetch_end" THEN rc ELSE x.a.rc
            <4>1. FetchNull(code)
                BY <1>7, <3>3
            <4>2. call.op = "get" => code # "NOTFOUND" /\ code # "END"
                BY <1>5, <3>3
            <4>3. call.op = "get" /\ Now.do = "fetch_end" => code = "SUCCESS"
                BY <1>5
            <4> HIDE DEF code
            <4> QED  BY <1>1, <4>1, <4>2, <4>3, FetchNullLeaves
        <3> QED  BY <3>1, <3>2, <3>3
    <2>12. faults' \in 0..MaxFaults /\ UNCHANGED <<mode, no_reply, call, srv>>
        BY <1>1, <1>3, <1>7, <2>4
    <2> QED  BY <1>1, <2>5, <2>6, <2>7, <2>8, <2>9, <2>10, <2>11, <2>12, FetchLeaves
<1>8. CASE Cardinality(Pending) > 1 /\ Slow /\ FetchNull(rc) /\ UNCHANGED <<srv, inst, flaws>>
    <2>1. call.op # "get"
        <3>1. SUFFICES ASSUME call.op = "get" PROVE FALSE
            OBVIOUS
        <3>2. Pending \subseteq {home}
            BY <1>2, <3>1 DEF Pending
        <3>3. IsFiniteSet({home}) /\ Cardinality({home}) = 1
            BY FS_Singleton, Zenon
        <3>4. Cardinality(Pending) <= 1
            <4>1. Cardinality(Pending) <= Cardinality({home})
                BY <3>2, <3>3, FS_Subset, Zenon
            <4> QED  BY <3>3, <4>1
        <3>5. Cardinality(Pending) \in Nat
            BY <3>2, <3>3, FS_Subset, FS_CardinalityType, Zenon
        <3> QED  BY <1>8, <3>4, <3>5
    <2>2. call.op = "fetch" => todo' = <<>> /\ fetching' \in BOOLEAN
        BY <1>2, <1>8 DEF FetchNull
    <2>3. faults' \in 0..MaxFaults
        BY <1>3, <1>8, CommandsAssumption DEF Slow, CommandsAssumption
    <2>4. /\ inst' \in [Servers -> Insts] /\ (\A s \in Servers : InstOK(inst'[s], id))
          /\ Held(inst', id) /\ (~mode.buffer => NoneBuffered(inst'))
          /\ Clean(flaws') /\ UNCHANGED <<mode, no_reply, call, srv>>
        BY <1>1, <1>2, <1>3, <1>8
    <2> QED  BY <1>1, <2>1, <2>2, <2>3, <2>4, FetchLeaves
<1>9. \/ Pending = {} /\ FetchNull(rc) /\ UNCHANGED <<srv, inst, flaws, faults>>
      \/ \E s \in memcached_io_get_readable_server :
            LET x == memcached_read_one_response(inst[s])
            IN /\ Taken(x.a, inst[s])
               /\ Touch(s, IF x.a.rc = "END" THEN [x.i EXCEPT !.cursor = 0] ELSE x.i)
               /\ UNCHANGED faults
               /\ CASE x.a.rc = "SUCCESS" ->
                         /\ ret' = Got(x.a.key, x.a.val)
                         /\ rc' = IF Now.do = "fetch_end" THEN rc ELSE "SUCCESS"
                         /\ todo' = Later /\ UNCHANGED fetching
                    [] x.a.rc \in {"END", "NOTFOUND"} ->
                         /\ rc' = IF Now.do = "fetch_end" THEN rc ELSE x.a.rc
                         /\ UNCHANGED <<todo, fetching, ret>>
                    [] OTHER -> FetchNull(IF Now.do = "fetch_end" THEN rc ELSE x.a.rc)
      \/ Cardinality(Pending) > 1 /\ Slow /\ FetchNull(rc) /\ UNCHANGED <<srv, inst, flaws>>
    BY DEF StepFetch
<1> QED  BY <1>6, <1>7, <1>8, <1>9

-----------------------------------------------------------------------------
(* What a call plans.                                                      *)

\* What is asked of one server: a request, and perhaps the wait for its
\* answer.
Block(b, s) ==
    /\ b \in Seq(StepSet) /\ Len(b) \in {1, 2}
    /\ \A j \in 1..Len(b) : b[j].s = s
    /\ b[1].do = "do" /\ b[1].r.quiet = no_reply /\ b[1].r.id = call.id
    /\ b[1].flush \/ mode.buffer
    /\ Len(b) = 2 => /\ b[2].do \in Readers /\ b[1].flush /\ ~no_reply
                     /\ b[2].do = "dump" => b[1].fail = "return"

\* The steps of a command that is no get.
Plans(q) ==
    /\ q \in Seq(StepSet) /\ Commanding(q, call.id, no_reply, mode.buffer)
    /\ q # <<>> => q[1].do \notin Readers

\* A server that has not been asked yet may be asked next.
LEMMA PlansConcat ==
    ASSUME NEW q, Plans(q), NEW s, NEW b, Block(b, s), \A j \in 1..Len(q) : q[j].s # s
    PROVE  /\ Plans(q \o b)
           /\ \A j \in 1..Len(q \o b) : (q \o b)[j].s = s \/ \E k \in 1..Len(q) : (q \o b)[j].s = q[k].s
<1> DEFINE w == q \o b
           L == Len(q)
<1>1. q \in Seq(StepSet) /\ b \in Seq(StepSet) /\ L \in Nat /\ Len(b) \in {1, 2}
    BY LenProperties DEF Plans, Block
<1>2. /\ w \in Seq(StepSet) /\ Len(w) = L + Len(b)
      /\ \A j \in 1..(L + Len(b)) : w[j] = IF j <= L THEN q[j] ELSE b[j - L]
    BY <1>1, ConcatProperties
<1>3. \A j \in 1..Len(w) : \/ j \in 1..L /\ w[j] = q[j]
                           \/ j = L + 1 /\ w[j] = b[1]
                           \/ j = L + 2 /\ w[j] = b[2] /\ Len(b) = 2
    BY <1>1, <1>2
<1>4. 1 \in 1..Len(b) /\ (Len(b) = 2 => 2 \in 1..Len(b))
    <2>1. Len(b) = 1 \/ Len(b) = 2
        BY <1>1
    <2>2. 1 \in 1..1 /\ 1 \in 1..2 /\ 2 \in 1..2
        OBVIOUS
    <2> HIDE DEF L, w
    <2> QED  BY <2>1, <2>2, Zenon
<1>5. /\ b[1].s = s /\ b[1].do = "do" /\ b[1].r.quiet = no_reply /\ b[1].r.id = call.id
      /\ b[1].flush \/ mode.buffer
      /\ Len(b) = 2 => /\ b[2].s = s /\ b[2].do \in Readers /\ b[1].flush /\ ~no_reply
                       /\ b[2].do = "dump" => b[1].fail = "return"
    BY <1>4 DEF Block
<1>6. Len(w) = L + 1 \/ (Len(w) = L + 2 /\ Len(b) = 2)
    BY <1>1, <1>2
<1> HIDE DEF w, L
<1>7. w[L + 1] = b[1]
    BY <1>1, <1>3, <1>6
<1>8. ASSUME NEW j \in 1..Len(w)
      PROVE  /\ w[j].do \in Readers \cup {"do", "quit"}
             /\ w[j].do = "do" => /\ w[j].r.quiet = no_reply /\ w[j].r.id = call.id
                                  /\ w[j].flush \/ mode.buffer
             /\ w[j].do \in Readers /\ j > 1 =>
                   /\ w[j - 1].do = "do" /\ w[j - 1].s = w[j].s /\ w[j - 1].flush /\ ~no_reply
                   /\ w[j].do = "dump" => w[j - 1].fail = "return"
    <2>1. CASE j \in 1..L /\ w[j] = q[j]
        <3>1. j > 1 => w[j - 1] = q[j - 1]
            <4>1. j > 1 => j - 1 \in 1..L /\ j - 1 \in 1..Len(w)
                BY <1>1, <1>6, <2>1
            <4> QED  BY <1>1, <1>3, <4>1
        <3> QED  BY <2>1, <3>1 DEF Plans, Commanding, L
    <2>2. CASE j = L + 1 /\ w[j] = b[1]
        BY <1>5, <2>2 DEF Readers
    <2>3. CASE j = L + 2 /\ w[j] = b[2] /\ Len(b) = 2
        <3>1. j - 1 = L + 1
            BY <1>1, <2>3
        <3> QED  BY <1>5, <1>7, <2>3, <3>1 DEF Readers
    <2> QED  BY <1>3, <2>1, <2>2, <2>3
<1>9. ASSUME NEW j \in 1..Len(w), NEW k \in 1..Len(w), j < k, w[j].s = w[k].s
      PROVE  k = j + 1 /\ w[j].do = "do" /\ w[k].do \in Readers
    <2>1. \A m \in 1..L : q[m].s # s
        BY DEF L
    <2>2. CASE k \in 1..L /\ w[k] = q[k]
        <3>1. j \in 1..L /\ w[j] = q[j]
            BY <1>1, <1>3, <1>9, <2>2
        <3> QED  BY <1>9, <2>2, <3>1 DEF Plans, Commanding, L
    <2>3. CASE k = L + 1 /\ w[k] = b[1]
        <3>1. j \in 1..L /\ w[j] = q[j]
            BY <1>1, <1>3, <1>9, <2>3
        <3> QED  BY <1>5, <1>9, <2>1, <2>3, <3>1
    <2>4. CASE k = L + 2 /\ w[k] = b[2] /\ Len(b) = 2
        <3>1. (j \in 1..L /\ w[j] = q[j]) \/ (j = L + 1 /\ w[j] = b[1])
            BY <1>1, <1>3, <1>9, <2>4
        <3>2. k = (L + 1) + 1
            BY <1>1, <2>4
        <3> QED  BY <1>5, <1>9, <2>1, <2>4, <3>1, <3>2
    <2> QED  BY <1>3, <2>2, <2>3, <2>4
<1>10. Commanding(w, call.id, no_reply, mode.buffer)
    BY <1>8, <1>9 DEF Commanding
<1>11. w[1].do \notin Readers
    <2>1. 1 \in 1..Len(w)
        BY <1>1, <1>6
    <2>2. CASE 1 \in 1..L /\ w[1] = q[1]
        <3>1. q # <<>>
            <4>1. L # 0
                BY <1>1, <2>2
            <4> QED  BY <1>1, <4>1 DEF L
        <3> QED  BY <2>2, <3>1 DEF Plans
    <2>3. CASE w[1] = b[1]
        BY <1>5, <2>3 DEF Readers
    <2>4. 1 # L + 2
        BY <1>1
    <2> QED  BY <1>3, <2>1, <2>2, <2>3, <2>4
<1>12. ASSUME NEW j \in 1..Len(w)
       PROVE  w[j].s = s \/ \E k \in 1..L : w[j].s = q[k].s
    BY <1>3, <1>5
<1> QED  BY <1>2, <1>10, <1>11, <1>12 DEF Plans, w, L

\* No steps are planned, as for a dump in binary.
LEMMA PlansNone == Plans(<<>>)
<1>1. <<>> \in Seq(StepSet) /\ Len(<<>>) = 0
    BY EmptySeq
<1> QED  BY <1>1 DEF Plans, Commanding

\* One server is asked.
LEMMA PlansBlock ==
    ASSUME NEW s, NEW b, Block(b, s)
    PROVE  Plans(b) /\ \A j \in 1..Len(b) : b[j].s = s
<1>1. \A j \in 1..Len(<<>>) : (<<>>)[j].s # s
    OBVIOUS
<1>2. Plans(<<>> \o b)
    BY <1>1, PlansNone, PlansConcat
<1>3. <<>> \o b = b
    BY ConcatEmptySeq DEF Block
<1> QED  BY <1>2, <1>3 DEF Block

\* The function in the definition of FlattenSeq.
Flatten(g, seqs) ==
    g = [i \in 1..Len(seqs) |-> IF i = 1 THEN seqs[i] ELSE g[i - 1] \o seqs[i]]

\* FlattenSeq puts the blocks one behind the other.
LEMMA FlattenRuns ==
    ASSUME NEW T, NEW f \in Seq(Seq(T)), Len(f) > 0
    PROVE  \E g : Flatten(g, f) /\ FlattenSeq(f) = g[Len(f)]
<1> DEFINE L == Len(f)
           step == [n \in 1..L |-> [q \in Seq(T) |-> q \o f[n]]]
<1>1. L \in Nat /\ \A n \in 1..L : f[n] \in Seq(T)
    BY LenProperties, ElementOfSeq
<1>2. step \in [1..L -> [Seq(T) -> Seq(T)]] /\ <<>> \in Seq(T)
    <2>1. \A n \in 1..L : \A q \in Seq(T) : q \o f[n] \in Seq(T)
        BY <1>1, ConcatProperties
    <2> HIDE DEF L
    <2> QED  BY <2>1, EmptySeq
<1>3. \A n \in 1..L : \A q \in Seq(T) : step[n][q] = q \o f[n]
    OBVIOUS
<1> HIDE DEF step, L
<1>4. PICK h : Recursive(h, Seq(T), L, <<>>, step)
    BY <1>1, <1>2, Recursion
<1> DEFINE g == [n \in 1..L |-> h[n]]
<1>5. \A i \in 1..L : h[i] = IF i = 1 THEN f[i] ELSE h[i - 1] \o f[i]
    <2>1. SUFFICES ASSUME NEW i \in 1..L PROVE h[i] = IF i = 1 THEN f[i] ELSE h[i - 1] \o f[i]
        OBVIOUS
    <2>2. i \in 0..L /\ i # 0 /\ i - 1 \in 0..L /\ 0 \in 0..L
        BY <1>1
    <2>3. h[i] = step[i][h[i - 1]] /\ h[i - 1] \in Seq(T) /\ h[0] = <<>>
        BY <1>4, <2>2 DEF Recursive
    <2>4. h[i] = h[i - 1] \o f[i]
        BY <1>3, <2>3
    <2>5. CASE i = 1
        <3>1. i - 1 = 0
            BY <2>5
        <3>2. <<>> \o f[i] = f[i]
            BY <1>1, ConcatEmptySeq
        <3> QED  BY <2>3, <2>4, <2>5, <3>1, <3>2
    <2> QED  BY <2>4, <2>5
<1>6. Flatten(g, f)
    <2>1. \A i \in 1..L : i # 1 => i - 1 \in 1..L
        BY <1>1
    <2>2. \A i \in 1..L : g[i] = IF i = 1 THEN f[i] ELSE g[i - 1] \o f[i]
        BY <1>5, <2>1
    <2>3. g = [i \in 1..L |-> IF i = 1 THEN f[i] ELSE g[i - 1] \o f[i]]
        BY <2>2
    <2> QED  BY <2>3 DEF Flatten, L
<1> HIDE DEF g
<1>7. Len(f) # 0
    BY <1>1 DEF L
<1> QED  BY <1>6, <1>7, Zenon DEF FlattenSeq, Flatten

\* One server is asked after the other.
LEMMA FlattenPlans ==
    ASSUME NEW f \in [1..N -> Seq(StepSet)], \A x \in 1..N : Block(f[x], x - 1)
    PROVE  Plans(FlattenSeq(f))
<1>1. N \in Nat \ {0} /\ f \in Seq(Seq(StepSet)) /\ Len(f) = N
    BY CommandsAssumption, SeqOfFcn DEF CommandsAssumption
<1>2. PICK g : Flatten(g, f) /\ FlattenSeq(f) = g[N]
    <2>1. f \in Seq(Seq(StepSet)) /\ Len(f) > 0
        BY <1>1
    <2>2. \E g : Flatten(g, f) /\ FlattenSeq(f) = g[Len(f)]
        BY <2>1, FlattenRuns, Zenon
    <2> QED  BY <1>1, <2>2
<1> DEFINE Good(n) == Plans(g[n]) /\ \A j \in 1..Len(g[n]) : g[n][j].s \in 0..(n - 1)
           S == {n \in 0..N : n > 0 => Good(n)}
<1>3. 0 \in S
    BY <1>1
<1>4. ASSUME NEW n \in 1..N, n - 1 \in S PROVE n \in S
    <2>1. g[n] = IF n = 1 THEN f[n] ELSE g[n - 1] \o f[n]
        BY <1>1, <1>2 DEF Flatten
    <2>2. Block(f[n], n - 1)
        OBVIOUS
    <2>3. CASE n = 1
        <3>1. Plans(f[n]) /\ \A j \in 1..Len(f[n]) : f[n][j].s = n - 1
            BY <2>2, PlansBlock
        <3>2. n - 1 \in 0..(n - 1) /\ n \in 0..N
            BY <1>1
        <3> QED  BY <2>1, <2>3, <3>1, <3>2
    <2>4. CASE n # 1
        <3>1. n - 1 > 0 /\ n \in 0..N /\ n - 1 \in 0..(n - 1) /\ Good(n - 1)
            BY <1>1, <1>4, <2>4
        <3>2. \A j \in 1..Len(g[n - 1]) : g[n - 1][j].s \in 0..((n - 1) - 1)
            BY <3>1
        <3>3. \A j \in 1..Len(g[n - 1]) : g[n - 1][j].s # n - 1 /\ g[n - 1][j].s \in 0..(n - 1)
            BY <1>1, <3>2
        <3> HIDE DEF Good
        <3>6. Plans(g[n - 1]) /\ \A j \in 1..Len(g[n - 1]) : g[n - 1][j].s # n - 1
            BY <3>1, <3>3 DEF Good
        <3>4. /\ Plans(g[n - 1] \o f[n])
              /\ \A j \in 1..Len(g[n - 1] \o f[n]) :
                    \/ (g[n - 1] \o f[n])[j].s = n - 1
                    \/ \E k \in 1..Len(g[n - 1]) : (g[n - 1] \o f[n])[j].s = g[n - 1][k].s
            <4> DEFINE q == g[n - 1]
                       b == f[n]
                       s == n - 1
            <4>1. Plans(q) /\ Block(b, s) /\ \A j \in 1..Len(q) : q[j].s # s
                BY <2>2, <3>6
            <4> HIDE DEF q, b, s
            <4>2. /\ Plans(q \o b)
                  /\ \A j \in 1..Len(q \o b) :
                        (q \o b)[j].s = s \/ \E k \in 1..Len(q) : (q \o b)[j].s = q[k].s
                BY <4>1, PlansConcat
            <4> QED  BY <4>2 DEF q, b, s
        <3>5. Good(n)
            BY <2>1, <2>4, <3>1, <3>3, <3>4 DEF Good
        <3> QED  BY <3>1, <3>5
    <2> QED  BY <2>3, <2>4
<1> HIDE DEF S
<1>5. N \in S
    <2>1. \A n \in 0..N : n \in S
        BY <1>1, <1>3, <1>4, UpTo
    <2> QED  BY <1>1, <2>1
<1> QED  BY <1>1, <1>2, <1>5 DEF S

\* A request of this call.
LEMMA RequestType ==
    ASSUME NEW op \in TextOps, NEW quiet \in BOOLEAN, NEW keys \in Seq(Keys),
           call.id \in 0..Calls, quiet => op \notin {"get", "stat", "dump"}
    PROVE  /\ Request(op, quiet, keys) \in Requests
           /\ Request(op, quiet, keys).quiet = quiet /\ Request(op, quiet, keys).id = call.id
BY DEF Request, Requests

\* A step and its parts.
LEMMA StepType ==
    ASSUME NEW do \in Dos, NEW s \in Servers, NEW r \in Requests, NEW flush \in BOOLEAN,
           NEW fail \in {"none", "return", "skip"}
    PROVE  /\ Step(do, s, r, flush, fail) \in StepSet
           /\ Step(do, s, r, flush, fail).do = do /\ Step(do, s, r, flush, fail).s = s
           /\ Step(do, s, r, flush, fail).r = r /\ Step(do, s, r, flush, fail).flush = flush
           /\ Step(do, s, r, flush, fail).fail = fail
BY DEF Step, StepSet

\* A step without a request.
LEMMA OnType ==
    ASSUME NEW do \in Dos, NEW s \in Servers, call.id \in 0..Calls
    PROVE  On(do, s) \in StepSet /\ On(do, s).do = do /\ On(do, s).s = s
<1>1. NoRequest \in Requests
    <2>1. "none" \in TextOps /\ FALSE \in BOOLEAN /\ <<>> \in Seq(Keys)
        BY EmptySeq DEF TextOps
    <2> QED  BY <2>1, RequestType DEF NoRequest
<1>2. "none" \in {"none", "return", "skip"} /\ TRUE \in BOOLEAN
    OBVIOUS
<1> QED  BY <1>1 DEF On, Step, StepSet

\* A request, and the wait for its answer.
LEMMA AskBlock ==
    ASSUME NEW s \in Servers, NEW r \in Requests, r.quiet = no_reply, r.id = call.id,
           call.id \in 0..Calls, NEW flush \in BOOLEAN, flush \/ mode.buffer,
           NEW fail \in {"return", "skip"}
    PROVE  /\ Block(<<Do(s, r, flush, fail)>>, s)
           /\ \A do \in Readers : flush /\ ~no_reply /\ (do = "dump" => fail = "return")
                                     => Block(<<Do(s, r, flush, fail), On(do, s)>>, s)
<1> DEFINE d == Do(s, r, flush, fail)
<1>1. /\ d \in StepSet /\ d.do = "do" /\ d.s = s /\ d.r = r /\ d.flush = flush /\ d.fail = fail
    <2>1. "do" \in Dos /\ fail \in {"none", "return", "skip"}
        BY DEF Dos
    <2> QED  BY <2>1, StepType DEF Do
<1> HIDE DEF d
<1>2. Block(<<d>>, s)
    <2>1. /\ <<d>> \in Seq(StepSet) /\ Len(<<d>>) = 1 /\ <<d>>[1] = d
          /\ \A j \in 1..Len(<<d>>) : <<d>>[j] = d
        BY <1>1
    <2> QED  BY <1>1, <2>1 DEF Block
<1>3. ASSUME NEW do \in Readers, flush, ~no_reply, do = "dump" => fail = "return"
      PROVE  Block(<<d, On(do, s)>>, s)
    <2> DEFINE w == On(do, s)
    <2>1. w \in StepSet /\ w.do = do /\ w.s = s
        <3>1. do \in Dos
            BY <1>3 DEF Dos, Readers
        <3> QED  BY <3>1, OnType
    <2> HIDE DEF w
    <2>2. /\ <<d, w>> \in Seq(StepSet) /\ Len(<<d, w>>) = 2 /\ <<d, w>>[1] = d /\ <<d, w>>[2] = w
          /\ \A j \in 1..Len(<<d, w>>) : <<d, w>>[j] = d \/ <<d, w>>[j] = w
        BY <1>1, <2>1
    <2>3. Block(<<d, w>>, s)
        BY <1>1, <1>3, <2>1, <2>2 DEF Block
    <2> QED  BY <2>3 DEF w
<1> QED  BY <1>2, <1>3 DEF d

\* A request whose answer is waited for, unless there will be none.
LEMMA AskMaybe ==
    ASSUME NEW s \in Servers, NEW r \in Requests, r.quiet = no_reply, r.id = call.id,
           call.id \in 0..Calls, NEW flush \in BOOLEAN, flush \/ mode.buffer,
           NEW fail \in {"return", "skip"}, NEW b \in BOOLEAN, b => flush
    PROVE  Block(<<Do(s, r, flush, fail)>> \o If(b /\ ~no_reply, <<On("response", s)>>), s)
<1> DEFINE d == Do(s, r, flush, fail)
           w == On("response", s)
<1>1. /\ Block(<<d>>, s) /\ (flush /\ ~no_reply => Block(<<d, w>>, s))
    <2>1. "response" \in Readers
        BY DEF Readers
    <2> QED  BY <2>1, AskBlock
<1> HIDE DEF d, w
<1>2. <<d>> \o <<>> = <<d>> /\ <<d>> \o <<w>> = <<d, w>>
    <2>1. <<d>> \o <<>> = <<d>>
        OBVIOUS
    <2>2. <<d>> \o <<w>> = <<d, w>>
        <3> DEFINE x == <<d>> \o <<w>>
                   y == <<d, w>>
        <3>1. /\ x \in Seq({d, w}) /\ y \in Seq({d, w}) /\ Len(x) = 2 /\ Len(y) = 2
              /\ x[1] = d /\ x[2] = w /\ y[1] = d /\ y[2] = w
            OBVIOUS
        <3> HIDE DEF x, y
        <3>2. \A i \in 1..Len(x) : x[i] = y[i]
            BY <3>1
        <3>3. x = y
            BY <3>1, <3>2, SeqEqual
        <3> QED  BY <3>3 DEF x, y
    <2> QED  BY <2>1, <2>2
<1>3. Block(<<d>> \o If(b /\ ~no_reply, <<w>>), s)
    BY <1>1, <1>2 DEF If
<1> QED  BY <1>3 DEF d, w

\* Without replicas there is nothing to replicate.
LEMMA ReplicateNone ==
    ASSUME mode.replicas = 0, NEW r, NEW k, NEW flush
    PROVE  Replicate(r, k, flush) = <<>>
BY DEF Replicate

\* memcached_send.
LEMMA SendPlans ==
    ASSUME NEW op \in StorageOps, NEW k \in Keys, call.id \in 0..Calls, no_reply \in BOOLEAN,
           mode.buffer \in BOOLEAN, mode.replicas = 0
    PROVE  Plans(memcached_send(op, k))
<1> DEFINE r == Request(op, no_reply, <<k>>)
           flush == ~(mode.buffer /\ op = "set")
           d == <<Do(Hash[k], r, flush, "return")>>
           w == If(flush /\ ~no_reply, <<On("response", Hash[k])>>)
<1>1. r \in Requests /\ r.quiet = no_reply /\ r.id = call.id
    <2>1. op \in TextOps /\ <<k>> \in Seq(Keys) /\ op \notin {"get", "stat", "dump"}
        BY DEF TextOps, StorageOps
    <2> QED  BY <2>1, RequestType
<1>2. Hash[k] \in Servers
    BY CommandsAssumption DEF CommandsAssumption
<1> HIDE DEF r
<1>3. Block(d \o w, Hash[k])
    <2>1. flush \in BOOLEAN /\ (flush \/ mode.buffer) /\ (flush => flush)
          /\ "return" \in {"return", "skip"}
        OBVIOUS
    <2> HIDE DEF flush
    <2> QED  BY <1>1, <1>2, <2>1, AskMaybe
<1>4. Replicate(r, k, FALSE) = <<>>
    BY ReplicateNone
<1>5. memcached_send(op, k) = (d \o <<>>) \o w
    BY <1>4 DEF memcached_send, If, r
<1>6. d \o <<>> = d
    OBVIOUS
<1> HIDE DEF d, w
<1> QED  BY <1>3, <1>5, <1>6, PlansBlock

\* memcached_delete_by_key.
LEMMA DeletePlans ==
    ASSUME NEW k \in Keys, call.id \in 0..Calls, no_reply \in BOOLEAN,
           mode.buffer \in BOOLEAN, mode.replicas = 0
    PROVE  Plans(memcached_delete(k))
<1> DEFINE r == Request("delete", no_reply, <<k>>)
           flush == ~mode.buffer
           d == <<Do(Hash[k], r, flush, "skip")>>
           w == If(flush /\ ~no_reply, <<On("response", Hash[k])>>)
<1>1. r \in Requests /\ r.quiet = no_reply /\ r.id = call.id
    <2>1. "delete" \in TextOps /\ <<k>> \in Seq(Keys) /\ "delete" \notin {"get", "stat", "dump"}
        BY DEF TextOps
    <2> QED  BY <2>1, RequestType
<1>2. Hash[k] \in Servers
    BY CommandsAssumption DEF CommandsAssumption
<1> HIDE DEF r
<1>3. Block(d \o w, Hash[k])
    <2>1. flush \in BOOLEAN /\ (flush \/ mode.buffer) /\ (flush => flush)
          /\ "skip" \in {"return", "skip"}
        OBVIOUS
    <2> HIDE DEF flush
    <2> QED  BY <1>1, <1>2, <2>1, AskMaybe
<1>4. Replicate(r, k, flush) = <<>>
    BY ReplicateNone
<1>5. memcached_delete(k) = (d \o <<>>) \o w
    BY <1>4 DEF memcached_delete, r
<1>6. d \o <<>> = d
    OBVIOUS
<1> HIDE DEF d, w
<1> QED  BY <1>3, <1>5, <1>6, PlansBlock

\* text_incr_decr.
LEMMA IncrementPlans ==
    ASSUME NEW k \in Keys, call.id \in 0..Calls, no_reply \in BOOLEAN
    PROVE  Plans(memcached_increment(k))
<1> DEFINE r == Request("incr", no_reply, <<k>>)
           d == <<Do(Hash[k], r, TRUE, "return")>>
<1>1. r \in Requests /\ r.quiet = no_reply /\ r.id = call.id
    <2>1. "incr" \in TextOps /\ <<k>> \in Seq(Keys) /\ "incr" \notin {"get", "stat", "dump"}
        BY DEF TextOps
    <2> QED  BY <2>1, RequestType
<1>2. Hash[k] \in Servers
    BY CommandsAssumption DEF CommandsAssumption
<1> HIDE DEF r
<1>3. Block(d \o If(TRUE /\ ~no_reply, <<On("response", Hash[k])>>), Hash[k])
    <2>1. TRUE \in BOOLEAN /\ "return" \in {"return", "skip"}
        OBVIOUS
    <2> QED  BY <1>1, <1>2, <2>1, AskMaybe
<1>4. memcached_increment(k) = d \o If(TRUE /\ ~no_reply, <<On("response", Hash[k])>>)
    BY DEF memcached_increment, r
<1> QED  BY <1>3, <1>4, PlansBlock

\* memcached_flush_textual.
LEMMA FlushPlans ==
    ASSUME call.id \in 0..Calls, no_reply \in BOOLEAN
    PROVE  Plans(memcached_flush_textual)
<1> DEFINE r == Request("flush", no_reply, <<>>)
           f == [x \in 1..N |-> <<Do(x - 1, r, TRUE, "skip")>>
                                \o If(~no_reply, <<On("response", x - 1)>>)]
<1>1. r \in Requests /\ r.quiet = no_reply /\ r.id = call.id
    <2>1. "flush" \in TextOps /\ <<>> \in Seq(Keys) /\ "flush" \notin {"get", "stat", "dump"}
        BY EmptySeq DEF TextOps
    <2> QED  BY <2>1, RequestType
<1> HIDE DEF r
<1>2. ASSUME NEW x \in 1..N PROVE Block(f[x], x - 1)
    <2>1. x - 1 \in Servers /\ TRUE \in BOOLEAN /\ "skip" \in {"return", "skip"}
        BY CommandsAssumption DEF CommandsAssumption, Servers
    <2>2. Block(<<Do(x - 1, r, TRUE, "skip")>> \o If(TRUE /\ ~no_reply, <<On("response", x - 1)>>),
                x - 1)
        BY <1>1, <2>1, AskMaybe
    <2>3. f[x] = <<Do(x - 1, r, TRUE, "skip")>> \o If(TRUE /\ ~no_reply, <<On("response", x - 1)>>)
        OBVIOUS
    <2> QED  BY <2>2, <2>3
<1>3. memcached_flush_textual = FlattenSeq(f)
    BY DEF memcached_flush_textual, r
<1>4. f = [x \in 1..N |-> f[x]]
    OBVIOUS
<1> HIDE DEF f
<1>5. f \in [1..N -> Seq(StepSet)]
    <2>1. \A x \in 1..N : f[x] \in Seq(StepSet)
        BY <1>2 DEF Block
    <2> QED  BY <1>4, <2>1
<1> QED  BY <1>2, <1>3, <1>5, FlattenPlans

\* The commands whose answers are read whatever NOREPLY says: none is set.
LEMMA InfoPlans ==
    ASSUME call.id \in 0..Calls, no_reply = FALSE,
           NEW op \in {"version", "stat", "dump"}, NEW fail \in {"return", "skip"},
           NEW do \in Readers, do = "dump" => fail = "return"
    PROVE  Plans(FlattenSeq([x \in 1..N |-> <<Do(x - 1, Request(op, FALSE, <<>>), TRUE, fail),
                                              On(do, x - 1)>>]))
<1> DEFINE r == Request(op, FALSE, <<>>)
           f == [x \in 1..N |-> <<Do(x - 1, r, TRUE, fail), On(do, x - 1)>>]
<1>1. r \in Requests /\ r.quiet = no_reply /\ r.id = call.id
    <2>1. op \in TextOps /\ <<>> \in Seq(Keys) /\ FALSE \in BOOLEAN
        BY EmptySeq DEF TextOps
    <2> QED  BY <2>1, RequestType
<1> HIDE DEF r
<1>2. ASSUME NEW x \in 1..N PROVE Block(f[x], x - 1)
    <2>1. x - 1 \in Servers /\ TRUE \in BOOLEAN
        BY CommandsAssumption DEF CommandsAssumption, Servers
    <2>2. Block(<<Do(x - 1, r, TRUE, fail), On(do, x - 1)>>, x - 1)
        BY <1>1, <2>1, AskBlock
    <2> QED  BY <2>2
<1>3. f = [x \in 1..N |-> f[x]]
    OBVIOUS
<1> HIDE DEF f
<1>4. f \in [1..N -> Seq(StepSet)]
    <2>1. \A x \in 1..N : f[x] \in Seq(StepSet)
        BY <1>2 DEF Block
    <2> QED  BY <1>3, <2>1
<1>5. Plans(FlattenSeq(f))
    BY <1>2, <1>4, FlattenPlans
<1> QED  BY <1>5 DEF f, r

\* A step at each server.
LEMMA EachType ==
    ASSUME NEW do \in Dos, call.id \in 0..Calls
    PROVE  /\ EachServer(do) \in Seq(StepSet) /\ Len(EachServer(do)) = N
           /\ \A j \in 1..N : EachServer(do)[j].do = do /\ EachServer(do)[j].s = j - 1
<1> DEFINE q == EachServer(do)
<1>1. N \in Nat
    BY CommandsAssumption DEF CommandsAssumption
<1>2. q = [x \in 1..N |-> On(do, x - 1)]
    BY DEF EachServer
<1>3. \A x \in 1..N : x - 1 \in Servers
    BY <1>1 DEF Servers
<1>4. \A x \in 1..N : On(do, x - 1) \in StepSet /\ On(do, x - 1).do = do /\ On(do, x - 1).s = x - 1
    BY <1>3, OnType
<1> HIDE DEF q
<1>5. q = [x \in 1..N |-> q[x]] /\ \A x \in 1..N : q[x] = On(do, x - 1)
    BY <1>2
<1>6. \A x \in 1..N : q[x] \in StepSet
    BY <1>4, <1>5
<1>7. q \in Seq(StepSet) /\ Len(q) = N
    BY <1>1, <1>5, <1>6, SeqOfFcn
<1> QED  BY <1>4, <1>5, <1>7 DEF q

\* memcached_quit.
LEMMA QuitPlans ==
    ASSUME call.id \in 0..Calls
    PROVE  Plans(memcached_quit)
<1> DEFINE q == EachServer("quit")
<1>1. /\ q \in Seq(StepSet) /\ Len(q) = N
      /\ \A j \in 1..N : q[j].do = "quit" /\ q[j].s = j - 1
    <2>1. "quit" \in Dos
        BY DEF Dos
    <2> QED  BY <2>1, EachType
<1>2. N \in Nat \ {0}
    BY CommandsAssumption DEF CommandsAssumption
<1> HIDE DEF q
<1>3. \A j, k \in 1..Len(q) : j < k => q[j].s # q[k].s
    BY <1>1, <1>2
<1>4. "quit" \notin Readers
    BY DEF Readers
<1>5. 1 \in 1..N
    BY <1>2
<1>6. Plans(q)
    BY <1>1, <1>3, <1>4, <1>5 DEF Plans, Commanding
<1> QED  BY <1>6 DEF memcached_quit, q

\* What any command but a get plans.
LEMMA CommandPlans ==
    ASSUME TextHandle, Typed, call.op \in CmdOps \ {"generate"}, NEW start
    PROVE  Plans(Plan(call.op, call.key, start))
<1>1. /\ call.id \in 0..Calls /\ call.key \in Keys /\ no_reply \in BOOLEAN
      /\ (call.op \in {"version", "stat", "dump"} => no_reply = FALSE)
      /\ mode \in Modes
    BY DEF Typed
<1>2. ~mode.binary /\ mode.replicas = 0 /\ mode.buffer \in BOOLEAN
    BY <1>1, TextMode
<1>3. CASE call.op \in StorageOps
    <2>1. Plan(call.op, call.key, start) = memcached_send(call.op, call.key)
        BY <1>3 DEF Plan, StorageOps
    <2> QED  BY <1>1, <1>2, <1>3, <2>1, SendPlans
<1>4. CASE call.op = "delete"
    <2>1. Plan(call.op, call.key, start) = memcached_delete(call.key)
        BY <1>4 DEF Plan, StorageOps
    <2> QED  BY <1>1, <1>2, <2>1, DeletePlans
<1>5. CASE call.op = "incr"
    <2>1. Plan(call.op, call.key, start) = memcached_increment(call.key)
        BY <1>5 DEF Plan, StorageOps
    <2> QED  BY <1>1, <2>1, IncrementPlans
<1>6. CASE call.op = "flush"
    <2>1. Plan(call.op, call.key, start) = memcached_flush_textual
        BY <1>2, <1>6 DEF Plan, StorageOps
    <2> QED  BY <1>1, <2>1, FlushPlans
<1>7. "response" \in Readers /\ "stats" \in Readers /\ "dump" \in Readers
      /\ "return" \in {"return", "skip"} /\ "skip" \in {"return", "skip"}
    BY DEF Readers
<1>8. CASE call.op = "version"
    <2>1. Plan(call.op, call.key, start) = memcached_version_textual
        BY <1>2, <1>8 DEF Plan, StorageOps
    <2>2. Plans(memcached_version_textual)
        BY <1>1, <1>7, <1>8, InfoPlans DEF memcached_version_textual
    <2> QED  BY <2>1, <2>2
<1>9. CASE call.op = "stat"
    <2>1. Plan(call.op, call.key, start) = memcached_stat
        BY <1>9 DEF Plan, StorageOps
    <2>2. Plans(memcached_stat)
        BY <1>1, <1>7, <1>9, InfoPlans DEF memcached_stat
    <2> QED  BY <2>1, <2>2
<1>10. CASE call.op = "dump"
    <2>1. Plan(call.op, call.key, start) = memcached_dump
        BY <1>2, <1>10 DEF Plan, StorageOps
    <2>2. Plans(memcached_dump)
        BY <1>1, <1>7, <1>10, InfoPlans DEF memcached_dump
    <2> QED  BY <2>1, <2>2
<1>11. CASE call.op = "quit"
    <2>1. Plan(call.op, call.key, start) = memcached_quit
        BY <1>11 DEF Plan, StorageOps
    <2> QED  BY <1>1, <2>1, QuitPlans
<1> QED  BY <1>3, <1>4, <1>5, <1>6, <1>8, <1>9, <1>10, <1>11 DEF CmdOps

\* The steps of a get before it fetches: purges, keys, ends of lines.
Getting(q, L, id, op, home) ==
    /\ q \in Seq(StepSet) /\ Len(q) = N + (L + N)
    /\ \A j \in 1..N : q[j].do = "purge" /\ q[j].s = j - 1
    /\ \A j \in (N + 1)..(N + L) : /\ q[j].do = "key" /\ ~q[j].r.quiet /\ q[j].r.id = id
                                   /\ op = "get" => q[j].s = home
    /\ \A j \in (N + L + 1)..(N + (L + N)) : q[j].do = "newline" /\ q[j].s = j - (N + L + 1)

\* A sequence in two parts of known lengths.
LEMMA Joined ==
    ASSUME NEW S, NEW a \in Seq(S), NEW b \in Seq(S), NEW A \in Nat, NEW B \in Nat,
           Len(a) = A, Len(b) = B
    PROVE  /\ a \o b \in Seq(S) /\ Len(a \o b) = A + B
           /\ \A j \in 1..(A + B) : (a \o b)[j] = IF j <= A THEN a[j] ELSE b[j - A]
BY ConcatProperties

\* memcached_mget_by_key_real in text plans purges, keys and ends of lines.
LEMMA GettingIs ==
    ASSUME ~mode.binary, NEW keys \in Seq(Keys), NEW mm, NEW start, call.id \in 0..Calls,
           NEW op, NEW home, op = "get" => \A j \in 1..Len(keys) : Hash[keys[j]] = home
    PROVE  Getting(memcached_mget_by_key_real(keys, mm, start), Len(keys), call.id, op, home)
<1> DEFINE L == Len(keys)
           r(x) == Request("get", FALSE, <<keys[x]>>)
           p == EachServer("purge")
           e == EachServer("newline")
           k == [x \in 1..L |-> Step("key", Hash[keys[x]], r(x), FALSE, "skip")]
           q == p \o (k \o e)
<1>1. /\ p \in Seq(StepSet) /\ Len(p) = N /\ \A j \in 1..N : p[j].do = "purge" /\ p[j].s = j - 1
      /\ e \in Seq(StepSet) /\ Len(e) = N /\ \A j \in 1..N : e[j].do = "newline" /\ e[j].s = j - 1
    <2>1. "purge" \in Dos /\ "newline" \in Dos
        BY DEF Dos, Getters
    <2> QED  BY <2>1, EachType
<1>2. L \in Nat /\ N \in Nat
    BY LenProperties, CommandsAssumption DEF CommandsAssumption
<1>3. ASSUME NEW x \in 1..L
      PROVE  /\ k[x] \in StepSet /\ k[x].do = "key" /\ k[x].s = Hash[keys[x]]
             /\ ~k[x].r.quiet /\ k[x].r.id = call.id
    <2>1. keys[x] \in Keys
        BY <1>3, ElementOfSeq
    <2>2. Hash[keys[x]] \in Servers /\ <<keys[x]>> \in Seq(Keys) /\ FALSE \in BOOLEAN
          /\ "get" \in TextOps /\ "key" \in Dos /\ "skip" \in {"none", "return", "skip"}
        BY <2>1, CommandsAssumption DEF CommandsAssumption, TextOps, Dos, Getters
    <2>3. r(x) \in Requests /\ ~r(x).quiet /\ r(x).id = call.id
        BY <2>2, RequestType
    <2> HIDE DEF r
    <2>4. k[x] = Step("key", Hash[keys[x]], r(x), FALSE, "skip")
        BY <1>3
    <2> HIDE DEF k
    <2> DEFINE h == Hash[keys[x]]
               u == r(x)
    <2>5. h \in Servers /\ u \in Requests /\ k[x] = Step("key", h, u, FALSE, "skip")
        BY <2>2, <2>3, <2>4
    <2> HIDE DEF h, u
    <2>6. k[x] \in StepSet /\ k[x].do = "key" /\ k[x].s = h /\ k[x].r = u
        BY <2>2, <2>5 DEF Step, StepSet
    <2> QED  BY <2>3, <2>6 DEF h, u
<1>4. k \in Seq(StepSet) /\ Len(k) = L
    <2>1. k = [x \in 1..L |-> k[x]]
        OBVIOUS
    <2> HIDE DEF k
    <2> QED  BY <1>2, <1>3, <2>1, SeqOfFcn
<1>5. memcached_mget_by_key_real(keys, mm, start) = q
    BY DEF memcached_mget_by_key_real, AsciiGets
<1> HIDE DEF p, e, k, L
<1>6. /\ k \o e \in Seq(StepSet) /\ Len(k \o e) = L + N
      /\ \A j \in 1..(L + N) : (k \o e)[j] = IF j <= L THEN k[j] ELSE e[j - L]
    <2>1. /\ k \o e \in Seq(StepSet) /\ Len(k \o e) = Len(k) + Len(e)
          /\ \A j \in 1..(Len(k) + Len(e)) :
                (k \o e)[j] = IF j <= Len(k) THEN k[j] ELSE e[j - Len(k)]
        <3>1. k \in Seq(StepSet) /\ e \in Seq(StepSet)
            BY <1>1, <1>4
        <3> QED  BY <3>1, ConcatProperties, Zenon
    <2>2. Len(k) = L /\ Len(e) = N
        BY <1>1, <1>4
    <2> QED  BY <2>1, <2>2
<1>7. /\ q \in Seq(StepSet) /\ Len(q) = N + (L + N)
      /\ \A j \in 1..(N + (L + N)) : q[j] = IF j <= N THEN p[j] ELSE (k \o e)[j - N]
    <2> DEFINE M == L + N
               ke == k \o e
    <2>1. M \in Nat /\ ke \in Seq(StepSet) /\ Len(ke) = M
          /\ N \in Nat /\ p \in Seq(StepSet) /\ Len(p) = N
        BY <1>1, <1>2, <1>6
    <2> HIDE DEF M, ke
    <2>2. /\ p \o ke \in Seq(StepSet) /\ Len(p \o ke) = N + M
          /\ \A j \in 1..(N + M) : (p \o ke)[j] = IF j <= N THEN p[j] ELSE ke[j - N]
        <3>1. /\ p \o ke \in Seq(StepSet) /\ Len(p \o ke) = Len(p) + Len(ke)
              /\ \A j \in 1..(Len(p) + Len(ke)) :
                    (p \o ke)[j] = IF j <= Len(p) THEN p[j] ELSE ke[j - Len(p)]
            BY <2>1, ConcatProperties, Zenon
        <3> QED  BY <2>1, <3>1
    <2> QED  BY <2>2 DEF M, ke
<1> HIDE DEF q
<1>8. \A j \in 1..N : q[j].do = "purge" /\ q[j].s = j - 1
    <2>1. \A j \in 1..N : q[j] = p[j]
        BY <1>2, <1>7
    <2> QED  BY <1>1, <2>1
<1>9. ASSUME NEW j \in (N + 1)..(N + L)
      PROVE  /\ q[j].do = "key" /\ ~q[j].r.quiet /\ q[j].r.id = call.id
             /\ op = "get" => q[j].s = home
    <2>1. j - N \in 1..L /\ j - N \in 1..(L + N) /\ j \in 1..(N + (L + N)) /\ ~(j <= N)
        BY <1>2
    <2>2. q[j] = (k \o e)[j - N]
        BY <1>7, <2>1
    <2>3. (k \o e)[j - N] = k[j - N]
        <3>1. j - N <= L
            BY <1>2
        <3> HIDE DEF q
        <3> QED  BY <1>6, <2>1, <3>1
    <2>4. q[j] = k[j - N]
        BY <2>2, <2>3
    <2> QED  BY <1>3, <2>1, <2>4 DEF L
<1>10. ASSUME NEW j \in (N + L + 1)..(N + (L + N))
       PROVE  q[j].do = "newline" /\ q[j].s = j - (N + L + 1)
    <2>1. /\ (j - N) - L \in 1..N /\ j - N \in 1..(L + N) /\ ~(j - N <= L)
          /\ j \in 1..(N + (L + N)) /\ ~(j <= N) /\ ((j - N) - L) - 1 = j - (N + L + 1)
        BY <1>2
    <2>2. q[j] = e[(j - N) - L]
        BY <1>6, <1>7, <2>1
    <2> QED  BY <1>1, <2>1, <2>2
<1>11. Getting(q, L, call.id, op, home)
    BY <1>7, <1>8, <1>9, <1>10 DEF Getting
<1> QED  BY <1>5, <1>11 DEF L

\* What a get or an mget plans.
LEMMA GetPlans ==
    ASSUME NEW q, NEW L \in Nat, NEW id, NEW op, NEW home, Getting(q, L, id, op, home),
           NEW t \in Seq(StepSet),
           \/ t = <<>>
           \/ /\ op = "get" /\ Len(t) = 2 /\ t[1].do = "fetch" /\ t[2].do = "fetch_end"
    PROVE  /\ q \o t \in Seq(StepSet) /\ Gets(q \o t, id, op, home) /\ q \o t # <<>>
           /\ (q \o t)[1].do = "purge" /\ \A s \in Servers : Left(q \o t, "purge", s)
<1> DEFINE w == q \o t
           A == N + L + 1
           B == N + (L + N)
<1>1. N \in Nat \ {0} /\ q \in Seq(StepSet) /\ Len(q) = B /\ Len(t) \in Nat
    BY CommandsAssumption, LenProperties DEF CommandsAssumption, Getting
<1>2. /\ w \in Seq(StepSet) /\ Len(w) = B + Len(t)
      /\ \A j \in 1..(B + Len(t)) : w[j] = IF j <= B THEN q[j] ELSE t[j - B]
    <2>1. B \in Nat
        BY <1>1
    <2> HIDE DEF B
    <2> QED  BY <1>1, <2>1, Joined
<1>3. \A j \in 1..B : j \in 1..Len(w) /\ w[j] = q[j]
    BY <1>1, <1>2
<1>4. Len(t) # 0 => op = "get" /\ Len(t) = 2 /\ t[1].do = "fetch" /\ t[2].do = "fetch_end"
    OBVIOUS
<1>5. \A j \in 1..Len(w) :
          \/ j \in 1..N /\ w[j].do = "purge" /\ w[j].s = j - 1
          \/ j \in (N + 1)..(N + L) /\ w[j].do = "key"
          \/ j \in A..B /\ w[j].do = "newline" /\ w[j].s = j - A
          \/ j = B + 1 /\ w[j].do = "fetch" /\ op = "get"
          \/ j = B + 2 /\ w[j].do = "fetch_end" /\ op = "get" /\ w[j - 1].do = "fetch"
    <2>1. SUFFICES ASSUME NEW j \in 1..Len(w)
                   PROVE  \/ j \in 1..N /\ w[j].do = "purge" /\ w[j].s = j - 1
                          \/ j \in (N + 1)..(N + L) /\ w[j].do = "key"
                          \/ j \in A..B /\ w[j].do = "newline" /\ w[j].s = j - A
                          \/ j = B + 1 /\ w[j].do = "fetch" /\ op = "get"
                          \/ /\ j = B + 2 /\ w[j].do = "fetch_end" /\ op = "get"
                             /\ w[j - 1].do = "fetch"
        OBVIOUS
    <2> HIDE DEF w
    <2>2. CASE j \in 1..N
        BY <1>1, <1>3, <2>2 DEF Getting
    <2>3. CASE j \in (N + 1)..(N + L)
        BY <1>1, <1>3, <2>3 DEF Getting
    <2>4. CASE j \in A..B
        BY <1>1, <1>3, <2>4 DEF Getting
    <2>5. CASE j > B
        <3>1. Len(t) = 2 /\ op = "get" /\ t[1].do = "fetch" /\ t[2].do = "fetch_end"
            BY <1>1, <1>2, <1>4, <2>5
        <3>2. j = B + 1 \/ j = B + 2
            BY <1>1, <1>2, <2>5, <3>1
        <3>3. w[B + 1] = t[1] /\ w[B + 2] = t[2]
            BY <1>1, <1>2, <3>1
        <3>4. (B + 2) - 1 = B + 1
            BY <1>1
        <3> QED  BY <3>1, <3>2, <3>3, <3>4
    <2> QED  BY <1>1, <1>2, <2>2, <2>3, <2>4, <2>5
<1>6. \A s \in Servers : Left(w, "purge", s) /\ Left(w, "newline", s)
    <2>1. SUFFICES ASSUME NEW s \in Servers PROVE Left(w, "purge", s) /\ Left(w, "newline", s)
        OBVIOUS
    <2>2. /\ s \in 0..(N - 1) /\ s + 1 \in 1..N /\ (s + 1) - 1 = s /\ s + 1 \in 1..B
          /\ A + s \in A..B /\ (A + s) - A = s /\ A + s \in 1..B
        BY <1>1 DEF Servers
    <2>3. w[s + 1].do = "purge" /\ w[s + 1].s = s
        BY <1>3, <2>2 DEF Getting
    <2>4. w[A + s].do = "newline" /\ w[A + s].s = s
        BY <1>3, <2>2 DEF Getting
    <2> HIDE DEF w, A, B
    <2> QED  BY <1>3, <2>2, <2>3, <2>4 DEF Left
<1> HIDE DEF w
<1>7. ASSUME NEW j \in 1..Len(w)
      PROVE  /\ w[j].do \in Getters
             /\ w[j].do = "key" => /\ ~w[j].r.quiet /\ w[j].r.id = id
                                   /\ op = "get" => w[j].s = home
                                   /\ \A s \in Servers : Left(w, "newline", s)
             /\ w[j].do \in {"fetch", "fetch_end"} => op = "get"
             /\ w[j].do = "fetch_end" /\ j > 1 => w[j - 1].do = "fetch"
    <2>1. w[j].do \in Getters
        BY <1>5 DEF Getters
    <2>2. ASSUME w[j].do = "key"
          PROVE  ~w[j].r.quiet /\ w[j].r.id = id /\ (op = "get" => w[j].s = home)
        <3>1. j \in (N + 1)..(N + L)
            BY <1>5, <2>2
        <3>2. j \in 1..B
            BY <1>1, <3>1
        <3>3. w[j] = q[j]
            BY <1>3, <3>2
        <3> QED  BY <3>1, <3>3 DEF Getting
    <2>3. w[j].do \in {"fetch", "fetch_end"} => op = "get"
        BY <1>5
    <2>4. w[j].do = "fetch_end" /\ j > 1 => w[j - 1].do = "fetch"
        BY <1>5
    <2> QED  BY <1>6, <2>1, <2>2, <2>3, <2>4
<1>8. ASSUME NEW j \in 1..Len(w), NEW m \in 1..Len(w), j < m
      PROVE  Rank(w[j].do) <= Rank(w[m].do)
    <2>1. \/ j \in 1..N /\ Rank(w[j].do) = 1
          \/ j \in (N + 1)..(N + L) /\ Rank(w[j].do) = 2
          \/ j \in A..B /\ Rank(w[j].do) = 3
          \/ j = B + 1 /\ Rank(w[j].do) = 4
          \/ j = B + 2 /\ Rank(w[j].do) = 5
        BY <1>5 DEF Rank
    <2>2. \/ m \in 1..N /\ Rank(w[m].do) = 1
          \/ m \in (N + 1)..(N + L) /\ Rank(w[m].do) = 2
          \/ m \in A..B /\ Rank(w[m].do) = 3
          \/ m = B + 1 /\ Rank(w[m].do) = 4
          \/ m = B + 2 /\ Rank(w[m].do) = 5
        BY <1>5 DEF Rank
    <2> QED  BY <1>1, <1>8, <2>1, <2>2
<1>9. Gets(w, id, op, home)
    BY <1>7, <1>8 DEF Gets
<1>10. w # <<>> /\ w[1].do = "purge"
    <2>1. 1 \in 1..N /\ 1 \in 1..B /\ Len(w) # 0
        BY <1>1, <1>2
    <2>2. w[1].do = "purge"
        BY <1>3, <2>1 DEF Getting
    <2>3. w # <<>>
        BY <2>1, EmptySeq
    <2> QED  BY <2>2, <2>3
<1> QED  BY <1>2, <1>6, <1>9, <1>10 DEF w

\* The steps of the call have been planned.
LEMMA PlannedCommand ==
    ASSUME IInv, Planning(todo), call.op \in CmdOps, NEW q, Plans(q)
    PROVE  /\ q \in Seq(StepSet)
           /\ Phase(call.op, call.id, Hash[call.key], q, no_reply, mode.buffer, ok, rc, fetching, inst)
<1>1. /\ q \in Seq(StepSet) /\ Commanding(q, call.id, no_reply, mode.buffer)
      /\ (q # <<>> => q[1].do \notin Readers)
    BY DEF Plans
<1>2. call.op \notin {"none", "get", "mget", "fetch"}
    BY DEF CmdOps, StorageOps
<1>3. /\ call.id > 0 /\ ~fetching /\ (~mode.buffer => NoneBuffered(inst))
      /\ \A s \in Servers : Fresh(inst[s], call.id)
    BY <1>2 DEF IInv, Phase, GetOps, Typed
<1>4. ~Planning(q)
    <2>1. q # <<>> => 1 \in 1..Len(q)
        BY <1>1, HeadTail
    <2> QED  BY <1>1, <2>1 DEF Planning, Commanding, Readers
<1>5. CmdConns(q, call.id, ok, inst)
    <2>1. \A j \in 1..Len(q) : q[j].s \in Servers
        BY <1>1, StepFields
    <2> QED  BY <1>1, <1>3, <2>1 DEF CmdConns
<1> QED  BY <1>1, <1>2, <1>3, <1>4, <1>5 DEF Phase, GetOps

\* The steps of a get have been planned.
LEMMA PlannedGet ==
    ASSUME IInv, Planning(todo), call.op \in GetOps, NEW q, q \in Seq(StepSet),
           Gets(q, call.id, call.op, Hash[call.key]), q # <<>>, q[1].do = "purge",
           \A s \in Servers : Left(q, "purge", s)
    PROVE  Phase(call.op, call.id, Hash[call.key], q, no_reply, mode.buffer, ok, rc, fetching, inst)
<1>1. call.op \notin {"none", "fetch"} /\ call.op \notin CmdOps /\ call.op \in {"get", "mget"}
    BY DEF CmdOps, StorageOps, GetOps
<1>2. /\ call.id > 0 /\ (fetching => call.op = "mget") /\ (~mode.buffer => NoneBuffered(inst))
      /\ (call.op = "get" => rc # "NOTFOUND")
    BY <1>1 DEF IInv, Phase
<1>3. ~Planning(q)
    BY DEF Planning
<1>4. GetConns(q, call.id, call.op, Hash[call.key], mode.buffer, inst)
    <2>1. ASSUME NEW s \in Servers, NEW newline, NEW away
          PROVE  GetConn(inst[s], call.id, Left(q, "purge", s), newline, away, mode.buffer)
        BY <1>2 DEF GetConn, NoneBuffered
    <2> QED  BY <2>1 DEF GetConns
<1>5. Missed(q, call.op, rc, inst)
    BY <1>2 DEF Missed
<1> QED  BY <1>1, <1>2, <1>3, <1>4, <1>5 DEF Phase

\* The step of a memcached_fetch has been planned.
LEMMA PlannedFetch ==
    ASSUME IInv, Planning(todo), call.op = "fetch", NEW q, Len(q) = 1, q[1].do = "fetch", q # <<>>
    PROVE  Phase(call.op, call.id, Hash[call.key], q, no_reply, mode.buffer, ok, rc, fetching, inst)
<1>1. call.op \notin {"none", "get", "mget"} /\ call.op \notin CmdOps
    BY DEF CmdOps, StorageOps
<1>2. /\ call.id > 0 /\ fetching /\ Held(inst, call.id) /\ (~mode.buffer => NoneBuffered(inst))
    BY <1>1 DEF IInv, Phase, GetOps, Planning
<1>3. ~Planning(q)
    BY DEF Planning
<1> QED  BY <1>1, <1>2, <1>3 DEF Phase, GetOps

\* A call is planned.
LEMMA PlanStep ==
    ASSUME TextHandle, IInv, StepPlan
    PROVE  IInv'
<1>1. /\ todo # <<>> /\ Now.do = "plan"
      /\ rc' = IF mode.binary /\ call.op = "dump" THEN "FAILURE" ELSE rc
      /\ UNCHANGED <<srv, inst, call, ok, rep, flaws>> /\ Frame
    BY DEF StepPlan, Running
<1>2. PICK start : todo' = Plan(call.op, call.key, start)
    BY DEF StepPlan
<1>3. Planning(todo)
    BY <1>1 DEF Planning, Now
<1>4. /\ call.op \in CallOps /\ call.id \in 0..Calls /\ call.key \in Keys /\ mode \in Modes
      /\ Typed
    BY DEF IInv, Typed
<1>5. ~mode.binary
    BY <1>4, TextMode
<1>6. call.op # "none" /\ call.op # "generate"
    BY <1>3 DEF IInv, Phase, Planning
<1>7. \A do \in Dos : On(do, 0) \in StepSet /\ On(do, 0).do = do
    <2>1. 0 \in Servers
        BY CommandsAssumption DEF CommandsAssumption, Servers
    <2> QED  BY <1>4, <2>1, OnType
<1>8. "fetch" \in Dos /\ "fetch_end" \in Dos
    BY DEF Dos, Getters
<1>9. /\ todo' \in Seq(StepSet)
      /\ Phase(call.op, call.id, Hash[call.key], todo', no_reply, mode.buffer, ok, rc, fetching, inst)
    <2>1. CASE call.op \in CmdOps
        <3>1. Plans(todo')
            BY <1>2, <1>4, <1>6, <2>1, CommandPlans
        <3> QED  BY <1>3, <2>1, <3>1, PlannedCommand
    <2>2. CASE call.op = "get"
        <3> DEFINE q == memcached_mget_by_key_real(<<call.key>>, FALSE, start)
                   t == <<On("fetch", 0), On("fetch_end", 0)>>
        <3>1. <<call.key>> \in Seq(Keys) /\ Len(<<call.key>>) = 1 /\ <<call.key>>[1] = call.key
              /\ \A j \in 1..Len(<<call.key>>) : <<call.key>>[j] = call.key
            BY <1>4
        <3>2. Getting(q, 1, call.id, call.op, Hash[call.key])
            <4> DEFINE ks == <<call.key>>
            <4>1. ks \in Seq(Keys) /\ Len(ks) = 1 /\ \A j \in 1..Len(ks) : Hash[ks[j]] = Hash[call.key]
                BY <3>1
            <4> HIDE DEF ks
            <4>2. Getting(memcached_mget_by_key_real(ks, FALSE, start), Len(ks), call.id, call.op,
                          Hash[call.key])
                BY <1>4, <1>5, <4>1, GettingIs
            <4> QED  BY <4>1, <4>2 DEF ks
        <3>3. t \in Seq(StepSet) /\ Len(t) = 2 /\ t[1].do = "fetch" /\ t[2].do = "fetch_end"
            BY <1>7, <1>8
        <3>4. todo' = q \o t
            BY <1>2, <2>2 DEF Plan, memcached_get, StorageOps
        <3> HIDE DEF q, t
        <3>5. 1 \in Nat
            OBVIOUS
        <3>6. /\ q \o t \in Seq(StepSet) /\ Gets(q \o t, call.id, call.op, Hash[call.key])
              /\ q \o t # <<>> /\ (q \o t)[1].do = "purge"
              /\ \A s \in Servers : Left(q \o t, "purge", s)
            BY <2>2, <3>2, <3>3, <3>5, GetPlans
        <3> QED  BY <1>3, <2>2, <3>4, <3>6, PlannedGet DEF GetOps
    <2>3. CASE call.op = "mget"
        <3> DEFINE q == memcached_mget_by_key_real(KeySeq, TRUE, start)
        <3>1. KeySeq \in Seq(Keys) /\ Len(KeySeq) \in Nat
            BY CommandsAssumption, LenProperties DEF CommandsAssumption
        <3>2. Getting(q, Len(KeySeq), call.id, call.op, Hash[call.key])
            BY <1>4, <1>5, <2>3, <3>1, GettingIs
        <3>3. todo' = q /\ <<>> \in Seq(StepSet)
            BY <1>2, <2>3, EmptySeq DEF Plan, StorageOps
        <3> HIDE DEF q
        <3>4. /\ q \o <<>> \in Seq(StepSet) /\ Gets(q \o <<>>, call.id, call.op, Hash[call.key])
              /\ q \o <<>> # <<>> /\ (q \o <<>>)[1].do = "purge"
              /\ \A s \in Servers : Left(q \o <<>>, "purge", s)
            BY <3>1, <3>2, <3>3, GetPlans
        <3>5. q \o <<>> = q
            <4>1. q \in Seq(StepSet)
                BY <3>2 DEF Getting
            <4> QED  BY <4>1, ConcatEmptySeq
        <3> QED  BY <1>3, <2>3, <3>3, <3>4, <3>5, PlannedGet DEF GetOps
    <2>4. CASE call.op = "fetch"
        <3>1. todo' = <<On("fetch", 0)>>
            BY <1>2, <2>4 DEF Plan, StorageOps
        <3>2. todo' \in Seq(StepSet) /\ Len(todo') = 1 /\ todo'[1].do = "fetch" /\ todo' # <<>>
            BY <1>7, <1>8, <3>1
        <3> QED  BY <1>3, <2>4, <3>2, PlannedFetch
    <2> QED  BY <1>4, <1>6, <2>1, <2>2, <2>3, <2>4 DEF CallOps, GetOps
<1>10. UNCHANGED <<srv, inst, call, ok, rc, rep, flaws>> /\ Frame
    BY <1>1, <1>5
<1> QED  BY <1>4, <1>9, <1>10 DEF IInv, Typed, Frame

-----------------------------------------------------------------------------
(* The beginning and the end of a call.                                    *)

\* A get has missed: no connection owes it anything when the value that the
\* callback made is set.
LEMMA GenerateStep ==
    ASSUME TextHandle, IInv, Generate
    PROVE  IInv'
<1>1. /\ call.op = "get" /\ todo = <<>> /\ rc = "NOTFOUND"
      /\ call' = [call EXCEPT !.op = "generate"] /\ todo' = memcached_send("set", call.key)
      /\ UNCHANGED <<mode, no_reply, srv, inst, ok, rep, fetching, ret, faults, flaws>>
    BY DEF Generate
<1>2. /\ call \in [op : CallOps, id : 0..Calls, key : Keys] /\ mode \in Modes
      /\ no_reply \in BOOLEAN /\ call.id \in 0..Calls /\ call.key \in Keys
    BY DEF IInv, Typed
<1>3. mode.buffer \in BOOLEAN /\ mode.replicas = 0
    BY <1>2, TextMode
<1>4. /\ call'.op = "generate" /\ call'.id = call.id /\ call'.key = call.key
      /\ call' \in [op : CallOps, id : 0..Calls, key : Keys]
    BY <1>1, <1>2 DEF CallOps, CmdOps
<1>5. ~Planning(todo)
    BY <1>1 DEF Planning
<1>6. /\ GetConns(todo, call.id, call.op, Hash[call.key], mode.buffer, inst)
      /\ Missed(todo, call.op, rc, inst) /\ call.id > 0 /\ ~fetching
    BY <1>1, <1>5 DEF IInv, Phase, GetOps
<1>7. \A s \in Servers : InstOK(inst[s], call.id) /\ Fresh(inst[s], call.id)
    <2>1. \A s \in Servers : inst[s].cursor = 0 /\ InstOK(inst[s], call.id)
        BY <1>1, <1>6 DEF Missed, IInv
    <2>2. call.id \in Nat
        BY <1>2, CommandsAssumption DEF CommandsAssumption
    <2> QED  BY <1>6, <2>1, <2>2, NothingOwed
<1>8. ~mode.buffer => NoneBuffered(inst)
    <2>1. \A d, s : ~Left(todo, d, s)
        <3>1. Len(todo) = 0
            BY <1>1
        <3> QED  BY <3>1 DEF Left
    <2>2. \A s \in Servers : ~mode.buffer /\ inst[s].wbuf # <<>> => FALSE
        BY <1>6, <2>1 DEF GetConns, GetConn
    <2> QED  BY <2>2 DEF NoneBuffered
<1>9. Plans(todo')
    <2>1. "set" \in StorageOps
        BY DEF StorageOps
    <2> QED  BY <1>1, <1>2, <1>3, <2>1, SendPlans
<1>10. /\ todo' \in Seq(StepSet) /\ Commanding(todo', call.id, no_reply, mode.buffer)
       /\ (todo' # <<>> => todo'[1].do \notin Readers)
    BY <1>9 DEF Plans
<1>11. ~Planning(todo')
    <2>1. todo' # <<>> => 1 \in 1..Len(todo')
        BY <1>10, HeadTail
    <2> QED  BY <1>10, <2>1 DEF Planning, Commanding, Readers
<1>12. CmdConns(todo', call.id, ok', inst)
    <2>1. \A j \in 1..Len(todo') : todo'[j].s \in Servers
        BY <1>10, StepFields
    <2> QED  BY <1>7, <1>10, <2>1 DEF CmdConns
<1>13. Phase("generate", call.id, Hash[call.key], todo', no_reply, mode.buffer, ok', rc', fetching, inst)
    BY <1>6, <1>8, <1>10, <1>11, <1>12 DEF Phase, GetOps, CmdOps
<1>14. Typed'
    BY <1>1, <1>4, <1>10 DEF IInv, Typed
<1> QED  BY <1>1, <1>4, <1>7, <1>13, <1>14 DEF IInv

\* A call begins: whatever the connections still carry is old for it.
LEMMA BeginStep ==
    ASSUME TextHandle, IInv, NEW op \in Ops \cup {"fetch"}, NEW k \in Keys, Begin(op, k)
    PROVE  IInv'
<1> DEFINE id == IF op = "fetch" THEN call.id ELSE call.id + 1
<1>1. /\ todo = <<>> /\ call.op = "none" /\ (op \in mode.ops \/ op = "fetch")
      /\ (op = "fetch" => fetching) /\ (fetching => op \in {"fetch", "quit"})
      /\ (call.id < Calls \/ op = "fetch")
      /\ call' = [op |-> op, id |-> id, key |-> k] /\ todo' = <<On("plan", 0)>>
      /\ rc' = IF op = "fetch" THEN "END" ELSE "SUCCESS"
      /\ fetching' = (op = "mget" \/ (fetching /\ op # "quit"))
      /\ UNCHANGED <<mode, no_reply, srv, inst, faults, flaws>>
    BY DEF Begin, IsIdle
<1>2. /\ mode \in Modes /\ call.id \in 0..Calls /\ Calls \in Nat /\ call.id \in Nat
      /\ fetching \in BOOLEAN /\ Clean(flaws)
    BY CommandsAssumption DEF IInv, Typed, CommandsAssumption
<1>3. id \in 0..Calls
    BY <1>1, <1>2
<1>4. /\ fetching => Held(inst, call.id) /\ call.id > 0
      /\ ~mode.buffer => NoneBuffered(inst)
    BY <1>1 DEF IInv, Phase, GetOps
<1>5. \A s \in Servers : /\ InstOK(inst[s], id) /\ (op # "fetch" => Fresh(inst[s], id))
    <2>1. \A s \in Servers : InstOK(inst[s], call.id)
        BY DEF IInv
    <2> QED  BY <1>2, <2>1, NextCall
<1>6. op \in CallOps /\ op \notin {"none", "generate"}
    BY DEF Ops, CallOps, CmdOps, GetOps, StorageOps
<1>7. id > 0
    BY <1>1, <1>2, <1>4
<1>8. On("plan", 0) \in StepSet /\ On("plan", 0).do = "plan"
    <2>1. 0 \in Servers /\ "plan" \in Dos /\ call.id \in 0..Calls
        BY <1>2, CommandsAssumption DEF CommandsAssumption, Servers, Dos
    <2> QED  BY <2>1, OnType
<1>9. /\ todo' \in Seq(StepSet) /\ Len(todo') = 1 /\ Planning(todo') /\ todo' # <<>>
    BY <1>1, <1>8 DEF Planning
<1>10. fetching' \in BOOLEAN /\ (fetching' => op \in {"mget", "fetch"}) /\ (op = "fetch" => fetching')
    BY <1>1, <1>2
<1>11. op = "fetch" => Held(inst, id)
    BY <1>1, <1>4
<1>12. rc' # "NOTFOUND"
    BY <1>1
<1>13. call' \in [op : CallOps, id : 0..Calls, key : Keys]
       /\ call'.op = op /\ call'.id = id /\ call'.key = k
    BY <1>1, <1>3, <1>6
<1>14. mode.noreply => op \notin {"version", "stat", "dump"}
    BY <1>1, <1>2, TextMode
<1> HIDE DEF id
<1>15. Phase(op, id, Hash[k], todo', no_reply, mode.buffer, ok', rc', fetching', inst)
    BY <1>4, <1>5, <1>6, <1>7, <1>9, <1>10, <1>11, <1>12 DEF Phase
<1>16. Typed'
    BY <1>1, <1>9, <1>10, <1>13, <1>14 DEF IInv, Typed
<1> QED  BY <1>1, <1>2, <1>5, <1>13, <1>15, <1>16 DEF IInv

\* A call returns.  After an mget no connection owes more than one answer,
\* and all of its requests have been sent.
LEMMA EndStep ==
    ASSUME IInv, End
    PROVE  IInv'
<1>1. /\ call.op # "none" /\ todo = <<>> /\ call' = [call EXCEPT !.op = "none"]
      /\ UNCHANGED <<mode, no_reply, srv, inst, todo, ok, rc, rep, fetching, abs, faults, flaws>>
    BY DEF End
<1>2. call \in [op : CallOps, id : 0..Calls, key : Keys] /\ call.op \in CallOps
    BY DEF IInv, Typed
<1>3. /\ call'.op = "none" /\ call'.id = call.id /\ call'.key = call.key
      /\ call' \in [op : CallOps, id : 0..Calls, key : Keys]
    BY <1>1, <1>2 DEF CallOps
<1>4. ~Planning(todo) /\ call.id > 0
    BY <1>1 DEF Planning, IInv, Phase
<1>5. \A d, s : ~Left(todo, d, s)
    <2>1. Len(todo) = 0
        BY <1>1
    <2> QED  BY <2>1 DEF Left
<1>6. call.op \in GetOps => /\ Held(inst, call.id)
                            /\ ~mode.buffer => NoneBuffered(inst)
    <2>1. SUFFICES ASSUME call.op \in GetOps
                   PROVE  Held(inst, call.id) /\ (~mode.buffer => NoneBuffered(inst))
        OBVIOUS
    <2>2. GetConns(todo, call.id, call.op, Hash[call.key], mode.buffer, inst)
        BY <1>4, <2>1 DEF IInv, Phase
    <2>3. \A s \in Servers : Mine(inst[s], call.id) /\ Sent(inst[s])
                             /\ (~mode.buffer => inst[s].wbuf = <<>>)
        BY <1>5, <2>2 DEF GetConns, GetConn
    <2> QED  BY <2>3 DEF Held, NoneBuffered
<1>7. /\ fetching => Held(inst, call.id)
      /\ ~mode.buffer => NoneBuffered(inst)
    <2>1. fetching => call.op \in GetOps \/ call.op = "fetch"
        BY <1>1 DEF IInv, Phase, GetOps
    <2>2. call.op = "fetch" /\ fetching => Held(inst, call.id)
        BY DEF IInv, Phase
    <2>3. call.op \notin GetOps /\ ~mode.buffer => NoneBuffered(inst)
        BY DEF IInv, Phase
    <2> QED  BY <1>6, <2>1, <2>2, <2>3
<1>8. Phase("none", call.id, Hash[call.key], todo, no_reply, mode.buffer, ok, rc, fetching, inst)
    BY <1>1, <1>4, <1>7 DEF Phase, GetOps, CmdOps, StorageOps
<1>9. Typed'
    BY <1>1, <1>3 DEF IInv, Typed
<1> QED  BY <1>1, <1>3, <1>8, <1>9 DEF IInv

\* NOREPLY is switched between two calls.
LEMMA NoReplyStep ==
    ASSUME IInv, SetNoReply
    PROVE  IInv'
<1>1. /\ call.op = "none" /\ todo = <<>> /\ mode.noreply /\ no_reply' = ~no_reply
      /\ UNCHANGED <<mode, srv, inst, call, todo, ok, rc, rep, fetching, ret, abs, faults, flaws>>
    BY DEF SetNoReply, IsIdle
<1>2. "none" \notin CmdOps /\ "none" \notin GetOps
    BY DEF CmdOps, GetOps, StorageOps
<1>3. Phase(call.op, call.id, Hash[call.key], todo, no_reply', mode.buffer, ok, rc, fetching, inst)
    BY <1>1, <1>2 DEF IInv, Phase
<1>4. Typed'
    <2>1. no_reply' \in BOOLEAN
        BY <1>1
    <2> QED  BY <1>1, <2>1 DEF IInv, Typed
<1> QED  BY <1>1, <1>3, <1>4 DEF IInv

-----------------------------------------------------------------------------
(* The faults of the servers.                                              *)

\* The instances may lose what has not been read; nothing else changes.
LEMMA FaultStep ==
    ASSUME IInv, FaultFrame, faults' \in 0..MaxFaults, srv' \in [Servers -> Srvs],
           inst' \in [Servers -> Insts],
           \A s \in Servers : inst'[s] = inst[s] \/ inst'[s] \in Break(s)
    PROVE  IInv'
<1> DEFINE id == call.id
<1>1. UNCHANGED <<mode, no_reply, call, todo, ok, rc, rep, fetching, ret, abs, flaws>>
    BY DEF FaultFrame
<1>2. ASSUME NEW s \in Servers
      PROVE  /\ InstOK(inst'[s], id) /\ inst'[s].cursor = inst[s].cursor
             /\ inst'[s].wbuf = inst[s].wbuf
             /\ (Fresh(inst[s], id) => Fresh(inst'[s], id))
             /\ (Mine(inst[s], id) => Mine(inst'[s], id))
             /\ (Sent(inst[s]) => Sent(inst'[s]))
             /\ (Reading(inst[s], id) => Reading(inst'[s], id))
    <2>1. InstOK(inst[s], id)
        BY DEF IInv
    <2>2. CASE inst'[s] = inst[s]
        BY <2>1, <2>2
    <2>3. CASE inst'[s] \in Break(s)
        BY <2>1, <2>3, BreakOK
    <2> QED  BY <2>2, <2>3
<1>3. todo \in Seq(StepSet)
    BY DEF IInv, Typed
<1>4. \A j \in 1..Len(todo) : todo[j].s \in Servers
    BY <1>3, StepFields
<1>5. todo # <<>> => 1 \in 1..Len(todo)
    BY <1>3, HeadTail
<1>6. Held(inst, id) => Held(inst', id)
    BY <1>2 DEF Held
<1>7. NoneBuffered(inst) => NoneBuffered(inst')
    BY <1>2 DEF NoneBuffered
<1>8. CmdConns(todo, id, ok, inst) => CmdConns(todo, id, ok, inst')
    BY <1>2, <1>4, <1>5 DEF CmdConns
<1>9. ASSUME NEW op, NEW home, NEW buf, GetConns(todo, id, op, home, buf, inst)
      PROVE  GetConns(todo, id, op, home, buf, inst')
    <2>1. ASSUME NEW s \in Servers, NEW purge, NEW newline, NEW away,
                 GetConn(inst[s], id, purge, newline, away, buf)
          PROVE  GetConn(inst'[s], id, purge, newline, away, buf)
        BY <1>2, <2>1 DEF GetConn
    <2>2. \A s \in Servers :
              GetConn(inst[s], id, Left(todo, "purge", s), Left(todo, "newline", s),
                      op = "get" /\ s # home, buf)
        BY <1>9 DEF GetConns
    <2>3. \A s \in Servers :
              GetConn(inst'[s], id, Left(todo, "purge", s), Left(todo, "newline", s),
                      op = "get" /\ s # home, buf)
        BY <2>1, <2>2
    <2> QED  BY <2>3 DEF GetConns
<1>10. Missed(todo, call.op, rc, inst) => Missed(todo, call.op, rc, inst')
    BY <1>2 DEF Missed
<1>11. Phase(call.op, id, Hash[call.key], todo, no_reply, mode.buffer, ok, rc, fetching, inst')
    <2>1. Phase(call.op, id, Hash[call.key], todo, no_reply, mode.buffer, ok, rc, fetching, inst)
        BY DEF IInv
    <2>2. (\A s \in Servers : Fresh(inst[s], id)) => \A s \in Servers : Fresh(inst'[s], id)
        BY <1>2
    <2> HIDE DEF id
    <2> QED  BY <1>6, <1>7, <1>8, <1>9, <1>10, <2>1, <2>2 DEF Phase
<1>12. Typed'
    BY <1>1 DEF IInv, Typed
<1> QED  BY <1>1, <1>2, <1>11, <1>12 DEF IInv

\* A fault is one more, within the bound.
LEMMA FaultCount ==
    ASSUME Typed, NEW kind, Fault(kind)
    PROVE  faults' \in 0..MaxFaults
BY CommandsAssumption DEF CommandsAssumption, Fault, Typed

\* Breaking one connection leaves the others.
LEMMA BreakType ==
    ASSUME IInv, NEW s \in Servers, NEW i \in Break(s), inst' = [inst EXCEPT ![s] = i]
    PROVE  /\ inst' \in [Servers -> Insts]
           /\ \A t \in Servers : inst'[t] = inst[t] \/ inst'[t] \in Break(t)
<1>1. inst \in [Servers -> Insts] /\ InstOK(inst[s], call.id)
    BY DEF IInv, Typed
<1>2. InstOK(i, call.id)
    BY <1>1, BreakOK
<1>3. i \in Insts
    BY <1>2 DEF InstOK
<1> QED  BY <1>1, <1>3

\* A server crashes, comes back or runs out of memory, or a connection breaks.
LEMMA ServerStep ==
    ASSUME IInv, NEW s \in Servers,
           ServerCrash(s) \/ ServerRestart(s) \/ ConnectionDrop(s) \/ ServerFull(s)
    PROVE  IInv'
<1>1. /\ Typed /\ srv \in [Servers -> Srvs] /\ inst \in [Servers -> Insts]
      /\ faults \in 0..MaxFaults /\ srv[s] \in Srvs
    BY DEF IInv, Typed
<1>2. [k \in Keys |-> Nothing] \in [Keys -> 0..Calls]
    BY ZeroIsValue
<1>3. CASE ServerCrash(s)
    <2>1. faults' \in 0..MaxFaults /\ FaultFrame
        BY <1>1, <1>3, FaultCount DEF ServerCrash
    <2>2. srv' \in [Servers -> Srvs]
        <3>1. srv' = [srv EXCEPT ![s] = [srv[s] EXCEPT !.up = FALSE, !.data = [k \in Keys |-> Nothing]]]
            BY <1>3 DEF ServerCrash
        <3>2. [srv[s] EXCEPT !.up = FALSE, !.data = [k \in Keys |-> Nothing]] \in Srvs
            BY <1>1, <1>2 DEF Srvs
        <3> QED  BY <1>1, <3>1, <3>2
    <2>3. PICK i \in Break(s) : inst' = [inst EXCEPT ![s] = i]
        BY <1>3 DEF ServerCrash
    <2>4. /\ inst' \in [Servers -> Insts]
          /\ \A t \in Servers : inst'[t] = inst[t] \/ inst'[t] \in Break(t)
        BY <2>3, BreakType
    <2> QED  BY <2>1, <2>2, <2>4, FaultStep
<1>4. CASE ServerRestart(s)
    <2>1. faults' \in 0..MaxFaults /\ FaultFrame /\ inst' = inst
        BY <1>1, <1>4 DEF ServerRestart
    <2>2. srv' \in [Servers -> Srvs]
        <3>1. srv' = [srv EXCEPT ![s].up = TRUE]
            BY <1>4 DEF ServerRestart
        <3> QED  BY <1>1, <3>1 DEF Srvs
    <2> QED  BY <1>1, <2>1, <2>2, FaultStep
<1>5. CASE ConnectionDrop(s)
    <2>1. faults' \in 0..MaxFaults /\ FaultFrame /\ srv' = srv
        BY <1>1, <1>5, FaultCount DEF ConnectionDrop
    <2>2. PICK i \in Break(s) : inst' = [inst EXCEPT ![s] = i]
        BY <1>5 DEF ConnectionDrop
    <2>3. /\ inst' \in [Servers -> Insts]
          /\ \A t \in Servers : inst'[t] = inst[t] \/ inst'[t] \in Break(t)
        BY <2>2, BreakType
    <2> QED  BY <1>1, <2>1, <2>3, FaultStep
<1>6. CASE ServerFull(s)
    <2>1. faults' \in 0..MaxFaults /\ FaultFrame /\ inst' = inst
        BY <1>1, <1>6, FaultCount DEF ServerFull
    <2>2. srv' \in [Servers -> Srvs]
        <3>1. srv' = [srv EXCEPT ![s].full = TRUE]
            BY <1>6 DEF ServerFull
        <3> QED  BY <1>1, <3>1 DEF Srvs
    <2> QED  BY <1>1, <2>1, <2>2, FaultStep
<1> QED  BY <1>3, <1>4, <1>5, <1>6

-----------------------------------------------------------------------------
(* The theorems.                                                           *)

\* A new handle satisfies the invariant.
LEMMA InitInv ==
    ASSUME Init
    PROVE  IInv
<1>1. /\ call = Idle /\ todo = <<>> /\ fetching = FALSE /\ faults = 0 /\ no_reply = FALSE
      /\ mode \in Modes /\ inst = [s \in Servers |-> Closed]
      /\ srv = [s \in Servers |-> [up |-> TRUE, data |-> [k \in Keys |-> Nothing], full |-> FALSE]]
      /\ flaws = [stray |-> FALSE, idle |-> FALSE, misread |-> FALSE]
    BY DEF Init
<1>2. Calls \in Nat /\ MaxFaults \in Nat /\ 0 \in Nat
    BY CommandsAssumption DEF CommandsAssumption
<1>3. InstOK(Closed, 0) /\ Closed.wbuf = <<>> /\ Closed \in Insts
    <2>1. Closed \in {Closed, Opened}
        OBVIOUS
    <2> QED  BY <1>2, <2>1, NewInst DEF InstOK
<1>4. /\ call.op = "none" /\ call.id = 0 /\ call.key \in Keys
      /\ call \in [op : CallOps, id : 0..Calls, key : Keys]
    BY <1>1, <1>2, FirstKey DEF Idle, CallOps
<1>5. srv \in [Servers -> Srvs]
    <2>1. [k \in Keys |-> Nothing] \in [Keys -> 0..Calls]
        BY ZeroIsValue
    <2> QED  BY <1>1, <2>1 DEF Srvs
<1>6. Typed
    <2>1. todo \in Seq(StepSet)
        BY <1>1, EmptySeq
    <2>2. inst \in [Servers -> Insts]
        BY <1>1, <1>3
    <2>3. faults \in 0..MaxFaults
        BY <1>1, <1>2
    <2> QED  BY <1>1, <1>4, <1>5, <2>1, <2>2, <2>3 DEF Typed
<1>7. Phase(call.op, call.id, Hash[call.key], todo, no_reply, mode.buffer, ok, rc, fetching, inst)
    <2>1. NoneBuffered(inst)
        BY <1>1, <1>3 DEF NoneBuffered
    <2>2. ~Planning(todo)
        BY <1>1 DEF Planning
    <2> QED  BY <1>1, <1>4, <2>1, <2>2 DEF Phase, CmdOps, GetOps, StorageOps
<1>8. \A s \in Servers : InstOK(inst[s], call.id)
    BY <1>1, <1>3, <1>4
<1> QED  BY <1>1, <1>6, <1>7, <1>8 DEF IInv, Clean

\* The steps that only the binary protocol and replicas have are never taken.
LEMMA NoBinarySteps ==
    ASSUME IInv
    PROVE  ~StepPending /\ ~StepGetk /\ ~StepNoop /\ ~StepReplicaGet /\ ~StepRound
<1>1. todo # <<>> => Now.do \in Dos
    <2>1. todo \in Seq(StepSet)
        BY DEF IInv, Typed
    <2>2. todo # <<>> => 1 \in 1..Len(todo)
        BY <2>1, HeadTail
    <2> QED  BY <2>1, <2>2, StepFields DEF Now
<1>2. {"pending", "getk", "noop", "rget", "round"} \cap Dos = {}
    BY DEF Dos, Readers, Getters
<1> QED  BY <1>1, <1>2 DEF StepPending, StepGetk, StepNoop, StepReplicaGet, StepRound, Running

\* A step of the environment preserves it.
LEMMA StutterStep ==
    ASSUME IInv, UNCHANGED vars
    PROVE  IInv'
<1>1. UNCHANGED <<mode, no_reply, srv, inst, call, todo, ok, rc, fetching, faults, flaws>>
    BY DEF vars
<1> QED  BY <1>1 DEF IInv, Typed

\* Every step of a handle in the text protocol preserves the invariant.
LEMMA NextInv ==
    ASSUME TextHandle, IInv, [Next]_vars
    PROVE  IInv'
<1>1. CASE Steps
    <2>1. ~StepPending /\ ~StepGetk /\ ~StepNoop /\ ~StepReplicaGet /\ ~StepRound
        BY NoBinarySteps
    <2> QED  BY <1>1, <2>1, PlanStep, DoStep, ResponseStep, StatsStep, DumpStep, PurgeStep,
                KeyStep, NewlineStep, FetchStep, QuitStep, GenerateStep, EndStep DEF Steps
<1>2. CASE SetNoReply
    BY <1>2, NoReplyStep
<1>3. CASE \E op \in Ops \cup {"fetch"}, k \in Keys : Begin(op, k)
    BY <1>3, BeginStep
<1>4. CASE \E s \in Servers :
              ServerCrash(s) \/ ServerRestart(s) \/ ConnectionDrop(s) \/ ServerFull(s)
    BY <1>4, ServerStep
<1>5. CASE Done \/ UNCHANGED vars
    BY <1>5, StutterStep DEF Done
<1> QED  BY <1>1, <1>2, <1>3, <1>4, <1>5 DEF Next

\* memcached_behavior_set of the protocol, of blocking and of buffering is no
\* action: the mode is chosen once.
LEMMA ModeKept == [Next]_vars => mode' = mode
<1> SUFFICES ASSUME [Next]_vars PROVE mode' = mode
    OBVIOUS
<1> USE DEF Frame
<1>1. CASE StepPlan \/ StepDo \/ StepQuit \/ StepGetk \/ StepRound
    BY <1>1 DEF StepPlan, StepDo, StepQuit, StepGetk, StepRound
<1>2. CASE StepResponse \/ StepPending
    BY <1>2 DEF StepResponse, StepPending, Skip, ReadCounter, ReadOld, ReadLast
<1>3. CASE StepStats
    BY <1>3 DEF StepStats, Skip, ReadOld, ReadLast
<1>4. CASE StepDump
    BY <1>4 DEF StepDump, ReadOld, ReadLast
<1>5. CASE StepPurge
    BY <1>5 DEF StepPurge, Skip, FlushFirst
<1>6. CASE StepKey
    BY <1>6 DEF StepKey
<1>7. CASE StepNewline \/ StepNoop
    BY <1>7 DEF StepNewline, StepNoop, Skip
<1>8. CASE StepReplicaGet
    BY <1>8 DEF StepReplicaGet, Skip
<1>9. CASE StepFetch
    BY <1>9 DEF StepFetch, FetchFrame
<1>10. CASE Generate \/ End
    BY <1>10 DEF Generate, End
<1>11. CASE SetNoReply \/ Done \/ UNCHANGED vars
    BY <1>11 DEF SetNoReply, Done, vars
<1>12. CASE \E op \in Ops \cup {"fetch"}, k \in Keys : Begin(op, k)
    BY <1>12 DEF Begin
<1>13. CASE \E s \in Servers :
               ServerCrash(s) \/ ServerRestart(s) \/ ConnectionDrop(s) \/ ServerFull(s)
    BY <1>13 DEF ServerCrash, ServerRestart, ConnectionDrop, ServerFull, FaultFrame
<1> QED  BY <1>1, <1>2, <1>3, <1>4, <1>5, <1>6, <1>7, <1>8, <1>9, <1>10, <1>11, <1>12, <1>13
         DEF Next, Steps

\* The inductive invariant of a handle in the text protocol.
THEOREM Induction == Spec => [](TextHandle => IInv)
<1>1. Init => (TextHandle => IInv)
    BY InitInv
<1>2. (TextHandle => IInv) /\ [Next]_vars => (TextHandle => IInv)'
    <2>1. SUFFICES ASSUME TextHandle => IInv, [Next]_vars, TextHandle' PROVE IInv'
        OBVIOUS
    <2>2. TextHandle
        BY <2>1, ModeKept DEF TextHandle
    <2> QED  BY <2>1, <2>2, NextInv
<1> QED  BY <1>1, <1>2, PTL DEF Spec

\* The invariant implies the types: no count reaches the modulus.
LEMMA InvType == IInv => TypeOK
<1> SUFFICES ASSUME IInv PROVE TypeOK
    OBVIOUS
<1>1. /\ mode \in Modes /\ no_reply \in BOOLEAN /\ faults \in 0..MaxFaults
      /\ call.id \in 0..Calls /\ srv \in [Servers -> Srvs]
      /\ \A s \in Servers : InstOK(inst[s], call.id)
    BY DEF IInv, Typed
<1>2. Calls \in Nat /\ CursorMod \in Nat /\ CursorMod > Calls + 3
    BY CommandsAssumption DEF CommandsAssumption
<1>3. ASSUME NEW s \in Servers
      PROVE  /\ inst[s].cursor \in 0..(CursorMod - 1)
             /\ ~inst[s].fd => inst[s].rbuf = <<>>
             /\ srv[s].data \in [Keys -> 0..Calls]
    <2>1. /\ inst[s] \in Insts /\ inst[s].cursor <= call.id /\ (~inst[s].fd => inst[s] = Closed)
        BY <1>1 DEF InstOK
    <2>2. inst[s].cursor \in 0..(CursorMod - 1)
        <3>1. inst[s].cursor \in Nat
            BY <2>1 DEF Insts
        <3> QED  BY <1>1, <1>2, <2>1, <3>1
    <2>3. Closed.rbuf = <<>>
        BY DEF Closed
    <2>4. srv[s].data \in [Keys -> 0..Calls]
        BY <1>1 DEF Srvs
    <2> QED  BY <2>1, <2>2, <2>3, <2>4
<1> QED  BY <1>1, <1>3 DEF TypeOK

\* On a sound connection the count is exact.
LEMMA InvInStep ==
    ASSUME TextHandle
    PROVE  IInv => InStep
<1> SUFFICES ASSUME IInv, NEW s \in Servers, inst[s].fd, ~inst[s].broken
             PROVE  inst[s].cursor = Cardinality({j \in Kept(inst[s].rbuf) : ~inst[s].rbuf[j].more})
                                     + Cardinality({j \in 1..Len(inst[s].wbuf) : ~inst[s].wbuf[j].quiet})
    BY DEF InStep
<1> DEFINE i == inst[s]
<1>1. InstOK(i, call.id) /\ mode \in Modes
    BY DEF IInv, Typed
<1>2. ~mode.binary
    BY <1>1, TextMode
<1>3. i.cursor = Finals(i.rbuf) + Asked(i.wbuf)
    BY <1>1 DEF InstOK, Balance
<1>4. Kept(i.rbuf) = 1..Len(i.rbuf)
    BY <1>2 DEF Kept, Discarded
<1> QED  BY <1>3, <1>4 DEF Finals, Asked

\* The counts and what the connections carry have their types, and a closed
\* connection has nothing left to read: cursor_active never wraps.
THEOREM TypeCorrect == Spec => [](TextHandle => TypeOK)
BY Induction, InvType, PTL

\* Every answer that a command takes for its own was given to one of its own
\* requests: however often servers crash, connections break, calls are left
\* unread or buffered, memcached_response and memcached_fetch never take the
\* answer of another call.
THEOREM OwnAnswers == Spec => [](TextHandle => OwnAnswer)
<1>1. IInv => OwnAnswer
    BY DEF IInv, Clean, OwnAnswer
<1> QED  BY <1>1, Induction, PTL

\* The client never waits for an answer on a sound connection that owes none.
THEOREM NeverIdles == Spec => [](TextHandle => NeverIdle)
<1>1. IInv => NeverIdle
    BY DEF IInv, Clean, NeverIdle
<1> QED  BY <1>1, Induction, PTL

\* Between two calls cursor_active of a sound connection is the number of
\* answers that are read or asked for but not taken.
THEOREM CountsExact == Spec => [](TextHandle => InStep)
<1>1. TextHandle /\ IInv => InStep
    BY InvInStep
<1> QED  BY <1>1, Induction, PTL
=============================================================================
