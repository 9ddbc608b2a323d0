------------------------- MODULE DistributionProofs -------------------------
(***************************************************************************)
(* Proofs about Distribution: whatever the hosts, their weights and their   *)
(* digests, the continuum fits its array, a key goes to the owner of its    *)
(* point, an ejected host is scheduled to return, and a change of the       *)
(* servers moves only the keys of the servers that changed.                 *)
(***************************************************************************)
EXTENDS Distribution, FiniteSetTheorems, SequenceTheorems, TLAPS

-----------------------------------------------------------------------------
(* Least elements, and the order of a finite set.                          *)

\* A set of natural numbers has a least one.
LEMMA LeastNat ==
    ASSUME NEW T \in SUBSET Nat, T # {}
    PROVE  \E n \in T : \A m \in T : n <= m
<1>1. PICK n \in T : \A m \in T : ~ (<<m, n>> \in OpToRel(<, Nat))
    BY NatLessThanWellFounded, WFMin, Zenon
<1>2. \A m \in T : ~ (m < n)
    BY <1>1 DEF OpToRel
<1> QED  BY <1>2

\* Min finds it.
LEMMA MinIsLeast ==
    ASSUME NEW T \in SUBSET Nat, T # {}
    PROVE  Min(T) \in T /\ \A m \in T : Min(T) <= m
BY LeastNat, Zenon DEF Min

\* Among subsets of a finite set there is one that no other lies in.
LEMMA SmallestSubset ==
    ASSUME NEW S, IsFiniteSet(S), NEW B \in SUBSET (SUBSET S), B # {}
    PROVE  \E T \in B : \A U \in B : U \subseteq T => U = T
<1>1. IsWellFoundedOn(StrictSubsetOrdering(S), SUBSET S)
    BY FS_StrictSubsetOrderingWellFounded, FS_FiniteSubsetsOfFinite
<1>2. PICK T \in B : \A U \in B : ~ (<<U, T>> \in StrictSubsetOrdering(S))
    BY <1>1, WFMin, Zenon
<1>3. ASSUME NEW U \in B, U \subseteq T PROVE U = T
    BY <1>2, <1>3 DEF StrictSubsetOrdering
<1> QED  BY <1>3

\* How many elements of S have a smaller value.
Rank(S, val, x) == Cardinality({y \in S : val[y] < val[x]})

\* Different values give the ranks from 0 on, each to one element, in order.
LEMMA Ranked ==
    ASSUME NEW S, IsFiniteSet(S), NEW val \in [S -> Int],
           \A x, y \in S : val[x] = val[y] => x = y
    PROVE  /\ Cardinality(S) \in Nat
           /\ \A x \in S : Rank(S, val, x) \in 0..(Cardinality(S) - 1)
           /\ \A x, y \in S : val[x] < val[y] => Rank(S, val, x) < Rank(S, val, y)
           /\ \A x, y \in S : Rank(S, val, x) = Rank(S, val, y) => x = y
           /\ \A i \in 0..(Cardinality(S) - 1) : \E x \in S : Rank(S, val, x) = i
<1> DEFINE Below(x) == {y \in S : val[y] < val[x]}
<1> PICK b : b = [x \in S |-> Cardinality(Below(x))]
    OBVIOUS
<1>0. \A x \in S : Rank(S, val, x) = b[x] /\ b[x] = Cardinality(Below(x))
    BY DEF Rank
<1>1. \A x \in S : IsFiniteSet(Below(x)) /\ Cardinality(Below(x)) \in Nat
    BY FS_Subset, FS_CardinalityType
<1>2. Cardinality(S) \in Nat
    BY FS_CardinalityType
<1>3. ASSUME NEW x \in S PROVE b[x] + 1 <= Cardinality(S)
    <2>1. Below(x) \cup {x} \subseteq S /\ x \notin Below(x)
        OBVIOUS
    <2>2. Cardinality(Below(x) \cup {x}) = Cardinality(Below(x)) + 1
        BY <1>1, <2>1, FS_AddElement
    <2>3. Cardinality(Below(x) \cup {x}) <= Cardinality(S)
        BY <2>1, FS_Subset
    <2> QED  BY <1>0, <2>2, <2>3
<1>4. ASSUME NEW x \in S, NEW y \in S, val[x] < val[y]
      PROVE  b[x] < b[y]
    <2>1. Below(x) \cup {x} \subseteq Below(y) /\ x \notin Below(x)
        BY <1>4
    <2>2. Cardinality(Below(x) \cup {x}) = Cardinality(Below(x)) + 1
        BY <1>1, <2>1, FS_AddElement
    <2>3. Cardinality(Below(x) \cup {x}) <= Cardinality(Below(y))
        BY <1>1, <2>1, FS_Subset
    <2>4. b[x] = Cardinality(Below(x)) /\ b[y] = Cardinality(Below(y))
        BY <1>0
    <2>5. Cardinality(Below(x)) \in Nat /\ Cardinality(Below(y)) \in Nat
        BY <1>1
    <2> HIDE DEF Below
    <2> QED  BY <2>2, <2>3, <2>4, <2>5
<1>5. b \in [S -> Nat]
    BY <1>0, <1>1
<1> HIDE DEF Below
<1>6. ASSUME NEW x \in S, NEW y \in S, b[x] = b[y] PROVE x = y
    <2>1. ~ (val[x] < val[y]) /\ ~ (val[y] < val[x])
        BY <1>4, <1>5, <1>6
    <2> QED  BY <2>1
<1>7. b \in [S -> 0..(Cardinality(S) - 1)]
    BY <1>2, <1>3, <1>5
<1> DEFINE N == 0..(Cardinality(S) - 1)
<1>8. IsFiniteSet(N) /\ Cardinality(N) = Cardinality(S)
    <2>1. Cardinality(S) - 1 \in Int
        BY <1>2
    <2> QED  BY <1>2, <2>1, FS_Interval
<1>9. b \in Injection(S, N)
    BY <1>6, <1>7 DEF Injection, IsInjective
<1>10. b \in Surjection(S, N)
    BY <1>8, <1>9, FS_Injection
<1>11. \A i \in N : \E x \in S : b[x] = i
    BY <1>10 DEF Surjection
<1>12. \A x \in S : b[x] \in N
    BY <1>7
<1> HIDE DEF N
<1> QED  BY <1>0, <1>2, <1>4, <1>6, <1>11, <1>12 DEF N

-----------------------------------------------------------------------------
(* sort_hosts and qsort.                                                   *)

\* Hosts are numbers.
LEMMA HostsAreNumbers == \A h \in Hosts : h \in Nat
BY DistributionAssumption

\* A list in which no host comes twice.
Distinct(l) == l \in Seq(Hosts) /\ \A i, j \in DOMAIN l : l[i] = l[j] => i = j

\* The set of a list's hosts has as many members as the list.
LEMMA DistinctSet ==
    ASSUME NEW l, Distinct(l)
    PROVE  /\ ToSet(l) \in SUBSET Hosts /\ IsFiniteSet(ToSet(l))
           /\ Cardinality(ToSet(l)) = Len(l) /\ Len(l) \in Nat
           /\ DOMAIN l = 1..Len(l)
           /\ \A h \in ToSet(l) : \E i \in DOMAIN l : l[i] = h
           /\ \A i \in DOMAIN l : l[i] \in ToSet(l)
           /\ Len(l) <= Cardinality(Hosts) /\ Cardinality(Hosts) \in Nat
<1>1. Len(l) \in Nat /\ DOMAIN l = 1..Len(l)
    BY LenProperties DEF Distinct
<1>2. \A h \in ToSet(l) : \E i \in DOMAIN l : l[i] = h
    BY DEF ToSet
<1>3. \A i \in DOMAIN l : l[i] \in ToSet(l) /\ l[i] \in Hosts
    BY ElementOfSeq, <1>1 DEF ToSet, Distinct
<1>4. l \in Bijection(1..Len(l), ToSet(l))
    <2>1. l \in [1..Len(l) -> ToSet(l)]
        BY <1>1, <1>3, SeqDef DEF Distinct
    <2> QED  BY <2>1, <1>1, <1>2 DEF Distinct, Bijection, Injection, Surjection, IsInjective
<1>5. ExistsBijection(1..Len(l), ToSet(l))
    BY <1>4 DEF ExistsBijection
<1>6. Cardinality(ToSet(l)) = Len(l)
    BY <1>1, <1>5, FS_CountingElements
<1>7. ToSet(l) \in SUBSET Hosts
    BY <1>2, <1>3
<1>8. IsFiniteSet(Hosts)
    BY DistributionAssumption
<1>9. IsFiniteSet(ToSet(l)) /\ Cardinality(ToSet(l)) <= Cardinality(Hosts)
    BY <1>7, <1>8, FS_Subset
<1>10. Cardinality(Hosts) \in Nat
    BY <1>8, FS_CardinalityType
<1> QED  BY <1>1, <1>2, <1>3, <1>6, <1>7, <1>9, <1>10

\* sort_hosts: the same hosts, each once.
LEMMA SortHostsKeeps ==
    ASSUME NEW l, Distinct(l)
    PROVE  Distinct(SortHosts(l)) /\ ToSet(SortHosts(l)) = ToSet(l)
           /\ Len(SortHosts(l)) = Len(l)
<1> DEFINE S == ToSet(l)
<1>0. PICK n \in Nat : n = Len(l)
    BY DistinctSet
<1>1. /\ S \in SUBSET Hosts /\ IsFiniteSet(S) /\ Cardinality(S) = n
      /\ DOMAIN l = 1..n
    BY <1>0, DistinctSet
<1>2. PICK val \in [S -> Int] : \A x \in S : val[x] = x
    <2> HIDE DEF S
    <2>1. \A h \in S : h \in Int
        BY <1>1, HostsAreNumbers
    <2>2. [h \in S |-> h] \in [S -> Int]
        BY <2>1
    <2> QED  BY <2>2
<1>3. /\ \A x, y \in S : Rank(S, val, x) = Rank(S, val, y) => x = y
      /\ \A i \in 0..(n - 1) : \E x \in S : Rank(S, val, x) = i
      /\ \A x \in S : Rank(S, val, x) \in 0..(n - 1)
    <2> HIDE DEF S
    <2>1. /\ \A x \in S : Rank(S, val, x) \in 0..(Cardinality(S) - 1)
          /\ \A x, y \in S : Rank(S, val, x) = Rank(S, val, y) => x = y
          /\ \A i \in 0..(Cardinality(S) - 1) : \E x \in S : Rank(S, val, x) = i
        <3>1. \A x, y \in S : val[x] = val[y] => x = y
            BY <1>2
        <3>2. IsFiniteSet(S)
            BY <1>1
        <3> QED  BY <3>1, <3>2, Ranked
    <2>2. 0..(Cardinality(S) - 1) = 0..(n - 1)
        BY <1>1
    <2> QED  BY <2>1, <2>2, Zenon
<1>4. \A h \in S : Rank(S, val, h) = Cardinality({g \in S : g < h})
    <2> SUFFICES ASSUME NEW h \in S
                 PROVE  Rank(S, val, h) = Cardinality({g \in S : g < h})
        OBVIOUS
    <2>1. {y \in S : val[y] < val[h]} = {g \in S : g < h}
        BY <1>2
    <2> QED  BY <2>1 DEF Rank
<1> PICK s : s = SortHosts(l)
    OBVIOUS
<1>5. s = [i \in 1..n |-> CHOOSE h \in S : Cardinality({g \in S : g < h}) = i - 1]
    <2>1. s = [i \in DOMAIN l |-> CHOOSE h \in S : Cardinality({g \in S : g < h}) = i - 1]
        BY Zenon DEF SortHosts
    <2> QED  BY <1>1, <2>1, Zenon
<1> HIDE DEF S
<1>6. \A i \in 1..n : s[i] \in S /\ Rank(S, val, s[i]) = i - 1
    <2> SUFFICES ASSUME NEW i \in 1..n
                 PROVE  s[i] \in S /\ Rank(S, val, s[i]) = i - 1
        OBVIOUS
    <2>1. \E x \in S : Cardinality({g \in S : g < x}) = i - 1
        <3>1. i - 1 \in 0..(n - 1)
            OBVIOUS
        <3>2. PICK x \in S : Rank(S, val, x) = i - 1
            BY <1>3, <3>1
        <3> QED  BY <1>4, <3>2, Zenon
    <2>2. s[i] = CHOOSE h \in S : Cardinality({g \in S : g < h}) = i - 1
        BY <1>5, Zenon
    <2>3. s[i] \in S /\ Cardinality({g \in S : g < s[i]}) = i - 1
        BY <2>1, <2>2, Zenon
    <2> QED  BY <1>4, <2>3, Zenon
<1>7. DOMAIN s = 1..n
    BY <1>5, Zenon
<1>8. s \in Seq(Hosts) /\ Len(s) = n
    <2>1. \A i \in 1..n : s[i] \in Hosts
        BY <1>1, <1>6
    <2>2. s = [i \in 1..n |-> s[i]]
        BY <1>5, Zenon
    <2>3. s \in [1..n -> Hosts]
        BY <2>1, <2>2
    <2>4. s \in Seq(Hosts)
        BY <2>3, SeqDef
    <2> QED  BY <2>4, <1>7, LenProperties
<1>9. \A i, j \in 1..n : s[i] = s[j] => i = j
    <2> SUFFICES ASSUME NEW i \in 1..n, NEW j \in 1..n, s[i] = s[j] PROVE i = j
        OBVIOUS
    <2>1. i - 1 = j - 1
        BY <1>6
    <2> QED  BY <2>1
<1>10. \A x \in S : \E i \in 1..n : s[i] = x
    <2> SUFFICES ASSUME NEW x \in S PROVE \E i \in 1..n : s[i] = x
        OBVIOUS
    <2>1. PICK r \in 0..(n - 1) : r = Rank(S, val, x)
        BY <1>3
    <2>2. r + 1 \in 1..n /\ (r + 1) - 1 = r
        OBVIOUS
    <2>3. s[r + 1] \in S /\ Rank(S, val, s[r + 1]) = r
        BY <1>6, <2>2
    <2>4. s[r + 1] = x
        BY <1>3, <2>1, <2>3
    <2> QED  BY <2>2, <2>4
<1>11. ToSet(s) = S
    BY <1>6, <1>7, <1>10, Zenon DEF ToSet
<1> QED  BY <1>0, <1>7, <1>8, <1>9, <1>11 DEF Distinct, S

\* The values rise from one point of the continuum to the next.
Rising(c) == \A i, j \in DOMAIN c : i < j => c[i].value < c[j].value

\* qsort: each point once, in the order of their values.
LEMMA SortPointsSorts ==
    ASSUME NEW points, IsFiniteSet(points), \A x \in points : x.value \in Int,
           \A x, y \in points : x.value = y.value => x = y
    PROVE  /\ SortPoints(points) \in Seq(points) /\ Rising(SortPoints(points))
           /\ Len(SortPoints(points)) = Cardinality(points)
           /\ Cardinality(points) \in Nat
           /\ \A x \in points : \E i \in DOMAIN SortPoints(points) :
                 SortPoints(points)[i] = x
<1>1. PICK n \in Nat : n = Cardinality(points)
    BY FS_CardinalityType
<1>2. PICK val \in [points -> Int] : \A x \in points : val[x] = x.value
    <2>1. [x \in points |-> x.value] \in [points -> Int]
        OBVIOUS
    <2> QED  BY <2>1
<1>3. /\ \A x, y \in points : Rank(points, val, x) = Rank(points, val, y) => x = y
      /\ \A x, y \in points : val[x] < val[y] =>
             Rank(points, val, x) < Rank(points, val, y)
      /\ \A i \in 0..(n - 1) : \E x \in points : Rank(points, val, x) = i
      /\ \A x \in points : Rank(points, val, x) \in 0..(n - 1)
    <2>1. \A x, y \in points : val[x] = val[y] => x = y
        BY <1>2
    <2>2. /\ \A x \in points : Rank(points, val, x) \in 0..(Cardinality(points) - 1)
          /\ \A x, y \in points : Rank(points, val, x) = Rank(points, val, y) => x = y
          /\ \A x, y \in points : val[x] < val[y] =>
                 Rank(points, val, x) < Rank(points, val, y)
          /\ \A i \in 0..(Cardinality(points) - 1) :
                \E x \in points : Rank(points, val, x) = i
        BY <2>1, Ranked
    <2>3. 0..(Cardinality(points) - 1) = 0..(n - 1)
        BY <1>1
    <2> QED  BY <2>2, <2>3, Zenon
<1>4. \A x \in points :
          Rank(points, val, x) = Cardinality({y \in points : y.value < x.value})
    <2> SUFFICES ASSUME NEW x \in points
                 PROVE  Rank(points, val, x) =
                            Cardinality({y \in points : y.value < x.value})
        OBVIOUS
    <2>1. {y \in points : val[y] < val[x]} = {y \in points : y.value < x.value}
        BY <1>2
    <2> QED  BY <2>1 DEF Rank
<1> PICK s : s = SortPoints(points)
    OBVIOUS
<1>5. s = [i \in 1..n |-> CHOOSE x \in points :
              Cardinality({y \in points : y.value < x.value}) = i - 1]
    BY <1>1, Zenon DEF SortPoints
<1>6. \A i \in 1..n : s[i] \in points /\ Rank(points, val, s[i]) = i - 1
    <2> SUFFICES ASSUME NEW i \in 1..n
                 PROVE  s[i] \in points /\ Rank(points, val, s[i]) = i - 1
        OBVIOUS
    <2>1. \E x \in points : Cardinality({y \in points : y.value < x.value}) = i - 1
        <3>1. i - 1 \in 0..(n - 1)
            OBVIOUS
        <3>2. PICK x \in points : Rank(points, val, x) = i - 1
            BY <1>3, <3>1
        <3> QED  BY <1>4, <3>2, Zenon
    <2>2. s[i] = CHOOSE x \in points :
                     Cardinality({y \in points : y.value < x.value}) = i - 1
        BY <1>5, Zenon
    <2>3. s[i] \in points /\ Cardinality({y \in points : y.value < s[i].value}) = i - 1
        BY <2>1, <2>2, Zenon
    <2> QED  BY <1>4, <2>3, Zenon
<1>7. DOMAIN s = 1..n
    BY <1>5, Zenon
<1>8. s \in Seq(points) /\ Len(s) = n
    <2>1. s = [i \in 1..n |-> s[i]]
        BY <1>5, Zenon
    <2>2. s \in [1..n -> points]
        BY <1>6, <2>1
    <2>3. s \in Seq(points)
        BY <2>2, SeqDef
    <2> QED  BY <2>3, <1>7, LenProperties
<1>9. Rising(s)
    <2> SUFFICES ASSUME NEW i \in 1..n, NEW j \in 1..n, i < j
                 PROVE  s[i].value < s[j].value
        BY <1>7 DEF Rising
    <2> PICK a \in points : a = s[i]
        BY <1>6
    <2> PICK b \in points : b = s[j]
        BY <1>6
    <2>1. Rank(points, val, a) = i - 1 /\ Rank(points, val, b) = j - 1
        BY <1>6
    <2>2. a # b
        BY <2>1
    <2>3. ~ (val[b] < val[a])
        <3>1. ~ (Rank(points, val, b) < Rank(points, val, a))
            BY <2>1
        <3> QED  BY <1>3, <3>1
    <2>4. val[a] # val[b]
        BY <1>2, <2>2
    <2>5. val[a] < val[b]
        BY <2>3, <2>4
    <2> QED  BY <1>2, <2>5
<1>10. \A x \in points : \E i \in 1..n : s[i] = x
    <2> SUFFICES ASSUME NEW x \in points PROVE \E i \in 1..n : s[i] = x
        OBVIOUS
    <2>1. PICK r \in 0..(n - 1) : r = Rank(points, val, x)
        BY <1>3
    <2>2. r + 1 \in 1..n /\ (r + 1) - 1 = r
        OBVIOUS
    <2>3. s[r + 1] \in points /\ Rank(points, val, s[r + 1]) = r
        BY <1>6, <2>2
    <2>4. s[r + 1] = x
        BY <1>3, <2>1, <2>3
    <2> QED  BY <2>2, <2>4
<1> QED  BY <1>1, <1>7, <1>8, <1>9, <1>10

-----------------------------------------------------------------------------
(* Recursive functions.                                                    *)

\* What a function says of w in terms of its value for next[w].
Unfold(f, w, leaves, base, add, next) ==
    IF w \in leaves THEN base[w] ELSE add[w] + f[next[w]]

\* Along the recursion a size falls that is never more than N.
Falls(D, leaves, base, add, next, size, N) ==
    /\ base \in [D -> Int] /\ add \in [D -> Int] /\ next \in [D -> D]
    /\ size \in [D -> Nat] /\ N \in Nat
    /\ \A w \in D : size[w] <= N
    /\ \A w \in D \ leaves : size[next[w]] < size[w]

\* Such a recursion defines a function.
LEMMA RecursionDefines ==
    ASSUME NEW D, NEW leaves, NEW base, NEW add, NEW next, NEW size, NEW N,
           Falls(D, leaves, base, add, next, size, N)
    PROVE  \E f \in [D -> Int] :
              \A w \in D : f[w] = Unfold(f, w, leaves, base, add, next)
<1> DEFINE Good(n) == \E f \in [D -> Int] : \A w \in D :
               size[w] <= n => f[w] = Unfold(f, w, leaves, base, add, next)
           Bad == {n \in Nat : ~ Good(n)}
<1> USE DEF Falls
<1>1. ASSUME NEW n \in Nat, n = 0 \/ (n - 1 \in Nat /\ Good(n - 1)) PROVE Good(n)
    <2>1. PICK g \in [D -> Int] : \A w \in D :
              size[w] < n => g[w] = Unfold(g, w, leaves, base, add, next)
        <3>1. CASE n = 0
            <4>1. base \in [D -> Int] /\ \A w \in D : ~ (size[w] < n)
                BY <3>1
            <4> QED  BY <4>1
        <3>2. CASE n # 0
            <4>1. PICK g \in [D -> Int] : \A w \in D :
                      size[w] <= n - 1 => g[w] = Unfold(g, w, leaves, base, add, next)
                BY <1>1, <3>2
            <4>2. \A w \in D : size[w] < n => size[w] <= n - 1
                OBVIOUS
            <4> QED  BY <4>1, <4>2
        <3> QED  BY <3>1, <3>2
    <2> PICK f : f = [w \in D |-> Unfold(g, w, leaves, base, add, next)]
        OBVIOUS
    <2>2. f \in [D -> Int]
        BY DEF Unfold
    <2>3. ASSUME NEW w \in D, size[w] <= n
          PROVE  f[w] = Unfold(f, w, leaves, base, add, next)
        <3>1. f[w] = Unfold(g, w, leaves, base, add, next)
            OBVIOUS
        <3>2. CASE w \in leaves
            BY <3>1, <3>2 DEF Unfold
        <3>3. CASE w \notin leaves
            <4>1. size[next[w]] < n /\ next[w] \in D
                BY <2>3, <3>3
            <4>2. f[next[w]] = Unfold(g, next[w], leaves, base, add, next)
                BY <4>1
            <4>3. f[next[w]] = g[next[w]]
                BY <2>1, <4>1, <4>2
            <4> QED  BY <3>1, <3>3, <4>3 DEF Unfold
        <3> QED  BY <3>2, <3>3
    <2> QED  BY <2>2, <2>3
<1> HIDE DEF Good
<1>2. Bad = {}
    <2> SUFFICES ASSUME Bad # {} PROVE FALSE
        OBVIOUS
    <2>1. PICK n \in Bad : \A m \in Bad : n <= m
        BY LeastNat
    <2>2. n = 0 \/ (n - 1 \in Nat /\ Good(n - 1))
        BY <2>1
    <2> QED  BY <1>1, <2>1, <2>2
<1>3. Good(N)
    BY <1>2
<1> QED  BY <1>3 DEF Good

-----------------------------------------------------------------------------
(* The weights of the live hosts and their shares of the continuum.        *)

\* f[s] is the sum of wt over s, for the sets s of live hosts.
Summed(live, wt, f) ==
    /\ wt \in [live -> Nat] /\ f \in [SUBSET live -> Int] /\ f[{}] = 0
    /\ \A s \in SUBSET live : s # {} => \E x \in s : f[s] = wt[x] + f[s \ {x}]

Weights(live) == [h \in live |-> WeightOf(h)]

\* Weights are positive.
LEMMA WeightPositive ==
    ASSUME NEW h \in Hosts PROVE WeightOf(h) \in Nat \ {0}
<1>1. Weight[h] \in Nat
    BY DistributionAssumption
<1> QED  BY <1>1 DEF WeightOf

\* MapThenSumSet takes one host after the other.
LEMMA WeightsSummed ==
    ASSUME NEW live \in SUBSET Hosts
    PROVE  \E f : /\ f[live] = MapThenSumSet(WeightOf, live)
                  /\ Summed(live, Weights(live), f)
<1> DEFINE D == SUBSET live
           First(s) == CHOOSE x \in s : TRUE
           Fold(f, s) == IF s = {} THEN 0 ELSE WeightOf(First(s)) + f[s \ {First(s)}]
           base == [s \in D |-> 0]
           add == [s \in D |-> IF s = {} THEN 0 ELSE WeightOf(First(s))]
           next == [s \in D |-> s \ {First(s)}]
           size == [s \in D |-> Cardinality(s)]
<1>1. IsFiniteSet(live) /\ \A s \in D : IsFiniteSet(s)
    BY DistributionAssumption, FS_Subset
<1>2. \A s \in D \ {{}} : First(s) \in s /\ First(s) \in Hosts
    OBVIOUS
<1>3. base \in [D -> Int] /\ next \in [D -> D]
    OBVIOUS
<1>4. add \in [D -> Int]
    BY <1>2, WeightPositive
<1>5. size \in [D -> Nat] /\ Cardinality(live) \in Nat
    BY <1>1, FS_CardinalityType
<1>6. \A s \in D : size[s] <= Cardinality(live)
    BY <1>1, FS_Subset
<1>7. \A s \in D \ {{}} : size[next[s]] < size[s]
    <2> SUFFICES ASSUME NEW s \in D, s # {} PROVE size[next[s]] < size[s]
        OBVIOUS
    <2>1. Cardinality(s \ {First(s)}) = Cardinality(s) - 1
        BY <1>1, <1>2, FS_RemoveElement
    <2>2. next[s] = s \ {First(s)} /\ next[s] \in D
        OBVIOUS
    <2>3. size[next[s]] = Cardinality(s) - 1 /\ size[s] = Cardinality(s)
        BY <2>1, <2>2
    <2> HIDE DEF size, next
    <2> QED  BY <1>5, <2>3
<1>8. PICK f \in [D -> Int] : \A s \in D : f[s] = Unfold(f, s, {{}}, base, add, next)
    <2>1. Falls(D, {{}}, base, add, next, size, Cardinality(live))
        <3> HIDE DEF base, add, next, size, D, First, Fold
        <3> QED  BY <1>3, <1>4, <1>5, <1>6, <1>7, Zenon DEF Falls
    <2> HIDE DEF base, add, next, size, D, First, Fold
    <2> QED  BY <2>1, RecursionDefines
<1>9. \A s \in D : f[s] = Fold(f, s)
    <2> SUFFICES ASSUME NEW s \in D PROVE f[s] = Fold(f, s)
        OBVIOUS
    <2>1. CASE s = {}
        BY <1>8, <2>1 DEF Unfold
    <2>2. CASE s # {}
        <3>1. f[s] = add[s] + f[next[s]]
            BY <1>8, <2>2 DEF Unfold
        <3> QED  BY <2>2, <3>1
    <2> QED  BY <2>1, <2>2
<1>10. \E g : g = [s \in D |-> Fold(g, s)]
    <2>1. f = [s \in D |-> Fold(f, s)]
        BY <1>9
    <2> QED  BY <2>1
<1> DEFINE g == CHOOSE g : g = [s \in SUBSET live |-> IF s = {} THEN 0
                    ELSE LET x == CHOOSE x \in s : TRUE IN WeightOf(x) + g[s \ {x}]]
<1>11. g = [s \in D |-> Fold(g, s)]
    BY <1>10, Zenon
<1>12. MapThenSumSet(WeightOf, live) = g[live]
    BY Zenon DEF MapThenSumSet, MapThenFoldSet
<1> HIDE DEF g
<1>13. DOMAIN g = D /\ \A s \in D : g[s] = Fold(g, s)
    BY <1>11, Zenon
<1>14. \A s \in D : g[s] = f[s]
    <2> DEFINE Bad == {s \in D : g[s] # f[s]}
    <2> SUFFICES ASSUME Bad # {} PROVE FALSE
        OBVIOUS
    <2>0. Bad \in SUBSET (SUBSET live)
        OBVIOUS
    <2>1. PICK T \in Bad : \A U \in Bad : U \subseteq T => U = T
        <3> HIDE DEF Bad, D
        <3> QED  BY <1>1, <2>0, SmallestSubset
    <2>2. T # {}
        BY <1>9, <1>13, <2>1
    <2>3. T \ {First(T)} \subseteq T /\ T \ {First(T)} # T
        BY <1>2, <2>1, <2>2
    <2>4. g[T \ {First(T)}] = f[T \ {First(T)}]
        BY <2>1, <2>3
    <2>5. g[T] = WeightOf(First(T)) + g[T \ {First(T)}]
        BY <1>13, <2>1, <2>2, Zenon
    <2>6. f[T] = WeightOf(First(T)) + f[T \ {First(T)}]
        BY <1>9, <2>1, <2>2, Zenon
    <2> QED  BY <2>1, <2>4, <2>5, <2>6
<1>15. f[live] = MapThenSumSet(WeightOf, live)
    BY <1>12, <1>14
<1>16. f[{}] = 0
    BY <1>9
<1>17. ASSUME NEW s \in D, s # {}
       PROVE  \E x \in s : f[s] = Weights(live)[x] + f[s \ {x}]
    <2>1. First(s) \in s
        BY <1>2, <1>17
    <2>2. f[s] = WeightOf(First(s)) + f[s \ {First(s)}]
        BY <1>9, <1>17, Zenon
    <2>3. Weights(live)[First(s)] = WeightOf(First(s))
        BY <2>1 DEF Weights
    <2> QED  BY <2>1, <2>2, <2>3, Zenon
<1>18. Weights(live) \in [live -> Nat]
    BY WeightPositive DEF Weights
<1> QED  BY <1>15, <1>16, <1>17, <1>18 DEF Summed

\* Some sets of live hosts, but not the empty one.
SomeSets(live, B) == B \in SUBSET (SUBSET live) /\ B # {} /\ {} \notin B

\* T is one of them and, less the host that is added to its sum last, is not.
Smallest(live, wt, f, B, T, x) ==
    /\ T \in B /\ T \in SUBSET live /\ x \in T /\ x \in live
    /\ f[T] = wt[x] + f[T \ {x}]
    /\ T \ {x} \in SUBSET live /\ T \ {x} \notin B

\* There is such a set, which a proof about all sums takes apart.
LEMMA SumStep ==
    ASSUME NEW live \in SUBSET Hosts, NEW wt, NEW f, Summed(live, wt, f),
           NEW B, SomeSets(live, B)
    PROVE  \E T, x : Smallest(live, wt, f, B, T, x)
<1>1. IsFiniteSet(live)
    BY DistributionAssumption, FS_Subset
<1>2. PICK T \in B : \A U \in B : U \subseteq T => U = T
    BY <1>1, SmallestSubset DEF SomeSets
<1>3. T # {} /\ T \in SUBSET live
    BY Zenon DEF SomeSets
<1>4. PICK x \in T : f[T] = wt[x] + f[T \ {x}]
    BY <1>3, Zenon DEF Summed
<1>5. T \ {x} \subseteq T /\ T \ {x} # T
    OBVIOUS
<1>6. T \ {x} \notin B
    BY <1>2, <1>5
<1>7. x \in live /\ T \ {x} \in SUBSET live
    BY <1>3
<1> QED  BY <1>3, <1>4, <1>6, <1>7, Zenon DEF Smallest

\* Sums are natural numbers.
LEMMA SumsNatural ==
    ASSUME NEW live \in SUBSET Hosts, NEW wt, NEW f, Summed(live, wt, f)
    PROVE  \A s \in SUBSET live : f[s] \in Nat
<1> DEFINE Bad == {s \in SUBSET live : f[s] \notin Nat}
<1>1. {} \notin Bad /\ Bad \in SUBSET (SUBSET live)
    BY DEF Summed
<1>2. Bad = {}
    <2> SUFFICES ASSUME Bad # {} PROVE FALSE
        OBVIOUS
    <2>1. SomeSets(live, Bad)
        BY <1>1 DEF SomeSets
    <2>2. PICK T, x : Smallest(live, wt, f, Bad, T, x)
        <3> HIDE DEF Bad
        <3> QED  BY <2>1, SumStep
    <2>3. f[T \ {x}] \in Nat /\ wt[x] \in Nat /\ f[T] \notin Nat
        BY <2>2 DEF Summed, Smallest
    <2> QED  BY <2>2, <2>3 DEF Smallest
<1> QED  BY <1>2

\* The sum of the weights of some hosts is positive.
LEMMA WeightsPositive ==
    ASSUME NEW live \in SUBSET Hosts, live # {}
    PROVE  MapThenSumSet(WeightOf, live) \in Nat \ {0}
<1>1. PICK f : /\ f[live] = MapThenSumSet(WeightOf, live)
               /\ Summed(live, Weights(live), f)
    BY WeightsSummed
<1>2. PICK x \in live : f[live] = Weights(live)[x] + f[live \ {x}]
    BY <1>1, Zenon DEF Summed
<1>3. f[live \ {x}] \in Nat
    BY <1>1, SumsNatural
<1>4. Weights(live)[x] \in Nat \ {0}
    BY WeightPositive DEF Weights
<1> QED  BY <1>1, <1>2, <1>3, <1>4

\* Each host has finitely many points, in proportion to its weight at most.
InProportion(live, points, wt, W, M) ==
    \A h \in live : /\ IsFiniteSet(points[h])
                    /\ Cardinality(points[h]) * W <= wt[h] * M

\* Where each host's points are in proportion, so are those of all of them.
LEMMA PointsAdd ==
    ASSUME NEW live \in SUBSET Hosts, NEW wt, NEW f, Summed(live, wt, f),
           NEW points, NEW W \in Nat, NEW M \in Nat,
           InProportion(live, points, wt, W, M)
    PROVE  /\ IsFiniteSet(UNION {points[h] : h \in live})
           /\ Cardinality(UNION {points[h] : h \in live}) * W <= f[live] * M
<1> DEFINE U(s) == UNION {points[h] : h \in s}
           Bad == {s \in SUBSET live : ~ (/\ IsFiniteSet(U(s))
                                           /\ Cardinality(U(s)) * W <= f[s] * M)}
<1>1. {} \notin Bad
    <2>1. U({}) = {}
        OBVIOUS
    <2>2. IsFiniteSet(U({})) /\ Cardinality(U({})) = 0
        BY <2>1, FS_EmptySet
    <2>3. f[{}] = 0
        BY DEF Summed
    <2>4. 0 * W <= 0 * M
        OBVIOUS
    <2> HIDE DEF U
    <2> QED  BY <2>2, <2>3, <2>4
<1>2. Bad = {}
    <2> SUFFICES ASSUME Bad # {} PROVE FALSE
        OBVIOUS
    <2>1. SomeSets(live, Bad)
        <3>1. Bad \in SUBSET (SUBSET live)
            OBVIOUS
        <3> HIDE DEF Bad
        <3> QED  BY <1>1, <3>1 DEF SomeSets
    <2>2. PICK T, x : Smallest(live, wt, f, Bad, T, x)
        <3> HIDE DEF Bad
        <3> QED  BY <2>1, SumStep
    <2> DEFINE R == U(T \ {x})
    <2>3. IsFiniteSet(R) /\ Cardinality(R) * W <= f[T \ {x}] * M
        BY <2>2 DEF Smallest
    <2>4. U(T) = R \cup points[x]
        BY <2>2 DEF Smallest
    <2>5. IsFiniteSet(points[x]) /\ Cardinality(points[x]) * W <= wt[x] * M
        BY <2>2 DEF Smallest, InProportion
    <2> HIDE DEF U, R
    <2>6. /\ IsFiniteSet(U(T))
          /\ Cardinality(U(T)) = Cardinality(R) + Cardinality(points[x])
                                    - Cardinality(R \cap points[x])
        BY <2>3, <2>4, <2>5, FS_Union
    <2>7. /\ Cardinality(R) \in Nat /\ Cardinality(points[x]) \in Nat
          /\ Cardinality(R \cap points[x]) \in Nat
        BY <2>3, <2>5, FS_CardinalityType, FS_Intersection
    <2>8. wt[x] \in Nat /\ f[T \ {x}] \in Nat
        <3>1. \A s \in SUBSET live : f[s] \in Nat
            BY SumsNatural
        <3>2. x \in live /\ T \ {x} \in SUBSET live
            BY <2>2, Zenon DEF Smallest
        <3> HIDE DEF Bad
        <3> QED  BY <3>1, <3>2 DEF Summed
    <2>9. \A a, b, c, d, e, g \in Nat :
              g <= a + b /\ a * W <= c * M /\ b * W <= d * M
                  => g * W <= (d + c) * M
        <3> TAKE a, b, c, d, e, g \in Nat
        <3> HAVE g <= a + b /\ a * W <= c * M /\ b * W <= d * M
        <3>1. g * W <= (a + b) * W
            OBVIOUS
        <3>2. (a + b) * W = a * W + b * W /\ (d + c) * M = d * M + c * M
            OBVIOUS
        <3>3. g * W \in Int /\ a * W \in Int /\ b * W \in Int
              /\ c * M \in Int /\ d * M \in Int
            OBVIOUS
        <3> QED  BY <3>1, <3>2, <3>3
    <2>10. Cardinality(U(T)) \in Nat
        BY <2>6, FS_CardinalityType
    <2>11. Cardinality(U(T)) <= Cardinality(R) + Cardinality(points[x])
        BY <2>6, <2>7
    <2>12. Cardinality(U(T)) * W <= (wt[x] + f[T \ {x}]) * M
        BY <2>3, <2>5, <2>7, <2>8, <2>9, <2>10, <2>11
    <2>13. f[T] = wt[x] + f[T \ {x}] /\ T \in Bad
        BY <2>2, Zenon DEF Smallest
    <2>14. T \in {s \in SUBSET live : ~ (/\ IsFiniteSet(U(s))
                                          /\ Cardinality(U(s)) * W <= f[s] * M)}
        BY <2>13
    <2> QED  BY <2>6, <2>12, <2>13, <2>14
<1> QED  BY <1>2

\* If no host has more than its part, the sum is no more than all the parts.
LEMMA SumBelow ==
    ASSUME NEW live \in SUBSET Hosts, NEW wt, NEW f, Summed(live, wt, f),
           NEW n \in Nat, NEW V \in Nat, \A h \in live : wt[h] * n <= V
    PROVE  f[live] * n <= Cardinality(live) * V
<1> DEFINE Bad == {s \in SUBSET live : ~ (f[s] * n <= Cardinality(s) * V)}
<1>1. {} \notin Bad
    <2>1. f[{}] = 0 /\ Cardinality({}) = 0
        BY FS_EmptySet DEF Summed
    <2>2. 0 * n <= 0 * V
        OBVIOUS
    <2> QED  BY <2>1, <2>2
<1>2. Bad = {}
    <2> SUFFICES ASSUME Bad # {} PROVE FALSE
        OBVIOUS
    <2>1. SomeSets(live, Bad)
        <3>1. Bad \in SUBSET (SUBSET live)
            OBVIOUS
        <3> HIDE DEF Bad
        <3> QED  BY <1>1, <3>1 DEF SomeSets
    <2>2. PICK T, x : Smallest(live, wt, f, Bad, T, x)
        <3> HIDE DEF Bad
        <3> QED  BY <2>1, SumStep
    <2>3. T \in Bad /\ T \in SUBSET live /\ x \in T /\ x \in live
          /\ f[T] = wt[x] + f[T \ {x}]
          /\ T \ {x} \in SUBSET live /\ T \ {x} \notin Bad
        BY <2>2, Zenon DEF Smallest
    <2>4. f[T \ {x}] * n <= Cardinality(T \ {x}) * V
        BY <2>3
    <2>5. Cardinality(T \ {x}) = Cardinality(T) - 1 /\ Cardinality(T) \in Nat
          /\ Cardinality(T) - 1 \in Nat
        <3>1. IsFiniteSet(T) /\ IsFiniteSet(T \ {x})
            BY <2>3, DistributionAssumption, FS_Subset
        <3>2. Cardinality(T) \in Nat /\ Cardinality(T \ {x}) \in Nat
            BY <3>1, FS_CardinalityType
        <3> QED  BY <2>3, <3>1, <3>2, FS_RemoveElement
    <2>6. f[T \ {x}] \in Nat /\ wt[x] \in Nat /\ wt[x] * n <= V
        <3>1. \A s \in SUBSET live : f[s] \in Nat
            BY SumsNatural
        <3> HIDE DEF Bad
        <3> QED  BY <2>3, <3>1 DEF Summed
    <2>7. \A a, b, c \in Nat :
              a * n <= V /\ b * n <= (c - 1) * V => (a + b) * n <= c * V
        <3> TAKE a, b, c \in Nat
        <3> HAVE a * n <= V /\ b * n <= (c - 1) * V
        <3>1. (a + b) * n = a * n + b * n /\ (c - 1) * V = c * V - V
            OBVIOUS
        <3>2. a * n \in Int /\ b * n \in Int /\ c * V \in Int
            OBVIOUS
        <3> QED  BY <3>1, <3>2
    <2>8. (wt[x] + f[T \ {x}]) * n <= Cardinality(T) * V
        <3> HIDE DEF Bad
        <3> QED  BY <2>4, <2>5, <2>6, <2>7
    <2>9. T \in {s \in SUBSET live : ~ (f[s] * n <= Cardinality(s) * V)}
        BY <2>3
    <2> QED  BY <2>3, <2>8, <2>9
<1> QED  BY <1>2

\* A quotient rounded down.
LEMMA Quotient ==
    ASSUME NEW a \in Nat, NEW w \in Nat \ {0}
    PROVE  /\ a \div w \in Nat /\ (a \div w) * w <= a
           /\ \A b \in Nat : b * w <= a => b <= a \div w
OBVIOUS

\* PointsKetama is made of whole digests.
LEMMA WholeDigests ==
    /\ PointsKetama \div PerHash \in Nat \ {0}
    /\ (PointsKetama \div PerHash) * PerHash = PointsKetama
    /\ PerHash \in Nat \ {0} /\ Points \in Nat \ {0}
<1>1. /\ PointsKetama \in Nat \ {0} /\ PerHash \in Nat \ {0} /\ Points \in Nat \ {0}
      /\ PointsKetama % PerHash = 0
    BY DistributionAssumption
<1>2. \A a, w \in Nat \ {0} : a % w = 0 => (a \div w) * w = a /\ a \div w \in Nat \ {0}
    OBVIOUS
<1> QED  BY <1>1, <1>2

\* Products of natural numbers.
LEMMA Products ==
    /\ \A a, b \in Nat : a * b \in Nat
    /\ \A a, b, p \in Nat : a <= b => a * p <= b * p /\ p * a <= p * b
OBVIOUS

\* A quotient times the points of a digest keeps the proportion.
LEMMA ProportionKept ==
    ASSUME NEW q \in Nat, NEW W \in Nat, NEW w \in Nat, NEW K \in Nat,
           NEW n \in Nat, NEW P \in Nat, q * W <= w * K * n
    PROVE  (q * P) * W <= w * ((K * P) * n)
<1>1. q * W \in Nat /\ w * K * n \in Nat
    BY Products
<1>2. (q * W) * P <= (w * K * n) * P
    BY <1>1, Products
<1>3. (q * W) * P = (q * P) * W
    OBVIOUS
<1>4. (w * K * n) * P = w * ((K * P) * n)
    OBVIOUS
<1> QED  BY <1>2, <1>3, <1>4

\* Below the average.
LEMMA BelowAverage ==
    ASSUME NEW W \in Nat \ {0}, NEW w \in Nat, NEW K \in Nat, NEW n \in Nat,
           ~ (K * W <= w * K * n)
    PROVE  w * n <= W - 1
<1>1. w * n \in Nat /\ w * K * n = K * (w * n)
    BY Products
<1>2. ~ (W <= w * n)
    BY <1>1, Products
<1> QED  BY <1>1, <1>2

\* A host's share is in proportion to its weight at most, and is never more
\* than that; some host always has one.
LEMMA Shares ==
    ASSUME NEW live \in SUBSET Hosts, live # {}, NEW by_weight \in BOOLEAN
    PROVE  /\ \A h \in live : Share(h, live, by_weight) \in Nat
           /\ \A h \in live : Share(h, live, TRUE) * MapThenSumSet(WeightOf, live)
                                  <= WeightOf(h) * (PointsKetama * Cardinality(live))
           /\ \E h \in live : Share(h, live, by_weight) > 0
<1>a. PICK W : W = MapThenSumSet(WeightOf, live)
    OBVIOUS
<1>b. PICK K : K = PointsKetama \div PerHash
    OBVIOUS
<1>c. PICK n : n = Cardinality(live)
    OBVIOUS
<1>1. W \in Nat \ {0}
    BY <1>a, WeightsPositive
<1>2. n \in Nat \ {0}
    <2>1. IsFiniteSet(live)
        BY DistributionAssumption, FS_Subset
    <2> QED  BY <1>c, <2>1, FS_CardinalityType, FS_EmptySet
<1>3. K \in Nat \ {0} /\ K * PerHash = PointsKetama /\ PerHash \in Nat \ {0}
      /\ Points \in Nat \ {0}
    BY <1>b, WholeDigests
<1>4. \A h \in live : WeightOf(h) \in Nat \ {0}
    BY WeightPositive
<1>5. \A h \in live : Share(h, live, TRUE) = ((WeightOf(h) * K * n) \div W) * PerHash
    BY <1>a, <1>b, <1>c, Zenon DEF Share
<1>6. \A h \in live : Share(h, live, FALSE) = Points
    BY Zenon DEF Share
<1>7. \A w \in Nat : /\ (w * K * n) \div W \in Nat
                     /\ ((w * K * n) \div W) * W <= w * K * n
                     /\ K * W <= w * K * n => K <= (w * K * n) \div W
    <2> TAKE w \in Nat
    <2>1. w * K * n \in Nat
        BY <1>2, <1>3
    <2> QED  BY <1>1, <1>3, <2>1, Quotient
<1>8. \A h \in live : Share(h, live, TRUE) \in Nat
    <2> SUFFICES ASSUME NEW h \in live PROVE Share(h, live, TRUE) \in Nat
        OBVIOUS
    <2>1. PICK q : q = (WeightOf(h) * K * n) \div W
        OBVIOUS
    <2>2. q \in Nat
        BY <1>4, <1>7, <2>1
    <2>3. q * PerHash \in Nat
        BY <1>3, <2>2
    <2> QED  BY <1>5, <2>1, <2>3, Zenon
<1>9. \A h \in live : Share(h, live, TRUE) * W <= WeightOf(h) * (PointsKetama * n)
    <2> SUFFICES ASSUME NEW h \in live
                 PROVE  Share(h, live, TRUE) * W <= WeightOf(h) * (PointsKetama * n)
        OBVIOUS
    <2>1. PICK w : w = WeightOf(h)
        OBVIOUS
    <2>2. PICK q : q = (w * K * n) \div W
        OBVIOUS
    <2>3. w \in Nat /\ q \in Nat /\ q * W <= w * K * n
        BY <1>4, <1>7, <2>1, <2>2
    <2>4. Share(h, live, TRUE) = q * PerHash
        BY <1>5, <2>1, <2>2, Zenon
    <2>5. (q * PerHash) * W <= w * ((K * PerHash) * n)
        BY <1>1, <1>2, <1>3, <2>3, ProportionKept
    <2> QED  BY <1>3, <2>1, <2>4, <2>5, Zenon
<1>10. \E h \in live : Share(h, live, TRUE) > 0
    <2> SUFFICES ASSUME \A h \in live : ~ (Share(h, live, TRUE) > 0) PROVE FALSE
        OBVIOUS
    <2>1. \A h \in live : WeightOf(h) * n <= W - 1
        <3> SUFFICES ASSUME NEW h \in live PROVE WeightOf(h) * n <= W - 1
            OBVIOUS
        <3>1. PICK w : w = WeightOf(h)
            OBVIOUS
        <3>2. PICK q : q = (w * K * n) \div W
            OBVIOUS
        <3>3. w \in Nat /\ q \in Nat /\ (K * W <= w * K * n => K <= q)
            BY <1>4, <1>7, <3>1, <3>2
        <3>4. Share(h, live, TRUE) = q * PerHash
            BY <1>5, <3>1, <3>2, Zenon
        <3>5. q = 0
            <4>1. ~ (q * PerHash > 0)
                BY <3>4
            <4>2. \A a \in Nat, b \in Nat \ {0} : ~ (a * b > 0) => a = 0
                OBVIOUS
            <4> QED  BY <1>3, <3>3, <4>1, <4>2
        <3>6. ~ (K * W <= w * K * n)
            BY <1>3, <3>3, <3>5
        <3>7. w * n <= W - 1
            BY <1>1, <1>2, <1>3, <3>3, <3>6, BelowAverage
        <3> QED  BY <3>1, <3>7
    <2>2. PICK f : f[live] = W /\ Summed(live, Weights(live), f)
        BY <1>a, WeightsSummed
    <2>3. \A h \in live : Weights(live)[h] * n <= W - 1
        BY <2>1 DEF Weights
    <2>4. n \in Nat /\ W - 1 \in Nat
        BY <1>1, <1>2
    <2>5. f[live] * n <= Cardinality(live) * (W - 1)
        BY <2>2, <2>3, <2>4, SumBelow
    <2>6. W * n <= n * (W - 1)
        BY <1>c, <2>2, <2>5
    <2>7. \A a, b \in Nat \ {0} : ~ (a * b <= b * (a - 1))
        <3> TAKE a, b \in Nat \ {0}
        <3>1. b * (a - 1) = a * b - b /\ a * b \in Int
            OBVIOUS
        <3> QED  BY <3>1
    <2> QED  BY <1>1, <1>2, <2>6, <2>7
<1>11. \A h \in live : Share(h, live, TRUE) * MapThenSumSet(WeightOf, live)
                             <= WeightOf(h) * (PointsKetama * Cardinality(live))
    BY <1>a, <1>c, <1>9, Zenon
<1>12. /\ \A h \in live : Share(h, live, by_weight) \in Nat
       /\ \E h \in live : Share(h, live, by_weight) > 0
    <2>1. CASE by_weight = TRUE
        BY <1>8, <1>10, <2>1, Zenon
    <2>2. CASE by_weight = FALSE
        <3>1. /\ \A h \in live : Share(h, live, FALSE) \in Nat
              /\ \E h \in live : Share(h, live, FALSE) > 0
            <4>1. Points \in Nat /\ Points > 0
                BY <1>3
            <4>2. \E h \in live : TRUE
                OBVIOUS
            <4> QED  BY <1>6, <4>1, <4>2, Zenon
        <3> QED  BY <2>2, <3>1, Zenon
    <2> QED  BY <2>1, <2>2
<1> QED  BY <1>11, <1>12

-----------------------------------------------------------------------------
(* The continuum that update_continuum builds.                             *)

\* The points of host h, at this place in the list.
PointsAt(h, place, live) ==
    {[value |-> Value[h][p], index |-> place] : p \in 0..(Share(h, live, weighted) - 1)}

\* Each host counts once.
LEMMA HostsSummed ==
    ASSUME NEW live \in SUBSET Hosts
    PROVE  \E f : /\ f[live] = Cardinality(live)
                  /\ Summed(live, [h \in live |-> 1], f)
<1> PICK f : f = [s \in SUBSET live |-> Cardinality(s)]
    OBVIOUS
<1>1. \A s \in SUBSET live : IsFiniteSet(s) /\ Cardinality(s) \in Nat
    BY DistributionAssumption, FS_Subset, FS_CardinalityType
<1>2. f \in [SUBSET live -> Int] /\ f[live] = Cardinality(live)
    BY <1>1
<1>3. f[{}] = 0
    BY FS_EmptySet
<1>4. ASSUME NEW s \in SUBSET live, s # {}
      PROVE  \E x \in s : f[s] = [h \in live |-> 1][x] + f[s \ {x}]
    <2>1. PICK x \in s : TRUE
        BY <1>4
    <2>2. Cardinality(s \ {x}) = Cardinality(s) - 1
        BY <1>1, FS_RemoveElement
    <2>3. f[s] = Cardinality(s) /\ f[s \ {x}] = Cardinality(s \ {x})
        OBVIOUS
    <2>4. [h \in live |-> 1][x] = 1
        OBVIOUS
    <2>5. f[s] = 1 + f[s \ {x}]
        BY <1>1, <2>2, <2>3
    <2> QED  BY <2>4, <2>5, Zenon
<1>5. [h \in live |-> 1] \in [live -> Nat]
    OBVIOUS
<1>6. Summed(live, [h \in live |-> 1], f)
    BY <1>2, <1>3, <1>4, <1>5, Zenon DEF Summed
<1> QED  BY <1>2, <1>6

\* A host has no more points than its share.
LEMMA PointsCounted ==
    ASSUME NEW h, NEW place, NEW live, Share(h, live, weighted) \in Nat
    PROVE  /\ IsFiniteSet(PointsAt(h, place, live))
           /\ Cardinality(PointsAt(h, place, live)) \in Nat
           /\ Cardinality(PointsAt(h, place, live)) <= Share(h, live, weighted)
<1>1. PICK n \in Nat : n = Share(h, live, weighted)
    OBVIOUS
<1> PICK m : m = [p \in 0..(n - 1) |-> [value |-> Value[h][p], index |-> place]]
    OBVIOUS
<1>2. PointsAt(h, place, live) =
          {[value |-> Value[h][p], index |-> place] : p \in 0..(n - 1)}
    BY <1>1, Zenon DEF PointsAt
<1>3. m \in Surjection(0..(n - 1), PointsAt(h, place, live))
    <2> HIDE <1>1
    <2>1. m \in [0..(n - 1) -> PointsAt(h, place, live)]
        BY <1>2
    <2>2. \A t \in PointsAt(h, place, live) : \E p \in 0..(n - 1) : m[p] = t
        BY <1>2
    <2> QED  BY <2>1, <2>2 DEF Surjection
<1>4. IsFiniteSet(0..(n - 1)) /\ Cardinality(0..(n - 1)) = n
    <2>1. n - 1 \in Int /\ 0 \in Int
        OBVIOUS
    <2> QED  BY <2>1, FS_Interval
<1>5. IsFiniteSet(PointsAt(h, place, live)) /\ Cardinality(PointsAt(h, place, live)) <= n
    BY <1>3, <1>4, FS_Surjection
<1> QED  BY <1>1, <1>5, FS_CardinalityType

\* All of them fit in the array that is allocated for the live hosts.
LEMMA PointsFit ==
    ASSUME NEW live \in SUBSET Hosts, live # {}, NEW place, weighted \in BOOLEAN
    PROVE  /\ IsFiniteSet(UNION {PointsAt(h, place[h], live) : h \in live})
           /\ Cardinality(UNION {PointsAt(h, place[h], live) : h \in live})
                 <= Cardinality(live) * PointsPerServer
<1> PICK points : points = [h \in live |-> PointsAt(h, place[h], live)]
    OBVIOUS
<1>1. UNION {points[h] : h \in live} = UNION {PointsAt(h, place[h], live) : h \in live}
    OBVIOUS
<1>2. \A h \in live : /\ IsFiniteSet(points[h]) /\ Cardinality(points[h]) \in Nat
                      /\ Cardinality(points[h]) <= Share(h, live, weighted)
    <2> SUFFICES ASSUME NEW h \in live
                 PROVE  /\ IsFiniteSet(points[h]) /\ Cardinality(points[h]) \in Nat
                        /\ Cardinality(points[h]) <= Share(h, live, weighted)
        OBVIOUS
    <2>1. points[h] = PointsAt(h, place[h], live)
        OBVIOUS
    <2>2. Share(h, live, weighted) \in Nat
        BY Shares
    <2> QED  BY <2>1, <2>2, PointsCounted, Zenon
<1>3. PICK n \in Nat : n = Cardinality(live)
    BY DistributionAssumption, FS_Subset, FS_CardinalityType
<1> PICK U : U = UNION {points[h] : h \in live}
    OBVIOUS
<1>4. CASE weighted = TRUE
    <2>1. PICK f : f[live] = MapThenSumSet(WeightOf, live)
                   /\ Summed(live, Weights(live), f)
        BY WeightsSummed
    <2>2. PICK W \in Nat \ {0} : W = MapThenSumSet(WeightOf, live)
        BY WeightsPositive
    <2>3. PICK M \in Nat : M = PointsKetama * n
        BY DistributionAssumption
    <2>4. \A h \in live : Cardinality(points[h]) * W <= Weights(live)[h] * M
        <3> SUFFICES ASSUME NEW h \in live
                     PROVE  Cardinality(points[h]) * W <= Weights(live)[h] * M
            OBVIOUS
        <3>1. PICK s \in Nat : s = Share(h, live, weighted)
            BY Shares
        <3>2. s * W <= WeightOf(h) * M
            <4>1. Share(h, live, TRUE) * W <= WeightOf(h) * (PointsKetama * n)
                BY Shares, <1>3, <2>2
            <4> QED  BY <1>4, <2>3, <3>1, <4>1, Zenon
        <3>3. Cardinality(points[h]) \in Nat /\ Cardinality(points[h]) <= s
            BY <1>2, <3>1
        <3>4. Cardinality(points[h]) * W <= s * W
            BY <3>3, Products
        <3>5. Cardinality(points[h]) * W \in Nat /\ s * W \in Nat
            BY <3>3, Products
        <3>6. Weights(live)[h] = WeightOf(h) /\ WeightOf(h) \in Nat
            BY WeightPositive DEF Weights
        <3>7. WeightOf(h) * M \in Nat
            BY <3>6, Products
        <3> QED  BY <3>2, <3>4, <3>5, <3>6, <3>7
    <2>5. IsFiniteSet(U) /\ Cardinality(U) * W <= f[live] * M
        <3>1. InProportion(live, points, Weights(live), W, M)
            BY <1>2, <2>4, Zenon DEF InProportion
        <3> QED  BY <2>1, <3>1, PointsAdd
    <2>6. Cardinality(U) \in Nat
        BY <2>5, FS_CardinalityType
    <2>7. Cardinality(U) <= M
        <3>1. Cardinality(U) * W <= W * M
            BY <2>1, <2>2, <2>5
        <3>2. \A a, b \in Nat : a * W <= W * b => a <= b
            <4> TAKE a, b \in Nat
            <4>1. b + 1 <= a => (b + 1) * W <= a * W
                BY Products
            <4>2. (b + 1) * W = W * b + W /\ W * b \in Nat /\ a * W \in Nat
                BY Products
            <4> QED  BY <4>1, <4>2
        <3> QED  BY <2>6, <3>1, <3>2
    <2>8. PointsPerServer = PointsKetama
        BY <1>4, Zenon DEF PointsPerServer
    <2>9. PointsKetama * n = n * PointsKetama
        BY DistributionAssumption
    <2> QED  BY <1>1, <1>3, <2>3, <2>5, <2>7, <2>8, <2>9
<1>5. CASE weighted = FALSE
    <2>1. PICK f : f[live] = Cardinality(live) /\ Summed(live, [h \in live |-> 1], f)
        BY HostsSummed
    <2>2. Points \in Nat /\ 1 \in Nat
        BY DistributionAssumption
    <2>3. \A h \in live : Cardinality(points[h]) * 1 <= [g \in live |-> 1][h] * Points
        <3> SUFFICES ASSUME NEW h \in live
                     PROVE  Cardinality(points[h]) * 1 <= [g \in live |-> 1][h] * Points
            OBVIOUS
        <3>1. Share(h, live, weighted) = Points
            BY <1>5, Zenon DEF Share
        <3>2. [g \in live |-> 1][h] = 1
            OBVIOUS
        <3>3. Cardinality(points[h]) \in Nat /\ Cardinality(points[h]) <= Points
            BY <1>2, <3>1
        <3> QED  BY <2>2, <3>2, <3>3
    <2>4. IsFiniteSet(U) /\ Cardinality(U) * 1 <= f[live] * Points
        <3>1. InProportion(live, points, [h \in live |-> 1], 1, Points)
            BY <1>2, <2>3, Zenon DEF InProportion
        <3> QED  BY <2>1, <2>2, <3>1, PointsAdd
    <2>5. Cardinality(U) \in Nat
        BY <2>4, FS_CardinalityType
    <2>6. PointsPerServer = Points
        BY <1>5, Zenon DEF PointsPerServer
    <2>7. Cardinality(U) <= Cardinality(live) * Points
        BY <2>1, <2>4, <2>5
    <2> QED  BY <1>1, <2>4, <2>6, <2>7
<1> QED  BY <1>4, <1>5

\* c is the continuum of the live hosts of l: sorted, each point is one of a
\* live host in its place in the list, and each live host has its points there.
OwnerAt(l, x) == l[x.index + 1]
IsPoint(l, x, live, h, p, by_weight) ==
    /\ h \in live /\ p \in 0..(Share(h, live, by_weight) - 1)
    /\ x.index + 1 \in DOMAIN l /\ OwnerAt(l, x) = h /\ x.value = Value[h][p]
Described(c, l, live, by_weight) ==
    /\ c \in Seq([value : Hashes, index : 0..(Cardinality(Hosts) - 1)])
    /\ Rising(c)
    /\ \A i \in DOMAIN c : \E h, p : IsPoint(l, c[i], live, h, p, by_weight)
    /\ \A h \in live : \A p \in 0..(Share(h, live, by_weight) - 1) :
          \E i \in DOMAIN c : IsPoint(l, c[i], live, h, p, by_weight)

\* Points are told apart by their values, which are hashes.
LEMMA Digests ==
    ASSUME NEW live \in SUBSET Hosts, NEW by_weight \in BOOLEAN
    PROVE  /\ \A h \in live : \A p \in 0..(Share(h, live, by_weight) - 1) :
                 Value[h][p] \in Hashes
           /\ \A g, h \in live : \A p \in 0..(Share(g, live, by_weight) - 1) :
                 \A q \in 0..(Share(h, live, by_weight) - 1) :
                    Value[g][p] = Value[h][q] => g = h /\ p = q
<1>1. \A h \in live : \A p \in 0..(Share(h, live, by_weight) - 1) : p \in DOMAIN Value[h]
    BY TableAssumption
<1>2. \A h \in live : h \in Hosts
    OBVIOUS
<1>3. \A h \in Hosts : \A p \in DOMAIN Value[h] : Value[h][p] \in Hashes
    BY ValueAssumption DEF Hashes
<1>4. \A g, h \in Hosts : \A p \in DOMAIN Value[g] : \A q \in DOMAIN Value[h] :
          Value[g][p] = Value[h][q] => g = h /\ p = q
    BY ValueAssumption
<1> QED  BY <1>1, <1>2, <1>3, <1>4

\* update_continuum builds that continuum, and it fits.
LEMMA BuildDescribed ==
    ASSUME NEW l, Distinct(l), NEW live, live = LiveIn(l), live # {},
           weighted \in BOOLEAN
    PROVE  /\ Described(Build(l), l, live, weighted) /\ Build(l) # <<>>
           /\ Len(Build(l)) <= Cardinality(live) * PointsPerServer
<1>1. live \in SUBSET ToSet(l) /\ live \in SUBSET Hosts
    BY DistinctSet DEF LiveIn
<1>2. PICK place : place = [h \in ToSet(l) |-> (CHOOSE i \in DOMAIN l : l[i] = h) - 1]
    OBVIOUS
<1>3. \A h \in live : /\ place[h] \in 0..(Cardinality(Hosts) - 1)
                      /\ place[h] + 1 \in DOMAIN l /\ l[place[h] + 1] = h
    <2> SUFFICES ASSUME NEW h \in live
                 PROVE  /\ place[h] \in 0..(Cardinality(Hosts) - 1)
                        /\ place[h] + 1 \in DOMAIN l /\ l[place[h] + 1] = h
        OBVIOUS
    <2>1. \E i \in DOMAIN l : l[i] = h
        BY <1>1, DistinctSet
    <2>2. PICK j : j = CHOOSE i \in DOMAIN l : l[i] = h
        OBVIOUS
    <2>3. j \in DOMAIN l /\ l[j] = h
        BY <2>1, <2>2, Zenon
    <2>4. place[h] = j - 1
        BY <1>1, <1>2, <2>2
    <2>5. DOMAIN l = 1..Len(l) /\ Len(l) \in Nat /\ Len(l) <= Cardinality(Hosts)
          /\ Cardinality(Hosts) \in Nat
        BY DistinctSet
    <2>6. j \in Nat /\ 1 <= j /\ j <= Cardinality(Hosts)
        BY <2>3, <2>5
    <2>7. place[h] \in 0..(Cardinality(Hosts) - 1) /\ place[h] + 1 = j
        BY <2>4, <2>5, <2>6
    <2> QED  BY <2>3, <2>7
<1>4. PICK points : points = UNION {PointsAt(h, place[h], live) : h \in live}
    OBVIOUS
<1>5. Build(l) = SortPoints(points)
    <2> DEFINE pl == [h \in ToSet(l) |-> (CHOOSE i \in DOMAIN l : l[i] = h) - 1]
               L == LiveIn(l)
    <2>1. Build(l) = SortPoints(UNION {PointsAt(h, pl[h], L) : h \in L})
        BY Zenon DEF Build, PointsAt, PointsOf
    <2>2. place = pl /\ live = L
        BY <1>2, Zenon
    <2> HIDE DEF pl, L
    <2> QED  BY <1>4, <2>1, <2>2, Zenon
<1>6. IsFiniteSet(points) /\ Cardinality(points) <= Cardinality(live) * PointsPerServer
    BY <1>1, <1>4, PointsFit
<1> DEFINE Of(x, h, p) == /\ h \in live /\ p \in 0..(Share(h, live, weighted) - 1)
                          /\ x = [value |-> Value[h][p], index |-> place[h]]
<1>7. \A x : x \in points <=> \E h, p : Of(x, h, p)
    BY <1>4 DEF PointsAt
<1>8. \A x \in points : \E h, p : IsPoint(l, x, live, h, p, weighted)
                             /\ x.index = place[h]
                             /\ x = [value |-> Value[h][p], index |-> place[h]]
    <2> SUFFICES ASSUME NEW x \in points
                 PROVE  \E h, p : IsPoint(l, x, live, h, p, weighted)
                             /\ x.index = place[h]
                             /\ x = [value |-> Value[h][p], index |-> place[h]]
        OBVIOUS
    <2>1. PICK h, p : Of(x, h, p)
        BY <1>7
    <2>2. x.value = Value[h][p] /\ x.index = place[h]
        BY <2>1
    <2>3. IsPoint(l, x, live, h, p, weighted)
        BY <1>3, <2>1, <2>2 DEF IsPoint, OwnerAt
    <2> QED  BY <2>1, <2>2, <2>3
<1>9. points \subseteq [value : Hashes, index : 0..(Cardinality(Hosts) - 1)]
    <2> SUFFICES ASSUME NEW x \in points
                 PROVE  x \in [value : Hashes, index : 0..(Cardinality(Hosts) - 1)]
        OBVIOUS
    <2>1. PICK h, p : Of(x, h, p)
        BY <1>7
    <2>2. Value[h][p] \in Hashes /\ place[h] \in 0..(Cardinality(Hosts) - 1)
        BY <1>1, <1>3, <2>1, Digests
    <2> QED  BY <2>1, <2>2
<1>10. \A x, y \in points : x.value = y.value => x = y
    <2> SUFFICES ASSUME NEW x \in points, NEW y \in points, x.value = y.value
                 PROVE  x = y
        OBVIOUS
    <2>1. PICK g, p : Of(x, g, p)
        BY <1>7
    <2>2. PICK h, q : Of(y, h, q)
        BY <1>7
    <2>3. Value[g][p] = Value[h][q]
        BY <2>1, <2>2
    <2>4. g = h /\ p = q
        BY <1>1, <2>1, <2>2, <2>3, Digests
    <2> QED  BY <2>1, <2>2, <2>4
<1>11. \A x \in points : x.value \in Int
    BY <1>9 DEF Hashes
<1>12. PICK c : c = SortPoints(points)
    OBVIOUS
<1>13. /\ c \in Seq(points) /\ Rising(c) /\ Len(c) = Cardinality(points)
       /\ \A x \in points : \E i \in DOMAIN c : c[i] = x
    BY <1>6, <1>10, <1>11, <1>12, SortPointsSorts
<1>14. DOMAIN c = 1..Len(c) /\ \A i \in DOMAIN c : c[i] \in points
    BY <1>13, LenProperties, ElementOfSeq
<1>15. c \in Seq([value : Hashes, index : 0..(Cardinality(Hosts) - 1)])
    BY <1>9, <1>13, SeqMonotonic
<1>16. ASSUME NEW h \in live, NEW p \in 0..(Share(h, live, weighted) - 1)
       PROVE  \E i \in DOMAIN c : IsPoint(l, c[i], live, h, p, weighted)
    <2> PICK x : x = [value |-> Value[h][p], index |-> place[h]]
        OBVIOUS
    <2>1. x \in points
        BY <1>7
    <2>2. IsPoint(l, x, live, h, p, weighted)
        BY <1>3 DEF IsPoint, OwnerAt
    <2> QED  BY <1>13, <2>1, <2>2
<1>17. Described(c, l, live, weighted)
    BY <1>8, <1>13, <1>14, <1>15, <1>16 DEF Described
<1>18. c # <<>>
    <2>1. PICK h \in live : Share(h, live, weighted) > 0
        BY <1>1, Shares
    <2>2. Share(h, live, weighted) \in Nat
        BY <1>1, Shares
    <2>3. 0 \in 0..(Share(h, live, weighted) - 1)
        BY <2>1, <2>2
    <2>4. PICK i \in DOMAIN c : TRUE
        BY <1>16, <2>3
    <2> QED  BY <2>4
<1> QED  BY <1>5, <1>6, <1>12, <1>13, <1>17, <1>18

-----------------------------------------------------------------------------
(* The binary search of dispatch_host.                                     *)

\* The middle of a window.
LEMMA Middle ==
    ASSUME NEW l \in Nat, NEW r \in Nat, l < r
    PROVE  /\ l + (r - l) \div 2 \in Nat /\ l <= l + (r - l) \div 2
           /\ l + (r - l) \div 2 < r
OBVIOUS

\* One step of the search in the window w, by f.
Windows == (0..Len(continuum)) \X (0..Len(continuum))
Half(w) == w[1] + (w[2] - w[1]) \div 2
NextWindow(hash, w) ==
    IF continuum[Half(w) + 1].value < hash THEN <<Half(w) + 1, w[2]>> ELSE <<w[1], Half(w)>>
Halve(hash, f, w) == IF w[1] >= w[2] THEN w[2] ELSE f[NextWindow(hash, w)]

\* The next window is one, and smaller.
LEMMA Narrows ==
    ASSUME NEW hash, Len(continuum) \in Nat, NEW w \in Windows, w[1] < w[2]
    PROVE  /\ NextWindow(hash, w) \in Windows
           /\ NextWindow(hash, w)[1] <= NextWindow(hash, w)[2]
           /\ NextWindow(hash, w)[2] - NextWindow(hash, w)[1] < w[2] - w[1]
<1>1. w[1] \in Nat /\ w[2] \in Nat /\ w[2] <= Len(continuum)
    BY DEF Windows
<1>2. PICK m : m = Half(w)
    OBVIOUS
<1>3. m \in Nat /\ w[1] <= m /\ m < w[2]
    BY <1>1, <1>2, Middle DEF Half
<1>4. CASE NextWindow(hash, w) = <<m + 1, w[2]>>
    BY <1>1, <1>3, <1>4 DEF Windows
<1>5. CASE NextWindow(hash, w) = <<w[1], m>>
    BY <1>1, <1>3, <1>5 DEF Windows
<1> QED  BY <1>2, <1>4, <1>5, Zenon DEF NextWindow

\* The search is a recursion that ends.
LEMMA SearchRecurs ==
    ASSUME NEW hash, Len(continuum) \in Nat
    PROVE  \E f : /\ \A w \in Windows : f[w] = Halve(hash, f, w)
                  /\ Search(hash) =
                        continuum[IF f[<<0, Len(continuum)>>] = Len(continuum)
                                  THEN 1 ELSE f[<<0, Len(continuum)>>] + 1].index
<1> DEFINE D == Windows
           leaves == {w \in D : w[1] >= w[2]}
           base == [w \in D |-> w[2]]
           add == [w \in D |-> 0]
           next == [w \in D |-> IF w[1] >= w[2] THEN w ELSE NextWindow(hash, w)]
           size == [w \in D |-> IF w[1] >= w[2] THEN 0 ELSE w[2] - w[1]]
<1>1. \A w \in D : w[1] \in Nat /\ w[2] \in Nat /\ w[2] <= Len(continuum)
    BY DEF Windows
<1>2. base \in [D -> Int] /\ add \in [D -> Int] /\ size \in [D -> Nat]
    BY <1>1
<1>3. next \in [D -> D]
    BY <1>1, Narrows
<1>4. \A w \in D : size[w] <= Len(continuum)
    BY <1>1
<1>5. \A w \in D \ leaves : size[next[w]] < size[w]
    <2> SUFFICES ASSUME NEW w \in D, ~ (w[1] >= w[2]) PROVE size[next[w]] < size[w]
        OBVIOUS
    <2>1. next[w] = NextWindow(hash, w)
        BY Zenon
    <2>2. PICK x : x = NextWindow(hash, w)
        OBVIOUS
    <2>3. x \in D /\ x[1] <= x[2] /\ x[2] - x[1] < w[2] - w[1]
        BY <1>1, <2>2, Narrows
    <2>4. size[x] = IF x[1] >= x[2] THEN 0 ELSE x[2] - x[1]
        BY <2>3
    <2>5. size[w] = w[2] - w[1]
        OBVIOUS
    <2> HIDE DEF size, next, D
    <2> QED  BY <1>1, <2>1, <2>2, <2>3, <2>4, <2>5
<1>6. Falls(D, leaves, base, add, next, size, Len(continuum))
    <2> HIDE DEF D, leaves, base, add, next, size
    <2> QED  BY <1>2, <1>3, <1>4, <1>5, Zenon DEF Falls
<1>7. PICK f \in [D -> Int] : \A w \in D : f[w] = Unfold(f, w, leaves, base, add, next)
    <2> HIDE DEF D, leaves, base, add, next, size
    <2> QED  BY <1>6, RecursionDefines
<1>8. \A w \in D : f[w] = Halve(hash, f, w)
    <2> SUFFICES ASSUME NEW w \in D PROVE f[w] = Halve(hash, f, w)
        OBVIOUS
    <2>1. CASE w[1] >= w[2]
        BY <1>7, <2>1 DEF Unfold, Halve
    <2>2. CASE ~ (w[1] >= w[2])
        <3>1. f[w] = add[w] + f[next[w]] /\ next[w] \in D
            BY <1>3, <1>7, <2>2 DEF Unfold
        <3>2. add[w] = 0 /\ next[w] = NextWindow(hash, w)
            BY <2>2
        <3>3. f[next[w]] \in Int
            BY <3>1
        <3>4. f[w] = f[NextWindow(hash, w)]
            <4> HIDE DEF add, next
            <4> QED  BY <3>1, <3>2, <3>3
        <3> QED  BY <2>2, <3>4, Zenon DEF Halve
    <2> QED  BY <2>1, <2>2
<1>9. f = [w \in D |-> Halve(hash, f, w)]
    BY <1>8
<1>10. \A k, w : Halve(hash, k, w) =
           IF w[1] >= w[2] THEN w[2]
           ELSE LET m == w[1] + (w[2] - w[1]) \div 2
                IN IF continuum[m + 1].value < hash
                   THEN k[<<m + 1, w[2]>>] ELSE k[<<w[1], m>>]
    BY Zenon DEF Halve, NextWindow, Half
<1>11. f = [w \in (0..Len(continuum)) \X (0..Len(continuum)) |->
               IF w[1] >= w[2] THEN w[2]
               ELSE LET m == w[1] + (w[2] - w[1]) \div 2
                    IN IF continuum[m + 1].value < hash
                       THEN f[<<m + 1, w[2]>>] ELSE f[<<w[1], m>>]]
    <2> HIDE DEF leaves, base, add, next, size
    <2> QED  BY <1>9, <1>10, Zenon DEF Windows
<1> DEFINE g == CHOOSE g : g = [w \in (0..Len(continuum)) \X (0..Len(continuum)) |->
               IF w[1] >= w[2] THEN w[2]
               ELSE LET m == w[1] + (w[2] - w[1]) \div 2
                    IN IF continuum[m + 1].value < hash
                       THEN g[<<m + 1, w[2]>>] ELSE g[<<w[1], m>>]]
<1>12. g = [w \in (0..Len(continuum)) \X (0..Len(continuum)) |->
               IF w[1] >= w[2] THEN w[2]
               ELSE LET m == w[1] + (w[2] - w[1]) \div 2
                    IN IF continuum[m + 1].value < hash
                       THEN g[<<m + 1, w[2]>>] ELSE g[<<w[1], m>>]]
    BY <1>11, Zenon
<1>13. Search(hash) = continuum[IF g[<<0, Len(continuum)>>] = Len(continuum)
                                THEN 1 ELSE g[<<0, Len(continuum)>>] + 1].index
    BY Zenon DEF Search
<1>14. \A w \in Windows : g[w] = Halve(hash, g, w)
    <2> HIDE DEF g, leaves, base, add, next, size
    <2> SUFFICES ASSUME NEW w \in Windows PROVE g[w] = Halve(hash, g, w)
        OBVIOUS
    <2>1. PICK k : k = [v \in (0..Len(continuum)) \X (0..Len(continuum)) |->
               IF v[1] >= v[2] THEN v[2]
               ELSE LET m == v[1] + (v[2] - v[1]) \div 2
                    IN IF continuum[m + 1].value < hash
                       THEN g[<<m + 1, v[2]>>] ELSE g[<<v[1], m>>]]
        OBVIOUS
    <2>2. g = k
        BY <1>12, <2>1, Zenon
    <2>3. k[w] = IF w[1] >= w[2] THEN w[2]
                 ELSE LET m == w[1] + (w[2] - w[1]) \div 2
                      IN IF continuum[m + 1].value < hash
                         THEN g[<<m + 1, w[2]>>] ELSE g[<<w[1], m>>]
        BY <2>1, Zenon DEF Windows
    <2>4. k[w] = Halve(hash, g, w)
        BY <1>10, <2>3, Zenon
    <2> QED  BY <2>2, <2>4, Zenon
<1> HIDE DEF g
<1> HIDE DEF g
<1> QED  BY <1>13, <1>14, Zenon

\* R points lie before the hash, and no more.
Cut(hash, R) ==
    /\ \A i \in 1..R : continuum[i].value < hash
    /\ \A i \in (R + 1)..Len(continuum) : hash <= continuum[i].value
Bounds(hash, w) ==
    /\ w[1] <= w[2]
    /\ \A i \in 1..w[1] : continuum[i].value < hash
    /\ \A i \in (w[2] + 1)..Len(continuum) : hash <= continuum[i].value

\* Halving a window keeps the cut inside.
LEMMA KeepsBounds ==
    ASSUME NEW hash \in Int, Len(continuum) \in Nat, DOMAIN continuum = 1..Len(continuum),
           \A i \in DOMAIN continuum : continuum[i].value \in Int, Rising(continuum),
           NEW w \in Windows, w[1] < w[2], Bounds(hash, w)
    PROVE  Bounds(hash, NextWindow(hash, w))
<1>1. w[1] \in Nat /\ w[2] \in Nat /\ w[2] <= Len(continuum)
    BY DEF Windows
<1>2. PICK m : m = Half(w)
    OBVIOUS
<1>3. m \in Nat /\ w[1] <= m /\ m < w[2]
    BY <1>1, <1>2, Middle DEF Half
<1>4. PICK v \in [1..Len(continuum) -> Int] : \A i \in 1..Len(continuum) : v[i] = continuum[i].value
    <2>1. [i \in 1..Len(continuum) |-> continuum[i].value] \in [1..Len(continuum) -> Int]
        OBVIOUS
    <2> QED  BY <2>1
<1>5. \A i, j \in 1..Len(continuum) : i < j => v[i] < v[j]
    BY <1>4 DEF Rising
<1>6. /\ \A i \in 1..w[1] : v[i] < hash
      /\ \A i \in (w[2] + 1)..Len(continuum) : hash <= v[i]
    BY <1>1, <1>4 DEF Bounds
<1>7. m + 1 \in 1..Len(continuum)
    BY <1>1, <1>3
<1>8. CASE v[m + 1] < hash
    <2>1. NextWindow(hash, w) = <<m + 1, w[2]>>
        BY <1>2, <1>4, <1>7, <1>8, Zenon DEF NextWindow
    <2>2. \A i \in 1..(m + 1) : v[i] < hash
        <3> SUFFICES ASSUME NEW i \in 1..(m + 1) PROVE v[i] < hash
            OBVIOUS
        <3>1. i \in 1..Len(continuum) /\ (i < m + 1 \/ i = m + 1)
            BY <1>3, <1>7
        <3>2. v[i] \in Int /\ v[m + 1] \in Int
            BY <1>7, <3>1
        <3> QED  BY <1>5, <1>7, <1>8, <3>1, <3>2
    <2>3. \A i \in 1..(m + 1) : continuum[i].value < hash
        BY <1>3, <1>4, <1>7, <2>2
    <2>4. \A i \in (w[2] + 1)..Len(continuum) : hash <= continuum[i].value
        BY DEF Bounds
    <2>5. m + 1 <= w[2]
        BY <1>1, <1>3
    <2> QED  BY <2>1, <2>3, <2>4, <2>5 DEF Bounds
<1>9. CASE ~ (v[m + 1] < hash)
    <2>1. NextWindow(hash, w) = <<w[1], m>>
        BY <1>2, <1>4, <1>7, <1>9, Zenon DEF NextWindow
    <2>2. \A i \in (m + 1)..Len(continuum) : hash <= v[i]
        <3> SUFFICES ASSUME NEW i \in (m + 1)..Len(continuum) PROVE hash <= v[i]
            OBVIOUS
        <3>1. i \in 1..Len(continuum) /\ (m + 1 < i \/ i = m + 1)
            BY <1>3, <1>7
        <3>2. v[i] \in Int /\ v[m + 1] \in Int
            BY <1>7, <3>1
        <3> QED  BY <1>5, <1>7, <1>9, <3>1, <3>2
    <2>3. \A i \in (m + 1)..Len(continuum) : hash <= continuum[i].value
        BY <1>3, <1>4, <1>7, <2>2
    <2>4. \A i \in 1..w[1] : continuum[i].value < hash
        BY DEF Bounds
    <2> QED  BY <1>3, <2>1, <2>3, <2>4 DEF Bounds
<1> QED  BY <1>8, <1>9

\* dispatch_host finds the first point at or after the hash, the circle closed.
LEMMA SearchFinds ==
    ASSUME NEW hash \in Int, Len(continuum) \in Nat, DOMAIN continuum = 1..Len(continuum),
           \A i \in DOMAIN continuum : continuum[i].value \in Int, Rising(continuum)
    PROVE  \E R \in 0..Len(continuum) :
              /\ Cut(hash, R)
              /\ Search(hash) = continuum[IF R = Len(continuum) THEN 1 ELSE R + 1].index
<1>1. PICK f : /\ \A w \in Windows : f[w] = Halve(hash, f, w)
               /\ Search(hash) = continuum[IF f[<<0, Len(continuum)>>] = Len(continuum)
                                           THEN 1 ELSE f[<<0, Len(continuum)>>] + 1].index
    BY SearchRecurs
<1> DEFINE Good(w) == w \in Windows /\ Bounds(hash, w)
           Found(R) == R \in 0..Len(continuum) /\ Cut(hash, R)
           Bad == {k \in Nat : \E w : Good(w) /\ k = w[2] - w[1] /\ ~ Found(f[w])}
<1>2. \A w \in Windows : w[1] \in Nat /\ w[2] \in Nat /\ w[2] <= Len(continuum)
    BY DEF Windows
<1>3. Bad = {}
    <2> SUFFICES ASSUME Bad # {} PROVE FALSE
        OBVIOUS
    <2>1. PICK k \in Bad : \A j \in Bad : k <= j
        <3>1. Bad \in SUBSET Nat
            OBVIOUS
        <3> HIDE DEF Bad
        <3> QED  BY <3>1, LeastNat
    <2>2. PICK w : Good(w) /\ k = w[2] - w[1] /\ ~ Found(f[w])
        OBVIOUS
    <2>3. f[w] = Halve(hash, f, w)
        BY <1>1, <2>2
    <2>4. CASE w[1] >= w[2]
        <3>1. f[w] = w[2]
            BY <2>3, <2>4, Zenon DEF Halve
        <3>2. w[1] = w[2]
            BY <1>2, <2>2, <2>4 DEF Bounds
        <3>3. Found(w[2])
            BY <1>2, <2>2, <3>2 DEF Bounds, Cut
        <3> QED  BY <2>2, <3>1, <3>3
    <2>5. CASE ~ (w[1] >= w[2])
        <3>1. w[1] < w[2]
            BY <1>2, <2>2, <2>5
        <3>2. PICK x : x = NextWindow(hash, w)
            OBVIOUS
        <3>3. x \in Windows /\ x[2] - x[1] < w[2] - w[1]
            BY <2>2, <3>1, <3>2, Narrows
        <3>4. Bounds(hash, x)
            BY <2>2, <3>1, <3>2, KeepsBounds
        <3>5. f[w] = f[x]
            BY <2>3, <2>5, <3>2, Zenon DEF Halve
        <3>6. x[2] - x[1] \in Nat
            BY <1>2, <3>3, <3>4 DEF Bounds
        <3>7. x[2] - x[1] \in Bad
            <4> HIDE DEF Found
            <4> QED  BY <2>2, <3>3, <3>4, <3>5, <3>6
        <3>8. k <= x[2] - x[1]
            BY <2>1, <3>7
        <3> QED  BY <1>2, <2>2, <3>3, <3>6, <3>8
    <2> QED  BY <2>4, <2>5
<1>4. PICK w : w = <<0, Len(continuum)>>
    OBVIOUS
<1>5. w \in Windows /\ Bounds(hash, w) /\ w[2] - w[1] \in Nat
    BY <1>4 DEF Windows, Bounds
<1>6. Found(f[w])
    <2> HIDE DEF Found
    <2> QED  BY <1>3, <1>5
<1> QED  BY <1>1, <1>4, <1>6, Zenon

-----------------------------------------------------------------------------
(* The inductive invariant.                                                *)

\* The continuum is that of the live hosts, which are some of the list, and
\* the others are scheduled to return.
Scheduled(h) == rebuild # NONE /\ rebuild <= wait[h]
Serves(live) ==
    /\ live \in SUBSET ToSet(list) /\ live # {} /\ continuum # <<>>
    /\ Described(continuum, list, live, weighted)
    /\ \A h \in ToSet(list) \ live : Scheduled(h)

\* The array grows with the hosts it is meant for.
Allotted == allocated = continuum_count * PointsPerServer

RingInv == Allotted /\ Rising(continuum) /\ Fits
ServesInv == Routing => \E live : Serves(live)

\* Besides the types: a host comes once in the list, the array is as large as
\* continuum_count says, and a continuum in use is that of some live hosts.
DistInv == TypeOK /\ Distinct(list) /\ RingInv /\ ServesInv

\* What dispatch_host gives is a host, or the mark of a stale continuum.
DispatchOK == \A hash \in Hashes : Dispatch(hash) \subseteq Hosts \cup {NoHost, Lost}
HandleOK == /\ list \in Seq(Hosts) /\ list # <<>> /\ Rising(continuum)
            /\ continuum \in Seq([value : Hashes, index : 0..(Cardinality(Hosts) - 1)])

\* Shape of the continuum, in the form the search needs it.
LEMMA ContinuumShape ==
    ASSUME NEW c \in Seq([value : Hashes, index : 0..(Cardinality(Hosts) - 1)])
    PROVE  /\ Len(c) \in Nat /\ DOMAIN c = 1..Len(c)
           /\ \A i \in DOMAIN c : c[i].value \in Int /\ c[i].value \in Hashes
                                  /\ c[i].index \in Nat
<1>1. Len(c) \in Nat /\ DOMAIN c = 1..Len(c)
    BY LenProperties
<1>2. \A i \in DOMAIN c : c[i] \in [value : Hashes, index : 0..(Cardinality(Hosts) - 1)]
    BY <1>1, ElementOfSeq
<1>3. Cardinality(Hosts) \in Nat
    BY DistributionAssumption, FS_CardinalityType
<1>4. \A i \in DOMAIN c : c[i].value \in Hashes
                          /\ c[i].index \in 0..(Cardinality(Hosts) - 1)
    BY <1>2
<1>5. \A x \in Hashes : x \in Int
    BY DEF Hashes
<1>6. \A x \in 0..(Cardinality(Hosts) - 1) : x \in Nat
    BY <1>3
<1> QED  BY <1>1, <1>4, <1>5, <1>6

\* A place of the list is a host, any other is not there.
LEMMA HostAtTyped ==
    ASSUME NEW index \in Nat, list \in Seq(Hosts)
    PROVE  HostAt(index) \in Hosts \cup {Lost}
<1>1. Len(list) \in Nat /\ DOMAIN list = 1..Len(list)
    BY LenProperties
<1>2. CASE index < Len(list)
    BY <1>1, <1>2, ElementOfSeq DEF HostAt
<1>3. CASE ~ (index < Len(list))
    BY <1>3 DEF HostAt
<1> QED  BY <1>2, <1>3

LEMMA DispatchTyped == HandleOK => DispatchOK
<1> SUFFICES ASSUME HandleOK, NEW hash \in Hashes
             PROVE  Dispatch(hash) \subseteq Hosts \cup {NoHost, Lost}
    BY DEF DispatchOK
<1>1. Len(list) \in Nat /\ Len(list) > 0 /\ list \in Seq(Hosts)
    BY LenProperties, EmptySeq DEF HandleOK
<1>2. hash \in Nat
    BY DistributionAssumption DEF Hashes
<1>3. hash % Len(list) \in Nat
    BY <1>1, <1>2
<1>4. ToSet(list) \subseteq Hosts
    BY <1>1, ElementOfSeq, LenProperties DEF ToSet
<1>5. ASSUME continuum # <<>>
      PROVE  Search(hash) \in Nat
    <2>1. continuum \in Seq([value : Hashes, index : 0..(Cardinality(Hosts) - 1)])
          /\ Rising(continuum)
        BY DEF HandleOK
    <2>2. /\ Len(continuum) \in Nat /\ DOMAIN continuum = 1..Len(continuum)
          /\ \A i \in DOMAIN continuum : continuum[i].value \in Int
          /\ \A i \in DOMAIN continuum : continuum[i].index \in Nat
        BY <2>1, ContinuumShape
    <2>3. hash \in Int
        BY <1>2
    <2>4. PICK R \in 0..Len(continuum) :
            Search(hash) = continuum[IF R = Len(continuum) THEN 1 ELSE R + 1].index
        BY <2>1, <2>2, <2>3, SearchFinds
    <2>5. Len(continuum) # 0
        BY <1>5, <2>1, EmptySeq
    <2>6. PICK i : i = IF R = Len(continuum) THEN 1 ELSE R + 1
        OBVIOUS
    <2>7. i \in 1..Len(continuum)
        <3>1. Len(continuum) \in Nat
            BY <2>2
        <3> QED  BY <2>5, <2>6, <3>1
    <2>8. continuum[i].index \in Nat
        BY <2>2, <2>7
    <2> QED  BY <2>4, <2>6, <2>8, Zenon
<1>6. CASE distribution = "modula"
    <2>1. Dispatch(hash) = {HostAt(hash % Len(list))}
        BY <1>6, Zenon DEF Dispatch
    <2> QED  BY <1>1, <1>3, <2>1, HostAtTyped
<1>7. CASE distribution = "random"
    <2>1. Dispatch(hash) = ToSet(list)
        BY <1>7 DEF Dispatch
    <2> QED  BY <1>4, <2>1
<1>8. CASE distribution = "ketama" /\ continuum # <<>>
    <2>1. Dispatch(hash) = {HostAt(Search(hash))}
        BY <1>8 DEF Dispatch
    <2> QED  BY <1>1, <1>5, <1>8, <2>1, HostAtTyped
<1>9. CASE /\ distribution # "modula" /\ distribution # "random"
           /\ ~ (distribution = "ketama" /\ continuum # <<>>)
    <2>1. Dispatch(hash) = {Lost}
        BY <1>9, Zenon DEF Dispatch
    <2> QED  BY <2>1
<1> QED  BY <1>6, <1>7, <1>8, <1>9

LEMMA DispatchTypedNext == HandleOK' => DispatchOK'
BY DispatchTyped, PTL

-----------------------------------------------------------------------------
(* run_distribution keeps it.                                              *)

RingTyped ==
    /\ continuum \in Seq([value : Hashes, index : 0..(Cardinality(Hosts) - 1)])
    /\ continuum_count \in Nat /\ allocated \in Nat
    /\ rebuild \in {NONE} \cup -1..Retry
    /\ ended \in {"built", "none live", "no memory"}

\* The next rebuild is due before any skipped host's delay is over.
LEMMA RescheduleFirst ==
    ASSUME NEW l, ToSet(l) \in SUBSET Hosts, wait \in [Hosts -> 0..Retry],
           rebuild \in {NONE} \cup -1..Retry
    PROVE  /\ Reschedule(l) \in {NONE} \cup -1..Retry
           /\ \A h \in ToSet(l) \ LiveIn(l) :
                 Reschedule(l) # NONE /\ Reschedule(l) <= wait[h]
<1> PICK skipped : skipped = ToSet(l) \ LiveIn(l)
    OBVIOUS
<1>0. Retry \in Nat
    BY DistributionAssumption
<1>1. Reschedule(l) = IF ~auto_eject THEN rebuild
                      ELSE IF skipped = {} THEN NONE ELSE Min({wait[h] : h \in skipped})
    BY Zenon DEF Reschedule
<1>2. ~auto_eject => skipped = {}
    BY DEF LiveIn
<1>3. CASE skipped = {}
    BY <1>1, <1>3 DEF NONE
<1>4. CASE skipped # {}
    <2>1. PICK T : T = {wait[h] : h \in skipped}
        OBVIOUS
    <2>2. T \in SUBSET (0..Retry) /\ T # {}
        BY <1>4, <2>1
    <2>3. \A t \in T : t \in Nat
        BY <1>0, <2>2
    <2>4. Min(T) \in T /\ \A t \in T : Min(T) <= t
        BY <2>2, <2>3, MinIsLeast
    <2>5. Reschedule(l) = Min(T)
        BY <1>1, <1>2, <1>4, <2>1, Zenon
    <2>6. \A h \in skipped : wait[h] \in T
        BY <2>1
    <2>7. Min(T) # NONE /\ Min(T) \in 0..Retry
        <3>1. PICK k : k = Min(T)
            OBVIOUS
        <3>2. k \in 0..Retry /\ k \in Nat
            BY <2>2, <2>3, <2>4, <3>1
        <3>3. k # NONE
            BY <3>2 DEF NONE
        <3> QED  BY <3>1, <3>2, <3>3
    <2> QED  BY <1>0, <2>4, <2>5, <2>6, <2>7
<1> QED  BY <1>3, <1>4

\* A larger array is enough for more hosts.
LEMMA Room ==
    ASSUME NEW n \in Nat, NEW m \in Nat, n <= m, NEW K \in Nat
    PROVE  n * K <= m * K
BY SMT

LEMMA RunKeeps ==
    ASSUME wait \in [Hosts -> 0..Retry], RingTyped, RingInv, weighted \in BOOLEAN,
           NEW l, Distinct(l), NEW sorted, NEW dist, RunDistribution(l, sorted, dist),
           wait' = wait, weighted' = weighted, distribution' = dist
    PROVE  /\ Distinct(list') /\ Len(list') = Len(l)
           /\ RingTyped' /\ RingInv' /\ ServesInv'
<1>0. PICK after : after = IF sorted THEN SortHosts(l) ELSE l
    OBVIOUS
<1>1. Distinct(after) /\ Len(after) = Len(l)
    BY <1>0, SortHostsKeeps
<1>2. /\ list' = after
      /\ IF dist = "ketama" THEN UpdateContinuum(after) ELSE UNCHANGED ring
    BY <1>0 DEF RunDistribution
<1>3. CASE dist # "ketama"
    <2>1. UNCHANGED ring
        BY <1>2, <1>3
    <2>2. RingTyped' /\ RingInv'
        BY <2>1 DEF ring, RingTyped, RingInv, Allotted, Fits, PointsPerServer, Rising
    <2>3. ~ Routing'
        BY <1>3 DEF Routing
    <2> QED  BY <1>1, <1>2, <2>2, <2>3 DEF ServesInv
<1>4. CASE UpdateContinuum(after)
    <2>1. PICK live : live = LiveIn(after)
        OBVIOUS
    <2>2. ToSet(after) \in SUBSET Hosts /\ live \in SUBSET ToSet(after)
        BY <1>1, <2>1, DistinctSet DEF LiveIn
    <2>3. /\ rebuild' \in {NONE} \cup -1..Retry
          /\ \A h \in ToSet(after) \ live : rebuild' # NONE /\ rebuild' <= wait[h]
        <3>1. rebuild' = Reschedule(after) /\ rebuild \in {NONE} \cup -1..Retry
            BY <1>4 DEF UpdateContinuum, RingTyped
        <3> QED  BY <2>1, <2>2, <3>1, RescheduleFirst
    <2>4. Cardinality(live) \in Nat
        BY <2>2, DistributionAssumption, FS_Subset, FS_CardinalityType
    <2>5. PointsPerServer \in Nat /\ PointsPerServer' = PointsPerServer
        BY DistributionAssumption DEF PointsPerServer
    <2>6. CASE /\ ended' \in {"none live", "no memory"}
               /\ UNCHANGED <<continuum, continuum_count, allocated>>
        <3>1. RingTyped' /\ RingInv'
            BY <2>3, <2>5, <2>6 DEF RingTyped, RingInv, Allotted, Fits, Rising
        <3>2. ~ Routing'
            BY <2>6 DEF Routing
        <3> QED  BY <1>1, <1>2, <3>1, <3>2 DEF ServesInv
    <2>7. CASE /\ live # {} /\ continuum' = Build(after) /\ ended' = "built"
               /\ continuum_count' \in Nat /\ allocated' \in Nat
               /\ allocated' = continuum_count' * PointsPerServer
               /\ Cardinality(live) <= continuum_count'
        <3>1. /\ Described(continuum', after, live, weighted) /\ continuum' # <<>>
              /\ Len(continuum') <= Cardinality(live) * PointsPerServer
            BY <1>1, <2>1, <2>7, BuildDescribed
        <3>2. /\ continuum' \in Seq([value : Hashes, index : 0..(Cardinality(Hosts) - 1)])
              /\ Rising(continuum')
            BY <3>1 DEF Described
        <3>3. Len(continuum') \in Nat
            BY <3>2, LenProperties
        <3>4. Cardinality(live) * PointsPerServer <= continuum_count' * PointsPerServer
            BY <2>4, <2>5, <2>7, Room
        <3>5. Len(continuum') <= allocated'
            <4>1. Cardinality(live) * PointsPerServer \in Nat
                BY <2>4, <2>5, SMT
            <4> QED  BY <2>7, <3>1, <3>3, <3>4, <4>1
        <3>6. RingTyped'
            BY <2>3, <2>7, <3>2 DEF RingTyped
        <3>7. RingInv'
            BY <2>5, <2>7, <3>2, <3>5 DEF RingInv, Allotted, Fits
        <3>8. Serves(live)'
            BY <1>2, <2>2, <2>3, <2>7, <3>1 DEF Serves, Scheduled
        <3> QED  BY <1>1, <1>2, <3>6, <3>7, <3>8 DEF ServesInv
    <2>8. CASE live # {} /\ Cardinality(live) <= continuum_count /\ continuum' = Build(after)
               /\ ended' = "built" /\ UNCHANGED <<continuum_count, allocated>>
        BY <2>7, <2>8 DEF RingTyped, RingInv, Allotted
    <2>9. CASE Cardinality(live) > continuum_count /\ Grow(live)
               /\ continuum' = Build(after) /\ ended' = "built"
        <3>1. Addition \in Nat
            BY DistributionAssumption
        <3>2. live # {}
            <4>1. continuum_count \in Nat
                BY DEF RingTyped
            <4>2. Cardinality({}) = 0
                BY FS_EmptySet, Zenon
            <4>3. ~ (0 > continuum_count)
                BY <4>1
            <4> QED  BY <2>9, <4>2, <4>3, Zenon
        <3>3. continuum_count' = Cardinality(live) + Addition
              /\ allocated' = (Cardinality(live) + Addition) * PointsPerServer
            BY <2>9 DEF Grow
        <3>4. PICK n \in Nat : n = Cardinality(live) + Addition
            BY <2>4, <3>1
        <3>5. n * PointsPerServer \in Nat
            BY <2>5, SMT
        <3>6. Cardinality(live) <= n
            BY <2>4, <3>1, <3>4
        <3> QED  BY <2>7, <2>9, <3>2, <3>3, <3>4, <3>5, <3>6
    <2> QED  BY <1>4, <2>1, <2>6, <2>8, <2>9 DEF UpdateContinuum
<1> QED  BY <1>2, <1>3, <1>4

\* A step that leaves the list and the continuum alone, and no host's return
\* unscheduled.
LEMMA RingStays ==
    ASSUME RingInv, ServesInv,
           UNCHANGED <<list, weighted, distribution, continuum, continuum_count,
                       allocated, ended>>,
           \A h \in ToSet(list) : Scheduled(h) => Scheduled(h)'
    PROVE  RingInv' /\ ServesInv'
<1>1. RingInv'
    BY DEF RingInv, Allotted, Fits, PointsPerServer, Rising
<1>2. ASSUME Routing' PROVE \E live : Serves(live)'
    <2>1. Routing
        BY <1>2 DEF Routing
    <2>2. PICK live : Serves(live)
        BY <2>1 DEF ServesInv
    <2>3. Described(continuum, list, live, weighted)'
        BY <2>2 DEF Serves
    <2>4. \A h \in ToSet(list) \ live : Scheduled(h)'
        BY <2>2 DEF Serves
    <2> QED  BY <2>2, <2>3, <2>4 DEF Serves
<1> QED  BY <1>1, <1>2 DEF ServesInv

\* An empty list is in no continuum.
LEMMA EmptyDistinct == Distinct(<<>>)
<1>1. <<>> \in Seq(Hosts) /\ DOMAIN <<>> = {}
    BY EmptySeq
<1> QED  BY <1>1 DEF Distinct

\* A host that is not in the list can be added.
LEMMA AppendDistinct ==
    ASSUME NEW l, Distinct(l), NEW h \in Hosts, h \notin ToSet(l)
    PROVE  Distinct(Append(l, h))
<1>1. l \in Seq(Hosts) /\ Len(l) \in Nat /\ DOMAIN l = 1..Len(l)
    BY LenProperties DEF Distinct
<1>2. Append(l, h) \in Seq(Hosts) /\ Len(Append(l, h)) = Len(l) + 1
    BY <1>1, AppendProperties
<1>3. DOMAIN Append(l, h) = 1..(Len(l) + 1)
    BY <1>2, LenProperties
<1>4. \A i \in 1..Len(l) : Append(l, h)[i] = l[i] /\ l[i] # h
    BY <1>1, AppendProperties DEF ToSet
<1>5. Append(l, h)[Len(l) + 1] = h
    BY <1>1, AppendProperties
<1>6. ASSUME NEW i \in 1..(Len(l) + 1), NEW j \in 1..(Len(l) + 1),
             Append(l, h)[i] = Append(l, h)[j]
      PROVE  i = j
    <2>1. (i \in 1..Len(l) \/ i = Len(l) + 1) /\ (j \in 1..Len(l) \/ j = Len(l) + 1)
        BY <1>1
    <2>2. CASE i \in 1..Len(l) /\ j \in 1..Len(l)
        BY <1>1, <1>4, <1>6, <2>2 DEF Distinct
    <2> QED  BY <1>4, <1>5, <1>6, <2>1, <2>2
<1> QED  BY <1>2, <1>3, <1>6 DEF Distinct

\* Raising a counter leaves it within the limit.
LEMMA StrikeTyped ==
    ASSUME failures \in [Hosts -> 0..Limit], NEW h \in Hosts, NEW n \in 1..3, Strike(h, n)
    PROVE  failures' \in [Hosts -> 0..Limit]
<1>1. Limit \in Nat
    BY DistributionAssumption
<1>2. failures[h] \in 0..Limit
    OBVIOUS
<1>3. (IF failures[h] + n > Limit THEN Limit ELSE failures[h] + n) \in 0..Limit
    BY <1>1, <1>2
<1> QED  BY <1>3 DEF Strike

\* What is not the list or the continuum has its type.
RestTyped ==
    /\ fd \in [Hosts -> BOOLEAN]
    /\ failures \in [Hosts -> 0..Limit]
    /\ wait \in [Hosts -> 0..Retry]
    /\ auto_eject \in BOOLEAN /\ use_sort_hosts \in BOOLEAN /\ weighted \in BOOLEAN
    /\ distribution \in Distributions
    /\ limit \in {0, Limit}
    /\ target \in Hosts \cup {NoHost, Lost}
    /\ changes \in 0..MaxChanges

LEMMA TypeParts == TypeOK <=> list \in Seq(Hosts) /\ RestTyped /\ RingTyped
BY DEF TypeOK, RestTyped, RingTyped

LEMMA TypePartsNext == TypeOK' <=> list' \in Seq(Hosts) /\ RestTyped' /\ RingTyped'
BY DEF TypeOK, RestTyped, RingTyped

\* A step that runs the distribution.
LEMMA AfterRun ==
    ASSUME DistInv, NEW l, Distinct(l), NEW sorted, NEW dist,
           RunDistribution(l, sorted, dist),
           wait' = wait, weighted' = weighted, distribution' = dist, RestTyped'
    PROVE  DistInv'
<1>1. RestTyped /\ RingTyped /\ RingInv
    BY TypeParts DEF DistInv
<1>2. wait \in [Hosts -> 0..Retry] /\ weighted \in BOOLEAN
    BY <1>1 DEF RestTyped
<1>3. Distinct(list') /\ RingTyped' /\ RingInv' /\ ServesInv'
    BY <1>1, <1>2, RunKeeps
<1>4. list' \in Seq(Hosts)
    BY <1>3 DEF Distinct
<1> QED  BY <1>3, <1>4, TypePartsNext DEF DistInv

\* A step that leaves the list and the continuum alone.
LEMMA AfterHealth ==
    ASSUME DistInv, RestTyped', rebuild' \in {NONE} \cup -1..Retry,
           UNCHANGED <<list, weighted, distribution, continuum, continuum_count,
                       allocated, ended>>,
           \A h \in ToSet(list) : Scheduled(h) => Scheduled(h)'
    PROVE  DistInv'
<1>1. RingTyped /\ RingInv /\ ServesInv /\ Distinct(list)
    BY TypeParts DEF DistInv
<1>2. RingTyped'
    BY <1>1 DEF RingTyped
<1>3. Distinct(list')
    BY <1>1
<1>4. list' \in Seq(Hosts)
    BY <1>3 DEF Distinct
<1>5. RingInv' /\ ServesInv'
    BY <1>1, RingStays
<1> QED  BY <1>2, <1>3, <1>4, <1>5, TypePartsNext DEF DistInv

LEMMA DistInitial == Init => DistInv
<1> SUFFICES ASSUME Init PROVE DistInv
    OBVIOUS
<1>1. Distinct(list)
    BY EmptyDistinct DEF Init
<1>2. RestTyped
    <2>1. Retry \in Nat /\ Limit \in Nat /\ MaxChanges \in Nat
        BY DistributionAssumption
    <2>2. 0 \in 0..Retry /\ 0 \in 0..Limit /\ 0 \in 0..MaxChanges
        BY <2>1
    <2>3. wait \in [Hosts -> 0..Retry] /\ failures \in [Hosts -> 0..Limit]
        BY <2>2 DEF Init
    <2>4. fd \in [Hosts -> BOOLEAN]
        BY DEF Init
    <2>5. auto_eject \in BOOLEAN /\ use_sort_hosts \in BOOLEAN /\ weighted \in BOOLEAN
        BY Zenon DEF Init
    <2>6. distribution \in Distributions /\ target \in Hosts \cup {NoHost, Lost}
        BY DEF Init, Distributions
    <2> QED  BY <2>2, <2>3, <2>4, <2>5, <2>6 DEF Init, RestTyped
<1>3. <<>> \in Seq([value : Hashes, index : 0..(Cardinality(Hosts) - 1)])
      /\ Len(<<>>) = 0 /\ DOMAIN <<>> = {}
    BY EmptySeq
<1>4. RingTyped
    BY <1>3 DEF Init, RingTyped
<1>5. PointsPerServer \in Nat
    BY DistributionAssumption DEF PointsPerServer
<1>6. RingInv
    <2>1. PICK k \in Nat : k = PointsPerServer
        BY <1>5
    <2>2. 0 = 0 * k
        BY <2>1
    <2>3. continuum = <<>> /\ continuum_count = 0 /\ allocated = 0
        BY DEF Init
    <2>4. Rising(continuum) /\ Fits
        BY <1>3, <2>3 DEF Rising, Fits
    <2>5. Allotted
        BY <2>1, <2>2, <2>3, Zenon DEF Allotted
    <2> QED  BY <2>4, <2>5 DEF RingInv
<1>7. ServesInv
    BY DEF Init, ServesInv, Routing
<1>8. list \in Seq(Hosts)
    BY <1>1 DEF Distinct
<1> QED  BY <1>1, <1>2, <1>4, <1>6, <1>7, <1>8, TypeParts DEF DistInv

\* A call on a key begins, and may rebuild the continuum.
LEMMA RouteKeeps ==
    ASSUME DistInv, NEW hash \in Hashes, Route(hash)
    PROVE  DistInv'
<1>1. RestTyped /\ RingTyped /\ Distinct(list) /\ RingInv /\ list # <<>>
    BY TypeParts DEF DistInv, Route
<1>2. UNCHANGED <<health, flags, limit, changes>>
    BY DEF Route
<1>3. UNCHANGED <<wait, weighted, distribution>>
    BY <1>2 DEF health, flags
<1>4. wait \in [Hosts -> 0..Retry] /\ weighted \in BOOLEAN
    BY <1>1 DEF RestTyped
<1>6. RingTyped' /\ RingInv' /\ Distinct(list') /\ list' # <<>>
    <2>1. Len(list) \in Nat /\ Len(list) # 0
        BY <1>1, LenProperties, EmptySeq DEF Distinct
    <2>2. CASE RunDistribution(list, use_sort_hosts, distribution)
        <3>1. Distinct(list') /\ Len(list') = Len(list) /\ RingTyped' /\ RingInv'
            BY <1>1, <1>3, <1>4, <2>2, RunKeeps
        <3> QED  BY <2>1, <3>1, EmptySeq
    <2>3. CASE UNCHANGED <<list, ring>>
        BY <1>1, <1>3, <2>3 DEF RingTyped, RingInv, Allotted, Fits, PointsPerServer,
                                Rising, ring
    <2> QED  BY <2>2, <2>3 DEF Route
<1>7. HandleOK'
    BY <1>6 DEF HandleOK, RingTyped, RingInv, Distinct
<1>8. target' \in Hosts \cup {NoHost, Lost}
    <2>1. target' \in Dispatch(IF Len(list) = 1 THEN 0 ELSE hash)'
        BY DEF Route
    <2>2. (IF Len(list) = 1 THEN 0 ELSE hash)' \in Hashes
        BY DistributionAssumption DEF Hashes
    <2>3. DispatchOK'
        BY <1>7, DispatchTypedNext
    <2> QED  BY <2>1, <2>2, <2>3 DEF DispatchOK
<1>9. RestTyped'
    BY <1>1, <1>2, <1>8 DEF RestTyped, health, flags
<1>10. CASE RunDistribution(list, use_sort_hosts, distribution)
    BY <1>1, <1>3, <1>9, <1>10, AfterRun
<1>11. CASE UNCHANGED <<list, ring>>
    <2>1. UNCHANGED <<continuum, continuum_count, allocated, ended, rebuild>>
        BY <1>11 DEF ring
    <2>2. \A h \in ToSet(list) : Scheduled(h) => Scheduled(h)'
        BY <1>3, <2>1 DEF Scheduled
    <2>3. rebuild' \in {NONE} \cup -1..Retry
        BY <1>1, <2>1 DEF RingTyped
    <2> QED  BY <1>3, <1>9, <1>11, <2>1, <2>2, <2>3, AfterHealth
<1> QED  BY <1>10, <1>11 DEF Route

\* The steps of a call on its host.
LEMMA CallKeeps ==
    ASSUME DistInv, NEW h \in Hosts,
           \/ ConnectDelayed(h) \/ ConnectDisabled(h) \/ ConnectFails(h)
           \/ Connect(h) \/ Exchange(h) \/ ExchangeFails(h)
    PROVE  DistInv'
<1>1. RestTyped /\ RingTyped /\ Distinct(list)
    BY TypeParts DEF DistInv
<1>2. rebuild \in {NONE} \cup -1..Retry /\ wait \in [Hosts -> 0..Retry] /\ Retry \in Nat
      /\ Limit \in Nat
    BY <1>1, DistributionAssumption DEF RestTyped, RingTyped
<1>3. ToSet(list) \in SUBSET Hosts
    BY <1>1, DistinctSet
<1>4. NoHost \in Hosts \cup {NoHost, Lost}
    OBVIOUS
<1>5. CASE ConnectDelayed(h)
    <2>1. RestTyped'
        BY <1>1, <1>5 DEF ConnectDelayed, RestTyped, health, flags
    <2>2. UNCHANGED <<list, weighted, distribution, continuum, continuum_count,
                      allocated, ended, rebuild, wait>>
        BY <1>5 DEF ConnectDelayed, health, flags, ring
    <2> QED  BY <1>2, <2>1, <2>2, AfterHealth DEF Scheduled
<1>6. CASE ConnectDisabled(h)
    <2>1. RestTyped'
        BY <1>1, <1>6 DEF ConnectDisabled, RestTyped, health, flags
    <2>2. UNCHANGED <<weighted, distribution, wait>>
        BY <1>6 DEF ConnectDisabled, health, flags
    <2>3. CASE RunDistribution(list, use_sort_hosts, distribution)
        BY <1>1, <2>1, <2>2, <2>3, AfterRun
    <2>4. CASE UNCHANGED <<list, ring>>
        <3>1. UNCHANGED <<list, continuum, continuum_count, allocated, ended, rebuild>>
            BY <2>4 DEF ring
        <3> QED  BY <1>2, <2>1, <2>2, <3>1, AfterHealth DEF Scheduled
    <2> QED  BY <1>6, <2>3, <2>4 DEF ConnectDisabled
<1>7. CASE ConnectFails(h)
    <2>1. failures' \in [Hosts -> 0..Limit]
        <3>1. 1 \in 1..3 /\ Strike(h, 1) /\ failures \in [Hosts -> 0..Limit]
            BY <1>1, <1>7 DEF ConnectFails, RestTyped
        <3> QED  BY <3>1, StrikeTyped
    <2>2. wait' \in {[wait EXCEPT ![h] = Retry], wait}
        BY <1>7 DEF ConnectFails
    <2>3. wait' \in [Hosts -> 0..Retry] /\ \A g \in Hosts : wait[g] <= wait'[g]
        BY <1>2, <2>2
    <2>4. RestTyped'
        BY <1>1, <1>7, <2>1, <2>3 DEF ConnectFails, RestTyped, flags
    <2>5. UNCHANGED <<list, weighted, distribution, continuum, continuum_count,
                      allocated, ended, rebuild>>
        BY <1>7 DEF ConnectFails, flags, ring
    <2>6. \A g \in ToSet(list) : Scheduled(g) => Scheduled(g)'
        <3> SUFFICES ASSUME NEW g \in ToSet(list), Scheduled(g) PROVE Scheduled(g)'
            OBVIOUS
        <3>1. wait[g] \in 0..Retry /\ wait'[g] \in 0..Retry /\ wait[g] <= wait'[g]
            BY <1>2, <1>3, <2>3
        <3>2. rebuild \in Int
            BY <1>2 DEF NONE
        <3> QED  BY <1>2, <2>5, <3>1, <3>2 DEF Scheduled
    <2> QED  BY <1>2, <2>4, <2>5, <2>6, AfterHealth
<1>8. CASE Connect(h)
    <2>1. wait' = wait
        <3>1. Retry = 0 \/ wait[h] = 0
            BY <1>2, <1>8 DEF Connect, Delayed
        <3>2. wait[h] = 0
            BY <1>2, <3>1
        <3> QED  BY <1>2, <1>8, <3>2 DEF Connect
    <2>2. RestTyped'
        BY <1>1, <1>2, <1>8, <2>1 DEF Connect, RestTyped, flags
    <2>3. UNCHANGED <<list, weighted, distribution, continuum, continuum_count,
                      allocated, ended, rebuild, wait>>
        BY <1>8, <2>1 DEF Connect, flags, ring
    <2> QED  BY <1>2, <2>2, <2>3, AfterHealth DEF Scheduled
<1>9. CASE Exchange(h)
    <2>1. RestTyped'
        BY <1>1, <1>2, <1>9 DEF Exchange, RestTyped, flags
    <2>2. UNCHANGED <<list, weighted, distribution, continuum, continuum_count,
                      allocated, ended, rebuild, wait>>
        BY <1>9 DEF Exchange, flags, ring
    <2> QED  BY <1>2, <2>1, <2>2, AfterHealth DEF Scheduled
<1>10. CASE ExchangeFails(h)
    <2>1. failures' \in [Hosts -> 0..Limit]
        BY <1>1, <1>10, StrikeTyped DEF ExchangeFails, RestTyped
    <2>2. RestTyped'
        BY <1>1, <1>10, <2>1 DEF ExchangeFails, RestTyped, flags
    <2>3. UNCHANGED <<list, weighted, distribution, continuum, continuum_count,
                      allocated, ended, rebuild, wait>>
        BY <1>10 DEF ExchangeFails, flags, ring
    <2> QED  BY <1>2, <2>2, <2>3, AfterHealth DEF Scheduled
<1> QED  BY <1>5, <1>6, <1>7, <1>8, <1>9, <1>10

\* The calls that change the list and the behaviours.
LEMMA ChangeKeeps ==
    ASSUME DistInv,
           \/ \E h \in Hosts : ServerAdd(h)
           \/ ServersReset
           \/ \E on \in BOOLEAN : SetAutoEject(on) \/ SetSortHosts(on)
           \/ \E dist \in Distributions : SetDistribution(dist)
    PROVE  DistInv'
<1>1. RestTyped /\ RingTyped /\ Distinct(list) /\ RingInv
    BY TypeParts DEF DistInv
<1>2. rebuild \in {NONE} \cup -1..Retry /\ Retry \in Nat /\ Limit \in Nat
    BY <1>1, DistributionAssumption DEF RingTyped
<1>3. ASSUME Change PROVE changes' \in 0..MaxChanges
    <2>1. changes \in 0..MaxChanges /\ MaxChanges \in Nat
        BY <1>1, DistributionAssumption DEF RestTyped
    <2> QED  BY <1>3, <2>1 DEF Change
<1>4. ASSUME NEW h \in Hosts, ServerAdd(h) PROVE DistInv'
    <2>1. Distinct(Append(list, h))
        BY <1>1, <1>4, AppendDistinct DEF ServerAdd
    <2>2. RestTyped'
        BY <1>1, <1>3, <1>4 DEF ServerAdd, RestTyped, health, flags
    <2>3. UNCHANGED <<wait, weighted, distribution>>
        BY <1>4 DEF ServerAdd, health, flags
    <2> QED  BY <1>4, <2>1, <2>2, <2>3, AfterRun DEF ServerAdd
<1>5. CASE ServersReset
    <2>1. list' = <<>> /\ UNCHANGED <<continuum, continuum_count, allocated, ended,
                                      rebuild, weighted>>
        BY <1>5 DEF ServersReset, ring, flags
    <2>2. RestTyped'
        BY <1>1, <1>2, <1>3, <1>5 DEF ServersReset, RestTyped, flags
    <2>3. RingTyped' /\ RingInv'
        BY <1>1, <2>1 DEF RingTyped, RingInv, Allotted, Fits, PointsPerServer, Rising
    <2>4. Distinct(list')
        BY <2>1, EmptyDistinct
    <2>5. ServesInv'
        BY <2>1 DEF ServesInv, Routing
    <2>6. list' \in Seq(Hosts)
        BY <2>4 DEF Distinct
    <2> QED  BY <2>2, <2>3, <2>4, <2>5, <2>6, TypePartsNext DEF DistInv
<1>6. ASSUME NEW on \in BOOLEAN, SetAutoEject(on) PROVE DistInv'
    <2>1. RestTyped'
        BY <1>1, <1>3, <1>6 DEF SetAutoEject, RestTyped, health
    <2>2. UNCHANGED <<list, weighted, distribution, continuum, continuum_count,
                      allocated, ended, rebuild, wait>>
        BY <1>6 DEF SetAutoEject, health, ring
    <2> QED  BY <1>2, <2>1, <2>2, AfterHealth DEF Scheduled
<1>7. ASSUME NEW on \in BOOLEAN, SetSortHosts(on) PROVE DistInv'
    <2>1. RestTyped'
        BY <1>1, <1>3, <1>7 DEF SetSortHosts, RestTyped, health
    <2>2. UNCHANGED <<wait, weighted, distribution>>
        BY <1>7 DEF SetSortHosts, health
    <2> QED  BY <1>1, <1>7, <2>1, <2>2, AfterRun DEF SetSortHosts
<1>8. ASSUME NEW dist \in Distributions, SetDistribution(dist) PROVE DistInv'
    <2>1. RestTyped'
        BY <1>1, <1>3, <1>8 DEF SetDistribution, RestTyped, health
    <2>2. UNCHANGED <<wait, weighted>> /\ distribution' = dist
        BY <1>8 DEF SetDistribution, health
    <2> QED  BY <1>1, <1>8, <2>1, <2>2, AfterRun DEF SetDistribution
<1> QED  BY <1>4, <1>5, <1>6, <1>7, <1>8

\* memcached_quit and the clock.
LEMMA RestKeeps ==
    ASSUME DistInv, Quit \/ Tick
    PROVE  DistInv'
<1>1. RestTyped /\ RingTyped /\ Distinct(list)
    BY TypeParts DEF DistInv
<1>2. rebuild \in {NONE} \cup -1..Retry /\ wait \in [Hosts -> 0..Retry] /\ Retry \in Nat
      /\ Limit \in Nat
    BY <1>1, DistributionAssumption DEF RestTyped, RingTyped
<1>3. ToSet(list) \in SUBSET Hosts
    BY <1>1, DistinctSet
<1>4. CASE Quit
    <2>1. RestTyped'
        BY <1>1, <1>2, <1>4 DEF Quit, RestTyped, flags
    <2>2. UNCHANGED <<list, weighted, distribution, continuum, continuum_count,
                      allocated, ended, rebuild, wait>>
        BY <1>4 DEF Quit, flags, ring
    <2> QED  BY <1>2, <2>1, <2>2, AfterHealth DEF Scheduled
<1>5. CASE Tick
    <2>1. \A h \in Hosts : wait'[h] = IF wait[h] = 0 THEN 0 ELSE wait[h] - 1
        BY <1>5 DEF Tick
    <2>2. wait' \in [Hosts -> 0..Retry]
        BY <1>2, <1>5 DEF Tick
    <2>3. RestTyped'
        BY <1>1, <1>5, <2>2 DEF Tick, RestTyped, flags
    <2>4. rebuild' = IF rebuild < 0 THEN rebuild ELSE rebuild - 1
        BY <1>5 DEF Tick
    <2>5. rebuild' \in {NONE} \cup -1..Retry
        BY <1>2, <2>4 DEF NONE
    <2>6. UNCHANGED <<list, weighted, distribution, continuum, continuum_count,
                      allocated, ended>>
        BY <1>5 DEF Tick, flags
    <2>7. \A h \in ToSet(list) : Scheduled(h) => Scheduled(h)'
        <3> SUFFICES ASSUME NEW h \in ToSet(list), Scheduled(h) PROVE Scheduled(h)'
            OBVIOUS
        <3>1. wait[h] \in 0..Retry /\ wait'[h] = IF wait[h] = 0 THEN 0 ELSE wait[h] - 1
            BY <1>2, <1>3, <2>1
        <3> QED  BY <1>2, <2>4, <3>1 DEF Scheduled, NONE
    <2> QED  BY <2>3, <2>5, <2>6, <2>7, AfterHealth
<1> QED  BY <1>4, <1>5

LEMMA DistInductive == DistInv /\ [Next]_vars => DistInv'
<1> SUFFICES ASSUME DistInv, [Next]_vars PROVE DistInv'
    OBVIOUS
<1>1. CASE UNCHANGED vars
    BY <1>1 DEF vars, health, flags, ring, DistInv, TypeOK, RingInv, Allotted, Fits, Rising,
                PointsPerServer, ServesInv, Routing, Serves, Scheduled, Described, Distinct
<1>2. CASE \E hash \in Hashes : Route(hash)
    BY <1>2, RouteKeeps
<1>3. CASE \E h \in Hosts : \/ ConnectDelayed(h) \/ ConnectDisabled(h) \/ ConnectFails(h)
                            \/ Connect(h) \/ Exchange(h) \/ ExchangeFails(h)
    BY <1>3, CallKeeps
<1>4. CASE \/ \E h \in Hosts : ServerAdd(h)
           \/ ServersReset
           \/ \E on \in BOOLEAN : SetAutoEject(on) \/ SetSortHosts(on)
           \/ \E dist \in Distributions : SetDistribution(dist)
    BY <1>4, ChangeKeeps
<1>5. CASE Quit \/ Tick
    BY <1>5, RestKeeps
<1> QED  BY <1>1, <1>2, <1>3, <1>4, <1>5, Zenon DEF Next

THEOREM DistInvariant == Spec => []DistInv
BY DistInitial, DistInductive, PTL DEF Spec

\* The handle's variables keep their types.
THEOREM HandleTyped == Spec => []TypeOK
<1>1. DistInv => TypeOK
    BY DEF DistInv
<1> QED  BY <1>1, DistInvariant, PTL

\* The continuum never outgrows its array.
THEOREM FitsAlways == Spec => []Fits
<1>1. DistInv => Fits
    BY DEF DistInv, RingInv
<1> QED  BY <1>1, DistInvariant, PTL

-----------------------------------------------------------------------------
(* Where the keys go.                                                      *)

\* v is the first of the values at or after the hash, the circle closed.
Ahead(hash, u, v) == IF hash <= u THEN hash <= v => u <= v ELSE v < hash /\ u <= v

\* The key's host has the point that comes first among the continuum's.
Owns(live, hash, h, p) ==
    /\ h \in live /\ p \in 0..(Share(h, live, weighted) - 1)
    /\ \E k \in DOMAIN continuum : continuum[k].value = Value[h][p]
    /\ \A j \in DOMAIN continuum : Ahead(hash, Value[h][p], continuum[j].value)

LEMMA KeyFindsOwner ==
    ASSUME list \in Seq(Hosts), NEW live, Serves(live), NEW hash \in Hashes
    PROVE  \E p : Owns(live, hash, KeyHost(hash), p)
<1>1. Described(continuum, list, live, weighted) /\ continuum # <<>>
    BY DEF Serves
<1>2. continuum \in Seq([value : Hashes, index : 0..(Cardinality(Hosts) - 1)])
      /\ Rising(continuum)
    BY <1>1 DEF Described
<1>3. PICK n \in Nat : n = Len(continuum)
    BY <1>2, ContinuumShape
<1>4. DOMAIN continuum = 1..n /\ n # 0
    BY <1>1, <1>2, <1>3, ContinuumShape, EmptySeq
<1>5. \A i \in DOMAIN continuum : continuum[i].value \in Int /\ continuum[i].index \in Nat
    BY <1>2, ContinuumShape
<1>6. hash \in Int
    BY DEF Hashes
<1>7. PICK R \in 0..n :
         /\ Cut(hash, R)
         /\ Search(hash) = continuum[IF R = n THEN 1 ELSE R + 1].index
    BY <1>2, <1>3, <1>4, <1>5, <1>6, SearchFinds
<1>8. PICK i : i = IF R = n THEN 1 ELSE R + 1
    OBVIOUS
<1>9. i \in 1..n
    BY <1>4, <1>8
<1>10. PICK h, p : IsPoint(list, continuum[i], live, h, p, weighted)
    BY <1>1, <1>4, <1>9 DEF Described
<1>11. KeyHost(hash) = h
    <2>1. Len(list) \in Nat /\ DOMAIN list = 1..Len(list)
        BY LenProperties
    <2>2. Search(hash) = continuum[i].index /\ continuum[i].index \in Nat
        BY <1>4, <1>5, <1>7, <1>8, <1>9, Zenon
    <2>3. continuum[i].index + 1 \in DOMAIN list /\ list[continuum[i].index + 1] = h
        BY <1>10 DEF IsPoint, OwnerAt
    <2>4. PICK x \in Nat : x = continuum[i].index
        BY <2>2
    <2>5. x < Len(list) /\ list[x + 1] = h
        BY <2>1, <2>3, <2>4
    <2> QED  BY <2>2, <2>4, <2>5, Zenon DEF KeyHost, HostAt
<1>12. h \in live /\ p \in 0..(Share(h, live, weighted) - 1)
       /\ continuum[i].value = Value[h][p]
    BY <1>10 DEF IsPoint
<1>13. \A j \in 1..n : Ahead(hash, continuum[i].value, continuum[j].value)
    <2>1. PICK v \in [1..n -> Int] : \A j \in 1..n : v[j] = continuum[j].value
        <3>1. [j \in 1..n |-> continuum[j].value] \in [1..n -> Int]
            BY <1>4, <1>5
        <3> QED  BY <3>1
    <2>2. \A j, k \in 1..n : j < k => v[j] < v[k]
        BY <1>2, <1>4, <2>1 DEF Rising
    <2>3. /\ \A j \in 1..R : v[j] < hash
          /\ \A j \in (R + 1)..n : hash <= v[j]
        <3>1. /\ \A j \in 1..R : continuum[j].value < hash
              /\ \A j \in (R + 1)..n : hash <= continuum[j].value
            BY <1>3, <1>7, Zenon DEF Cut
        <3>2. \A j \in 1..R : j \in 1..n
            OBVIOUS
        <3>3. \A j \in (R + 1)..n : j \in 1..n
            OBVIOUS
        <3> QED  BY <2>1, <3>1, <3>2, <3>3, Zenon
    <2> SUFFICES ASSUME NEW j \in 1..n PROVE Ahead(hash, v[i], v[j])
        BY <1>9, <2>1
    <2>4. v[i] \in Int /\ v[j] \in Int
        BY <1>9
    <2>5. i <= j => v[i] <= v[j]
        <3>1. i = j \/ i < j \/ ~ (i <= j)
            BY <1>9
        <3> QED  BY <1>9, <2>2, <2>4, <3>1
    <2>6. CASE R = n
        <3>1. i = 1 /\ i <= j
            BY <1>8, <2>6
        <3>2. v[i] < hash /\ v[j] < hash
            BY <1>4, <1>9, <2>3, <2>6
        <3> QED  BY <1>6, <2>4, <2>5, <3>1, <3>2 DEF Ahead
    <2>7. CASE R # n
        <3>1. i = R + 1 /\ i \in (R + 1)..n
            BY <1>8, <1>9, <2>7
        <3>2. hash <= v[i]
            BY <2>3, <3>1
        <3>3. CASE i <= j
            BY <1>6, <2>4, <2>5, <3>2, <3>3 DEF Ahead
        <3>4. CASE ~ (i <= j)
            <4>1. j \in 1..R
                BY <3>1, <3>4
            <4>2. v[j] < hash
                BY <2>3, <4>1
            <4> QED  BY <1>6, <2>4, <3>2, <4>2 DEF Ahead
        <3> QED  BY <3>3, <3>4
    <2> QED  BY <2>6, <2>7
<1> QED  BY <1>4, <1>9, <1>11, <1>12, <1>13 DEF Owns

\* The least of a set of numbers.
LEMMA LeastIsMin ==
    ASSUME NEW T \in SUBSET Nat, NEW x \in T, \A y \in T : x <= y
    PROVE  Min(T) = x
<1>1. PICK k : k = Min(T)
    OBVIOUS
<1>2. k \in T /\ \A y \in T : k <= y
    BY <1>1, MinIsLeast
<1>3. k \in Nat /\ x \in Nat /\ k <= x /\ x <= k
    BY <1>2
<1> QED  BY <1>1, <1>3

LEMMA OwnersFound == DistInv => RoutesToOwner
<1> SUFFICES ASSUME DistInv, Routing, NEW hash \in Hashes
             PROVE  LET values == {continuum[i].value : i \in DOMAIN continuum}
                        FirstFrom(x) == LET after == {v \in values : v >= x}
                                        IN Min(IF after # {} THEN after ELSE values)
                        owner == KeyHost(hash)
                    IN /\ owner \in Hosts
                       /\ \E p \in DOMAIN Value[owner] : Value[owner][p] = FirstFrom(hash)
    BY Zenon DEF RoutesToOwner
<1> DEFINE values == {continuum[i].value : i \in DOMAIN continuum}
           after == {v \in values : v >= hash}
<1>1. list \in Seq(Hosts) /\ weighted \in BOOLEAN /\ Distinct(list)
    BY DEF DistInv, TypeOK
<1>2. PICK live : Serves(live)
    BY DEF DistInv, ServesInv
<1>3. PICK h : h = KeyHost(hash)
    OBVIOUS
<1>4. PICK p : Owns(live, hash, h, p)
    BY <1>1, <1>2, <1>3, KeyFindsOwner
<1>5. live \in SUBSET Hosts
    BY <1>1, <1>2, DistinctSet DEF Serves
<1>6. h \in Hosts /\ p \in DOMAIN Value[h]
    BY <1>1, <1>4, <1>5, TableAssumption DEF Owns
<1>7. PICK x : x = Value[h][p]
    OBVIOUS
<1>8. continuum \in Seq([value : Hashes, index : 0..(Cardinality(Hosts) - 1)])
    BY <1>2 DEF Serves, Described
<1>9. values \in SUBSET Nat
    <2>1. \A i \in DOMAIN continuum : continuum[i].value \in Hashes
        BY <1>8, ContinuumShape
    <2> QED  BY <2>1 DEF Hashes
<1>10. x \in values
    BY <1>4, <1>7 DEF Owns
<1>11. \A v \in values : Ahead(hash, x, v)
    BY <1>4, <1>7 DEF Owns
<1>12. hash \in Nat
    BY DEF Hashes
<1>13. Min(IF after # {} THEN after ELSE values) = x
    <2> HIDE DEF values
    <2>1. x \in Nat /\ \A v \in values : v \in Nat
        BY <1>9, <1>10
    <2>2. after \in SUBSET Nat
        BY <1>9
    <2>3. CASE hash <= x
        <3>1. x \in after
            BY <1>10, <1>12, <2>1, <2>3
        <3>2. \A v \in after : x <= v
            BY <1>11, <1>12, <2>1, <2>3 DEF Ahead
        <3> HIDE DEF after
        <3>3. Min(after) = x
            BY <2>2, <3>1, <3>2, LeastIsMin
        <3> QED  BY <3>1, <3>3
    <2>4. CASE ~ (hash <= x)
        <3>1. after = {}
            BY <1>11, <1>12, <2>1, <2>4 DEF Ahead
        <3>2. \A v \in values : x <= v
            BY <1>11, <2>4 DEF Ahead
        <3> HIDE DEF after
        <3>3. Min(values) = x
            BY <1>9, <1>10, <3>2, LeastIsMin
        <3> QED  BY <3>1, <3>3
    <2> QED  BY <2>3, <2>4
<1>14. Value[h][p] = Min(IF after # {} THEN after ELSE values)
    BY <1>7, <1>13, Zenon
<1> HIDE DEF values
<1>15. h \in Hosts /\ \E q \in DOMAIN Value[h] : Value[h][q] = Min(IF after # {} THEN after ELSE values)
    BY <1>6, <1>14, Zenon
<1> QED  BY <1>3, <1>15, Zenon DEF values

\* Every key goes to the host whose point comes first, whatever was added,
\* sorted and ejected, and whatever the weights.
THEOREM RoutesAlways == Spec => []RoutesToOwner
BY OwnersFound, DistInvariant, PTL

\* Every host that lives has a point: without weights always, with weights
\* when no host is so light that its share is rounded down to nothing.
NoneStarved == \A live \in SUBSET Hosts : \A h \in live : Share(h, live, TRUE) > 0
AllInRing == weighted => NoneStarved

LEMMA RingIsLive ==
    ASSUME Distinct(list), weighted \in BOOLEAN, NEW live, Serves(live), AllInRing
    PROVE  InRing = live
<1>1. /\ \A i \in DOMAIN continuum : \E h, p : IsPoint(list, continuum[i], live, h, p, weighted)
      /\ \A h \in live : \A p \in 0..(Share(h, live, weighted) - 1) :
            \E i \in DOMAIN continuum : IsPoint(list, continuum[i], live, h, p, weighted)
      /\ continuum \in Seq([value : Hashes, index : 0..(Cardinality(Hosts) - 1)])
    BY DEF Serves, Described
<1>2. live \in SUBSET Hosts /\ Len(list) \in Nat /\ DOMAIN list = 1..Len(list)
    BY DistinctSet DEF Serves
<1>3. ASSUME NEW x, x.index \in Nat, NEW h, NEW p, IsPoint(list, x, live, h, p, weighted)
      PROVE  HostAt(x.index) = h /\ h \in live
    <2>1. h \in live /\ x.index + 1 \in DOMAIN list /\ list[x.index + 1] = h
        BY <1>3 DEF IsPoint, OwnerAt
    <2>2. x.index < Len(list)
        BY <1>2, <1>3, <2>1
    <2> QED  BY <2>1, <2>2, Zenon DEF HostAt
<1>4. \A i \in DOMAIN continuum : continuum[i].index \in Nat
    BY <1>1, ContinuumShape
<1>5. ASSUME NEW i \in DOMAIN continuum PROVE HostAt(continuum[i].index) \in live
    <2>1. PICK h, p : IsPoint(list, continuum[i], live, h, p, weighted)
        BY <1>1
    <2> QED  BY <1>3, <1>4, <2>1
<1>6. ASSUME NEW h \in live PROVE \E i \in DOMAIN continuum : HostAt(continuum[i].index) = h
    <2>1. Share(h, live, weighted) > 0
        <3>1. CASE weighted = TRUE
            <4>1. Share(h, live, TRUE) > 0
                BY <1>2, <3>1 DEF AllInRing, NoneStarved
            <4> QED  BY <3>1, <4>1, Zenon
        <3>2. CASE weighted = FALSE
            <4>1. Share(h, live, FALSE) = Points
                BY Zenon DEF Share
            <4>2. Points > 0
                BY DistributionAssumption
            <4> QED  BY <3>2, <4>1, <4>2, Zenon
        <3> QED  BY <3>1, <3>2
    <2>2. Share(h, live, weighted) \in Nat
        BY <1>2, Shares
    <2>3. 0 \in 0..(Share(h, live, weighted) - 1)
        BY <2>1, <2>2
    <2>4. PICK i \in DOMAIN continuum : IsPoint(list, continuum[i], live, h, 0, weighted)
        BY <1>1, <2>3
    <2> QED  BY <1>3, <1>4, <2>4
<1> QED  BY <1>5, <1>6 DEF InRing

LEMMA EjectedReturn == DistInv => (AllInRing => EjectedIsScheduled)
<1> SUFFICES ASSUME DistInv, AllInRing, Routing, NEW h \in ToSet(list) \ InRing
             PROVE  rebuild # NONE /\ rebuild <= wait[h]
    BY DEF EjectedIsScheduled
<1>1. PICK live : Serves(live)
    BY DEF DistInv, ServesInv
<1>2. InRing = live
    BY <1>1, RingIsLive DEF DistInv, TypeOK
<1> QED  BY <1>1, <1>2 DEF Serves, Scheduled

\* A host that is out of the continuum is scheduled to return.
THEOREM ReturnsScheduled == Spec => [](AllInRing => EjectedIsScheduled)
BY EjectedReturn, DistInvariant, PTL

\* Without weights: the hosts in the ring tell where each key goes.
Placed(live, hash, h, p) ==
    /\ h \in live /\ p \in 0..(Points - 1)
    /\ \A g \in live : \A q \in 0..(Points - 1) : Ahead(hash, Value[h][p], Value[g][q])
PlacedOK ==
    Routing /\ ~weighted =>
        /\ InRing \in SUBSET Hosts
        /\ \A hash \in Hashes : \E p : Placed(InRing, hash, KeyHost(hash), p)

LEMMA KeysPlaced == DistInv => PlacedOK
<1> SUFFICES ASSUME DistInv, Routing, ~weighted
             PROVE  /\ InRing \in SUBSET Hosts
                    /\ \A hash \in Hashes : \E p : Placed(InRing, hash, KeyHost(hash), p)
    BY DEF PlacedOK
<1>1. list \in Seq(Hosts) /\ weighted \in BOOLEAN /\ Distinct(list)
    BY DEF DistInv, TypeOK
<1>2. PICK live : Serves(live)
    BY DEF DistInv, ServesInv
<1>3. InRing = live
    BY <1>1, <1>2, RingIsLive DEF AllInRing
<1>4. live \in SUBSET Hosts
    BY <1>1, <1>2, DistinctSet DEF Serves
<1>5. \A h : Share(h, live, weighted) = Points
    BY Zenon DEF Share
<1>6. ASSUME NEW hash \in Hashes PROVE \E p : Placed(live, hash, KeyHost(hash), p)
    <2>1. PICK h : h = KeyHost(hash)
        OBVIOUS
    <2>2. PICK p : Owns(live, hash, h, p)
        BY <1>1, <1>2, <2>1, KeyFindsOwner
    <2>3. h \in live /\ p \in 0..(Points - 1)
        BY <1>5, <2>2 DEF Owns
    <2>4. ASSUME NEW g \in live, NEW q \in 0..(Points - 1)
          PROVE  Ahead(hash, Value[h][p], Value[g][q])
        <3>1. q \in 0..(Share(g, live, weighted) - 1)
            BY <1>5
        <3>2. PICK i \in DOMAIN continuum : IsPoint(list, continuum[i], live, g, q, weighted)
            BY <1>2, <3>1 DEF Serves, Described
        <3>3. continuum[i].value = Value[g][q]
            BY <3>2 DEF IsPoint
        <3> QED  BY <2>2, <3>3, Zenon DEF Owns
    <2> QED  BY <2>1, <2>3, <2>4 DEF Placed
<1> QED  BY <1>3, <1>4, <1>6

\* The first point of one ring and of another are the same when each is in both.
LEMMA SameFirst ==
    ASSUME NEW L \in SUBSET Hosts, NEW M \in SUBSET Hosts, NEW hash \in Hashes,
           NEW g, NEW p, Placed(L, hash, g, p), NEW h, NEW q, Placed(M, hash, h, q),
           g \in M, h \in L
    PROVE  g = h
<1>1. g \in L /\ p \in 0..(Points - 1) /\ h \in M /\ q \in 0..(Points - 1)
    BY DEF Placed
<1>2. Ahead(hash, Value[g][p], Value[h][q]) /\ Ahead(hash, Value[h][q], Value[g][p])
    BY <1>1 DEF Placed
<1>3. \A k \in L : Share(k, L, FALSE) = Points
    BY Zenon DEF Share
<1>4. Value[g][p] \in Hashes /\ Value[h][q] \in Hashes
    BY <1>1, <1>3, Digests
<1>5. \A x, y, z \in Hashes : Ahead(z, x, y) /\ Ahead(z, y, x) => x = y
    BY DEF Ahead, Hashes
<1>6. Value[g][p] = Value[h][q]
    BY <1>2, <1>4, <1>5
<1>7. p \in 0..(Share(g, L, FALSE) - 1) /\ q \in 0..(Share(h, L, FALSE) - 1)
    BY <1>1, <1>3, Zenon
<1>8. \A a, b \in L : \A x \in 0..(Share(a, L, FALSE) - 1) :
          \A y \in 0..(Share(b, L, FALSE) - 1) :
              Value[a][x] = Value[b][y] => a = b /\ x = y
    <2>1. FALSE \in BOOLEAN
        OBVIOUS
    <2> QED  BY <2>1, Digests, Zenon
<1> QED  BY <1>1, <1>6, <1>7, <1>8, Zenon

LEMMA WeightedStays == [Next]_vars => weighted' = weighted
<1> SUFFICES ASSUME [Next]_vars PROVE weighted' = weighted
    OBVIOUS
<1>1. CASE UNCHANGED vars
    BY <1>1 DEF vars, flags
<1>2. ASSUME NEW hash \in Hashes, Route(hash) PROVE weighted' = weighted
    BY <1>2 DEF Route, flags
<1>3. ASSUME NEW h \in Hosts,
             \/ ConnectDelayed(h) \/ ConnectDisabled(h) \/ ConnectFails(h)
             \/ Connect(h) \/ Exchange(h) \/ ExchangeFails(h) \/ ServerAdd(h)
      PROVE  weighted' = weighted
    BY <1>3 DEF ConnectDelayed, ConnectDisabled, ConnectFails, Connect, Exchange,
                ExchangeFails, ServerAdd, flags
<1>4. CASE ServersReset \/ Quit \/ Tick
    BY <1>4 DEF ServersReset, Quit, Tick, flags
<1>5. ASSUME NEW on \in BOOLEAN, SetAutoEject(on) \/ SetSortHosts(on)
      PROVE  weighted' = weighted
    BY <1>5 DEF SetAutoEject, SetSortHosts
<1>6. ASSUME NEW dist \in Distributions, SetDistribution(dist) PROVE weighted' = weighted
    BY <1>6 DEF SetDistribution
<1> QED  BY <1>1, <1>2, <1>3, <1>4, <1>5, <1>6, Zenon DEF Next

\* A change of the servers moves a key only from a host that left the continuum
\* or to one that joined it.
THEOREM KeysStay == Spec => OnlyAffectedKeysMove
<1>1. ASSUME PlacedOK, PlacedOK', weighted' = weighted, Routing, Routing', ~weighted,
             NEW hash \in Hashes
      PROVE  \/ KeyHost(hash)' = KeyHost(hash)
             \/ KeyHost(hash) \notin InRing'
             \/ KeyHost(hash)' \notin InRing
    <2>1. PICK L, g : L = InRing /\ g = KeyHost(hash)
        OBVIOUS
    <2>2. PICK M, h : M = InRing' /\ h = KeyHost(hash)'
        OBVIOUS
    <2>3. PICK p : Placed(L, hash, g, p)
        BY <1>1, <2>1 DEF PlacedOK
    <2>4. PICK q : Placed(M, hash, h, q)
        BY <1>1, <2>2 DEF PlacedOK
    <2>5. L \in SUBSET Hosts /\ M \in SUBSET Hosts
        BY <1>1, <2>1, <2>2 DEF PlacedOK
    <2>6. g \in M /\ h \in L => g = h
        BY <2>3, <2>4, <2>5, SameFirst
    <2> QED  BY <2>1, <2>2, <2>6, Zenon
<1>2. PlacedOK /\ PlacedOK' /\ weighted' = weighted =>
        [Routing /\ Routing' /\ ~weighted =>
          \A hash \in Hashes :
             \/ KeyHost(hash)' = KeyHost(hash)
             \/ KeyHost(hash) \notin InRing'
             \/ KeyHost(hash)' \notin InRing]_<<list, continuum>>
    BY <1>1
<1> QED  BY <1>2, KeysPlaced, WeightedStays, DistInvariant, PTL DEF Spec, OnlyAffectedKeysMove
=============================================================================
