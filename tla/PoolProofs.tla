----------------------------- MODULE PoolProofs -----------------------------
(***************************************************************************)
(* Proofs about the connection pool, for every number of threads and every  *)
(* size: its state keeps its types (so push never writes past the array),   *)
(* no handle is shared, no wakeup is lost, free handles are current, and    *)
(* the pool of util/pool.c implements ResourcePool.                         *)
(***************************************************************************)
EXTENDS Pool, FiniteSetTheorems, TLAPS

\* A thread inside push holds the handle it pushes.
PushesOwn == \A t \in Threads : pc[t] = "push" => item[t] \in held[t]

\* The handles there are have names up to current_size, so that the next one
\* grow_pool makes is new.
Named ==
    /\ \A i \in 0..firstfree : mmc[i] <= current_size
    /\ \A t \in Threads : \A h \in held[t] : h <= current_size

\* NoSharing, slot by slot and thread by thread.
Apart ==
    /\ \A i, j \in 0..firstfree : i # j /\ mmc[i] # NULL => mmc[i] # mmc[j]
    /\ \A t, u \in Threads : \A h \in held[t] : h \in held[u] => t = u
    /\ \A i \in 0..firstfree : \A t \in Threads : mmc[i] \notin held[t]

\* The inductive invariant of the pool's bookkeeping.
IndInv == TypeOK /\ PushesOwn /\ Named /\ Apart /\ Capacity

-----------------------------------------------------------------------------
\* The handles that are out are finitely many.
LEMMA HeldFinite ==
    ASSUME TypeOK
    PROVE  IsFiniteSet(Held) /\ Cardinality(Held) \in Nat
<1>1. IsFiniteSet(Handles)
  BY PoolAssumption, FS_Interval DEF Handles
<1>2. Held \subseteq Handles
  BY DEF TypeOK, Held
<1>3. IsFiniteSet(Held)
  BY <1>1, <1>2, FS_Subset
<1> QED
  BY <1>3, FS_CardinalityType

\* Popping a handle adds at most one to the handles that are out.
LEMMA HeldAdd ==
    ASSUME TypeOK, NEW t \in Threads, NEW h,
           held' = [held EXCEPT ![t] = @ \cup {h}]
    PROVE  /\ Held' = Held \cup {h}
           /\ Cardinality(Held') \in Nat
           /\ Cardinality(Held') <= Cardinality(Held) + 1
<1>1. Held' = Held \cup {h}
  BY DEF TypeOK, Held
<1>2. IsFiniteSet(Held) /\ Cardinality(Held) \in Nat
  BY HeldFinite
<1>3. /\ IsFiniteSet(Held \cup {h})
      /\ \/ Cardinality(Held \cup {h}) = Cardinality(Held)
         \/ Cardinality(Held \cup {h}) = Cardinality(Held) + 1
  BY <1>2, FS_AddElement
<1> QED
  BY <1>1, <1>2, <1>3

\* Pushing one that nobody else has takes exactly one away.
LEMMA HeldRemove ==
    ASSUME TypeOK, Apart, NEW t \in Threads, NEW h \in held[t],
           held' = [held EXCEPT ![t] = @ \ {h}]
    PROVE  /\ Held' = Held \ {h}
           /\ Cardinality(Held) \in Nat
           /\ Cardinality(Held') = Cardinality(Held) - 1
           /\ Cardinality(Held) >= 1
<1>1. Held' = Held \ {h}
  BY DEF TypeOK, Apart, Held
<1>2. h \in Held
  BY DEF Held
<1>3. IsFiniteSet(Held) /\ Cardinality(Held) \in Nat
  BY HeldFinite
<1>4. IsFiniteSet(Held \ {h}) /\ Cardinality(Held \ {h}) = Cardinality(Held) - 1
  BY <1>2, <1>3, FS_RemoveElement
<1>5. Cardinality(Held \ {h}) \in Nat
  BY <1>4, FS_CardinalityType
<1> QED
  BY <1>1, <1>3, <1>4, <1>5

\* memcached_pool_create establishes the invariant.
LEMMA InitIndInv == Init => IndInv
<1> SUFFICES ASSUME Init PROVE IndInv
  OBVIOUS
<1>1. PICK n \in 0..Initial :
          /\ mmc = [i \in 0..(Size - 1) |-> IF i < n THEN i + 1 ELSE NULL]
          /\ firstfree = n - 1
          /\ current_size = n
  BY DEF Init
<1>2. PICK u \in {0, AppData} :
          master = [user_data |-> u, conf |-> {}, health |-> "ok"]
  BY DEF Init
<1>3. n \in Nat /\ n <= Size
  BY PoolAssumption
<1>4. master \in Handle
  BY <1>2 DEF Handle, AppData
<1>5. Held = {}
  BY DEF Init, Held
<1>6. TypeOK
  <2>1. /\ mmc \in [0..(Size - 1) -> Handles \cup {NULL}]
        /\ firstfree \in -1..(Size - 1)
        /\ current_size \in 0..Size
    BY <1>1, <1>3, PoolAssumption DEF Handles, NULL
  <2>2. block \in [Threads -> BOOLEAN]
    BY Zenon DEF Init
  <2>3. /\ pc \in [Threads -> {"idle", "pop", "waiting", "woken", "push", "set"}]
        /\ item \in [Threads -> Handles \cup {NULL}]
        /\ handle \in [Handles -> Handle]
        /\ held \in [Threads -> SUBSET Handles]
        /\ pops \in [Threads -> Nat]
    BY <1>4 DEF Init, NULL
  <2> QED
    BY <1>4, <2>1, <2>2, <2>3 DEF Init, TypeOK
<1>7. PushesOwn
  BY DEF Init, PushesOwn
<1>8. Named
  BY <1>1, <1>3, PoolAssumption DEF Init, Named, NULL
<1>9. Apart
  BY <1>1, <1>3, PoolAssumption DEF Init, Apart, NULL
<1>10. Capacity
  BY <1>1, <1>3, <1>5, FS_EmptySet, PoolAssumption DEF Capacity
<1> QED
  BY <1>6, <1>7, <1>8, <1>9, <1>10 DEF IndInv

\* A step that moves no handle preserves all but the types and PushesOwn.
LEMMA NoMove ==
    ASSUME IndInv, UNCHANGED <<mmc, firstfree, current_size, held>>,
           TypeOK', PushesOwn'
    PROVE  IndInv'
BY DEF IndInv, Named, Apart, Capacity, Held

\* The steps that only enter the pool, wait in it, leave it or end it.
LEMMA QuietSteps ==
    ASSUME IndInv, NEW t \in Threads,
           \/ \E b \in BOOLEAN : PopEnter(t, b)
           \/ PopNull(t)
           \/ PopWait(t)
           \/ SpuriousWakeup(t)
           \/ PopResume(t)
           \/ SetEnter(t)
    PROVE  IndInv'
<1> DEFINE Moves ==
         UNCHANGED <<mmc, firstfree, current_size, held, version, master,
                     handle, status>>
<1> SUFFICES Moves /\ TypeOK' /\ PushesOwn'
  BY NoMove
<1> USE DEF IndInv, TypeOK, PushesOwn
<1>1. CASE \E b \in BOOLEAN : PopEnter(t, b)
  BY <1>1 DEF PopEnter, Enter
<1>2. CASE PopNull(t)
  BY <1>2 DEF PopNull, Return
<1>3. CASE PopWait(t)
  BY <1>3 DEF PopWait
<1>4. CASE SpuriousWakeup(t)
  BY <1>4 DEF SpuriousWakeup
<1>5. CASE PopResume(t)
  BY <1>5 DEF PopResume
<1>6. CASE SetEnter(t)
  BY <1>6 DEF SetEnter, Enter
<1> QED
  BY <1>1, <1>2, <1>3, <1>4, <1>5, <1>6

\* A process that dies moves nothing.
LEMMA CrashStep ==
    ASSUME IndInv, NEW how \in {"null", "freed"}, Crash(how)
    PROVE  IndInv'
<1>1. TypeOK'
  BY DEF IndInv, TypeOK, Crash
<1>2. PushesOwn'
  BY DEF IndInv, PushesOwn, Crash
<1> QED
  BY <1>1, <1>2, NoMove DEF Crash

\* A thread that starts a push holds what it pushes.
LEMMA PushEnterStep ==
    ASSUME IndInv, NEW t \in Threads, NEW h \in Handles, PushEnter(t, h)
    PROVE  IndInv'
<1>1. TypeOK'
  BY DEF IndInv, TypeOK, PushEnter, Enter
<1>2. PushesOwn'
  BY DEF IndInv, TypeOK, PushesOwn, PushEnter, Enter
<1> QED
  BY <1>1, <1>2, NoMove DEF PushEnter

\* Taking the last slot: a hole disappears, a handle changes hands.
LEMMA PopTakeStep ==
    ASSUME IndInv, NEW t \in Threads, PopTake(t)
    PROVE  IndInv'
<1> USE DEF IndInv
<1>1. /\ firstfree \in 0..(Size - 1)
      /\ firstfree' = firstfree - 1
      /\ UNCHANGED <<mmc, current_size, version, master, handle, status, pops,
                     sets>>
  BY PoolAssumption DEF PopTake, TypeOK
<1>2. CASE mmc[firstfree] = NULL
  <2>1. UNCHANGED <<mutex, pc, block, item, held>>
    BY <1>2 DEF PopTake
  <2>2. Held' = Held
    BY <2>1 DEF Held
  <2>3. Cardinality(Held) \in Nat
    BY HeldFinite
  <2>4. TypeOK' /\ PushesOwn' /\ Named' /\ Apart'
    BY <1>1, <2>1, PoolAssumption DEF TypeOK, PushesOwn, Named, Apart
  <2>5. Capacity'
    BY <1>1, <2>2, <2>3, PoolAssumption DEF Capacity, TypeOK
  <2> QED
    BY <2>4, <2>5
<1>3. CASE mmc[firstfree] # NULL
  <2> DEFINE x == mmc[firstfree]
  <2>1. /\ held' = [held EXCEPT ![t] = @ \cup {x}]
        /\ Return(t)
    BY <1>3 DEF PopTake
  <2>2. x \in Handles /\ x <= current_size
    BY <1>1, <1>3 DEF TypeOK, Named
  <2>3. TypeOK'
    BY <1>1, <2>1, <2>2, PoolAssumption DEF TypeOK, Return
  <2>4. PushesOwn'
    BY <2>1 DEF TypeOK, PushesOwn, Return
  <2>5. Named'
    BY <1>1, <2>1, <2>2, PoolAssumption DEF TypeOK, Named
  <2>6. Apart'
    <3>1. \A u \in Threads : x \notin held[u]
      BY <1>1 DEF Apart
    <3>2. \A i \in 0..firstfree' : i \in 0..firstfree /\ mmc[i] # x
      BY <1>1, <1>3 DEF Apart
    <3>3. \A u \in Threads :
             held'[u] = IF u = t THEN held[u] \cup {x} ELSE held[u]
      BY <2>1 DEF TypeOK
    <3>4. \A i, j \in 0..firstfree' : i # j /\ mmc'[i] # NULL => mmc'[i] # mmc'[j]
      BY <1>1, <3>2 DEF Apart
    <3>5. ASSUME NEW u \in Threads, NEW v \in Threads,
                 NEW h \in held'[u], h \in held'[v]
          PROVE  u = v
      <4>1. h \in held[u] \/ (u = t /\ h = x)
        BY <3>3
      <4>2. h \in held[v] \/ (v = t /\ h = x)
        BY <3>3, <3>5
      <4>3. \A w, y \in Threads : h \in held[w] /\ h \in held[y] => w = y
        BY DEF Apart
      <4> QED
        BY <3>1, <4>1, <4>2, <4>3
    <3>6. ASSUME NEW i \in 0..firstfree', NEW u \in Threads
          PROVE  mmc'[i] \notin held'[u]
      <4>1. i \in 0..firstfree /\ mmc[i] # x
        BY <3>2
      <4>2. mmc[i] \notin held[u]
        BY <4>1 DEF Apart
      <4>3. mmc'[i] = mmc[i]
        BY <1>1
      <4> QED
        BY <3>3, <4>1, <4>2, <4>3
    <3> QED
      BY <3>4, <3>5, <3>6 DEF Apart
  <2>7. Capacity'
    <3>1. /\ Cardinality(Held') \in Nat
          /\ Cardinality(Held') <= Cardinality(Held) + 1
      BY <2>1, HeldAdd
    <3>2. Cardinality(Held) \in Nat
      BY HeldFinite
    <3> QED
      BY <1>1, <3>1, <3>2, PoolAssumption DEF Capacity, TypeOK
  <2> QED
    BY <2>3, <2>4, <2>5, <2>6, <2>7
<1> QED
  BY <1>2, <1>3

\* grow_pool: the new handle has a name nobody has.
LEMMA PopGrowStep ==
    ASSUME IndInv, NEW t \in Threads, PopGrow(t)
    PROVE  IndInv'
<1> USE DEF IndInv
<1> DEFINE x == current_size + 1
<1>1. /\ firstfree = -1 /\ firstfree' = 0
      /\ current_size < Size
      /\ current_size' = x
      /\ mmc' = [mmc EXCEPT ![0] = x]
      /\ handle' = [handle EXCEPT ![x] = Clone]
      /\ UNCHANGED <<mutex, pc, block, item, version, master, held, status,
                     pops, sets>>
  BY PoolAssumption DEF PopGrow, TypeOK
<1>2. x \in Handles /\ x # NULL
  BY <1>1, PoolAssumption DEF TypeOK, Handles, NULL
<1>3. Clone \in Handle
  BY DEF TypeOK, Handle, Clone
<1>4. mmc'[0] = x
  BY <1>1, PoolAssumption DEF TypeOK
<1>5. TypeOK'
  BY <1>1, <1>2, <1>3, PoolAssumption DEF TypeOK
<1>6. PushesOwn'
  BY <1>1 DEF PushesOwn
<1>7. Named'
  BY <1>1, <1>4 DEF Named, TypeOK, Handles
<1>8. Apart'
  <2>1. \A u \in Threads : x \notin held[u]
    BY <1>1 DEF Named, TypeOK
  <2> QED
    BY <1>1, <1>4, <2>1 DEF Apart
<1>9. Capacity'
  <2>1. Held' = Held
    BY <1>1 DEF Held
  <2>2. Cardinality(Held) \in Nat
    BY HeldFinite
  <2> QED
    BY <1>1, <2>1, <2>2, PoolAssumption DEF Capacity, TypeOK
<1> QED
  BY <1>5, <1>6, <1>7, <1>8, <1>9

\* Putting a handle back: since it was out, the array has a slot for it.
LEMMA PutBackStep ==
    ASSUME IndInv, NEW t \in Threads, pc[t] = "push",
           NEW c \in Handle, PutBack(t, c)
    PROVE  IndInv'
<1> USE DEF IndInv
<1> DEFINE x == item[t]
<1> DEFINE top == firstfree + 1
<1>1. x \in held[t] /\ x \in Handles
  BY DEF PushesOwn, TypeOK
<1>2. /\ firstfree' = top
      /\ held' = [held EXCEPT ![t] = @ \ {x}]
      /\ handle' = [handle EXCEPT ![x] = c]
      /\ mmc' = [mmc EXCEPT ![top] = x]
      /\ item' = [item EXCEPT ![t] = NULL]
      /\ mutex' = NoThread
      /\ UNCHANGED <<block, current_size, version, master, status, pops, sets>>
  BY DEF PutBack
<1>3. /\ \A u \in Threads : pc'[u] = "push" => u # t /\ pc[u] = "push"
      /\ pc' \in [Threads -> {"idle", "pop", "waiting", "woken", "push", "set"}]
  BY DEF PutBack, TypeOK
<1>4. /\ Cardinality(Held) \in Nat
      /\ Cardinality(Held') = Cardinality(Held) - 1
      /\ Cardinality(Held) >= 1
  BY <1>1, <1>2, HeldRemove
<1>5. top \in 0..(Size - 1)
  BY <1>4, PoolAssumption DEF Capacity, TypeOK
<1>6. mmc'[top] = x /\ \A i \in 0..firstfree : mmc'[i] = mmc[i]
  BY <1>2, <1>5, PoolAssumption DEF TypeOK
<1>7. \A u \in Threads : held'[u] = IF u = t THEN held[u] \ {x} ELSE held[u]
  BY <1>2 DEF TypeOK
<1>8. TypeOK'
  <2>1. handle' \in [Handles -> Handle]
    BY <1>1, <1>2 DEF TypeOK
  <2>2. mmc' \in [0..(Size - 1) -> Handles \cup {NULL}]
    BY <1>1, <1>2, <1>5 DEF TypeOK
  <2>3. held' \in [Threads -> SUBSET Handles]
    BY <1>2 DEF TypeOK
  <2>4. item' \in [Threads -> Handles \cup {NULL}]
    BY <1>2 DEF TypeOK
  <2>5. firstfree' \in -1..(Size - 1)
    BY <1>2, <1>5
  <2> QED
    BY <1>2, <1>3, <2>1, <2>2, <2>3, <2>4, <2>5 DEF TypeOK
<1>9. PushesOwn'
  BY <1>2, <1>3, <1>7 DEF PushesOwn, TypeOK
<1>10. \A i \in 0..firstfree' : i = top \/ i \in 0..firstfree
  BY <1>2, <1>5 DEF TypeOK
<1>11. Named'
  <2>1. x <= current_size
    BY <1>1 DEF Named
  <2> QED
    BY <1>2, <1>6, <1>7, <1>10, <2>1 DEF Named
<1>12. Apart'
  <2>1. ASSUME NEW i \in 0..firstfree', NEW j \in 0..firstfree',
               i # j, mmc'[i] # NULL
        PROVE  mmc'[i] # mmc'[j]
    <3>1. \A k \in 0..firstfree : mmc[k] # x
      BY <1>1 DEF Apart
    <3>2. CASE i = top
      BY <1>6, <1>10, <2>1, <3>1, <3>2
    <3>3. CASE j = top
      BY <1>6, <1>10, <2>1, <3>1, <3>3
    <3>4. CASE i \in 0..firstfree /\ j \in 0..firstfree
      BY <1>6, <2>1, <3>4 DEF Apart
    <3> QED
      BY <1>10, <3>2, <3>3, <3>4
  <2>2. ASSUME NEW u \in Threads, NEW v \in Threads,
               NEW h \in held'[u], h \in held'[v]
        PROVE  u = v
    <3>1. h \in held[u] /\ h \in held[v]
      BY <1>7, <2>2
    <3> QED
      BY <3>1 DEF Apart
  <2>3. ASSUME NEW i \in 0..firstfree', NEW u \in Threads
        PROVE  mmc'[i] \notin held'[u]
    <3>1. CASE i = top
      <4>1. u # t => x \notin held[u]
        BY <1>1 DEF Apart
      <4> QED
        BY <1>6, <1>7, <3>1, <4>1
    <3>2. CASE i \in 0..firstfree
      BY <1>6, <1>7, <3>2 DEF Apart
    <3> QED
      BY <1>10, <3>1, <3>2
  <2> QED
    BY <2>1, <2>2, <2>3 DEF Apart
<1>13. Capacity'
  BY <1>2, <1>4, PoolAssumption DEF Capacity, TypeOK
<1> QED
  BY <1>8, <1>9, <1>11, <1>12, <1>13

\* push, re-cloned or not, only moves the handle; a crash moves nothing.
LEMMA PushStep ==
    ASSUME IndInv, NEW t \in Threads, Push(t)
    PROVE  IndInv'
<1>1. pc[t] = "push"
  BY DEF Push, Inside
<1>2. item[t] \in Handles
  BY <1>1 DEF IndInv, TypeOK, PushesOwn
<1>3. /\ handle[item[t]] \in Handle
      /\ Clone \in Handle
      /\ FailedClones \subseteq Handle
  <2>1. handle[item[t]] \in Handle
    BY <1>2 DEF IndInv, TypeOK
  <2>2. master \in Handle
    BY DEF IndInv, TypeOK
  <2>3. \A w \in {"ok", "empty", "dangling"} :
            [master EXCEPT !.health = w] \in Handle
    BY <2>2 DEF Handle
  <2> QED
    BY <2>1, <2>3 DEF Clone, FailedClones
<1>4. CASE PutBack(t, handle[item[t]]) \/ PutBack(t, Clone)
  BY <1>1, <1>3, <1>4, PutBackStep
<1>5. CASE \E c \in FailedClones : PutBack(t, c)
  BY <1>1, <1>3, <1>5, PutBackStep
<1>6. CASE Crash("freed")
  BY <1>6, CrashStep
<1> QED
  BY <1>4, <1>5, <1>6 DEF Push

\* behavior_set that fails on the master touches no handle.
LEMMA SetMasterFailsStep ==
    ASSUME IndInv, NEW t \in Threads, SetMasterFails(t)
    PROVE  IndInv'
<1>1. master' \in Handle
  <2>1. master \in Handle /\ sets \in Nat
    BY DEF IndInv, TypeOK
  <2>2. [master EXCEPT !.conf = @ \cup {sets}] \in Handle
    BY <2>1 DEF Handle
  <2> QED
    BY <2>1, <2>2 DEF SetMasterFails
<1>2. TypeOK'
  BY <1>1 DEF IndInv, TypeOK, SetMasterFails, Return
<1>3. PushesOwn'
  BY DEF IndInv, TypeOK, PushesOwn, SetMasterFails, Return
<1> QED
  BY <1>2, <1>3, NoMove DEF SetMasterFails

\* behavior_set leaves every handle where it is, or makes its slot a hole.
LEMMA SetAllStep ==
    ASSUME IndInv, NEW t \in Threads, SetAll(t)
    PROVE  IndInv'
<1> USE DEF IndInv
<1>1. /\ Return(t)
      /\ version' = version + 1
      /\ UNCHANGED <<firstfree, current_size, held, status, pops, sets>>
  BY DEF SetAll
<1>2. PICK recloned \in SUBSET FreeHandles, lost \in SUBSET FreeHandles :
          handle' = Updated(recloned, lost) /\ mmc' = WithHoles(lost)
  BY Zenon DEF SetAll
<1>3. \A i \in 0..(Size - 1) : mmc'[i] = mmc[i] \/ mmc'[i] = NULL
  BY <1>2 DEF WithHoles
<1>4. mmc' \in [0..(Size - 1) -> Handles \cup {NULL}]
  BY <1>2 DEF TypeOK, WithHoles
<1>5. NewMaster \in Handle /\ master' \in Handle
  <2>1. master \in Handle /\ sets \in Nat /\ version + 1 \in Nat
    BY DEF TypeOK
  <2>2. NewMaster \in Handle
    BY <2>1 DEF Handle, NewMaster
  <2> QED
    BY <2>2 DEF SetAll
<1>6. handle' \in [Handles -> Handle]
  <2>1. sets \in Nat /\ version + 1 \in Nat
    BY DEF TypeOK
  <2>2. \A h \in Handles :
           [handle[h] EXCEPT !.user_data = version + 1,
                             !.conf = @ \cup {sets}] \in Handle
    BY <2>1, ZenonT(60) DEF TypeOK, Handle
  <2>3. [NewMaster EXCEPT !.health = "ok"] \in Handle
    BY <1>5 DEF Handle
  <2>4. \A h \in Handles : handle[h] \in Handle
    BY DEF TypeOK
  <2> QED
    BY <1>2, <2>2, <2>3, <2>4 DEF Updated
<1>7. TypeOK'
  BY <1>1, <1>4, <1>5, <1>6 DEF TypeOK, Return
<1>8. PushesOwn'
  BY <1>1 DEF TypeOK, PushesOwn, Return
<1>12. \A i \in 0..firstfree : i \in 0..(Size - 1)
  BY PoolAssumption DEF TypeOK
<1>13. NULL <= current_size
  BY DEF TypeOK, NULL
<1>9. Named'
  BY <1>1, <1>3, <1>12, <1>13 DEF Named
<1>10. Apart'
  <2>1. \A u \in Threads : NULL \notin held[u]
    BY DEF TypeOK, Handles, NULL
  <2> QED
    BY <1>1, <1>3, <1>12, <2>1 DEF Apart
<1>11. Capacity'
  BY <1>1 DEF Capacity, Held
<1> QED
  BY <1>7, <1>8, <1>9, <1>10, <1>11

\* destroy empties the array, or the process dies in it.
LEMMA DestroyStep ==
    ASSUME IndInv, Destroy
    PROVE  IndInv'
<1> USE DEF IndInv
<1>1. UNCHANGED <<mutex, pc, block, item, firstfree, current_size, version,
                  master, handle, held, pops, sets>>
  BY DEF Destroy
<1>2. mmc' = mmc \/ mmc' = [i \in 0..(Size - 1) |-> NULL]
  BY DEF Destroy
<1>3. \A i \in 0..(Size - 1) : mmc'[i] = mmc[i] \/ mmc'[i] = NULL
  BY <1>2
<1>4. TypeOK'
  BY <1>1, <1>2 DEF Destroy, TypeOK
<1>5. PushesOwn'
  BY <1>1 DEF PushesOwn
<1>9. \A i \in 0..firstfree : i \in 0..(Size - 1)
  BY PoolAssumption DEF TypeOK
<1>10. NULL <= current_size
  BY DEF TypeOK, NULL
<1>6. Named'
  BY <1>1, <1>3, <1>9, <1>10 DEF Named
<1>7. Apart'
  <2>1. \A u \in Threads : NULL \notin held[u]
    BY DEF TypeOK, Handles, NULL
  <2> QED
    BY <1>1, <1>3, <1>9, <2>1 DEF Apart
<1>8. Capacity'
  BY <1>1 DEF Capacity, Held
<1> QED
  BY <1>4, <1>5, <1>6, <1>7, <1>8

\* Every step of the pool preserves the invariant.
LEMMA NextIndInv == IndInv /\ [Next]_vars => IndInv'
<1> SUFFICES ASSUME IndInv, [Next]_vars PROVE IndInv'
  OBVIOUS
<1>1. CASE Destroy
  BY <1>1, DestroyStep
<1>2. ASSUME NEW t \in Threads,
             \/ \E b \in BOOLEAN : PopEnter(t, b)
             \/ PopNull(t) \/ PopWait(t) \/ SpuriousWakeup(t)
             \/ PopResume(t) \/ SetEnter(t)
      PROVE  IndInv'
  BY <1>2, QuietSteps
<1>3. ASSUME NEW t \in Threads, PopTake(t) PROVE IndInv'
  BY <1>3, PopTakeStep
<1>4. ASSUME NEW t \in Threads, PopGrow(t) PROVE IndInv'
  BY <1>4, PopGrowStep
<1>5. ASSUME NEW t \in Threads, NEW h \in Handles, PushEnter(t, h)
      PROVE  IndInv'
  BY <1>5, PushEnterStep
<1>6. ASSUME NEW t \in Threads, Push(t) PROVE IndInv'
  BY <1>6, PushStep
<1>7. ASSUME NEW t \in Threads, SetMasterFails(t) PROVE IndInv'
  BY <1>7, SetMasterFailsStep
<1>8. ASSUME NEW t \in Threads, SetAll(t) PROVE IndInv'
  BY <1>8, SetAllStep
<1>9. ASSUME NEW t \in Threads, SetCrash(t) \/ PushDestroyed(t)
      PROVE  IndInv'
  BY <1>9, CrashStep DEF SetCrash, PushDestroyed
<1>10. CASE UNCHANGED vars
  <2>1. TypeOK' /\ PushesOwn'
    BY <1>10 DEF vars, IndInv, TypeOK, PushesOwn
  <2> QED
    BY <1>10, <2>1, NoMove DEF vars
<1> QED
  BY <1>1, <1>2, <1>3, <1>4, <1>5, <1>6, <1>7, <1>8, <1>9, <1>10 DEF Next

\* The bookkeeping of the pool holds in every reachable state.
THEOREM Bookkeeping == Spec => []IndInv
BY InitIndInv, NextIndInv, PTL DEF Spec

\* The state of the pool keeps its types for any number of threads: above
\* all, firstfree stays inside the array, which push relies on.
THEOREM Types == Spec => []TypeOK
<1>1. IndInv => TypeOK
  BY DEF IndInv
<1> QED
  BY <1>1, Bookkeeping, PTL

\* No handle is ever in two slots, in a slot and with a thread, or with two
\* threads, whatever fails in clone and behavior_set.
THEOREM HandlesAreNotShared == Spec => []NoSharing
<1>1. IndInv => NoSharing
  BY DEF IndInv, Apart, NoSharing, FreeHandles, Held
<1> QED
  BY <1>1, Bookkeeping, PTL

\* The pool never outgrows its size, and the array has room for every handle
\* that is out.
THEOREM PoolHasRoom == Spec => []Capacity
<1>1. IndInv => Capacity
  BY DEF IndInv
<1> QED
  BY <1>1, Bookkeeping, PTL

-----------------------------------------------------------------------------
\* A step that wakes threads or leaves them asleep, and moves neither
\* firstfree nor current_size, loses no wakeup.
LEMMA StillAsleep ==
    ASSUME NoLostWakeup, Waiting' \subseteq Waiting,
           UNCHANGED <<firstfree, current_size>>
    PROVE  NoLostWakeup'
BY DEF NoLostWakeup

\* Every step keeps NoLostWakeup: a handle becomes free only through push,
\* and if anyone sleeps it is the first one, which makes push broadcast.
LEMMA NextWakeup == TypeOK /\ NoLostWakeup /\ [Next]_vars => NoLostWakeup'
<1> SUFFICES ASSUME TypeOK, NoLostWakeup, [Next]_vars PROVE NoLostWakeup'
  OBVIOUS
<1>1. ASSUME NEW t \in Threads,
             \/ \E b \in BOOLEAN : PopEnter(t, b)
             \/ PopNull(t) \/ SpuriousWakeup(t) \/ PopResume(t)
             \/ \E h \in Handles : PushEnter(t, h)
             \/ SetEnter(t) \/ SetMasterFails(t) \/ SetAll(t)
      PROVE  NoLostWakeup'
  <2>1. UNCHANGED <<firstfree, current_size>>
    BY <1>1 DEF PopEnter, PopNull, SpuriousWakeup, PopResume, PushEnter,
                SetEnter, SetMasterFails, SetAll
  <2>2. \E w \in {"idle", "pop", "push", "set", "woken"} :
            pc' = [pc EXCEPT ![t] = w]
    BY <1>1 DEF PopEnter, PopNull, SpuriousWakeup, PopResume, PushEnter,
                SetEnter, SetMasterFails, SetAll, Enter, Return
  <2>3. Waiting' \subseteq Waiting
    BY <2>2 DEF TypeOK, Waiting
  <2> QED
    BY <2>1, <2>3, StillAsleep
<1>2. ASSUME NEW t \in Threads, PopTake(t) PROVE NoLostWakeup'
  <2>1. Waiting = {}
    BY <1>2 DEF NoLostWakeup, PopTake, TypeOK
  <2>2. pc' = pc \/ pc' = [pc EXCEPT ![t] = "idle"]
    BY <1>2 DEF PopTake, Return
  <2>3. Waiting' = {}
    BY <2>1, <2>2 DEF TypeOK, Waiting
  <2> QED
    BY <2>3 DEF NoLostWakeup
<1>3. ASSUME NEW t \in Threads, PopGrow(t) PROVE NoLostWakeup'
  <2>1. Waiting = {} /\ pc' = pc
    BY <1>3 DEF NoLostWakeup, PopGrow
  <2> QED
    BY <2>1 DEF NoLostWakeup, Waiting
<1>4. ASSUME NEW t \in Threads, PopWait(t) PROVE NoLostWakeup'
  BY <1>4 DEF PopWait, NoLostWakeup
<1>5. ASSUME NEW t \in Threads, NEW c, PutBack(t, c) PROVE NoLostWakeup'
  <2>1. CASE Waiting = {}
    <3>1. \A u \in Threads : pc'[u] # "waiting"
      BY <1>5, <2>1 DEF PutBack, Waiting, TypeOK
    <3> QED
      BY <3>1 DEF NoLostWakeup, Waiting
  <2>2. CASE Waiting # {}
    <3>1. Broadcast(firstfree + 1) = Waiting
      BY <2>2 DEF NoLostWakeup, Broadcast
    <3>2. \A u \in Threads : pc'[u] # "waiting"
      BY <1>5, <3>1 DEF PutBack, Waiting
    <3> QED
      BY <3>2 DEF NoLostWakeup, Waiting
  <2> QED
    BY <2>1, <2>2
<1>6. ASSUME UNCHANGED <<pc, firstfree, current_size>> PROVE NoLostWakeup'
  BY <1>6 DEF NoLostWakeup, Waiting
<1>7. ASSUME NEW how, Crash(how) PROVE NoLostWakeup'
  BY <1>6, <1>7 DEF Crash
<1>8. ASSUME NEW t \in Threads, Push(t) PROVE NoLostWakeup'
  BY <1>5, <1>7, <1>8 DEF Push
<1>9. ASSUME NEW t \in Threads, SetCrash(t) \/ PushDestroyed(t)
      PROVE  NoLostWakeup'
  BY <1>7, <1>9 DEF SetCrash, PushDestroyed
<1>10. CASE Destroy
  BY <1>6, <1>10 DEF Destroy
<1>11. CASE UNCHANGED vars
  BY <1>6, <1>11 DEF vars
<1> QED
  BY <1>1, <1>2, <1>3, <1>4, <1>8, <1>9, <1>10, <1>11 DEF Next

\* No thread sleeps in pop while a handle is free or could be made, for any
\* number of threads and with spurious wakeups or without.
THEOREM NoWakeupIsLost == Spec => []NoLostWakeup
<1>1. Init => NoLostWakeup
  BY DEF Init, NoLostWakeup, Waiting
<1> QED
  BY <1>1, NextWakeup, Types, PTL DEF Spec

-----------------------------------------------------------------------------
\* A handle that can be used carries the settings of the master.
Current(c) == c.health = "ok" => c.conf = master.conf

\* The inductive form of FreeIsCurrent: also a handle that is out is current
\* when it has the pool's version, and no handle has a later one.
Versions ==
    /\ master.user_data <= version
    /\ \A h \in Handles : handle[h].user_data <= version
    /\ \A i \in 0..firstfree : mmc[i] # NULL => Current(handle[mmc[i]])
    /\ \A t \in Threads : \A h \in held[t] :
          handle[h].user_data = version => Current(handle[h])

\* A step that changes no handle, no slot and not the master, and hands
\* nothing out, keeps Versions.
LEMMA SameVersions ==
    ASSUME Versions,
           UNCHANGED <<mmc, firstfree, version, master, handle, held>>
    PROVE  Versions'
BY DEF Versions, Current

\* memcached_pool_create makes clones of the master.
LEMMA InitVersions == Init => Versions
<1> SUFFICES ASSUME Init PROVE Versions
  OBVIOUS
<1>1. version = 0
  BY DEF Init
<1>2. PICK u \in {0, AppData} :
          master = [user_data |-> u, conf |-> {}, health |-> "ok"]
  BY DEF Init
<1>3. master.user_data <= version /\ Current(master)
  BY <1>1, <1>2 DEF Current, AppData
<1>4. \A h \in Handles : handle[h] = master
  BY DEF Init
<1>5. \A t \in Threads : held[t] = {}
  BY DEF Init
<1>6. \A i \in 0..firstfree : mmc[i] # NULL => mmc[i] \in Handles
  BY InitIndInv, PoolAssumption DEF IndInv, TypeOK
<1> QED
  BY <1>3, <1>4, <1>5, <1>6 DEF Versions

\* Taking the last slot: what was current there is current with its thread.
LEMMA PopTakeVersions ==
    ASSUME IndInv, Versions, NEW t \in Threads, PopTake(t)
    PROVE  Versions'
<1>1. firstfree' = firstfree - 1 /\ firstfree \in 0..(Size - 1)
  BY DEF PopTake, IndInv, TypeOK
<1>2. UNCHANGED <<mmc, version, master, handle>>
  BY DEF PopTake
<1>3. \/ held' = held
      \/ /\ mmc[firstfree] # NULL
         /\ held' = [held EXCEPT ![t] = @ \cup {mmc[firstfree]}]
  BY DEF PopTake
<1>4. \A u \in Threads : \A h \in held'[u] :
          h \in held[u] \/ (mmc[firstfree] # NULL /\ h = mmc[firstfree])
  <2>1. CASE held' = held
    BY <2>1
  <2>2. CASE /\ mmc[firstfree] # NULL
             /\ held' = [held EXCEPT ![t] = @ \cup {mmc[firstfree]}]
    <3>1. \A u \in Threads :
             held'[u] = IF u = t THEN held[u] \cup {mmc[firstfree]} ELSE held[u]
      BY <2>2 DEF IndInv, TypeOK
    <3> QED
      BY <2>2, <3>1
  <2> QED
    BY <1>3, <2>1, <2>2
<1> QED
  BY <1>1, <1>2, <1>4 DEF Versions, Current

\* grow_pool and push put new contents into one handle and into one slot.
LEMMA OneSlotVersions ==
    ASSUME IndInv, Versions, NEW h \in Handles, NEW c \in Handle,
           c.user_data <= version, Current(c),
           firstfree + 1 \in 0..(Size - 1),
           handle' = [handle EXCEPT ![h] = c],
           mmc' = [mmc EXCEPT ![firstfree + 1] = h],
           firstfree' = firstfree + 1,
           \A u \in Threads : held'[u] \subseteq held[u],
           UNCHANGED <<version, master>>
    PROVE  Versions'
<1>1. \A g \in Handles : handle'[g] = IF g = h THEN c ELSE handle[g]
  BY DEF IndInv, TypeOK
<1>2. Current(c)'
  BY DEF Current
<1>3. \A g \in Handles : handle'[g].user_data <= version'
  BY <1>1 DEF Versions
<1>4. firstfree + 1 \in Nat /\ firstfree \in -1..(Size - 1)
  BY DEF IndInv, TypeOK
<1>5. \A i \in 0..firstfree' : mmc'[i] # NULL =>
         \/ mmc'[i] = h
         \/ i \in 0..firstfree /\ mmc'[i] = mmc[i] /\ mmc[i] \in Handles
  <2>1. \A i \in 0..(Size - 1) :
           /\ mmc'[i] = IF i = firstfree + 1 THEN h ELSE mmc[i]
           /\ mmc[i] \in Handles \cup {NULL}
    BY DEF IndInv, TypeOK
  <2>2. \A i \in 0..firstfree' : i \in 0..(Size - 1)
                                /\ (i # firstfree + 1 => i \in 0..firstfree)
    BY <1>4, PoolAssumption
  <2> QED
    BY <2>1, <2>2
<1>6. \A i \in 0..firstfree' : mmc'[i] # NULL => Current(handle[mmc[i]])'
  BY <1>1, <1>2, <1>5 DEF Versions, Current
<1>7. \A u \in Threads : \A g \in held'[u] :
         handle'[g].user_data = version' => Current(handle[g])'
  <2>1. \A u \in Threads : held'[u] \subseteq Handles
    BY DEF IndInv, TypeOK
  <2> QED
    BY <1>1, <1>2, <2>1 DEF Versions, Current
<1> QED
  BY <1>3, <1>6, <1>7 DEF Versions

\* A clone, failed or not, has the version and the settings of the master.
LEMMA ClonesCurrent ==
    ASSUME IndInv, Versions, NEW c \in FailedClones \cup {Clone}
    PROVE  c \in Handle /\ c.user_data <= version /\ Current(c)
<1>1. master \in Handle /\ master.user_data <= version
  BY DEF IndInv, TypeOK, Versions
<1>2. PICK w \in {"ok", "empty", "dangling"} : c = [master EXCEPT !.health = w]
  BY DEF FailedClones, Clone
<1>3. /\ c \in Handle
      /\ c.user_data = master.user_data
      /\ c.conf = master.conf
  BY <1>1, <1>2 DEF Handle
<1> QED
  BY <1>1, <1>3 DEF Current

\* grow_pool adds a clone of the master.
LEMMA PopGrowVersions ==
    ASSUME IndInv, Versions, NEW t \in Threads, PopGrow(t)
    PROVE  Versions'
<1>1. current_size + 1 \in Handles /\ firstfree + 1 \in 0..(Size - 1)
  BY PoolAssumption DEF PopGrow, IndInv, TypeOK, Handles
<1>2. Clone \in Handle /\ Clone.user_data <= version /\ Current(Clone)
  BY ClonesCurrent
<1>3. /\ handle' = [handle EXCEPT ![current_size + 1] = Clone]
      /\ mmc' = [mmc EXCEPT ![firstfree + 1] = current_size + 1]
      /\ firstfree' = firstfree + 1
      /\ \A u \in Threads : held'[u] \subseteq held[u]
      /\ UNCHANGED <<version, master>>
  BY DEF PopGrow
<1> QED
  BY <1>1, <1>2, <1>3, OneSlotVersions

\* push puts back a handle of the present version, or a clone.
LEMMA PushVersions ==
    ASSUME IndInv, Versions, NEW t \in Threads, Push(t)
    PROVE  Versions'
<1>1. pc[t] = "push" /\ item[t] \in Handles /\ item[t] \in held[t]
  BY DEF Push, Inside, IndInv, TypeOK, PushesOwn
<1>2. ASSUME NEW c \in Handle, c.user_data <= version, Current(c),
             PutBack(t, c)
      PROVE  Versions'
  <2>1. IndInv'
    BY <1>1, <1>2, PutBackStep
  <2>2. firstfree + 1 \in 0..(Size - 1)
    BY <1>2, <2>1 DEF PutBack, IndInv, TypeOK
  <2>3. \A u \in Threads : held'[u] \subseteq held[u]
    BY <1>2 DEF PutBack, IndInv, TypeOK
  <2>4. /\ handle' = [handle EXCEPT ![item[t]] = c]
        /\ mmc' = [mmc EXCEPT ![firstfree + 1] = item[t]]
        /\ firstfree' = firstfree + 1
        /\ UNCHANGED <<version, master>>
    BY <1>2 DEF PutBack
  <2> QED
    BY <1>1, <1>2, <2>2, <2>3, <2>4, OneSlotVersions
<1>3. CASE ~Stale(item[t]) /\ PutBack(t, handle[item[t]])
  <2>1. /\ handle[item[t]] \in Handle
        /\ handle[item[t]].user_data = version
        /\ handle[item[t]].user_data <= version
    BY <1>1, <1>3 DEF Stale, IndInv, TypeOK, Versions
  <2>2. Current(handle[item[t]])
    BY <1>1, <2>1 DEF Versions
  <2> QED
    BY <1>2, <1>3, <2>1, <2>2
<1>4. CASE \E c \in FailedClones \cup {Clone} : PutBack(t, c)
  BY <1>2, <1>4, ClonesCurrent
<1>5. CASE Crash("freed")
  BY <1>5, SameVersions DEF Crash
<1> QED
  BY <1>3, <1>4, <1>5 DEF Push

\* behavior_set changes the master and all free handles alike, and makes the
\* handles that are out older than the pool.
LEMMA SetAllVersions ==
    ASSUME IndInv, Versions, NEW t \in Threads, SetAll(t)
    PROVE  Versions'
<1>1. /\ version' = version + 1 /\ version \in Nat
      /\ master' = NewMaster
      /\ UNCHANGED <<firstfree, held>>
  BY DEF SetAll, IndInv, TypeOK
<1>2. PICK recloned \in SUBSET FreeHandles, lost \in SUBSET FreeHandles :
          handle' = Updated(recloned, lost) /\ mmc' = WithHoles(lost)
  BY Zenon DEF SetAll
<1>3. /\ master \in Handle /\ sets \in Nat
      /\ \A h \in Handles : handle[h] \in Handle
  BY DEF IndInv, TypeOK
<1>4. /\ NewMaster \in Handle
      /\ NewMaster.user_data = version + 1
      /\ NewMaster.conf = master.conf \cup {sets}
  <2>1. version + 1 \in Nat /\ master \in Handle /\ sets \in Nat
    BY <1>1, <1>3
  <2>2. NewMaster \in Handle
    BY <2>1 DEF NewMaster, Handle
  <2>3. /\ NewMaster.user_data = version + 1
        /\ NewMaster.conf = master.conf \cup {sets}
    BY <2>1 DEF NewMaster, Handle
  <2> QED
    BY <2>2, <2>3
<1> DEFINE again == [NewMaster EXCEPT !.health = "ok"]
           set(h) == [handle[h] EXCEPT !.user_data = version + 1,
                                       !.conf = @ \cup {sets}]
<1>5. again.user_data = version + 1 /\ again.conf = NewMaster.conf
  BY <1>4 DEF Handle
<1>6. \A h \in Handles : /\ set(h).user_data = version + 1
                         /\ set(h).conf = handle[h].conf \cup {sets}
                         /\ set(h).health = handle[h].health
  BY <1>3 DEF Handle
<1>7. \A h \in Handles :
         \/ handle'[h] = again
         \/ handle'[h] = set(h)
         \/ handle'[h] = handle[h] /\ (h \in FreeHandles => h \in lost)
  BY <1>2 DEF Updated
<1> HIDE DEF again, set
<1>8. \A h \in Handles : handle'[h].user_data <= version'
  BY <1>1, <1>3, <1>5, <1>6, <1>7 DEF Versions, Handle, AppData
<1>9. \A i \in 0..firstfree : i \in 0..(Size - 1) /\ mmc[i] \in Handles \cup {NULL}
  BY PoolAssumption DEF IndInv, TypeOK
<1>10. \A i \in 0..firstfree : mmc'[i] # NULL =>
          /\ mmc'[i] = mmc[i] /\ mmc[i] \in Handles
          /\ mmc[i] \in FreeHandles /\ mmc[i] \notin lost
  BY <1>2, <1>9 DEF WithHoles, FreeHandles
<1>11. \A i \in 0..firstfree' : mmc'[i] # NULL => Current(handle[mmc[i]])'
  <2> SUFFICES ASSUME NEW i \in 0..firstfree, mmc'[i] # NULL
               PROVE  Current(handle[mmc[i]])'
    BY <1>1
  <2>1. Current(handle[mmc[i]])
    BY <1>10 DEF Versions
  <2>2. \/ handle'[mmc[i]] = again
        \/ handle'[mmc[i]] = set(mmc[i])
    BY <1>7, <1>10
  <2> QED
    BY <1>1, <1>4, <1>5, <1>6, <1>10, <2>1, <2>2 DEF Current
<1>12. \A u \in Threads : \A h \in held'[u] :
          handle'[h].user_data = version' => Current(handle[h])'
  <2> SUFFICES ASSUME NEW u \in Threads, NEW h \in held[u]
               PROVE  handle'[h].user_data # version'
    BY <1>1
  <2>1. h \in Handles
    BY DEF IndInv, TypeOK
  <2>2. h \notin FreeHandles
    BY DEF IndInv, Apart, FreeHandles
  <2>3. handle'[h] = handle[h]
    BY <1>2, <2>1, <2>2 DEF Updated
  <2>4. handle[h].user_data <= version /\ handle[h].user_data \in Nat \cup {AppData}
    BY <1>3, <2>1 DEF Versions, Handle
  <2> QED
    BY <1>1, <2>3, <2>4 DEF AppData
<1>13. master'.user_data <= version'
  BY <1>1, <1>4
<1> QED
  BY <1>8, <1>11, <1>12, <1>13 DEF Versions

\* Every step keeps Versions, as long as a behavior_set that fails on the
\* master leaves the master as it was.
LEMMA NextVersions ==
    ASSUME "partial" \notin Faults, IndInv, Versions, [Next]_vars
    PROVE  Versions'
<1>1. ASSUME NEW t \in Threads,
             \/ \E b \in BOOLEAN : PopEnter(t, b)
             \/ PopNull(t) \/ PopWait(t) \/ SpuriousWakeup(t) \/ PopResume(t)
             \/ \E h \in Handles : PushEnter(t, h)
             \/ SetEnter(t) \/ SetMasterFails(t)
             \/ SetCrash(t) \/ PushDestroyed(t)
      PROVE  Versions'
  <2>1. UNCHANGED <<mmc, firstfree, version, master, handle, held>>
    BY <1>1 DEF PopEnter, PopNull, PopWait, SpuriousWakeup, PopResume,
                PushEnter, SetEnter, SetMasterFails, SetCrash, PushDestroyed,
                Crash
  <2> QED
    BY <2>1, SameVersions
<1>2. ASSUME NEW t \in Threads, PopTake(t) PROVE Versions'
  BY <1>2, PopTakeVersions
<1>3. ASSUME NEW t \in Threads, PopGrow(t) PROVE Versions'
  BY <1>3, PopGrowVersions
<1>4. ASSUME NEW t \in Threads, Push(t) PROVE Versions'
  BY <1>4, PushVersions
<1>5. ASSUME NEW t \in Threads, SetAll(t) PROVE Versions'
  BY <1>5, SetAllVersions
<1>6. CASE Destroy
  <2>1. UNCHANGED <<firstfree, version, master, handle, held>>
    BY <1>6 DEF Destroy
  <2>2. mmc' = mmc \/ mmc' = [i \in 0..(Size - 1) |-> NULL]
    BY <1>6 DEF Destroy
  <2>3. \A i \in 0..firstfree : i \in 0..(Size - 1)
    BY PoolAssumption DEF IndInv, TypeOK
  <2>4. \A i \in 0..firstfree : mmc'[i] = mmc[i] \/ mmc'[i] = NULL
    BY <2>2, <2>3
  <2> QED
    BY <2>1, <2>4 DEF Versions, Current
<1>7. CASE UNCHANGED vars
  BY <1>7, SameVersions DEF vars
<1> QED
  BY <1>1, <1>2, <1>3, <1>4, <1>5, <1>6, <1>7 DEF Next

\* Whatever was popped, pushed and changed in whatever order, a usable handle
\* in the pool has the settings of the master; only a behavior_set that fails
\* after it has changed the master ("partial") can break this.
THEOREM FreeHandlesAreCurrent ==
    ASSUME "partial" \notin Faults
    PROVE  Spec => []FreeIsCurrent
<1>1. Init => Versions
  BY InitVersions
<1>2. IndInv /\ Versions /\ [Next]_vars => Versions'
  BY NextVersions
<1>3. Versions => FreeIsCurrent
  BY DEF Versions, Current, FreeIsCurrent, FreeHandles
<1> QED
  BY <1>1, <1>2, <1>3, Bookkeeping, PTL DEF Spec

-----------------------------------------------------------------------------
(* The refinement: pop is Take, push is Give, a behavior_set that succeeds  *)
(* is Configure, and everything else (locking, waiting, growing, re-cloning *)
(* free handles) is invisible.                                              *)

\* What the mapping shows of the handles that are out.
Given == [h \in Handles |-> IF h \notin Held THEN {}
                            ELSE IF handle[h].health = "ok"
                                 THEN handle[h].conf ELSE {-1}]

\* Only a clone that failed makes a handle that cannot be used.
Sound == "clone" \notin Faults => \A h \in Handles : handle[h].health = "ok"

\* A call of behavior_set is alone in the pool, and its setting is one the
\* master does not have yet.
FreshSetting ==
    /\ sets <= MaxSets
    /\ master.conf \subseteq 1..sets
    /\ \A t \in Threads : pc[t] = "set" =>
          mutex = t /\ sets \in 1..MaxSets /\ sets \notin master.conf

\* What the refinement needs of the states of the pool.
RefInv == IndInv /\ Versions /\ Sound /\ FreshSetting

-----------------------------------------------------------------------------
\* memcached_pool_create makes usable handles, before any setting is changed.
LEMMA InitRefInv == Init => Sound /\ FreshSetting
<1> SUFFICES ASSUME Init PROVE Sound /\ FreshSetting
  OBVIOUS
<1>1. PICK u \in {0, AppData} :
          master = [user_data |-> u, conf |-> {}, health |-> "ok"]
  BY DEF Init
<1>2. \A h \in Handles : handle[h] = master
  BY DEF Init
<1>3. Sound
  BY <1>1, <1>2 DEF Sound
<1>4. FreshSetting
  BY <1>1, PoolAssumption DEF Init, FreshSetting
<1> QED
  BY <1>3, <1>4

\* Handles change through clones of the master, or keep their health.
LEMMA NextSound == IndInv /\ Sound /\ [Next]_vars => Sound'
<1> SUFFICES ASSUME IndInv, Sound, [Next]_vars, "clone" \notin Faults,
                    NEW g \in Handles
             PROVE  handle'[g].health = "ok"
  BY DEF Sound
<1>1. handle[g].health = "ok" /\ master \in Handle /\ handle[g] \in Handle
  BY DEF Sound, IndInv, TypeOK
<1>2. Clone.health = "ok"
  BY <1>1 DEF Clone, Handle
<1>3. CASE handle' = handle
  BY <1>1, <1>3
<1>4. ASSUME NEW h \in Handles, handle' = [handle EXCEPT ![h] = Clone]
      PROVE  handle'[g].health = "ok"
  BY <1>1, <1>2, <1>4 DEF IndInv, TypeOK
<1>5. ASSUME NEW t \in Threads, PopGrow(t) PROVE handle'[g].health = "ok"
  <2>1. current_size + 1 \in Handles
    BY <1>5, PoolAssumption DEF PopGrow, IndInv, TypeOK, Handles
  <2> QED
    BY <1>4, <1>5, <2>1 DEF PopGrow
<1>6. ASSUME NEW t \in Threads, Push(t) PROVE handle'[g].health = "ok"
  <2>1. item[t] \in Handles
    BY <1>6 DEF Push, Inside, IndInv, TypeOK, PushesOwn
  <2>2. \/ handle' = [handle EXCEPT ![item[t]] = handle[item[t]]]
        \/ handle' = [handle EXCEPT ![item[t]] = Clone]
        \/ handle' = handle
    BY <1>6 DEF Push, PutBack, Crash
  <2> QED
    BY <1>1, <1>3, <1>4, <2>1, <2>2 DEF IndInv, TypeOK
<1>7. ASSUME NEW t \in Threads, SetAll(t) PROVE handle'[g].health = "ok"
  <2>1. PICK recloned \in SUBSET FreeHandles, lost \in SUBSET FreeHandles :
            handle' = Updated(recloned, lost)
    BY <1>7, Zenon DEF SetAll
  <2>2. version + 1 \in Nat /\ sets \in Nat
    BY DEF IndInv, TypeOK
  <2>3. [NewMaster EXCEPT !.health = "ok"].health = "ok"
    BY <1>1 DEF NewMaster, Handle
  <2>4. [handle[g] EXCEPT !.user_data = version + 1,
                          !.conf = @ \cup {sets}].health = "ok"
    BY <1>1 DEF Handle
  <2> QED
    BY <1>1, <2>1, <2>3, <2>4 DEF Updated
<1>8. CASE UNCHANGED vars
  BY <1>3, <1>8 DEF vars
<1>9. ASSUME NEW t \in Threads,
             \/ \E b \in BOOLEAN : PopEnter(t, b)
             \/ PopTake(t) \/ PopNull(t) \/ PopWait(t) \/ SpuriousWakeup(t)
             \/ PopResume(t)
             \/ \E h \in Handles : PushEnter(t, h)
             \/ SetEnter(t) \/ SetMasterFails(t)
             \/ SetCrash(t) \/ PushDestroyed(t)
      PROVE  handle' = handle
  BY <1>9 DEF PopEnter, PopTake, PopNull, PopWait, SpuriousWakeup, PopResume,
              PushEnter, SetEnter, SetMasterFails, SetCrash, PushDestroyed,
              Crash
<1>10. CASE Destroy
  BY <1>3, <1>10 DEF Destroy
<1> QED
  BY <1>3, <1>5, <1>6, <1>7, <1>8, <1>9, <1>10 DEF Next

-----------------------------------------------------------------------------
\* behavior_set adds one setting to the master's.
LEMMA SettingAdded ==
    ASSUME IndInv
    PROVE  NewMaster.conf = master.conf \cup {sets}
<1>1. master \in Handle /\ version + 1 \in Nat
  BY DEF IndInv, TypeOK
<1> QED
  BY <1>1 DEF NewMaster, Handle

\* A step that leaves the settings alone keeps FreshSetting when it lets no
\* thread into behavior_set and takes the mutex from nobody there.
LEMMA SameSettings ==
    ASSUME IndInv, FreshSetting, UNCHANGED <<master, sets>>,
           \A t \in Threads : pc'[t] = "set" => pc[t] = "set" /\ mutex' = mutex
    PROVE  FreshSetting'
BY DEF FreshSetting

\* A step of a thread outside behavior_set that frees the mutex or takes a
\* free one finds nobody in behavior_set.
LEMMA OwnerAlone ==
    ASSUME IndInv, FreshSetting, NEW t \in Threads, NEW w,
           w # "set", pc[t] # "set" \/ mutex = t,
           mutex \in {t, NoThread},
           \A u \in Threads : pc'[u] \in {pc[u], "woken"} \/ u = t,
           pc'[t] = w,
           UNCHANGED <<master, sets>>
    PROVE  FreshSetting'
<1>1. ASSUME NEW u \in Threads, pc'[u] = "set" PROVE FALSE
  <2>1. u # t /\ pc[u] = "set"
    BY <1>1
  <2>2. mutex = u
    BY <2>1 DEF FreshSetting
  <2> QED
    BY <2>1, <2>2, PoolAssumption
<1> QED
  BY <1>1 DEF FreshSetting

\* The settings of the master are numbered by the calls that made them, and
\* the call that is running has not made its own yet.
LEMMA NextFreshSetting ==
    ASSUME "partial" \notin Faults, IndInv, FreshSetting, [Next]_vars
    PROVE  FreshSetting'
<1>1. ASSUME NEW t \in Threads, \E b \in BOOLEAN : PopEnter(t, b)
      PROVE  FreshSetting'
  <2>1. /\ mutex = NoThread /\ pc[t] = "idle"
        /\ pc' = [pc EXCEPT ![t] = "pop"]
        /\ UNCHANGED <<master, sets>>
    BY <1>1 DEF PopEnter, Enter
  <2>2. pc'[t] = "pop" /\ \A u \in Threads : pc'[u] = pc[u] \/ u = t
    BY <2>1 DEF IndInv, TypeOK
  <2> QED
    BY <2>1, <2>2, OwnerAlone
<1>2. ASSUME NEW t \in Threads, \E h \in Handles : PushEnter(t, h)
      PROVE  FreshSetting'
  <2>1. /\ mutex = NoThread /\ pc[t] = "idle"
        /\ pc' = [pc EXCEPT ![t] = "push"]
        /\ UNCHANGED <<master, sets>>
    BY <1>2 DEF PushEnter, Enter
  <2>2. pc'[t] = "push" /\ \A u \in Threads : pc'[u] = pc[u] \/ u = t
    BY <2>1 DEF IndInv, TypeOK
  <2> QED
    BY <2>1, <2>2, OwnerAlone
<1>3. ASSUME NEW t \in Threads, PopResume(t) PROVE FreshSetting'
  <2>1. /\ mutex = NoThread /\ pc[t] = "woken"
        /\ pc' = [pc EXCEPT ![t] = "pop"]
        /\ UNCHANGED <<master, sets>>
    BY <1>3 DEF PopResume
  <2>2. pc'[t] = "pop" /\ \A u \in Threads : pc'[u] = pc[u] \/ u = t
    BY <2>1 DEF IndInv, TypeOK
  <2> QED
    BY <2>1, <2>2, OwnerAlone
<1>4. ASSUME NEW t \in Threads, PopNull(t) \/ SetMasterFails(t)
      PROVE  FreshSetting'
  <2>1. /\ mutex = t
        /\ pc' = [pc EXCEPT ![t] = "idle"]
        /\ UNCHANGED <<master, sets>>
    BY <1>4 DEF PopNull, SetMasterFails, Inside, Return
  <2>2. pc'[t] = "idle" /\ \A u \in Threads : pc'[u] = pc[u] \/ u = t
    BY <2>1 DEF IndInv, TypeOK
  <2> QED
    BY <2>1, <2>2, OwnerAlone
<1>5. ASSUME NEW t \in Threads, PopTake(t) PROVE FreshSetting'
  <2>1. UNCHANGED <<master, sets>> /\ mutex = t
    BY <1>5 DEF PopTake, Inside
  <2>2. CASE UNCHANGED <<mutex, pc>>
    BY <2>1, <2>2, SameSettings
  <2>3. CASE pc' = [pc EXCEPT ![t] = "idle"]
    <3>1. pc'[t] = "idle" /\ \A u \in Threads : pc'[u] = pc[u] \/ u = t
      BY <2>3 DEF IndInv, TypeOK
    <3> QED
      BY <2>1, <3>1, OwnerAlone
  <2> QED
    BY <1>5, <2>2, <2>3 DEF PopTake, Return
<1>6. ASSUME NEW t \in Threads, PopWait(t) PROVE FreshSetting'
  <2>1. /\ mutex = t
        /\ pc' = [pc EXCEPT ![t] = "waiting"]
        /\ UNCHANGED <<master, sets>>
    BY <1>6 DEF PopWait, Inside
  <2>2. pc'[t] = "waiting" /\ \A u \in Threads : pc'[u] = pc[u] \/ u = t
    BY <2>1 DEF IndInv, TypeOK
  <2> QED
    BY <2>1, <2>2, OwnerAlone
<1>7. ASSUME NEW t \in Threads, SpuriousWakeup(t) PROVE FreshSetting'
  <2>1. /\ pc' = [pc EXCEPT ![t] = "woken"]
        /\ UNCHANGED <<mutex, master, sets>>
    BY <1>7 DEF SpuriousWakeup
  <2>2. \A u \in Threads : pc'[u] = "set" => pc[u] = "set"
    BY <2>1 DEF IndInv, TypeOK
  <2> QED
    BY <2>1, <2>2, SameSettings
<1>8. ASSUME NEW t \in Threads, NEW c, PutBack(t, c), mutex = t
      PROVE  FreshSetting'
  <2>1. UNCHANGED <<master, sets>>
    BY <1>8 DEF PutBack
  <2>2. /\ pc'[t] = "idle"
        /\ \A u \in Threads : pc'[u] \in {pc[u], "woken"} \/ u = t
    BY <1>8 DEF PutBack
  <2> QED
    BY <1>8, <2>1, <2>2, OwnerAlone
<1>9. ASSUME UNCHANGED <<mutex, pc, master, sets>> PROVE FreshSetting'
  BY <1>9, SameSettings
<1>10. ASSUME NEW how, Crash(how) PROVE FreshSetting'
  BY <1>9, <1>10 DEF Crash
<1>11. ASSUME NEW t \in Threads, Push(t) PROVE FreshSetting'
  BY <1>8, <1>10, <1>11 DEF Push, Inside
<1>12. ASSUME NEW t \in Threads, SetEnter(t) PROVE FreshSetting'
  <2>1. /\ sets < MaxSets /\ sets' = sets + 1 /\ sets \in Nat
        /\ mutex = NoThread /\ mutex' = t
        /\ pc' = [pc EXCEPT ![t] = "set"]
        /\ UNCHANGED master
    BY <1>12 DEF SetEnter, Enter, IndInv, TypeOK
  <2>2. \A u \in Threads : pc'[u] = "set" => u = t
    BY <2>1, PoolAssumption DEF FreshSetting, IndInv, TypeOK
  <2>3. /\ sets' \in 1..MaxSets
        /\ master'.conf \subseteq 1..sets'
        /\ sets' \notin master'.conf
    BY <2>1, PoolAssumption DEF FreshSetting
  <2> QED
    BY <2>1, <2>2, <2>3 DEF FreshSetting
<1>13. ASSUME NEW t \in Threads, SetAll(t) PROVE FreshSetting'
  <2>1. /\ mutex = t /\ pc[t] = "set"
        /\ master' = NewMaster
        /\ pc' = [pc EXCEPT ![t] = "idle"]
        /\ UNCHANGED sets
    BY <1>13 DEF SetAll, Inside, Return
  <2>2. \A u \in Threads : pc'[u] # "set"
    BY <2>1 DEF FreshSetting, IndInv, TypeOK
  <2>3. sets \in 1..MaxSets /\ MaxSets \in Nat
    BY <2>1, PoolAssumption DEF FreshSetting
  <2>4. NewMaster.conf = master.conf \cup {sets}
    BY SettingAdded
  <2> QED
    BY <2>1, <2>2, <2>3, <2>4 DEF FreshSetting
<1>14. ASSUME NEW t \in Threads, PopGrow(t) PROVE FreshSetting'
  BY <1>9, <1>14 DEF PopGrow
<1>15. ASSUME NEW t \in Threads, SetCrash(t) \/ PushDestroyed(t)
       PROVE  FreshSetting'
  BY <1>10, <1>15 DEF SetCrash, PushDestroyed
<1>16. CASE Destroy
  BY <1>9, <1>16 DEF Destroy
<1>17. CASE UNCHANGED vars
  BY <1>9, <1>17 DEF vars
<1> QED
  BY <1>1, <1>2, <1>3, <1>4, <1>5, <1>6, <1>7, <1>11, <1>12, <1>13, <1>14,
     <1>15, <1>16, <1>17 DEF Next

-----------------------------------------------------------------------------
\* The initial states of the pool map to those of ResourcePool.
LEMMA InitRefines == Init => Promise!AInit
<1> SUFFICES ASSUME Init PROVE Promise!AInit
  OBVIOUS
<1>1. PICK u \in {0, AppData} :
          master = [user_data |-> u, conf |-> {}, health |-> "ok"]
  BY DEF Init
<1>2. held = [t \in Threads |-> {}] /\ Held = {}
  BY DEF Init, Held
<1> QED
  BY <1>1, <1>2 DEF Promise!AInit

\* What the mapping sees does not change when the handles that are out are
\* the same and carry the same contents.
LEMMA GivenSame ==
    ASSUME UNCHANGED <<held, master>>,
           \A h \in Held : handle'[h] = handle[h]
    PROVE  UNCHANGED Promise!absvars
<1>1. Held' = Held
  BY DEF Held
<1>2. Given' = Given
  BY <1>1 DEF Given
<1> QED
  BY <1>2 DEF Promise!absvars, Given

\* The loop of pop that finds a handle: it was with nobody, and it carries
\* the settings of the master, or its clone had failed.
LEMMA PopTakeRefines ==
    ASSUME RefInv, NEW t \in Threads, PopTake(t)
    PROVE  [Promise!ANext]_(Promise!absvars)
<1>1. firstfree \in 0..(Size - 1) /\ firstfree \in 0..firstfree
  BY DEF PopTake, RefInv, IndInv, TypeOK
<1>2. UNCHANGED <<master, handle>>
  BY DEF PopTake
<1>3. CASE mmc[firstfree] = NULL
  BY <1>2, <1>3, GivenSame DEF PopTake
<1>4. CASE mmc[firstfree] # NULL
  <2> PICK h \in Handles : h = mmc[firstfree]
    BY <1>1, <1>4 DEF RefInv, IndInv, TypeOK
  <2>1. handle[h] \in Handle
    BY DEF RefInv, IndInv, TypeOK
  <2>2. h \notin Held
    BY <1>1 DEF RefInv, IndInv, Apart, Held
  <2>3. held' = [held EXCEPT ![t] = @ \cup {h}]
    BY <1>4 DEF PopTake
  <2>4. Held' = Held \cup {h}
    BY <2>3, HeldAdd DEF RefInv, IndInv
  <2>5. Current(handle[h])
    BY <1>1, <1>4 DEF RefInv, Versions
  <2>6. Given' = [Given EXCEPT ![h] = IF handle[h].health = "ok"
                                      THEN master.conf ELSE {-1}]
    BY <1>2, <2>1, <2>4, <2>5 DEF Given, Current
  <2>7. handle[h].health # "ok" => "clone" \in Faults
    BY <2>1 DEF RefInv, Sound
  <2>8. Promise!Take(t, h)
    BY <1>2, <2>2, <2>3, <2>6, <2>7
       DEF Promise!Take, Promise!Taken, Given, Held
  <2> QED
    BY <2>8 DEF Promise!ANext
<1> QED
  BY <1>3, <1>4

\* grow_pool makes a handle that nobody has.
LEMMA PopGrowRefines ==
    ASSUME RefInv, NEW t \in Threads, PopGrow(t)
    PROVE  UNCHANGED Promise!absvars
<1>1. \A h \in Held : h <= current_size /\ h \in Handles
  BY DEF RefInv, IndInv, TypeOK, Named, Held
<1>2. current_size \in Nat
  BY DEF RefInv, IndInv, TypeOK
<1>3. \A h \in Held : handle'[h] = handle[h]
  BY <1>1, <1>2 DEF PopGrow, RefInv, IndInv, TypeOK, Handles
<1>4. UNCHANGED <<held, master>>
  BY DEF PopGrow
<1> QED
  BY <1>3, <1>4, GivenSame

\* push gives back a handle of its own, whatever contents it ends with.
LEMMA PutBackRefines ==
    ASSUME RefInv, NEW t \in Threads, NEW c, pc[t] = "push", PutBack(t, c)
    PROVE  Promise!ANext
<1> PICK h \in Handles : h = item[t]
  BY DEF RefInv, IndInv, TypeOK, PushesOwn
<1>1. h \in held[t]
  BY DEF RefInv, IndInv, PushesOwn
<1>2. /\ held' = [held EXCEPT ![t] = @ \ {h}]
      /\ handle' = [handle EXCEPT ![h] = c]
      /\ UNCHANGED master
  BY DEF PutBack
<1>3. Held' = Held \ {h}
  BY <1>1, <1>2, HeldRemove DEF RefInv, IndInv
<1>4. \A g \in Handles : g # h => handle'[g] = handle[g]
  BY <1>2 DEF RefInv, IndInv, TypeOK
<1>5. Given' = [Given EXCEPT ![h] = {}]
  BY <1>1, <1>3, <1>4 DEF Given
<1>6. Promise!Give(t, h)
  BY <1>1, <1>2, <1>5 DEF Promise!Give, Given
<1> QED
  BY <1>6 DEF Promise!ANext

\* behavior_set adds the setting of its call to the master and leaves the
\* handles that are out as they are.
LEMMA SetAllRefines ==
    ASSUME RefInv, NEW t \in Threads, SetAll(t)
    PROVE  Promise!ANext
<1>1. pc[t] = "set" /\ master' = NewMaster /\ held' = held
  BY DEF SetAll, Inside
<1>2. PICK recloned \in SUBSET FreeHandles, lost \in SUBSET FreeHandles :
          handle' = Updated(recloned, lost)
  BY Zenon DEF SetAll
<1>3. sets \in 1..MaxSets /\ sets \notin master.conf
  BY <1>1 DEF RefInv, FreshSetting
<1>4. master'.conf = master.conf \cup {sets}
  BY <1>1, SettingAdded DEF RefInv
<1>5. \A h \in Held : h \in Handles /\ h \notin FreeHandles
  BY DEF RefInv, IndInv, TypeOK, Apart, FreeHandles, Held
<1>6. \A h \in Held : handle'[h] = handle[h]
  BY <1>2, <1>5 DEF Updated
<1>7. Held' = Held
  BY <1>1 DEF Held
<1>8. Given' = Given
  BY <1>6, <1>7 DEF Given
<1>9. Promise!Configure(sets)
  BY <1>1, <1>3, <1>4, <1>8 DEF Promise!Configure, Given
<1> QED
  BY <1>3, <1>9 DEF Promise!ANext

\* Every step of the pool is a step of ResourcePool or changes nothing there.
LEMMA NextRefines ==
    ASSUME "partial" \notin Faults, RefInv, [Next]_vars
    PROVE  [Promise!ANext]_(Promise!absvars)
<1>1. ASSUME UNCHANGED <<held, master, handle>>
      PROVE  UNCHANGED Promise!absvars
  BY <1>1, GivenSame
<1>2. ASSUME NEW t \in Threads,
             \/ \E b \in BOOLEAN : PopEnter(t, b)
             \/ PopNull(t) \/ PopWait(t) \/ SpuriousWakeup(t) \/ PopResume(t)
             \/ \E h \in Handles : PushEnter(t, h)
             \/ SetEnter(t) \/ SetMasterFails(t)
             \/ SetCrash(t) \/ PushDestroyed(t)
      PROVE  UNCHANGED <<held, master, handle>>
  BY <1>2 DEF PopEnter, PopNull, PopWait, SpuriousWakeup, PopResume,
              PushEnter, SetEnter, SetMasterFails, SetCrash, PushDestroyed,
              Crash
<1>3. ASSUME NEW t \in Threads, Push(t)
      PROVE  [Promise!ANext]_(Promise!absvars)
  <2>1. CASE Crash("freed")
    BY <1>1, <2>1 DEF Crash
  <2>2. CASE \E c : PutBack(t, c)
    BY <1>3, <2>2, PutBackRefines DEF Push, Inside
  <2> QED
    BY <1>3, <2>1, <2>2 DEF Push
<1>4. CASE Destroy
  BY <1>1, <1>4 DEF Destroy
<1>5. CASE UNCHANGED vars
  BY <1>1, <1>5 DEF vars
<1> QED
  BY <1>1, <1>2, <1>3, <1>4, <1>5, PopTakeRefines, PopGrowRefines,
     SetAllRefines DEF Next

\* The pool keeps its promise, for any number of threads, any size, with
\* failing clones, failing behavior_sets and spurious wakeups: a handle is
\* handed to one thread at a time, with the settings the pool has at that
\* moment.  A behavior_set that fails half-way on the master ("partial")
\* changes settings without a new version, and is outside the promise.
THEOREM PoolKeepsPromise ==
    ASSUME "partial" \notin Faults
    PROVE  Spec => KeepsPromise
<1>1. Init => Versions /\ Sound /\ FreshSetting
  BY InitVersions, InitRefInv
<1>2. IndInv /\ Versions /\ [Next]_vars => Versions'
  BY NextVersions
<1>3. IndInv /\ Sound /\ [Next]_vars => Sound'
  BY NextSound
<1>4. IndInv /\ FreshSetting /\ [Next]_vars => FreshSetting'
  BY NextFreshSetting
<1>5. Spec => []RefInv
  BY <1>1, <1>2, <1>3, <1>4, Bookkeeping, PTL DEF Spec, RefInv
<1>6. RefInv /\ [Next]_vars => [Promise!ANext]_(Promise!absvars)
  BY NextRefines
<1> QED
  BY <1>5, <1>6, InitRefines, PTL DEF Spec, KeepsPromise, Promise!ASpec
=============================================================================
