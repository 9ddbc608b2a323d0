-------------------------------- MODULE Pool --------------------------------
(***************************************************************************)
(* The connection pool of libmemcachedutil (util/pool.c): threads share a   *)
(* fixed array of memcached_st handles under one mutex and one condition    *)
(* variable.  memcached_pool_pop hands a handle out, growing the pool or    *)
(* blocking; memcached_pool_push takes it back, re-cloning it from the      *)
(* master when the pool's behaviours changed meanwhile;                     *)
(* memcached_pool_behavior_set changes the master and every free handle.    *)
(*                                                                         *)
(* A handle is named by the number of the grow_pool call that created it:   *)
(* current_size is never decremented, so names are never reused.            *)
(***************************************************************************)
EXTENDS Integers, FiniteSets

CONSTANTS
    Threads,        \* threads that use the pool
    NoThread,       \* the owner of a mutex nobody owns
    Size,           \* pool->size, the max of memcached_pool_create
    Initial,        \* the initial of memcached_pool_create
    MaxPops,        \* bound: calls of memcached_pool_pop per thread
    MaxSets,        \* bound: calls of memcached_pool_behavior_set, in all
    Faults,         \* which calls may fail: see FaultKinds
    HoldAndWait,    \* may a thread block in a pop while it holds a handle?
    DestroyInUse    \* may the pool be destroyed while handles are out?

\* "clone": calloc or memcached_clone fails for lack of memory.
\* "set": memcached_behavior_set fails and has changed nothing.
\* "partial": it fails on the master after some of its assignments.
\* "spurious": pthread_cond_wait returns without a broadcast.
FaultKinds == {"clone", "set", "partial", "spurious"}

ASSUME PoolAssumption ==
    /\ Size \in Nat \ {0}
    /\ Initial \in 0..Size
    /\ MaxPops \in Nat
    /\ MaxSets \in Nat
    /\ Faults \subseteq FaultKinds
    /\ HoldAndWait \in BOOLEAN
    /\ DestroyInUse \in BOOLEAN
    /\ IsFiniteSet(Threads)
    /\ NoThread \notin Threads

Handles == 1..Size
NULL == 0

\* The user_data of an application that put its own pointer on the master.
AppData == -1

\* What the pool's logic sees of a memcached_st: its user_data, the calls of
\* behavior_set whose settings it carries, and whether it can be used.
\* memcached_clone frees the half-built clone when it fails: "empty" if it
\* failed before a server was added, "dangling" if after (servers still
\* points to the freed list).
Handle == [user_data : Nat \cup {AppData}, conf : SUBSET Nat,
           health : {"ok", "empty", "dangling"}]

VARIABLES
    mutex,          \* the thread that owns pool->mutex, or NoThread
    pc,             \* where each thread is
    block,          \* the block argument of each thread's pop
    item,           \* the mmc argument of each thread's push
    mmc,            \* pool->mmc, the array of free handles
    firstfree,      \* pool->firstfree, index of the last free handle
    current_size,   \* pool->current_size
    version,        \* pool->version (NULL is 0)
    master,         \* pool->master
    handle,         \* the memcached_st objects, by name
    held,           \* the handles each thread has popped and not pushed
    status,         \* "open", "destroyed" or the way the process died
    pops,           \* number of pops each thread has called
    sets            \* number of calls of behavior_set

vars == <<mutex, pc, block, item, mmc, firstfree, current_size, version,
          master, handle, held, status, pops, sets>>

Held == UNION {held[t] : t \in Threads}
Waiting == {t \in Threads : pc[t] = "waiting"}
FreeHandles == {mmc[i] : i \in 0..firstfree} \ {NULL}

-----------------------------------------------------------------------------
\* memcached_clone: the clone copies user_data and every setting.
Clone == [master EXCEPT !.health = "ok"]

\* A clone that failed: user_data was already copied when the servers are.
FailedClones == {[master EXCEPT !.health = h] : h \in {"empty", "dangling"}}

\* memcached_pool_create: grow to Initial, stopping at the first failure.
\* The application may have put its own user_data on the master.
Init ==
    /\ mutex = NoThread
    /\ pc = [t \in Threads |-> "idle"]
    /\ block = [t \in Threads |-> FALSE]
    /\ item = [t \in Threads |-> NULL]
    /\ \E n \in 0..Initial :
          /\ "clone" \notin Faults => n = Initial
          /\ mmc = [i \in 0..(Size - 1) |-> IF i < n THEN i + 1 ELSE NULL]
          /\ firstfree = n - 1
          /\ current_size = n
    /\ version = 0
    /\ \E u \in {0, AppData} :
          master = [user_data |-> u, conf |-> {}, health |-> "ok"]
    /\ handle = [h \in Handles |-> master]
    /\ held = [t \in Threads |-> {}]
    /\ status = "open"
    /\ pops = [t \in Threads |-> 0]
    /\ sets = 0

\* mutex_enter of a call that starts, and mutex_exit with the return,
\* which ends the life of the call's arguments.
Enter(t, where) ==
    /\ status = "open"
    /\ pc[t] = "idle"
    /\ mutex = NoThread
    /\ mutex' = t
    /\ pc' = [pc EXCEPT ![t] = where]

Return(t) ==
    /\ mutex' = NoThread
    /\ pc' = [pc EXCEPT ![t] = "idle"]
    /\ block' = [block EXCEPT ![t] = FALSE]
    /\ item' = [item EXCEPT ![t] = NULL]

Inside(t, where) == status = "open" /\ pc[t] = where /\ mutex = t

\* The process dies on a memory error; nothing else happens after it.
Crash(how) ==
    /\ status' = how
    /\ UNCHANGED <<mutex, pc, block, item, mmc, firstfree, current_size,
                   version, master, handle, held, pops, sets>>

-----------------------------------------------------------------------------
\* memcached_pool_pop
PopEnter(t, b) ==
    /\ Enter(t, "pop")
    /\ pops[t] < MaxPops
    /\ b /\ ~HoldAndWait => held[t] = {}
    /\ block' = [block EXCEPT ![t] = b]
    /\ pops' = [pops EXCEPT ![t] = @ + 1]
    /\ UNCHANGED <<item, mmc, firstfree, current_size, version, master,
                   handle, held, status, sets>>

\* Slip: mmc[firstfree] is read and firstfree is not decremented.
PopTakeKeepsSlot(t) ==
    /\ Inside(t, "pop")
    /\ firstfree > -1
    /\ mmc[firstfree] # NULL
    /\ held' = [held EXCEPT ![t] = @ \cup {mmc[firstfree]}]
    /\ Return(t)
    /\ UNCHANGED <<mmc, firstfree, current_size, version, master, handle,
                   status, pops, sets>>

\* One turn of the loop takes the last free slot.  A hole (NULL) keeps the
\* loop going, and its place in current_size is gone for good.
PopTake(t) ==
    /\ Inside(t, "pop")
    /\ firstfree > -1
    /\ firstfree' = firstfree - 1
    /\ IF mmc[firstfree] = NULL
       THEN UNCHANGED <<mutex, pc, block, item, held>>
       ELSE /\ held' = [held EXCEPT ![t] = @ \cup {mmc[firstfree]}]
            /\ Return(t)
    /\ UNCHANGED <<mmc, current_size, version, master, handle, status, pops,
                   sets>>

\* Slips: the pool grows without bound; the growth is not counted.
PopGrowUnbounded(t) ==
    /\ Inside(t, "pop")
    /\ firstfree = -1
    /\ handle' = [handle EXCEPT ![current_size + 1] = Clone]
    /\ mmc' = [mmc EXCEPT ![firstfree + 1] = current_size + 1]
    /\ firstfree' = firstfree + 1
    /\ current_size' = current_size + 1
    /\ UNCHANGED <<mutex, pc, block, item, version, master, held, status,
                   pops, sets>>

PopGrowUncounted(t) ==
    /\ Inside(t, "pop")
    /\ firstfree = -1
    /\ current_size # Size
    /\ handle' = [handle EXCEPT ![current_size + 1] = Clone]
    /\ mmc' = [mmc EXCEPT ![firstfree + 1] = current_size + 1]
    /\ firstfree' = firstfree + 1
    /\ UNCHANGED <<mutex, pc, block, item, current_size, version, master, held,
                   status, pops, sets>>

\* grow_pool: the new handle goes into the array, and the loop takes it.
PopGrow(t) ==
    /\ Inside(t, "pop")
    /\ firstfree = -1
    /\ current_size # Size
    /\ handle' = [handle EXCEPT ![current_size + 1] = Clone]
    /\ mmc' = [mmc EXCEPT ![firstfree + 1] = current_size + 1]
    /\ firstfree' = firstfree + 1
    /\ current_size' = current_size + 1
    /\ UNCHANGED <<mutex, pc, block, item, version, master, held, status,
                   pops, sets>>

\* Nothing free and nothing to grow: a pop that may not block returns NULL,
\* and so does one whose grow_pool fails.
PopNull(t) ==
    /\ Inside(t, "pop")
    /\ firstfree = -1
    /\ IF current_size = Size THEN ~block[t] ELSE "clone" \in Faults
    /\ Return(t)
    /\ UNCHANGED <<mmc, firstfree, current_size, version, master, handle, held,
                   status, pops, sets>>

\* pthread_cond_wait gives the mutex up and waits.
PopWait(t) ==
    /\ Inside(t, "pop")
    /\ firstfree = -1
    /\ current_size = Size
    /\ block[t]
    /\ mutex' = NoThread
    /\ pc' = [pc EXCEPT ![t] = "waiting"]
    /\ UNCHANGED <<block, item, mmc, firstfree, current_size, version, master,
                   handle, held, status, pops, sets>>

\* POSIX lets a wait end without a broadcast; the loop looks again.
SpuriousWakeup(t) ==
    /\ "spurious" \in Faults
    /\ status = "open"
    /\ pc[t] = "waiting"
    /\ pc' = [pc EXCEPT ![t] = "woken"]
    /\ UNCHANGED <<mutex, block, item, mmc, firstfree, current_size, version,
                   master, handle, held, status, pops, sets>>

\* A woken thread owns the mutex again before pthread_cond_wait returns.
PopResume(t) ==
    /\ status = "open"
    /\ pc[t] = "woken"
    /\ mutex = NoThread
    /\ mutex' = t
    /\ pc' = [pc EXCEPT ![t] = "pop"]
    /\ UNCHANGED <<block, item, mmc, firstfree, current_size, version, master,
                   handle, held, status, pops, sets>>

-----------------------------------------------------------------------------
\* memcached_pool_push
PushEnter(t, h) ==
    /\ h \in held[t]
    /\ Enter(t, "push")
    /\ item' = [item EXCEPT ![t] = h]
    /\ UNCHANGED <<block, mmc, firstfree, current_size, version, master,
                   handle, held, status, pops, sets>>

\* Slips: the test is off by one; one waiter is signalled instead of all.
BroadcastLate(top) == IF top = 1 /\ current_size = Size THEN Waiting ELSE {}

Signal(top) ==
    IF top = 0 /\ current_size = Size /\ Waiting # {}
    THEN {CHOOSE t \in Waiting : TRUE} ELSE {}

\* The threads a broadcast wakes: all the waiting ones, when the handle is
\* the only free one of a pool that cannot grow.
Broadcast(top) == IF top = 0 /\ current_size = Size THEN Waiting ELSE {}

\* The rest of push once the handle has its final contents.
PutBack(t, contents) ==
    /\ handle' = [handle EXCEPT ![item[t]] = contents]
    /\ mmc' = [mmc EXCEPT ![firstfree + 1] = item[t]]
    /\ firstfree' = firstfree + 1
    /\ held' = [held EXCEPT ![t] = @ \ {item[t]}]
    /\ mutex' = NoThread
    /\ item' = [item EXCEPT ![t] = NULL]
    /\ pc' = [u \in Threads |-> IF u = t THEN "idle"
                                ELSE IF u \in Broadcast(firstfree + 1)
                                     THEN "woken" ELSE pc[u]]
    /\ UNCHANGED <<block, current_size, version, master, status, pops, sets>>

\* Slips: the version is not looked at; it is compared the wrong way round.
NeverStale(h) == FALSE

StaleIfNewer(h) == handle[h].user_data > version

Stale(h) == handle[h].user_data # version

\* A handle of an older version is freed and cloned anew; a clone that fails
\* makes push return MEMCACHED_SOME_ERRORS but the handle goes back anyway.
Push(t) ==
    /\ Inside(t, "push")
    /\ \/ /\ ~Stale(item[t])
          /\ PutBack(t, handle[item[t]])
       \/ /\ Stale(item[t])
          /\ handle[item[t]].health # "dangling"
          /\ PutBack(t, Clone)
       \/ /\ Stale(item[t])
          /\ handle[item[t]].health # "dangling"
          /\ "clone" \in Faults
          /\ \E c \in FailedClones : PutBack(t, c)
       \/ /\ Stale(item[t])
          /\ handle[item[t]].health = "dangling"
          /\ Crash("freed")

-----------------------------------------------------------------------------
\* memcached_pool_behavior_set
SetEnter(t) ==
    /\ sets < MaxSets
    /\ Enter(t, "set")
    /\ sets' = sets + 1
    /\ UNCHANGED <<block, item, mmc, firstfree, current_size, version, master,
                   handle, held, status, pops>>

\* memcached_behavior_set on the master fails: nothing else is done.
SetMasterFails(t) ==
    /\ Inside(t, "set")
    /\ \/ "set" \in Faults /\ UNCHANGED master
       \/ "partial" \in Faults /\ master' = [master EXCEPT !.conf = @ \cup {sets}]
    /\ Return(t)
    /\ UNCHANGED <<mmc, firstfree, current_size, version, handle, held, status,
                   pops, sets>>

\* The master with the new setting and the new version.
NewMaster == [master EXCEPT !.user_data = version + 1, !.conf = @ \cup {sets}]

\* The handles after the loop over the free ones: where the setting could be
\* made the handle is stamped with the new version; where it failed the
\* handle was freed and cloned anew ("recloned"), or released when that
\* failed as well ("lost").
Updated(recloned, lost) ==
    [h \in Handles |->
        CASE h \in recloned -> [NewMaster EXCEPT !.health = "ok"]
          [] h \in FreeHandles \ (recloned \cup lost) ->
                [handle[h] EXCEPT !.user_data = version + 1,
                                  !.conf = @ \cup {sets}]
          [] OTHER -> handle[h]]

\* A lost handle leaves a hole in its slot.
WithHoles(lost) ==
    [i \in 0..(Size - 1) |->
        IF i <= firstfree /\ mmc[i] \in lost THEN NULL ELSE mmc[i]]

SetAll(t) ==
    /\ Inside(t, "set")
    /\ \A i \in 0..firstfree : mmc[i] # NULL
    /\ version' = version + 1
    /\ master' = NewMaster
    /\ \E recloned, lost \in SUBSET FreeHandles :
          /\ recloned \cap lost = {}
          /\ recloned \cup lost # {} => "set" \in Faults
          /\ lost # {} => "clone" \in Faults
          /\ \A h \in recloned \cup lost : handle[h].health # "dangling"
          /\ handle' = Updated(recloned, lost)
          /\ mmc' = WithHoles(lost)
    /\ Return(t)
    /\ UNCHANGED <<firstfree, current_size, held, status, pops, sets>>

\* memcached_behavior_set on a hole dereferences NULL; on a handle whose
\* server list was freed it may touch that list, or memcached_free does.
SetCrash(t) ==
    /\ Inside(t, "set")
    /\ \/ /\ \E i \in 0..firstfree : mmc[i] = NULL
          /\ Crash("null")
       \/ /\ \E h \in FreeHandles : handle[h].health = "dangling"
          /\ Crash("freed")

-----------------------------------------------------------------------------
\* memcached_pool_destroy takes no lock: the caller makes sure that nobody is
\* inside the pool.  It frees the free handles only, and never looks at
\* whether others are out.
Destroy ==
    /\ status = "open"
    /\ \A t \in Threads : pc[t] = "idle"
    /\ DestroyInUse \/ Held = {}
    /\ \/ /\ \A i \in 0..firstfree : mmc[i] # NULL
          /\ status' = "destroyed"
          /\ mmc' = [i \in 0..(Size - 1) |-> NULL]
       \/ /\ \E i \in 0..firstfree : mmc[i] = NULL
          /\ status' = "null"
          /\ UNCHANGED mmc
       \/ /\ \E h \in FreeHandles : handle[h].health = "dangling"
          /\ status' = "freed"
          /\ UNCHANGED mmc
    /\ UNCHANGED <<mutex, pc, block, item, firstfree, current_size, version,
                   master, handle, held, pops, sets>>

\* A thread that still holds a handle pushes it to a pool that is gone.
PushDestroyed(t) ==
    /\ status = "destroyed"
    /\ held[t] # {}
    /\ Crash("freed")

-----------------------------------------------------------------------------
PopStep(t) == PopTake(t) \/ PopGrow(t) \/ PopNull(t) \/ PopWait(t)
SetStep(t) == SetMasterFails(t) \/ SetAll(t) \/ SetCrash(t)

Next ==
    \/ \E t \in Threads :
          \/ \E b \in BOOLEAN : PopEnter(t, b)
          \/ PopTake(t)
          \/ PopGrow(t)
          \/ PopNull(t)
          \/ PopWait(t)
          \/ SpuriousWakeup(t)
          \/ PopResume(t)
          \/ \E h \in Handles : PushEnter(t, h)
          \/ Push(t)
          \/ SetEnter(t)
          \/ SetMasterFails(t)
          \/ SetAll(t)
          \/ SetCrash(t)
          \/ PushDestroyed(t)
    \/ Destroy

Spec == Init /\ [][Next]_vars

\* Threads run: a call that has begun goes on, a woken thread gets the mutex
\* once nobody else wants it, and whoever holds a handle pushes it in the end.
\* Calls are finite in number (MaxPops, MaxSets), so weak fairness is enough
\* and no fairness of the mutex is assumed.
Fairness ==
    \A t \in Threads :
        /\ WF_vars(PopStep(t))
        /\ WF_vars(PopResume(t))
        /\ WF_vars(\E h \in Handles : PushEnter(t, h))
        /\ WF_vars(Push(t))
        /\ WF_vars(SetStep(t))

FairSpec == Spec /\ Fairness

-----------------------------------------------------------------------------
\* Type correctness of the pool's state.
TypeOK ==
    /\ mutex \in Threads \cup {NoThread}
    /\ pc \in [Threads -> {"idle", "pop", "waiting", "woken", "push", "set"}]
    /\ block \in [Threads -> BOOLEAN]
    /\ item \in [Threads -> Handles \cup {NULL}]
    /\ mmc \in [0..(Size - 1) -> Handles \cup {NULL}]
    /\ firstfree \in -1..(Size - 1)
    /\ current_size \in 0..Size
    /\ version \in Nat
    /\ master \in Handle
    /\ handle \in [Handles -> Handle]
    /\ held \in [Threads -> SUBSET Handles]
    /\ status \in {"open", "destroyed", "null", "freed"}
    /\ pops \in [Threads -> Nat]
    /\ sets \in Nat

\* A handle is in one place: in one free slot, or with one thread.  Two
\* threads that share a memcached_st corrupt each other's connections.
NoSharing ==
    /\ \A i, j \in 0..firstfree :
          i # j /\ mmc[i] # NULL => mmc[i] # mmc[j]
    /\ \A t, u \in Threads : t # u => held[t] \cap held[u] = {}
    /\ FreeHandles \cap Held = {}

\* The pool never has more handles than it was created for, and the array
\* always has room for every handle that is out: push writes mmc[firstfree+1]
\* without looking.
Capacity ==
    /\ current_size <= Size
    /\ firstfree + 1 + Cardinality(Held) <= current_size

\* No wakeup is lost: a thread sleeps in pop only while nothing is free and
\* the pool cannot grow, although push broadcasts only when it makes the
\* first handle free.
NoLostWakeup ==
    Waiting # {} => firstfree = -1 /\ current_size = Size

\* A usable free handle always carries the settings of the master, also when
\* it was out while memcached_pool_behavior_set changed them.
FreeIsCurrent ==
    status = "open" =>
        \A h \in FreeHandles : handle[h].health = "ok" =>
                               handle[h].conf = master.conf

\* What the pool promises its callers (ResourcePool): pop hands a handle to
\* one thread at a time, with the settings of that moment, whatever was
\* changed while it was out or free.
Promise == INSTANCE ResourcePool WITH
    Settings <- 1..MaxSets,
    Unusable <- {-1},
    MayBreak <- "clone" \in Faults,
    inUse <- held,
    settings <- master.conf,
    given <- [h \in Handles |-> IF h \notin Held THEN {}
                                ELSE IF handle[h].health = "ok"
                                     THEN handle[h].conf ELSE {-1}]
KeepsPromise == Promise!ASpec

\* Every blocked pop returns, if those who hold handles push them back.
BlockedPopReturns ==
    \A t \in Threads : pc[t] = "waiting" ~> pc[t] = "idle"
=============================================================================
