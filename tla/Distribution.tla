---------------------------- MODULE Distribution ----------------------------
(***************************************************************************)
(* How libmemcached finds the server of a key (hosts.c, hash.c) and how     *)
(* servers that fail are avoided and ejected (connect.c, behavior.c): the   *)
(* server list, its order, the continuum built from it, and the failure     *)
(* counter and retry delay of each server.                                  *)
(*                                                                         *)
(* A host is a number, in the order sort_hosts uses; a key is its hash.     *)
(* Points of the continuum come from the table Value, which stands for MD5. *)
(* next_retry and next_distribution_rebuild are kept relative to now and    *)
(* cut off where the code cannot tell the difference any more, so that time *)
(* is unbounded.                                                            *)
(***************************************************************************)
EXTENDS Integers, Sequences, FiniteSets, SequencesExt, FiniteSetsExt

CONSTANTS
    Hosts,          \* the hosts there are
    Weight,         \* their weights
    Points,         \* MEMCACHED_POINTS_PER_SERVER
    PointsKetama,   \* MEMCACHED_POINTS_PER_SERVER_KETAMA
    PerHash,        \* points made of one MD5 digest (4 in the code)
    Addition,       \* MEMCACHED_CONTINUUM_ADDITION
    MaxHash,        \* bound: hashes are 0..MaxHash
    Value,          \* Value[h][p]: the hash of the p-th point of host h
    Retry,          \* retry_timeout
    Limit,          \* server_failure_limit when it is set
    MaxChanges,     \* bound: calls that change the list or the behaviours
    Faults          \* subset of {"realloc"}: growing the continuum may fail

ASSUME DistributionAssumption ==
    /\ Hosts \subseteq Nat /\ IsFiniteSet(Hosts) /\ Hosts # {}
    /\ {Points, PointsKetama, PerHash, Addition, Limit} \subseteq Nat \ {0}
    /\ PointsKetama % PerHash = 0
    /\ {MaxHash, Retry, MaxChanges} \subseteq Nat
    /\ Weight \in [Hosts -> Nat]
    /\ Faults \subseteq {"realloc"}

\* MD5 values of different points are taken to be different.
ASSUME ValueAssumption ==
    /\ \A h \in Hosts : \A p \in DOMAIN Value[h] : Value[h][p] \in 0..MaxHash
    /\ \A g, h \in Hosts : \A p \in DOMAIN Value[g] : \A q \in DOMAIN Value[h] :
          Value[g][p] = Value[h][q] => g = h /\ p = q

\* A weight of 0 is made 1.
WeightOf(h) == IF Weight[h] = 0 THEN 1 ELSE Weight[h]

\* pointer_per_server of host h among the live hosts.
Share(h, live, by_weight) ==
    IF by_weight
    THEN ((WeightOf(h) * (PointsKetama \div PerHash) * Cardinality(live))
             \div MapThenSumSet(WeightOf, live)) * PerHash
    ELSE Points

\* The digests of a host's name give as many points as it can need.
ASSUME TableAssumption ==
    \A live \in SUBSET Hosts : \A h \in live : \A by_weight \in BOOLEAN :
        0..(Share(h, live, by_weight) - 1) \subseteq DOMAIN Value[h]

Hashes == 0..MaxHash
Distributions == {"modula", "random", "ketama"}
NONE == -2          \* next_distribution_rebuild is 0
NoHost == -1        \* no call is under way
Lost == -2          \* the continuum was read where there is nothing

VARIABLES
    list,           \* the server list, a sequence of hosts
    fd,             \* which hosts are connected
    failures,       \* server_failure_counter of each host
    wait,           \* next_retry - now of each host, 0 when it has passed
    auto_eject,     \* flags.auto_eject_hosts
    use_sort_hosts, \* flags.use_sort_hosts
    weighted,       \* flags.ketama_weighted
    distribution,   \* "modula", "random" or "ketama"
    limit,          \* server_failure_limit
    continuum,      \* the points in use, as a sequence
    continuum_count,\* hosts the continuum was allocated for
    allocated,      \* points the continuum was allocated for
    rebuild,        \* next_distribution_rebuild - now, -1 when it has passed
    ended,          \* how the last update_continuum ended
    target,         \* the host of the call under way
    changes         \* calls that changed the list or the behaviours

ring == <<continuum, continuum_count, allocated, rebuild, ended>>
health == <<fd, failures, wait>>
flags == <<auto_eject, use_sort_hosts, weighted, distribution>>
vars == <<list, health, flags, limit, ring, target, changes>>

\* A new handle whose behaviours were set before it has a server: one of the
\* consistent distributions and a failure limit.
Init ==
    /\ list = <<>>
    /\ fd = [h \in Hosts |-> FALSE]
    /\ failures = [h \in Hosts |-> 0]
    /\ wait = [h \in Hosts |-> 0]
    /\ auto_eject \in BOOLEAN
    /\ use_sort_hosts \in BOOLEAN
    /\ weighted \in BOOLEAN
    /\ distribution = "ketama"
    /\ limit = Limit
    /\ continuum = <<>>
    /\ continuum_count = 0
    /\ allocated = 0
    /\ rebuild = NONE
    /\ ended = "none live"
    /\ target = NoHost
    /\ changes = 0

-----------------------------------------------------------------------------
\* sort_hosts
SortHosts(l) ==
    [i \in DOMAIN l |->
        CHOOSE h \in ToSet(l) : Cardinality({g \in ToSet(l) : g < h}) = i - 1]

\* qsort with continuum_item_cmp: the points in the order of their values.
SortPoints(points) ==
    [i \in 1..Cardinality(points) |->
        CHOOSE x \in points :
            Cardinality({y \in points : y.value < x.value}) = i - 1]

\* The hosts of l that update_continuum puts into the continuum: with
\* auto_eject_hosts those whose retry delay is over.
LiveIn(l) == {h \in ToSet(l) : auto_eject => wait[h] = 0}

PointsOf(h, live) == Share(h, live, weighted)

PointsPerServer == IF weighted THEN PointsKetama ELSE Points

\* Slips: index starts at 1; index counts the hosts that are not skipped.
BuildFromOne(l) ==
    LET live == LiveIn(l)
        position == [h \in ToSet(l) |-> CHOOSE i \in DOMAIN l : l[i] = h]
    IN SortPoints(UNION {{[value |-> Value[h][p], index |-> position[h]] :
                             p \in 0..(PointsOf(h, live) - 1)} : h \in live})

BuildCompacted(l) ==
    LET live == LiveIn(l)
        position == [h \in ToSet(l) |-> Cardinality(
            {i \in DOMAIN l : l[i] \in live /\ \E j \in DOMAIN l : i < j /\ l[j] = h})]
    IN SortPoints(UNION {{[value |-> Value[h][p], index |-> position[h]] :
                             p \in 0..(PointsOf(h, live) - 1)} : h \in live})

\* The points of the live hosts, sorted; index is the place in the list.
Build(l) ==
    LET live == LiveIn(l)
        position == [h \in ToSet(l) |-> (CHOOSE i \in DOMAIN l : l[i] = h) - 1]
    IN SortPoints(UNION {{[value |-> Value[h][p], index |-> position[h]] :
                             p \in 0..(PointsOf(h, live) - 1)} : h \in live})

\* Slip: the next rebuild is not scheduled anew.
RescheduleOnce(l) == NONE

\* The next rebuild is due when the first of the skipped hosts is.
Reschedule(l) ==
    LET skipped == ToSet(l) \ LiveIn(l)
    IN IF ~auto_eject THEN rebuild
       ELSE IF skipped = {} THEN NONE ELSE Min({wait[h] : h \in skipped})

\* Slip: room is made for unweighted hosts.
GrowUnweighted(live) ==
    /\ continuum_count' = Cardinality(live) + Addition
    /\ allocated' = (Cardinality(live) + Addition) * Points

Grow(live) ==
    /\ continuum_count' = Cardinality(live) + Addition
    /\ allocated' = (Cardinality(live) + Addition) * PointsPerServer

\* update_continuum, for the list l.
UpdateContinuum(l) ==
    LET live == LiveIn(l) IN
    /\ rebuild' = Reschedule(l)
    /\ \/ /\ live = {}
          /\ ended' = "none live"
          /\ UNCHANGED <<continuum, continuum_count, allocated>>
       \/ /\ live # {} /\ Cardinality(live) <= continuum_count
          /\ continuum' = Build(l)
          /\ ended' = "built"
          /\ UNCHANGED <<continuum_count, allocated>>
       \/ /\ Cardinality(live) > continuum_count
          /\ Grow(live)
          /\ continuum' = Build(l)
          /\ ended' = "built"
       \/ /\ Cardinality(live) > continuum_count
          /\ "realloc" \in Faults
          /\ ended' = "no memory"
          /\ UNCHANGED <<continuum, continuum_count, allocated>>

\* run_distribution, with the list, the order and the distribution as they
\* are when it is called.
RunDistribution(l, sorted, dist) ==
    LET after == IF sorted THEN SortHosts(l) ELSE l IN
    /\ list' = after
    /\ IF dist = "ketama" THEN UpdateContinuum(after) ELSE UNCHANGED ring

-----------------------------------------------------------------------------
\* Slip: the search stops one point too far.
SearchPast(hash) ==
    LET f[w \in (0..Len(continuum)) \X (0..Len(continuum))] ==
            IF w[1] >= w[2] THEN w[2]
            ELSE LET m == w[1] + (w[2] - w[1]) \div 2
                 IN IF continuum[m + 1].value <= hash
                    THEN f[<<m + 1, w[2]>>] ELSE f[<<w[1], m>>]
        right == f[<<0, Len(continuum)>>]
    IN continuum[IF right = Len(continuum) THEN 1 ELSE right + 1].index

\* The binary search of dispatch_host; the continuum is not empty.
Search(hash) ==
    LET f[w \in (0..Len(continuum)) \X (0..Len(continuum))] ==
            IF w[1] >= w[2] THEN w[2]
            ELSE LET m == w[1] + (w[2] - w[1]) \div 2
                 IN IF continuum[m + 1].value < hash
                    THEN f[<<m + 1, w[2]>>] ELSE f[<<w[1], m>>]
        right == f[<<0, Len(continuum)>>]
    IN continuum[IF right = Len(continuum) THEN 1 ELSE right + 1].index

HostAt(index) == IF index < Len(list) THEN list[index + 1] ELSE Lost

\* dispatch_host: the hosts a key with this hash may go to.
Dispatch(hash) ==
    CASE distribution = "modula" -> {HostAt(hash % Len(list))}
      [] distribution = "random" -> ToSet(list)
      [] distribution = "ketama" /\ continuum # <<>> -> {HostAt(Search(hash))}
      [] OTHER -> {Lost}

\* A call on a key begins (memcached_generate_hash_with_redistribution): a
\* rebuild that is due is made first.  With one host the hash is 0.
Route(hash) ==
    /\ target = NoHost /\ list # <<>>
    /\ IF auto_eject /\ rebuild = -1
       THEN RunDistribution(list, use_sort_hosts, distribution)
       ELSE UNCHANGED <<list, ring>>
    /\ UNCHANGED <<health, flags, limit, changes>>
    /\ target' \in Dispatch(IF Len(list) = 1 THEN 0 ELSE hash)'

-----------------------------------------------------------------------------
(* memcached_connect to the target, and what follows.                      *)
Strike(h, n) ==
    failures' = [failures EXCEPT ![h] = IF @ + n > Limit THEN Limit ELSE @ + n]

Delayed(h) == Retry > 0 /\ wait[h] > 0
Disabled(h) == limit > 0 /\ failures[h] >= limit

\* The retry delay is not over: MEMCACHED_SERVER_MARKED_DEAD.
ConnectDelayed(h) ==
    /\ target = h /\ ~fd[h] /\ Delayed(h)
    /\ target' = NoHost
    /\ UNCHANGED <<list, health, flags, limit, ring, changes>>

\* Too many failures: MEMCACHED_SERVER_MARKED_DEAD, and with auto_eject_hosts
\* the distribution is run again.
ConnectDisabled(h) ==
    /\ target = h /\ ~fd[h] /\ ~Delayed(h) /\ Disabled(h)
    /\ IF auto_eject
       THEN RunDistribution(list, use_sort_hosts, distribution)
       ELSE UNCHANGED <<list, ring>>
    /\ target' = NoHost
    /\ UNCHANGED <<health, flags, limit, changes>>

\* The connection is refused or times out, which starts the retry delay, or
\* the name lookup or socket() failed, which does not.
ConnectFails(h) ==
    /\ target = h /\ ~fd[h] /\ ~Delayed(h) /\ ~Disabled(h)
    /\ Strike(h, 1)
    /\ wait' \in {[wait EXCEPT ![h] = Retry], wait}
    /\ target' = NoHost
    /\ UNCHANGED <<list, fd, flags, limit, ring, changes>>

Connect(h) ==
    /\ target = h /\ ~fd[h] /\ ~Delayed(h) /\ ~Disabled(h)
    /\ fd' = [fd EXCEPT ![h] = TRUE]
    /\ failures' = [failures EXCEPT ![h] = 0]
    /\ wait' = [wait EXCEPT ![h] = 0]
    /\ UNCHANGED <<list, flags, limit, ring, target, changes>>

\* The command is sent and its response read, which clears the counter.
Exchange(h) ==
    /\ target = h /\ fd[h]
    /\ failures' = [failures EXCEPT ![h] = 0]
    /\ target' = NoHost
    /\ UNCHANGED <<list, fd, wait, flags, limit, ring, changes>>

\* It fails: memcached_quit_server with io_death, once to three times.
ExchangeFails(h) ==
    /\ target = h /\ fd[h]
    /\ fd' = [fd EXCEPT ![h] = FALSE]
    /\ \E n \in 1..3 : Strike(h, n)
    /\ target' = NoHost
    /\ UNCHANGED <<list, wait, flags, limit, ring, changes>>

-----------------------------------------------------------------------------
(* Calls that change the list and the behaviours, between calls on keys.   *)
Change ==
    /\ target = NoHost
    /\ changes < MaxChanges
    /\ changes' = changes + 1

\* server_add: the new server has no failures and no delay.
ServerAdd(h) ==
    /\ Change
    /\ h \notin ToSet(list)
    /\ RunDistribution(Append(list, h), use_sort_hosts, distribution)
    /\ UNCHANGED <<health, flags, limit, target>>

\* memcached_servers_reset: the servers are freed, the continuum stays.
ServersReset ==
    /\ Change /\ list # <<>>
    /\ list' = <<>>
    /\ fd' = [h \in Hosts |-> FALSE]
    /\ failures' = [h \in Hosts |-> 0]
    /\ wait' = [h \in Hosts |-> 0]
    /\ limit' = 0
    /\ UNCHANGED <<flags, ring, target>>

SetAutoEject(on) ==
    /\ Change
    /\ auto_eject' = on
    /\ UNCHANGED <<list, health, use_sort_hosts, weighted, distribution, limit,
                   ring, target>>

SetSortHosts(on) ==
    /\ Change
    /\ use_sort_hosts' = on
    /\ RunDistribution(list, on, distribution)
    /\ UNCHANGED <<health, auto_eject, weighted, distribution, limit, target>>

\* memcached_behavior_set_distribution
SetDistribution(dist) ==
    /\ Change
    /\ distribution' = dist
    /\ RunDistribution(list, use_sort_hosts, dist)
    /\ UNCHANGED <<health, auto_eject, use_sort_hosts, weighted, limit, target>>

\* memcached_quit: a server that was connected has its counter cleared.
Quit ==
    /\ target = NoHost
    /\ fd' = [h \in Hosts |-> FALSE]
    /\ failures' = [h \in Hosts |-> IF fd[h] THEN 0 ELSE failures[h]]
    /\ UNCHANGED <<list, wait, flags, limit, ring, target, changes>>

\* A second passes.
Tick ==
    /\ target = NoHost
    /\ wait' = [h \in Hosts |-> IF wait[h] = 0 THEN 0 ELSE wait[h] - 1]
    /\ rebuild' = IF rebuild < 0 THEN rebuild ELSE rebuild - 1
    /\ UNCHANGED <<list, fd, failures, flags, limit, continuum,
                   continuum_count, allocated, ended, target, changes>>

-----------------------------------------------------------------------------
Next ==
    \/ \E hash \in Hashes : Route(hash)
    \/ \E h \in Hosts :
          \/ ConnectDelayed(h)
          \/ ConnectDisabled(h)
          \/ ConnectFails(h)
          \/ Connect(h)
          \/ Exchange(h)
          \/ ExchangeFails(h)
          \/ ServerAdd(h)
    \/ ServersReset
    \/ \E on \in BOOLEAN : SetAutoEject(on)
    \/ \E on \in BOOLEAN : SetSortHosts(on)
    \/ \E dist \in Distributions : SetDistribution(dist)
    \/ Quit
    \/ Tick

Spec == Init /\ [][Next]_vars

-----------------------------------------------------------------------------
\* Type correctness of the handle's server list, health and continuum.
TypeOK ==
    /\ list \in Seq(Hosts)
    /\ fd \in [Hosts -> BOOLEAN]
    /\ failures \in [Hosts -> 0..Limit]
    /\ wait \in [Hosts -> 0..Retry]
    /\ {auto_eject, use_sort_hosts, weighted} \subseteq BOOLEAN
    /\ distribution \in Distributions
    /\ limit \in {0, Limit}
    /\ continuum \in Seq([value : Hashes, index : 0..(Cardinality(Hosts) - 1)])
    /\ {continuum_count, allocated} \subseteq Nat
    /\ rebuild \in {NONE} \cup -1..Retry
    /\ ended \in {"built", "none live", "no memory"}
    /\ target \in Hosts \cup {NoHost, Lost}
    /\ changes \in 0..MaxChanges

\* The continuum never has more points than its array, however weights,
\* ejections and additions share them out.
Fits == Len(continuum) <= allocated

\* The continuum belongs to the present list.
Routing == distribution = "ketama" /\ ended = "built" /\ list # <<>>
KeyHost(hash) == HostAt(Search(hash))
InRing == {HostAt(continuum[i].index) : i \in DOMAIN continuum}

\* A key goes to the host that owns the first point at or after its hash, the
\* circle closed: dispatch_host's search finds it, and its index still names
\* that host whatever was added, sorted and ejected.
RoutesToOwner ==
    Routing =>
        LET values == {continuum[i].value : i \in DOMAIN continuum}
            FirstFrom(hash) == LET after == {v \in values : v >= hash}
                               IN Min(IF after # {} THEN after ELSE values)
        IN \A hash \in Hashes :
              LET owner == KeyHost(hash)
              IN /\ owner \in Hosts
                 /\ \E p \in DOMAIN Value[owner] : Value[owner][p] = FirstFrom(hash)

\* An ejected host comes back: while a host of the list is out of the
\* continuum a rebuild is scheduled, and before that host's delay is over
\* there is no need for one.
EjectedIsScheduled ==
    Routing /\ auto_eject =>
        \A h \in ToSet(list) \ InRing : rebuild # NONE /\ rebuild <= wait[h]

\* Consistent hashing: a key moves only away from a host that was taken out
\* of the continuum or to a host that was put into it.
OnlyAffectedKeysMove ==
    [][Routing /\ Routing' /\ ~weighted =>
          \A hash \in Hashes :
             \/ KeyHost(hash)' = KeyHost(hash)
             \/ KeyHost(hash) \notin InRing'
             \/ KeyHost(hash)' \notin InRing]_<<list, continuum>>
=============================================================================
