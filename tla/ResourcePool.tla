---------------------------- MODULE ResourcePool ----------------------------
(***************************************************************************)
(* What the connection pool of util/pool.c promises its callers, with the   *)
(* array, the mutex, the waiting and the re-cloning left out: a handle is   *)
(* in the hands of at most one thread, and whoever receives one receives it *)
(* with the settings the pool has at that moment.                           *)
(***************************************************************************)
CONSTANTS
    Threads,        \* callers
    Handles,        \* the handles there can be
    Settings,       \* the settings that can be made
    Unusable,       \* what a handle is given out as after a failed clone
    MayBreak        \* can a clone fail?

VARIABLES
    inUse,          \* the handles each thread has
    settings,       \* the settings of the pool
    given           \* the settings each handle in use was given out with

absvars == <<inUse, settings, given>>

Taken == UNION {inUse[t] : t \in Threads}

AInit ==
    /\ inUse = [t \in Threads |-> {}]
    /\ settings = {}
    /\ given = [h \in Handles |-> {}]

Take(t, h) ==
    /\ h \notin Taken
    /\ inUse' = [inUse EXCEPT ![t] = @ \cup {h}]
    /\ \/ given' = [given EXCEPT ![h] = settings]
       \/ MayBreak /\ given' = [given EXCEPT ![h] = Unusable]
    /\ UNCHANGED settings

Give(t, h) ==
    /\ h \in inUse[t]
    /\ inUse' = [inUse EXCEPT ![t] = @ \ {h}]
    /\ given' = [given EXCEPT ![h] = {}]
    /\ UNCHANGED settings

\* Settings are only ever added to, here: each call has its own flag.
Configure(s) ==
    /\ s \notin settings
    /\ settings' = settings \cup {s}
    /\ UNCHANGED <<inUse, given>>

ANext ==
    \/ \E t \in Threads, h \in Handles : Take(t, h) \/ Give(t, h)
    \/ \E s \in Settings : Configure(s)

ASpec == AInit /\ [][ANext]_absvars
=============================================================================
