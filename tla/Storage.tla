------------------------------ MODULE Storage ------------------------------
(***************************************************************************)
(* The item store of the example server (example/storage.c) and the        *)
(* callbacks of its logical interface (example/interface_v1.c), as         *)
(* operators from a store and arguments to a result.                       *)
(*                                                                         *)
(* A store is the circular list the code keeps, read from `root', and the  *)
(* last compare-and-swap number given out.  A value is a text (a sequence  *)
(* of words) or the eight raw bytes of a counter: the arithmetic callbacks *)
(* store a uint64_t and read the item's bytes as one.                      *)
(*                                                                         *)
(* A callback is a record: the store it leaves, its status, the cas it     *)
(* assigned (0 when it assigned none), and for a counter its value.  The   *)
(* argument mem says whether create_item finds memory.                     *)
(***************************************************************************)
EXTENDS Naturals, Sequences

\* A word-by-word text, and a counter.
Text(words) == [words |-> words, num |-> 0, raw |-> FALSE]
Counter(n) == [words |-> <<>>, num |-> n, raw |-> TRUE]

\* The largest value of the model's counters: uint64_t arithmetic is taken
\* modulo CounterMod.
CounterMod == 4

\* A key the program never uses marks "no item".
NoItem == [key |-> "", val |-> Text(<<>>), cas |-> 0]

EmptyStore == [list |-> <<>>, cas |-> 0]

create_item(key, val) == [key |-> key, val |-> val, cas |-> 0]

Places(s, key) == {i \in 1..Len(s.list) : s.list[i].key = key}

\* The first match walking from root.
get_item(s, key) ==
    IF Places(s, key) = {} THEN NoItem
    ELSE s.list[CHOOSE i \in Places(s, key) : \A j \in Places(s, key) : i <= j]

\* The new entry becomes root; update_cas numbers it.
put_item(s, item) ==
    [list |-> <<[item EXCEPT !.cas = s.cas + 1]>> \o s.list, cas |-> s.cas + 1]

\* The entry is unlinked and the walk restarts at its successor.
delete_item(s, key) ==
    IF Places(s, key) = {} THEN s
    ELSE LET i == CHOOSE i \in Places(s, key) : \A j \in Places(s, key) : i <= j
         IN [s EXCEPT !.list = SubSeq(@, i + 1, Len(@)) \o SubSeq(@, 1, i - 1)]

flush(s) == [s EXCEPT !.list = <<>>]

Exists(s, key) == get_item(s, key) # NoItem

\* What a callback returns.
Result(s, rval, cas, num) == [s |-> s, rval |-> rval, cas |-> cas, num |-> num]
Fails(s, rval) == Result(s, rval, 0, 0)
Stores(s, item, num) == Result(put_item(s, item), "SUCCESS", s.cas + 1, num)

-----------------------------------------------------------------------------
add_handler(s, key, val, mem) ==
    IF Exists(s, key) THEN Fails(s, "KEY_EEXISTS")
    ELSE IF ~mem THEN Fails(s, "ENOMEM")
    ELSE Stores(s, create_item(key, val), 0)

\* append and prepend: the joined item is built before the old one goes.
Concat(s, key, cas, mem, joined) ==
    IF ~Exists(s, key) THEN Fails(s, "KEY_ENOENT")
    ELSE IF cas # 0 /\ cas # get_item(s, key).cas THEN Fails(s, "KEY_EEXISTS")
    ELSE IF ~mem THEN Fails(s, "ENOMEM")
    ELSE Stores(delete_item(s, key), create_item(key, joined), 0)

append_handler(s, key, val, cas, mem) ==
    Concat(s, key, cas, mem, Text(get_item(s, key).val.words \o val.words))

prepend_handler(s, key, val, cas, mem) ==
    Concat(s, key, cas, mem, Text(val.words \o get_item(s, key).val.words))

\* The old item is deleted before create_item may fail.
replace_handler(s, key, val, cas, mem) ==
    IF ~Exists(s, key) THEN Fails(s, "KEY_ENOENT")
    ELSE IF cas # 0 /\ cas # get_item(s, key).cas THEN Fails(s, "KEY_EEXISTS")
    ELSE IF ~mem THEN Fails(delete_item(s, key), "ENOMEM")
    ELSE Stores(delete_item(s, key), create_item(key, val), 0)

\* Slip: the old item is not deleted.
set_handler_keeps(s, key, val, cas, mem) ==
    IF cas # 0 /\ Exists(s, key) /\ cas # get_item(s, key).cas
    THEN Fails(s, "KEY_EEXISTS")
    ELSE IF ~mem THEN Fails(s, "ENOMEM")
    ELSE Stores(s, create_item(key, val), 0)

\* A cas against a missing key stores.
set_handler(s, key, val, cas, mem) ==
    IF cas # 0 /\ Exists(s, key) /\ cas # get_item(s, key).cas
    THEN Fails(s, "KEY_EEXISTS")
    ELSE IF ~mem THEN Fails(delete_item(s, key), "ENOMEM")
    ELSE Stores(delete_item(s, key), create_item(key, val), 0)

delete_handler(s, key, cas) ==
    IF ~Exists(s, key) THEN Fails(s, "KEY_ENOENT")
    ELSE IF cas # 0 /\ cas # get_item(s, key).cas THEN Fails(s, "KEY_EEXISTS")
    ELSE Fails(delete_item(s, key), "SUCCESS")

flush_handler(s) == Fails(flush(s), "SUCCESS")

\* The uint64_t read through item->data: of a text it is whatever the heap
\* holds there (eight bytes are read from a block of the text's length).
Reads(s, key) ==
    IF get_item(s, key).val.raw THEN {get_item(s, key).val.num}
    ELSE 0..(CounterMod - 1)

Arithmetic(s, key, mem, num) ==
    IF ~mem THEN Fails(delete_item(s, key), "ENOMEM")
    ELSE Stores(delete_item(s, key), create_item(key, Counter(num)), num)

\* old is a member of Reads(s, key).
increment_handler(s, key, delta, initial, mem, old) ==
    Arithmetic(s, key, mem,
               IF Exists(s, key) THEN (old + delta) % CounterMod ELSE initial)

decrement_handler(s, key, delta, initial, mem, old) ==
    Arithmetic(s, key, mem,
               IF ~Exists(s, key) THEN initial
               ELSE IF delta > old THEN 0 ELSE old - delta)
=============================================================================
