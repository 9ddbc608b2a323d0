# TLA+ models of libmemcached

The repository is the Perl distribution `Memcached::libmemcached`. Its core is
the C client library libmemcached 0.4x, kept under `src/libmemcached/` with a protocol
server library, an example server, a conformance tester (memcapable) and a load
generator (memslap); the Perl side is a thin binding. This directory models the parts
whose correctness depends on order, failure and sharing. Paths below are relative to
`src/src/libmemcached/libmemcached/` unless they start with `example/` or `clients/`,
which lie beside that directory.

## 1. Inventory

| Component | State | Operations | What is hard | What makes it correct |
|---|---|---|---|---|
| Connection pool (`util/pool.c`) | array of free handles, `firstfree`, `current_size`, master, version, mutex, condition variable | create, destroy, pop, push, behavior_get/set | threads, lost wakeups, failing clones, settings changed while handles are out | one holder per handle, nobody sleeps beside a free handle, handles carry the current settings |
| Connection I/O (`io.c`, `do.c`, `response.c`, `purge.c`, `quit.c`, `flush_buffers.c`, `connect.c`) | socket, write and read buffer, `cursor_active`, purging flag, failure counter | write, flush, read, purge, response, close, connect | pipelining without request ids, partial writes, re-entry of flush and purge, reconnection | every call gets its own answer, requests run at most once and in order, no mutual blocking |
| Distribution and server health (`hosts.c`, `hash.c`, part of `connect.c` and `behavior.c`) | server list, continuum, weights, failure counters, `next_retry`, `next_distribution_rebuild` | server_add/push/reset, run_distribution, dispatch, eject, behaviours | indices into a list that is sorted and extended, stale continuum, time | a key goes to the owner of the next point, ejected servers return, few keys move |
| Storage (`storage.c`) | none of its own | set, add, replace, append, prepend, cas; text and binary | buffered against waiting, replicas | as for the connection |
| Retrieval (`get.c`, `fetch.c`, `result.c`, `dump.c`) | cursor over servers, result | get, mget, fetch, fetch_execute, dump | several servers answer in any order, a new call before the old result is consumed | every value found is returned once, nothing left for the next call |
| Other commands (`delete.c`, `auto.c`, `flush.c`, `stats.c`, `version.c`, `verbosity.c`) | none | one request and answer, some over all servers | one server of several failing | error reporting |
| Replication, binary protocol | none | quiet commands to replicas, reads from replicas | responses that never come for quiet commands | `cursor_active` counts what really comes |
| Handle, behaviours, callbacks (`memcached.c`, `behavior.c`, `callback.c`, `server.c`, `parse.c`, `key.c`, `string.c`, `allocators.c`) | flags and limits | create, clone, free, behaviours | a clone that fails half way | a clone equals its source or is unusable |
| Protocol server library (`protocol/`) | per client: chunks of output, saved input, the protocol's handler | client_work, spool, drain, dispatch | requests cut by the network, sockets that block, two callback interfaces | bytes leave in the order they were spooled, no request is lost or run twice |
| Example server (`example/`) | list of items, cas counter, sockets | accept, event loop, the callbacks of either interface | an item replaced while its key is in the list | one entry per key |
| memcapable (`clients/memcapable.c`) | the test under way, its connection | 27 ASCII and 27 binary tests | quiet commands, which must not be answered | its requests are legal, a conforming server passes |
| memslap (`clients/memslap.c`, `ms_*.c`) | per connection: sockets, window of items, task, parser state; counters and flags shared by the threads | warm-up, task selection, send, parse, verify, reconnect, timeout, the main thread's waits | lost connections, evictions, late answers, threads that wait for each other | an answer is credited to its own command, verification accuses no innocent server, the program ends |
| libhashkit | hash settings | hash functions | 32-bit arithmetic | agreement with published values |
| SASL (`sasl.c`) | none of its own | the dialogue inside connect | one connection of several refused | no command before it has succeeded |
| Ping and version helpers, other client programs, Perl binding | none that matters here | | | |

Interactions: an application thread pops a handle from the **pool** and calls a
command on it. The command asks **distribution** for the server of the key, which
may rebuild the continuum first, then **connects** (which looks at the server's
health and may run the distribution again) and hands its bytes to the **I/O**
layer. Reads and writes feed back into the server's health: every
`memcached_quit_server` with `io_death` is a failure, every read of the socket
clears the count. Apart from the pool and memslap everything is single-threaded per
handle; concurrency below the pool is between the client and the server and network.
The **example server** is the **protocol server library** with callbacks on its store;
**memcapable** talks to it over a socket. **memslap** has its own event loop and
protocol code and does not use the library's.

The hazards of this code, with lines and the properties that watch them, are in
`PROJECT.json`.

## 2. Modules

### Pool, ResourcePool, MCPool, PoolProofs

`Pool` has the fields of `memcached_pool_st` under their own names and, per thread,
where it is in a call (`pc`) and its arguments. The mutex is explicit. Each call is
one step that takes the mutex (`PopEnter`, `PushEnter`, `SetEnter`) and steps inside
it; `pop`'s loop is `PopTake`, `PopGrow`, `PopNull`, `PopWait`, and a thread in
`pthread_cond_wait` is `waiting`, then `woken` (broadcast or spurious wakeup), then
competes for the mutex in `PopResume`. Everything between taking and giving up the
mutex that no other thread can see is one step.

A handle is the number of the `grow_pool` call that made it, plus what the pool looks
at: `user_data` (the version), the settings it carries (`conf`, the set of
`behavior_set` calls that reached it) and its health. `memcached_clone` frees a
half-built clone when it fails; depending on where it failed the caller's block is
`empty` or still points to a freed server list (`dangling`). The pool puts such a
block back (`pool.c:186`), so it matters.

`ResourcePool` is the abstract specification: a handle is with at most one thread,
and is given out with the settings of that moment. `Pool!KeepsPromise` maps the
detailed state to it: `given` is what is in the holder's hands, and `{-1}` stands for
an unusable handle, which only a failed clone can produce.

### Connection, MCConnection, ConnectionProofs, ConnectionOrder, ConnectionDelivery

One TCP connection with `no_block` and the text protocol. A request is two chunks,
command line and data, a response one line; buffers and kernel queues are sequences
of them. `cursor_active` is an unsigned counter that wraps at `CursorMod`.
Calls nest (`io_flush` calls `memcached_purge`, which calls `io_flush`; the write
loop calls `io_wait`, which calls `memcached_purge`), so the client's control is a
stack of frames, each step one turn of a loop of the code. The application may call
a buffered set, a set that waits, `memcached_flush_buffers` and `memcached_quit`
at any time between calls. The server and the network are external: the server
executes a command followed by its data, answers anything else with `ERROR`,
may refuse (`SERVER_ERROR`) and may close at any time; a write to a closed peer
may succeed and be lost.

A connection the client gives up (a failure, a timeout, quit) is not the end of it for
the server: `Leave` puts what is on the way to it into `earlier`, and the server goes on
executing it (`ServeOld`), or loses the rest (`LoseOld`), while the client is already on
the next connection. Nothing orders two connections, and no property says that anything
does: each executes its requests in order, and no request is executed on two.

The read buffer is an array and two places in it, as in the code: `read_data` is the array
up to `read_data_length`, `read_ptr` the place up to which it has been consumed.
`memcached_quit_server` resets `read_ptr` and `read_buffer_length` and leaves
`read_data_length` (`quit.c:67-72`), so `read_data` survives a reconnection until the first
`read()`; `repack_input_buffer` (`SendRepack`, `io.c:120-148`) appends behind it and
makes as many lines unread as it has read, which then are old ones. The
ghost `astray` records the two ways in which input or output leaves its place: `"stale"` for
this one, and `"reentered"` for the purge inside the write loop. All lines have one length:
with lines of different lengths the old input is also cut at other places than
lines, so nothing is claimed of answers after `"stale"`, and run ConnStale shows that it
happens.

### Distribution, MCDistribution, DistributionProofs

The server list, the continuum and each host's health, as one handle sees them.
Hosts are numbers in the order `sort_hosts` produces; a key is its hash; the table
`Value` stands for MD5 and has no collisions. The continuum holds a list index per
point, as the code does: that is what can become stale. Times are relative
(`wait` = `next_retry` - now, `rebuild` = `next_distribution_rebuild` - now) and cut
off where the code can no longer tell them apart, so that time itself is not bounded.
`Route` is `memcached_generate_hash_with_redistribution`; the `Connect...` and
`Exchange...` actions are the outcomes of `memcached_connect` and of the I/O that
follows; `ServerAdd`, `ServersReset` and the `Set...` actions are the configuration
calls, each with the `run_distribution` it makes. `Lost` is a read of the continuum
where there is nothing.

`Share` is `pointer_per_server`, in exact arithmetic where the code uses `float` (the
shares are rounded down to whole digests in both). `dispatch_host`'s binary search is a
recursive function of the window that is left.

The three `consistent` distributions differ only in the strings they hash and are one
value, `"ketama"`. `memcached_server_push` is `server_add` of several hosts with one
`run_distribution` at the end, and is represented by `ServerAdd`.

### Commands, MCCommands, CommandsProofs

The commands of a handle over several servers, one level above Connection. A command is
the list of steps its function makes: `Plan` gives for each call the sequence of
`memcached_do`, `memcached_response`, fetches and loops of the code in the text or the
binary protocol, and each `Step...` action is one of them. Requests and answers are
whole here. An instance (`memcached_server_st`) has its write buffer, what it has yet
to read, `cursor_active` (`cursor`, wrapping at `CursorMod`), and whether it is
connected; `broken` says that the peer is gone and the client has not noticed. An answer
carries the request it was given to, which the code cannot see: that is what `OwnAnswer`
compares. `text_incr_decr` ignores what `memcached_response` says and parses the
buffer (`auto.c:52-78`): `ReadCounter` returns what the last line read says, be
it the answer to an older request, and SUCCESS after a lost connection
(`flaws.misread`). An increment changes the value at the master only, and a binary dump
is the failure that `dump.c:89` returns. `mode` is the configuration, chosen once: protocol, `no_block`, buffering,
NOREPLY (which the application switches on and off in between, `SetNoReply`), replicas,
randomized reads, SASL, and the faults of that configuration. A server may crash and
come back empty, drop the connection, run out of memory, or answer so late that the
poll of `memcached_io_get_readable_server` gives up. `abs` is what a single map would
hold, against which `ReadsCorrect` compares what get, mget and fetch return.

### Storage, ProtocolServer, Memcapable, MCMemcapable, MemcapableProofs

`Storage` is the store of the example server and the callbacks of its logical
interface (v1), as operators. `ProtocolServer` is the library and the server's event
loop: `Accept`, one call of `memcached_protocol_client_work` per readable socket
as a sequence of steps (receive, the ASCII or binary handler, one command each, then
draining), the handlers of both protocols under their names in the code, both callback
interfaces, the output chunks and the input saved between calls. A request is two units, so
that the network can cut it; an answer is a unit per line, or a header and a body.

`server` is chosen once: the interface and whether accepted sockets are non-blocking.
`memcached_light.c` sets O_NONBLOCK on the listening socket only (206-208, not at 127);
`accept` hands the flag on with BSD and Solaris and does not with Linux. On a blocking socket
`recv` waits in the middle of `client_work` for the next segment (`Sits`: spooled output
stays, other connections are not served), and `send` takes everything and waits for room,
the whole server with it (`Stuck`), until the peer reads or is gone (`SendFails`).
A storage command cut behind others is saved with them: their separators are NULs by
then (`ascii_tokenize_command`; `recover_tokenize_command` restores the
current line only), so `Tokenized` saves them as lines that are no command.

The ghosts `tail` and `owed` are the stream as it should be: what was received and not executed,
what was said and not sent. `flaws` records what the program did that makes the rest
undefined or wrong: the use of the uninitialised `endptr`, a text read as a counter,
memory that ran out, `shifted`, the clients for which `client_work` saved the
beginning of the buffer instead of its end, and `reread`, those of them whose
executed lines came back (see Known disagreements). A client's `mixed` says that
`spool_output` has put data elsewhere than behind what waits (`Misplaces`).

`Memcapable` composes this server with its tester: the 54 test cases as scripts of sends
and expected answers, built by operators with the names of the C functions
(`storage_command`, `test_binary_set_impl`, ...), on one connection, with a reconnect
after a test that failed or closed it. Probers are other clients that send without
reading and may hang up at any time.

### Slap, MCSlap, SlapProofs

memslap as one state machine per connection (`ms_drive_machine`) and the main thread.
An item of a window has the key, the offset of its key suffix and the offset of its
value, and a value is that offset: two values are equal if they start at the same place of
the random block; keys start where `KeyOffset` says, as the random `key_offset` of the
code, so that a value stored for another item is a difference. `Update` and `Schedule` are the two halves of `ms_run_getset_task`,
`ms_transmit`, `ms_try_read_network` and `Parse` the states write and read, `Timer` the
check for lost datagrams, `ms_reconn` and `ms_reconn_socks` the reconnections.
`locks` are the three counters with condition variables through which the threads
report to `ms_monitor_slap_mode`. `mode` is the command line. With `mode.text` a binary error carries a text, as
memcached's does; memcached_light's has none. The ghost `unseen` counts, per connection, the
objects asked for and not received.

## 3. Runs

| Run | Result | What it shows |
|---|---|---|
| PoolSafety | holds | Three threads, two handles, failing clones and settings, spurious wakeups: `NoSharing`, `Capacity` (push writes `mmc[++firstfree]` unchecked), `NoLostWakeup`, `FreeIsCurrent`, and the refinement of ResourcePool |
| PoolLive | holds | `BlockedPopReturns`: every blocked pop returns, provided threads do not block while they hold a handle |
| ConnSafety | holds | Partial writes, a kernel buffer smaller than the write buffer, so that the write loop blocks, repacks its input and purges, timeouts, refusals, failing connects, a hangup, and the connections given up that the server goes on executing: `OwnAnswer`, `ExecutedInOrder` (per connection, and no request on two), and purge does not run inside itself (`RecursionStops`) |
| ConnLive | holds | Without failures every call ends (the deadlock that the watermark is to avoid does not occur), and quit returns only after everything buffered was executed |
| ConnReentry | violated | `io_wait` purges inside the write loop, and the purge flushes the same buffer: bytes are sent twice |
| ConnStale | violated | `OnlyNewInput` without any fault: after a quit, `repack_input_buffer` makes answers of the connection before unread again |
| DistSafety | holds | `Fits`, `RoutesToOwner`, `EjectedIsScheduled`, `OnlyAffectedKeysMove` for weighted and unweighted hosts that fail, are ejected, return, are added, sorted and reset, with an allocation that may fail |
| CmdSafety | holds | Fourteen configurations of a handle on two servers: no answer goes to another call (`OwnAnswer`), as long as no server fails an increment returns its own answer although it ignores the outcome (`IncrementsOwn`), `cursor_active` agrees with what is under way between calls (`InStep`), the client never waits for an answer nobody owes (`NeverIdle`), and without faults the handle is one map (`ReadsCorrect`) that reports no error (`NoSpuriousError`) |
| CmdBuffered | violated | `NeverIdle` with BUFFER_REQUESTS on a blocking connection: a get waits for the answer to a set still in the write buffer |
| ServerSafety | holds | memcapable passes all its tests (`Conforms`) with both interfaces, on blocking and non-blocking sockets, next to another client, over cut requests and sockets that fill up. What is exempt is named: `Flawed` (memory that runs out, a counter read past its end, the uninitialised `endptr`, re-read lines) and `Waits` (on blocking sockets, the interface v1, whose spooled answers wait for more input, and a tester that waits for the prober's connection; the default interface alone passes). The input kept between calls is the unread tail (`TailKept`, outside the two defects below), the output is what was said, in order, until `mixed` (`OutputIntact`), the store has one entry per key, and the tester's requests pass the pedantic check |
| ServerTail | violated | `SavedIsTail` for a segment that ends inside the first binary packet: the rest is copied from an uninitialised pointer. Without binary segments the same property fails through `shifted` |
| SlapSafety | holds | Fifteen command lines: `OwnAnswer`, `NoFalseAlarm` (verification), `MissesReal` (each object not received is one miss), `WarmedUp`, `InProportion`, `WindowsTrue`, and the liveness `Finishes` |

In ConnSafety the write loop can be entered twice, as ConnReentry shows, and input of an
older connection can be exposed, as ConnStale shows. `ExecutedInOrder` speaks of the behaviours
up to the first re-entry, with whatever input was exposed, and `OwnAnswer` of those up to
the first of the two; repacking on a connection after a failed one is among them,
whenever a `read()` has come before it.

`MCModes` of MCCommands leaves out the combinations that *Known disagreements* below says
the code does not get right: blocking buffering, buffered binary sets before anything but
a get, NOREPLY with version, stats or dump, with replicas or with a quiet delete or
increment, a delete with replicas, randomized reads of keys that were added or replaced, and
faults during a binary flush or before a write that follows a binary mget.
Those of MCSlap leave out
* datagrams cut in two, late datagrams, and answers cut by a reconnection, after which
  `readval` stays set;
* a connection lost during the warm-up, and reconnection in execute-number mode;
* a binary multi-get that misses at a server whose errors have no text: the first miss
  resets the connection (`ms_conn.c:1358`), and the rest of its answers is taken for the next
  command's. With texts (as memcached answers) it is in, and so is without misses;
* reconnection of several connections with one socket each: `cur_idx` stays at its invalid value
  (`ms_conn.c:345`), so `ms_reconn` writes `tcpsfd[total_sfds]` (917, 955) and leaves
  the closed descriptor in `tcpsfd[0]`, which `ms_conn_close` closes again (673), by then
  perhaps another connection's. With one connection, which is in, it is the number of
  its own new socket; the write past the array has no counterpart in the model;
* several UDP connections: the timer of a thread also resets those that have closed
  (`ms_thread.c:68`). The assumption `SharedAssumption` of Slap states these last two.

Passing runs say what each property is worth by a slip of the code that breaks it
(`mutants` in `PROJECT.json`): the operators marked *Slip* in the modules.

### Bounds

* Pool: three threads and two handles are the least with which a thread waits, another
  is woken and a third takes the handle in between; two pops per thread let a thread
  hold both or come back; two settings let a handle be two versions behind. Threads are
  symmetric where no liveness is checked.
* Connection: four requests (five, six where liveness or a disagreement needs them) exceed the
  write buffer (three chunks, so a flush falls
  inside a request) and the kernel queue (two), and reach either watermark; the read buffer
  (two) makes responses cross a read. One hangup by the server, with the timeouts and quits of the client,
  is enough for a reconnection, after which
  the old and the new connection's data can meet. The failure counter is counted up to
  the limit, beyond which the code does not distinguish. `CursorMod` is larger than any
  count the requests can produce, so a wrap can only come from a decrement of 0.
* Distribution: three hosts are the least with which keys could move between two hosts
  that stay. Two points per host (four weighted, in digests of two) with weights 0, 1
  and 2 exercise rounding in both directions; `Addition` 1 makes the array grow again
  at the third host. `Retry` 1 and `Limit` 1 give each host every combination of
  counter and delay the code distinguishes. Four configuration calls: three additions
  and one more, or a reset in between.

* Commands: two servers are the least with a replica and with a second server to go
  on with; three keys, two of them on one server, give an mget two answers from one
  connection. Four calls are the least for a chain of cause (a buffered or replicated
  write), victim, and two calls to see whether the connection is in step again. One
  fault per behaviour, at any point.
* Server: a chunk of three units is filled by the longest answers; the socket takes five,
  less than the longest pipeline, so that it blocks between chunks and
  inside one, and a chunk sent in part is spooled to. All 54 tests run alone, three of the
  longest exchanges (ASCII mget and cas, binary incr) also beside a prober, which
  has five pipelines to send. Counters are taken modulo 4.
* Slap: windows of two items wrap and are refilled within the six commands of a
  connection; two faults let a second one meet the recovery of the first.

### Deadlock

Pool, Connection, Distribution and Slap are checked without TLC's deadlock test: the bounded number
of calls ends every behaviour, a pool can be destroyed and a process ends. What must not
stop there is stated as liveness. In Commands and Memcapable it is on:
there the end of the calls is an explicit step, and anything else that stops is an error.

### Fairness

* Pool: each thread's steps inside a call, its `PopResume` and its final pushes are
  weakly fair: the scheduler runs runnable threads, and a caller returns what it popped.
  No fairness of the mutex is assumed; the calls being finite in number, others cannot
  keep a woken thread from the mutex forever. Starting a pop or a set is not fair.
* Connection: the client's steps inside a call and the server's reading are weakly
  fair. The application need not call anything, and nothing has to fail.

* Slap: the main thread, every connection's event handlers (libevent runs what is ready)
  and the servers' answers are weakly fair. Faults are not; a lost answer is
  followed by the timer or by the end of file.

### Known disagreements

The models reproduce these; the first four have a run and a finding of their own,
the others were seen with configurations that the runs above leave out.

* `io.c:633`: the purge of `io_wait` re-enters the write loop (ConnReentry).
* `io.c:136`, `quit.c:67`: `read_data_length` outlives its connection (ConnStale), where
  `memcached_quit.pod` says that quit resets the connection's state.
* `get.c:190`, `response.c:53`: buffered requests are flushed before a read only with
  `no_block` (CmdBuffered); `memcached_behavior.pod` promises it always.
* `protocol/protocol_handler.c:316`: `endptr` is not initialised (ServerTail).
* `protocol/ascii_handler.c:787`: the text handler sets `*endptr` to the start of the
  buffer and does not move it past the commands it executes; when a storage command is
  cut behind another command in the same segment (`ascii_handler.c:914`),
  `client_work` copies the right number of bytes from that start. The next call parses
  executed lines in place of the rest; `ascii_tokenize_command` (263-270) has put NULs for
  their spaces and line ends, and `recover_tokenize_command` (661) only restored the current line, so
  that they are answered with CLIENT_ERROR. `flaws.shifted` and `flaws.reread` name the clients
  it happened to. memcapable's "ascii add noreply" (`memcapable.c:1271-1288`), which sends
  two add commands in a row, fails when the network cuts there, and is exempt then
  (`Flawed`).
* `example/memcached_light.c:127`: where `accept` does not hand O_NONBLOCK on (Linux), the server
  blocks in `recv` and `send` of one connection, against "Try to drain the output buffers
  without blocking" (`protocol/protocol_handler.c:61`): what the interface v1 has spooled
  (every text answer, and its values, statistics and versions in the binary protocol) leaves when
  a binary command follows, an incomplete request, or the end of the input (`Waits`).
* `util/pool.c:246`: a failed re-clone leaves `NULL` in the array, and the next
  `behavior_set` or `destroy` dereferences it (status `"null"` of Pool).
* `util/pool.c:111`: the manual says destroy returns NULL while connections are in
  use; the code frees the pool (status `"freed"`).
* `util/pool.c:186`: a clone that fails in push puts a half-built handle back with the pool's
  version, so that no later push heals it.
* `auto.c:56`: `text_incr_decr` ignores what `memcached_response` returns and parses the
  buffer, where `memcached_auto.pod:88` says that the value at the server is returned:
  after a lost connection or an older request's error, increment can be a SUCCESS
  with a number that is not the answer to it (`flaws.misread`; `IncrementsOwn` holds without failures).
* `auto.c:127`: increments are not replicated; with `RANDOMIZE_REPLICA_READ`, which
  `memcached_behavior.pod:207` offers for reads, a get reads the old value from a replica.
* `dump.c:89`: dump of a binary handle is always MEMCACHED_FAILURE.
* `purge.c:27`: after a failing flush `purging` is set again instead of cleared; the
  handle never purges any more.
* `purge.c:62`: a timeout inside a purge closes the connection but counts as success;
  the next `network_connect` meets `cursor_active` 1, which it asserts to be 0.
* `connect.c:496`, `hosts.c:184`: a host at the failure limit is noticed only when its
  retry time is over, and the rebuild that is to eject it counts it as live.
* `response.c:531-538`: the errors of quiet storage commands are skipped, those of a quiet
  delete (`delete.c:195` sends DELETEQ to replicas) or increment are taken for the next
  call's answer. The modes with replicas leave delete out, those of binary NOREPLY both.
* `response.c:63`: answers to earlier requests are purged in the text protocol only; a
  buffered binary set followed by any call but a get hands its answer to that call.
* `fetch.c:71`: a binary fetch that meets a failed server returns NULL and leaves the
  other servers' answers for the next call.
* `storage.c:532`, `delete.c:213`: with NOREPLY the replica's write was not counted and
  the decrement wraps `cursor_active`; version, stats and dump read an answer
  that NOREPLY kept from being counted, with the same effect.
* `get.c:495`: add and replace are not replicated, but a randomized read may go to the
  replica; a key whose write fails in the last round is dropped and the call succeeds.
* `flush.c:87`: a binary flush that fails at one server leaves the answers of the others.
* `sasl.c:73`: the comment treats UNKNOWN COMMAND as authenticated; by then
  `memcached_read_one_response` has closed the connection.
* `protocol/protocol_handler.c:164`: `spool_output` starts at the head chunk and copies from
  the start of its data each time, and `raw_response_handler` (`binary_handler.c:79`)
  spools a packet that was sent in part from its first byte. Once a socket has
  blocked, answers overtake older ones and pieces of answers are sent twice; `mixed` is the exact
  condition, and up to it `OutputIntact` holds. WRITE_EVENT is never reported
  (`protocol_handler.c:361-363`): what is left waits until there is something to read.
* `clients/ms_conn.c:3185`: the text of a binary error is read as a value and `ms_bin_complete_nread`
  (1926) compares it, so a miss counts in `verify_failed`, which `memslap.pod:843` describes
  as objects with an inconsistent value. `NoFalseAlarm` and `MissesReal` leave `mode.text` out.
* `clients/ms_conn.c:1275`: a timeout in the middle of a value leaves `readval` set, and the
  next answer is taken for data.
* `clients/memslap.c:795`: a connection lost during the warm-up never reports, and the
  main thread waits for it for ever.
* `clients/ms_conn.c:2649`: with reconnection, a connection that has done its share in
  execute-number mode is opened again.
* `clients/ms_task.c:1039`: a mixed multi-get run counts collected gets that were never sent
  as misses (the term `Unsent` of `MissesReal`); with overwriting, the offset an item is
  verified against runs ahead of the value sent.

## 4. Proofs

Everything here holds for every value of the constants that satisfies the module's
assumptions, and under no other condition than the ones named. What the assumptions ask
of the caller: `Initial <= Size` (Pool); a table of digests long enough and without
collisions (`TableAssumption` and `ValueAssumption` of Distribution, which stand for MD5).

### Pool (`PoolProofs`)

* `Types`, `HandlesAreNotShared`, `PoolHasRoom`: `TypeOK`, `NoSharing` and `Capacity`
  are invariants, whatever fails. None is inductive alone. The invariant proved
  (`Bookkeeping`) is their conjunction with `PushesOwn` (the argument of a push under
  way is held by that thread), `Named` (handles in use are among the first
  `current_size`, so that `grow_pool` makes a new one) and `Apart` (`NoSharing` slot by
  slot and thread by thread, the form the provers can use). `Capacity` uses the
  cardinality lemmas for adding and removing one handle.
* `NoWakeupIsLost`: `NoLostWakeup`, inductive relative to `TypeOK`. The step that
  matters is push: it makes something free only from `firstfree = -1`, and then,
  since waiting threads imply a full pool, it wakes all.
* `FreeHandlesAreCurrent`: `FreeIsCurrent`, for settings that do not fail half way
  (`"partial" \notin Faults`). The invariant `Versions` adds that no handle
  is ahead of the pool's version, and that a usable handle that is out has the master's
  settings if its `user_data` equals that version: then push may put it back unchanged.
* `PoolKeepsPromise`: the refinement of `ResourcePool`, under the same condition. Each
  step is Take, Give, Configure or a stutter of the abstract pool. It needs, beyond the
  invariants above, `Sound` (without failing clones every handle is usable) and
  `FreshSetting` (a `behavior_set` is alone in the pool and its setting is new).

### Connection (`ConnectionProofs`, `ConnectionOrder`, `ConnectionDelivery`)

* `Types` and `PurgeOnce`: `TypeOK` (both buffers within their arrays) and
  `RecursionStops`. The invariant `IndInv` adds `Shape`, the stacks that can occur
  (a flush, under it one purge, under it one flush that does not purge), `NotFull`
  (room for a chunk between calls) and `FailedEmpty` (a failure has emptied the buffer).
* `Order`, and from it `InOrderAlways`, `OwnAnswerAlways`, `FlushWholeAlways`: until input or
  output has gone astray (`astray`, see above) each connection, also those given up, executes
  its requests in order and no request is executed on two, a call reads its own answer, and a
  flush sends exactly the buffer. These hold for all constants and faults, and take in every repacked
  buffer and every reconnection. Runs ConnStale and ConnReentry show that both things
  happen; `InOrderAlways` needs only that nothing old was exposed, since `ExecutedInOrder`
  itself ends where the write loop is entered twice. The invariant `OrderInv` says that
  everything between the answers the client can read and the chunks it has not yet
  written (`read_buffer`, `toClient`, what the server parses, `toServer`, the rest of
  the write loop or the buffer, the rest of the call) is one increasing chain of requests,
  all of them after what has been executed or discarded. `EarlierInv` says it
  of each connection given up: what it has executed and has yet to execute comes after what had been
  executed when it was left, before what has been executed elsewhere since, and is on no other
  connection. `InOrderAlways` follows from it without an order between connections.
* `NeverReentered`: the condition on the write loop discharged. After a purge at most one
  response is expected, so with a message
  watermark above 1 the write loop can purge only for the bytes watermark (`CalmInStep`); `Calm`
  says that this is not reached. `Roomy` says it of the constants: a message watermark of 2 (with
  which `io_flush` has always purged before it writes), or a bytes watermark above three
  chunks for every call, which is what the budget
  `io_bytes_sent + Len(Pending) + Len(op.todo) + Credit <= 3 * (nextId - 1)` bounds.
  In the code the watermarks are 500 responses and 65*1024 bytes (`memcached.c:65`):
  a handle that has more than that outstanding while its socket blocks is the case in
  which the theorems say nothing and ConnReentry shows the fault.
* `DeliveredUnlessPurged`, and with `Roomy` `QuitDeliversAlways`: when nothing fails, a
  `memcached_quit` that succeeds returns only after the server has executed every request.
  The invariant `DeliveryInv` is a conservation law. The chunks of the requests are numbered
  in the order they were made: the server has consumed the first of them (`Consumed`), and
  the rest is on its way in order and complete in `Stream` (`toServer`, what the client has
  to write, the rest of the call), the quit command last (`Conserved`). Each answer is
  counted once: `cursor_active` is the number of answers still to be read
  (`Balanced`), so a purge never waits for an answer that nobody sends, which is why no
  read fails. The server hangs up only when all has been executed (`Finished`), and the
  end of file is what quit reads up to. The hypotheses are those of the property's run
  ConnLive: `Faults = {}`, and no close by the server (`closes = 0` in the property),
  because a request that was refused, or written to a connection that was closed, is
  not executed; and that nothing went astray, which for `"reentered"` is `Roomy` of the constants.

### Distribution (`DistributionProofs`)

The invariant `DistInv`: a host is in the list once; the array holds
`continuum_count * PointsPerServer` points (`Allotted`), the continuum fits and is
sorted (`Rising`), and while it belongs to the list (`Routing`) it is the continuum of
some set of live hosts, each point naming its host's place in the list (`Described`),
with every other host scheduled to return (`Serves`). The steps that matter are those
that run the distribution, which are one lemma (`RunKeeps`).

* `HandleTyped`: `TypeOK`, which includes that every index is a place in a list.
* `FitsAlways`: `Fits`. `Shares` and `PointsFit` show that shares proportional to the
  weights, rounded down to whole digests, add up to at most the number of live hosts
  times the points of a server. The sum is a fold; that it adds up weights one by one is
  proved from the definition of the fold by taking a smallest counterexample
  (`RecursionDefines`, `WeightsSummed`).
* `RoutesAlways`: `RoutesToOwner`. `SortPointsSorts` shows what `qsort` leaves,
  `SearchFinds` that the halving of `dispatch_host` stops at the first point at or
  after the hash (`KeepsBounds` is the loop invariant), `KeyFindsOwner` that the index
  there names the host that owns the point.
* `ReturnsScheduled`: `EjectedIsScheduled`, when hosts are unweighted or no weight is so
  small that the share is rounded down to nothing (`NoneStarved`, true of the weights
  of DistSafety). The condition is needed: such a host has no point though it is
  live, and nothing is scheduled for it.
* `KeysStay`: the action property `OnlyAffectedKeysMove`. Without weights a host
  that stays has the same points before and after; if the owners before and after are
  both in both continua, each one's point comes before the other's, and they are one.

### Commands (`CommandsProofs`)

For any number of servers, any keys, any number of calls and any of the faults, and for
every handle of the text protocol (`TextHandle`, a condition on the mode in use, so that
each theorem speaks of the text modes of run CmdSafety next to others):

* `TypeCorrect`: `TypeOK`; in particular `cursor_active` never wraps.
* `CountsExact`: `InStep`. Between calls `cursor_active` is the number of answers to come.
* `OwnAnswers`: `OwnAnswer`. What a call takes for its answer, the one `memcached_response`
  reads last, was given to its own request. A text increment that failed in it and returns
  what the buffer holds is no part of this: `IncrementsOwn` is model-checked.
* `NeverIdles`: `NeverIdle`. The client does not wait where nothing is owed.

None is inductive: between calls only the counts are known, and whether the next
answer is one's own depends on where in the plan the call is. `IInv` has three parts.
`Balance` of each connection: what the client still has in `rbuf` and `wbuf` is covered by
`cursor_active`; while the connection is sound the two are equal and no answer lacks
its end. `Past`: nothing on a connection belongs to a later call. And
`Phase`, by the kind of call under way, what the rest of its plan is and what the
connections hold for it:

* a command that is no get (`Commanding`, `CmdConns`): nothing is asked of a server twice,
  a server still to be written to owes this call nothing (`Fresh`), and the one that is
  read next owes it the last answers, with the older ones before them and counted
  (`Reading`), which is what the loop of `memcached_response` relies on;
* a get or mget (`Gets`, `GetConns`): the servers are purged first, then keys are
  written, then lines ended, then values fetched; a server that is purged holds
  nothing but this get's (`Mine`), and after its line has ended at most one answer
  is awaited (`Sent`). `Missed`: a get reports a miss only when all is read;
* an mget whose values have not been fetched (`Held`): the same until the last fetch.

`TextHandle` leaves out two uses in which the properties are false: buffered requests on a
blocking socket, which run CmdBuffered shows, and NOREPLY with version, stats or dump (see
Known disagreements). The binary protocol, replicas and SASL are checked by TLC and not
covered by these theorems: there the count of a binary get, the decrements for replicas
and the discarding of quiet errors make a different bookkeeping.
`IInv` was checked with TLC on the text modes of MCCommands before it was proved. The proof
found two conjuncts that TLC had not asked for: that a plan is made before there is a value
to generate, and that a call under way has a number.

### Example server under memcapable (`MemcapableProofs`)

* `OneEntry`: `OneEntryPerKey`, for any peers and requests. `Sound` adds that each number
  in the list was given out by `update_cas`, which is why "no item" (number 0) can
  be told from an item, and a key is deleted before or found absent when it is added.
* `SavedTail`: `TailKept`. `TailInv` relates, for every client, the ghost `tail` to the
  rest of the buffer (the client being served) or to what was saved (all others),
  except where `flaws` says that the code saved from a wrong address. The second of those
  places was found when the induction failed. Both hold for blocking and non-blocking sockets.

### memslap (`SlapProofs`)

For any windows, any number of commands, one or two connections, any command line and any
faults that leave the answers in order (`Orderly`, a condition on the mode in use):

* `AnswersOwn`: `OwnAnswer`. What `ms_drive_machine` parses answers the command its
  connection waits for, and no assertion of `ms_conn.c` fails.
* `AccusesNone`: `NoFalseAlarm`. Without overwriting, and with servers whose binary errors have
  no text, verification reports no server that keeps what it was given.
* `WindowsKept`: `WindowsTrue`. Without overwriting an item with a value is on the servers
  with that value or not at all.
* `ProportionKept`: `InProportion`. Without faults gets and sets follow their proportion
  within one command of each kind.

The invariant (`Induction`) says of every connection and its sockets (`Linked`): where the
connection is between two events (`Phases`); that only the socket read from carries
anything (`Wired`), and that what it carries is the request or the rest of its
answer, header by header (`Answers`: `Chained`, `Answering`, `Valued`); what the
outstanding command asks for (`Asks`); that an item whose set was not answered is on no
server, or its answer is the one being read (`Tracked`, for verified multi-gets); that
without overwriting every value met is its key's suffix (`Plain`); and, for the
proportion, that a get always finds an item with a value because those before the cursor
have one (`Filled`). Between connections it needs that no key is used twice and no key to
come is on a server (`KeysApart`, `Unused`), since one connection's store would
otherwise change what another's window says; and that no task begins before
every connection is warm (`Warmed`).

`Orderly` holds in eleven of the fifteen command lines of MCSlap. It leaves out errors with
a text, which verification does accuse, late datagrams,
an answer cut where the connection goes on (UDP or reconnection), for which the
code leaves `readval` set (see Known disagreements), and requests lost on TCP, which do not
occur. It also leaves out binary multi-gets, and verified multi-gets when connections
are lost. There the properties are only model-checked.

### Only model-checked

* Liveness (`BlockedPopReturns`, `CallsEnd`, `Finishes`):
  fairness and ENABLED are out of the prover's reach.
* `TypeOK`, `Conforms` and `RequestsLegal` of Memcapable: they evaluate the table of the 54
  scripts and the answers built by folds over them, data that only TLC can enumerate.
  `OutputIntact`: the chunks are built by recursion over their number.
* Commands: `ReadsCorrect`, `IncrementsOwn` and `NoSpuriousError`, which compare a whole call with a map and
  need the contents of every server and request as well; and everything in the binary
  protocol, with replicas or SASL.
* Slap: `TypeOK`, whose bounds on suffixes and offsets restate how often a key can be
  replaced; `MissesReal`, which would need the objects of every answer counted; `WarmedUp`;
  and the command lines outside `Orderly`.

## 5. What is not modelled

* Connection: UDP, TCP_CORK, callbacks and `process_input_buffer`, lines that arrive in
  parts. pthread calls that fail (Pool).
* Distribution: a change of KETAMA_WEIGHTED when servers exist, duplicate hosts, rounding
  in `float` (exact arithmetic is used; single precision can move a host's share by one digest), a failing `gettimeofday`.
* Commands: the callbacks of `mget_execute` and `fetch_execute`, verbosity and analyze,
  prefix keys, master keys, values and keys longer than a buffer. append, prepend and cas
  are represented by replace, decrement by increment: the client code differs in the
  verb.
* Server: the free list inside `cache.c`, the InnoDB store, `fd_set` limits, a real
  expiry of items. The bytes of a message and their order are not modelled.
* Slap: expiry verification, `--tps`, the facebook test, the reassembly of UDP packets,
  statistics and the parsing of the configuration.
* libhashkit (pure arithmetic on bytes), string and result helpers, ping and version, the
  other command line tools, the Perl binding: no behaviour over time of their own.

## 6. Plan

1. Proofs: `OutputIntact` (a lemma on cutting a sequence into chunks first), the binary
   protocol of Commands, `WarmedUp` of Slap.
2. Distribution: KETAMA_WEIGHTED switched on with servers present, the host that is never
   tried again after the failure limit, calls that meet an empty continuum.
3. Slap: the reassembly of UDP packets; Commands: `fetch_execute`.
