# OrcaDB in TLA+

OrcaDB is a key-value server in C: an HTTP front end on epoll, a Robin Hood hash
map, an append log that is replayed at start, a manager process that servers
register with, and a sharded engine that is not wired to the server yet.  This
directory holds TLA+ modules of its parts, the TLC configurations that check them
on small instances, and TLAPS proofs for every instance.

## The system

| Part | Source (under `src/src`) | State | Operations |
|---|---|---|---|
| hash map | `core/hashmap` | `buckets`, `count`; per node `hash`, `key`, `value`, `dib`, tombstone flag | `hm_create`, `hm_insert`, `hm_get`, `hm_delete`, `hm_free` |
| ring buffer | `core/shard/ringbuffer` | `hp`, `rp`, `proc[cap]` | `rBuff_init`, `rBuff_write`, `rBuff_read` |
| shards | `core/shard/shard.c` | per shard a thread, a map, a ring, two arenas | `db_start`, `db_insert`, `db_get`, `shard_worker` |
| append log | `core/storage/aof.c` | the file, its stdio buffer, `last_sync` | `aof_open`, `aof_append_set`, `aof_append_del`, `aof_sync`, `aof_replay`, `aof_rewrite` |
| snapshot | `core/storage/storage.c` | `data.orca` | `db_save`, `db_load`, `db_save_proc` |
| server process | `misc/server.c`, `misc/handler`, `misc/http/route.c` | `db`, `global`, `pool_mutex`, `routes` | `server`, the three handlers, `add_route`, `route_req`, `snapshot_worker` |
| connections | `misc/http/worker.c`, `conn.c`, `parse.c`, `response.c`, `http.c` | the context pool, per connection `state`, `read_buf`, `write_buf`, the armed events | `worker_thread`, `alloc_conn`, `handle_readable`, `handle_writable` |
| manager | `misc/manager.c`, `handshake` in `server.c` | `servers`, `server_count`, descriptors | `manager`, `register_server`, `handle_client`, `handshake` |
| arena, hash, `orca.c`, `util.c` | | | an allocator, hash functions, stubs, one `stat` |

How they interact:

- `main` of a server calls `handshake` (connect to the manager, send `SERVER id`,
  wait for the answer) and then `server()`.
- `server()` starts three worker threads **first**, then opens the log, creates the
  map, replays the log into it, and adds the routes one by one.  Workers answer 404
  until a route is there.
- A worker owns a listening socket and an epoll instance.  It accepts connections
  into contexts of a pool shared under `pool_mutex`, reads until a request is
  whole, calls the handler in the same thread, builds the response, writes it as the
  socket takes it, and arms the connection again (`EPOLLONESHOT`).
- A handler takes the same `pool_mutex`, calls the map, appends to the log and
  gives the mutex back.  So calls on the map never overlap.
- The log is written through stdio, flushed to the kernel at every append and
  synced to the disk by an append that comes a second after the last sync.
- In the sharded engine any thread may push a request pointer on the ring of a
  shard; the shard's thread polls it.

What is hard about it: the invariants of the probing loops under swaps,
wrap-around and tombstones; threads that serve before the data is there; the order
of map and log under a shared mutex; crashes between the map, the log, the disk and
the answer; one-shot events with partial reads and writes; a lock-free ring whose
full test mixes masked and unmasked indices; a single-threaded manager that blocks.

What makes each part correct: the map is a dictionary; the ring is a bounded queue; what
is acknowledged or seen is in the log, whose last record on a key is what the map holds,
save what a failed append left out; every request is answered; no two connections share
a context; no registered server is forgotten and no descriptor leaks.

## Modules

| Module | Models | Abstraction |
|---|---|---|
| `KVMap` | abstract: the dictionary `hashmap.h` promises; an insert takes effect between its call and its return | |
| `HashMap` | one turn of a `for(;;)` loop per step; `refines KVMap` | a hash is a constant per key; `DibMod` and `SizeMod` stand for 2^16 and 2^64 |
| `Fifo` | abstract: a bounded queue | |
| `RBuff` | one access to shared memory per step, any number of writers; `refines Fifo` | x86-64: a relaxed load is a plain one; indices do not reach 2^64 |
| `OrcaServer` | main thread, workers, map, log, disk, clock, crashes, failed appends | see below |
| `Conn` | workers, the context pool, connections, kernel buffers, clients | data is counted in pieces: a request is `ReqSize`, a response `RespSize` |
| `Manager` | manager, servers in their handshake, clients; any may leave or die | a message arrives whole |
| `CommandLog` | abstract: a log of commands that outlives the process, and the machine as far as it was synced | one command at a time is on its way |
| `Storage` | the log character by character, its stdio buffer, `aof_replay` with its line buffer, `snapshot_worker`, kills and power cuts; `refines CommandLog` | of the map there are the calls made of it (`asked`), one writer, no failed writes; lengths have one digit |
| `Shard` | callers of `db_insert` and `db_get`, the shard threads, rings of pointers to stack frames, arenas | a ring call is one step; an arena counts entries; `IdxMod` stands for 2^64 |
| `ProofLemmas` | lemmas on `%` and on sequences for the proofs | |
| `HashMapProofs`, `RBuffProofs`, `OrcaServerProofs`, `ConnProofs`, `ManagerProofs`, `StorageProofs`, `StorageLogProofs` | theorems | |
| `MC*` | constants, hashes and symmetry sets for TLC | |

**HashMap.** `CallInsert`, `CallGet` and `CallDelete` are the code before a loop;
`InsertPlace`, `InsertUpdate` and `InsertAdvance` are the three ways through
`hashmap.c:66-91`, and `ProbeMiss`, `GetHit`, `DeleteHit`, `ProbeAdvance` those
through the loops of `hm_get` and `hm_delete`.  `hm_insert` writes to the table at
every swap, which is why a loop is not one step: the refinement has to hold while a
displaced node is in hand.  `dict` is a history variable, what the calls so far say
the map holds.  `AbsDict` is what a walk would find, with the node in hand.

**RBuff.** `WriteLoadHp`, `WriteLoadRp`, `WriteReturnFalse`/`WriteSlot`,
`WriteStoreHp` are the accesses of `rBuff_write` in program order, and likewise for
`rBuff_read`.  A request is in the abstract queue from the store of `hp` to the
store of `rp`.

**OrcaServer.** `phase` is where the main thread is in `server()`; a worker's `wpc`
where it is between `route_req` and `build_resp`.  The map is one chain of nodes
per key, that is, keys have homes far apart: two keys that collide are `HashMap`'s
subject.  Even so a chain may grow: an insert goes over a tombstone or to the end.
Nodes that `aof_replay` inserted are `freed`: the key string they point to is
released at `aof.c:196`, and what a comparison with it yields is up to malloc, so
every call picks the set of such nodes that happen to compare equal.  `file` is
what the kernel has (a kill keeps it), `durable` how much of it the disk has (a
power cut keeps at least that, and any longer prefix).  A record is one element here;
`Storage` has it in characters.  `MayFailOpen` lets `aof_open` fail: the server
then runs without a log.  `data.orca` is absent: nothing in the running server
writes it.

A write to an open log may fail as well (`AppendFails`): `fprintf` returns less than 0
(`aof.c:106`, `130`), or `fwrite`, `fflush` or `fsync` fail and nobody looks
(`aof.c:74`, `84`, `109`).  The handler ignores it either way, keeps the command in the
map and answers 200.  stdio drops what it could not write, so the file keeps nothing of
the record, its beginning (`Part`) or a damaged line (`BadLine`); an append that meets
a `Part` is glued to it and makes a `BadLine` of both (`Written`).  `unlogged` has the
commands whose last append left no record, and those of a server without a log;
`unsure` is that an fsync failed, after which what the disk has of the file is not
known.  The replay skips a damaged line, takes it for a SET or DEL of some key with
whatever value, `Garbled` (`ReplayDamage`), or dies over it (`ReplayCrash`): which of
these is `Storage`'s subject, and `OrcaServer`
allows each.

`add_route` is two steps, since the compiled code stores the counter before the entry;
`RouteCrash` is a request that meets the counted and empty entry.

**Conn.** A worker handles one connection from `Event` to `Rearm`; in between,
`ReadPart`, `ReadRequest`, `ReadDry`, `ReadFails` are the outcomes of one `read()` in
`handle_readable`, and `WritePart`, `WriteDry`, `WriteFails`, `WriteDone` those of one
`send()`.  `alloc_conn` has the load and the store of `conn_pool_next` apart.  Context
number `PoolSize` is one that came from `calloc` and has no buffers.

**Manager.** `Register`, `RegisterFull`, `Refuse`, `Forward`, `ForwardLost`,
`ForwardKills` are what becomes of one message.  `send()` to a full socket blocks
(`Forward` is disabled), to a closed one succeeds once, and raises SIGPIPE after
the reset has come back.

**Storage.** What `OrcaServer` takes as one command is here a string: `Record` is the
`fprintf` formats of `aof_append_set` and `aof_append_del`, `pending` what stdio still
holds of it, `WriteBlock` one `write()`.  The replay is two steps per line: `ReadLine`
is `fgets` into `line`, which keeps behind the new text what earlier lines left there
(and before the first line whatever the stack held, `Junk`), and the `Parse*` actions
are where the line leads: `Outcome` follows `sscanf`, `strchr` and the copies of
`aof.c:154-222`, and `ParseSegv` is the copy from the NULL of a `strchr` that found no
blank, or one that goes beyond `line[4096]` (`Overruns`), which is undefined and may as
well go on.  `Die` is what is left of a file and of the history `recs` (its first
`Begun` records) when the process (`Kill`) or the machine (`PowerCut`) ends: a kill
keeps what was written, a cut any prefix that covers `durable`.

The map is not a dictionary here.  `asked` is, per key, the last call that was made of
it, `hm_insert` with a value or `hm_delete`, by the replay or by a handler.  What a
lookup finds after these calls is another matter, since the replay frees the keys it
inserted (`aof.c:196`) and no lookup reads the tombstone flag: `HashMap`, `OrcaServer`
and `ServerRecovered` have that.  The properties of `Storage` say what a restart asks
the map for, and never what the map then answers.

`BeginDbSave` and `BeginRewrite` are the two calls of `snapshot_worker`:
`db_save`, and `aof_rewrite` when `db_save` could not open its file.  Neither ends:
both walk a bucket with `while(node)` and never advance (`storage.c:89`, `aof.c:255`),
so only their first part is there, and their `rename` is never reached.

`AbsLog` maps this to `CommandLog`.  Its log has the commands of `recs`, each with
whether its record is whole; a command is open while stdio holds a part of it, and safe
once the disk has its last character (`durable`); what the map was asked is `asked`,
once the server serves.  `BeginAppend` is then `Add`, the `WriteBlock` that empties the
buffer is `Answer`, `ReplayEnds` is `Recover`, and the two ends are `Kill`, which may
take or tear the open command alone, and `PowerCut`, which keeps what is safe and
everything in front of what it keeps.  All other steps stutter.  What a command needs to
be `Readable` is `Fits`: its record is shorter than the line buffer, no newline is in
its key, and none in its value but at the end.

**Shard.** A request lies in the frame of the function that made it, and what goes
through a ring is a pointer to that frame: `frame[<<t, f>>]`.  `db_insert` pushes
once, ignores the answer and returns (`InsertReturn`); `db_get` pushes until a push
fails (`GetPush`) and then polls `done`.  The worker's `RunPut`, `RunPutNoRoom`,
`RunGet` are its branches, `StatusNull` and `StatusDone` its write of the status,
`RunStale` the outcome of a frame that is gone; a gone frame that still reads well is
the other branch.

## Runs

| Run | Checks | Bounds |
|---|---|---|
| `HashMapStore` | `DibIsDistance`, `LiveKeyFound`, `CountMatches`, `RefinesKVMap` with insert and get | 4 keys in 4 buckets, one cluster over the end of the array, 2 values |
| `HashMapTombs` | `DibIsDistance`, `InsertedIsFound` with insert and delete | 3 colliding keys in 4 buckets: stale duplicates, reused tombstones, a full table of tombstones |
| `HashMapTombReuse` | expected violation of `LiveKeyFound` | 4 keys in 8 buckets |
| `RBuffFirstLap` | `FirstLapRoom`, `FalseMeansFull`, `EveryIndexRead`, `RefinesFifo` | 4 slots, one writer, 8 writes, 3 reads |
| `RBuffLapped` | expected violation of `UnreadKept` | 4 slots, 9 writes, 9 reads |
| `Server` | `NoHandlerDuringReplay`, `LogMatchesMap`, `SeenIsLogged`, `AckedIsLogged`, `UnsyncedIsRecent`, `RequestAnswered` | 2 workers, 1 key, 1 value, 3 requests, 1 crash and any number of deaths in the replay, 1 failed append, clock to 1, the log may fail to open |
| `ServerRecovered` | expected violation of `RecoveredIsReadable` | 1 worker, 2 requests, 1 crash |
| `ConnSafe` | `OwnContext`, `ArmedForState`, `ClosedByClient`, with pipelining clients | 2 workers, 2 connections, a pool of 2, 4 pieces each |
| `ConnAnswers` | `RequestAnswered`, clients that wait for each answer | 1 worker, 2 connections, a pool of 1, 2 requests each |
| `Manager` | `OnlyServersStayOpen`, `AckedIsRegistered`, `NotRefusedAfterAck`, `HandshakeReturns` | 2 servers, room for 1, 2 clients, a socket that holds 1 request |
| `Storage` | `DamageIsLocal`, `KillTearsOnlyLong`, `OnlyDamageStopsBoot`, `LogOnlyGrows`, `RefinesCommandLog` | 3 appends out of 4 commands, 1 kill, 2 power cuts, 16 characters for the line and the block |
| `ShardGets` | expected violation of `GetReturns` | 1 caller, 1 call, 1 shard, 4 slots |

Each module that passes has one type invariant, `TypeOK`, which its first run checks.

Why the bounds are enough.  A probing loop tells keys apart by their homes and their
order in a cluster; four buckets hold a cluster with two homes that wraps around and is
swapped twice.  `DibMod` 8 is past every distance.  With `SizeMod` 2 the count wraps in
`HashMapTombs`.  The ring of four slots is filled, refused and read to its last slot.
Two workers are what it takes to interleave, three requests a write, a read and another
write; one failed append, and one crash, after which the replay of what it left may die
again and again.  In `Server` one key is enough, as no property relates two: keys meet
only in the hash map, and commands only in their order in the log.  In `Storage` the
commands are chosen for the parser: two keys that begin alike (a torn record of the
longer one reads as the shorter), a value and a key that end in a newline (the path of a
request line without a version), a value that does not fit the line, so that its copy
goes beyond the buffer and the rest of it is a line of its own, and a delete.  Three
appends give a torn record, one glued to it and one behind both; two cuts tear two of
them, in one log or one after the other. Line and block of 16 characters are shorter
than one of the records and longer than the others, as 4096 is; what happens at their
edge depends on which of the two it is, not on their size. `MaxWrites`, `MaxReads`,
`MaxRequests`, `MaxCrashes`, `MaxFails`, `MaxTime`, `MaxSent`, `MaxAppends`, `MaxKills`,
`MaxCuts` and `MaxCalls` only bound histories, each in the guard of the one action that
counts. Runs that have such a bound stop when it is used up and say `CHECK_DEADLOCK
FALSE`; `HashMap`'s runs have none and check deadlock.

Fairness.  A loop that runs goes on (`WF(Step)` in `HashMap`); the shard thread polls
without pause (`WF(Read)`); every thread of the server that can run does (`WF` of
`Boot` and of each worker's `Serve`), which for `Lock` means that the mutex is free
while it is wanted: with at most three requests no worker starves under `WF`.  A dead
server is started again (`WF(Restart)`): the deployment's container policy, not the
code's.  In `Conn`, epoll reports every ready connection in turn (`SF` of `Accept` and
`Event`, as another connection may be handled in between) and a client reads what it
asked for.  In `Manager`, the manager's loop goes on and so does a server in its
`handshake`, whose next statement sends the message; a client need not send anything.
`HandshakeReturns` therefore names the two ways in which a handshake may wait for ever:
`recv` without a timeout for a client that has connected and stays silent (`Silent`,
`manager.c:126`), and `send` to a socket that nobody reads (`Stuck`, `manager.c:29`).
That these are all is what it says; without either of them it fails.  In `Shard` every
thread runs (`WF` of a caller's and of a worker's steps), which is the most the
scheduler gives: `GetReturns` fails even so. `Storage` has safety properties only, and
no fairness.  Nobody has to call, send, die or crash.

### What the violations show

- `HashMapTombReuse`: `hm_insert` writes over a tombstone without comparing
  distances (`hashmap.c:68`).  The node that now stands there can be closer to its
  home than the one that was deleted, and the early exit of `hm_get`
  (`hashmap.c:128`) stops there before a key that is stored further on.  `DibIsDistance`
  and `InsertedIsFound` still hold (`HashMapTombs`): each distance is right, their
  order is not, and only keys other than the one just inserted are lost.
- `RBuffLapped`: the full test (`ringbuffer.c:21`) compares a masked with an
  unmasked index.  It is exact until the reader has gone once round the array
  (proved) and never true after.
- `ServerRecovered`: `aof_replay` frees the key that the map keeps a pointer to
  (`aof.c:196`).
- `ShardGets`: `db_get` goes on pushing while `rBuff_write` returns true
  (`shard.c:170`), which is its success, so it leaves the loop when the ring looks
  full.  A worker that keeps up never lets it, and after the first lap nothing looks
  full.

Other disagreements, met in the models or in reading, with no run of their own:

- hash map: `hm_get` and `hm_delete` do not look at the tombstone flag, so a deleted key
  is read until its bucket is reused, and deleted twice counts down twice; a key whose
  hash is 0 is never found; a map with more keys than buckets loses keys or never
  returns (hence "no more keys than buckets" in `RefinesKVMap`);
- log: a record that a power cut ends behind the digits of a length, or a key so long
  that `fgets` splits its line there, crashes the replay, at this restart and at every
  later one (`ParseSegv`; `OnlyDamageStopsBoot` says that nothing else does); of a value
  longer than the line a restart copies what lies behind the buffer (`Overruns`), or dies
  of it; one with a newline inside is cut short,
  which `aof.c:106` says a value may have; a torn record and the one glued to
  it may make up a key that begins like theirs; behind a key that ends in a newline the
  parser reads what the line before left in the buffer.  `DamageIsLocal` says how far
  each of these reaches;
- a PUT is answered 200 also when the log did not open or its append failed, and its
  value may then be read and lost (`AckedIsLogged`, `SeenIsLogged` and `LogMatchesMap`
  name these commands, `unlogged`, and say that no other is missing); the last commands
  before a pause are not synced until the next command (`UnsyncedIsRecent` says what
  holds);
- snapshot: once called, `db_save` and `aof_rewrite` hold `pool_mutex` for ever;
  `db_save` writes 7 bytes of magic and `db_load` reads 6; `db_load` would create a
  map of `2 * count` buckets, not a power of two;
- shards: `db_insert` sets no `status`, so the worker's write through it ends the
  process at every insert it handles (`StatusNull`), unless the request on the
  caller's stack is gone before (`RunStale`) or the arena is full (`RunPutNoRoom`);
  two threads that push on one ring take the same slot;
- a connection beyond the pool has no buffers (`ClosedByClient` excepts it); a
  pipelined request may stay unanswered (`ConnAnswers` has clients that wait); the
  manager waits for ever for a silent peer;
- `orca_init` stores through `_internal`, which nothing allocates (`orca.c:31`).

`PROJECT.json` lists them as hazards where they are hard to test.

## Proofs

All theorems are checked by `tlapm` to the last leaf.  Their assumptions are the
named `ASSUME`s of the modules; further ones stand in the theorem.

- `HashMapProofs!TypeCorrect`: `Spec => []TypeOK`, every key set, hash function,
  capacity and width.  `TypeOK` is inductive because a call's key is a key while a
  call runs.
- `HashMapProofs!DistancesCorrect`: `Spec => [](Roomy => DibIsDistance)`.  Each step
  adds one to a distance and to an index, modulo different numbers (`OneFurther`).  In a
  table of at most 2^16 buckets that does no harm: the capacity divides `DibMod`, and
  then `Roomy` holds.  In the server's table of 2^20 buckets a `dib` must not wrap, and
  does not while no 2^16 occupied buckets follow each other (`NoLongCluster`, the other
  half of `Roomy`, with no key that hashes to 0), thus never while at most 65535 buckets
  are occupied, tombstones included.  That is because every bucket between the home of a
  node and the node is occupied (`WayFilled`), in hand or in the table, and no bucket
  that is occupied is ever empty again (`OccupiedStays`): a table that is `Roomy` was
  so at every step before (`RoomyBefore`).
- `HashMapProofs!MapInvariant`, `CountCorrect` (`CountMatches`), `LiveKeyIsFound`
  (`LiveKeyFound`) and `MapIsDictionary`, under `MapAssumption`: no call deletes, no
  hash is 0, and there are no more keys than buckets or than values of `dib`.  Each part
  is needed: a reused tombstone hides a key (`HashMapTombReuse`), a bucket with hash 0
  is empty, and a full table never returns or drops a node.  `HashMapStore` is an
  instance.  `MapInv` is the Robin Hood order: between a node's home and its bucket no
  bucket is empty, and the nodes there are at least as far from their homes as it would
  be (`RobinHood`), each key has one node (`OneNodeEach`), and the nodes and the one in
  hand are what `dict` says (`DictInTable`, `CountIs`).  While a displaced node is in
  hand the order still holds, and the node just inserted lies behind, in the part of the
  cluster that the walk has passed (`Behind`), where the walk of the displaced one
  cannot come back to it.  `MapIsDictionary` is that `Init` and every step of the table,
  swaps included, is one of `KVMap` or a stutter (`AbsMap!Safety`): `RefinesKVMap`
  without the fairness.
- `HashMapProofs!InsertedFound`: `Spec => [](Roomy => InsertedIsFound)`, with deletes
  and any number of keys, if no hash is 0 (`HashMapTombs` is an instance), so also for
  the server's table under the condition above.  `InsertInv` says that a node stands
  with its key's hash, that the new node is in hand until it is put down (`NotYetDown`),
  and that from then on a walk from its home meets it before any reason to stop, and
  meets no tombstone (`FoundBehind`): a swap further on, should it come round to these
  buckets, only puts a node there that is further from its home than the one before, so
  the walk still does not stop.
- `RBuffProofs!TypeCorrect`: any number of writers.
- `RBuffProofs!RoomOnFirstLap` and `RefusedWhenFull`, for one writer (`Writers =
  {w0}`): before the reader has gone round, a writer never takes the last free slot
  and is refused only by a full ring.  `RingInvariant` strengthens them: what each
  thread has loaded is no newer than the index, the writer's `hp` is exact, and the
  last compared `rp` leaves room.
- `RBuffProofs!RingImplementsFifo`: one writer and fewer reads than slots,
  `Spec => RefinesFifo`.  `HandOverInvariant` says that the slot in the writer's
  hand is none of those in the queue and the value in the reader's hand is its
  head; each store of an index is then a `Push` or a `Pop` and every other step a
  stutter.  `MaxReads < Cap` is the first lap: beyond it the theorem is false
  (`RBuffLapped`).
- `RBuffProofs!RequestsOnlyRead`: one writer, any number of laps,
  `Spec => []OnlyRequestsRead`, which is stated there and no run checks, since it is
  about lapped rings.  The ring loses requests once it is lapped, but the
  reader never takes what malloc left in a slot: every index below `hp` has had a
  request put in its slot, and the writer puts one there before it stores `hp`
  (`WrittenInv`); with `RingInvariant` the reader only reads such indices.  With a
  second writer `hp` can go back behind `rp`, and TLC finds the reader in a slot that no
  one wrote.
- `OrcaServerProofs`, for any workers, keys, values, requests, crashes, failed appends
  and seconds: `TypeCorrect`, `ServedAfterReplay` (`NoHandlerDuringReplay`),
  `LogFollowsMap` (`LogMatchesMap`), `SeenAreLogged`, `AckedAreLogged`,
  `UnsyncedAreRecent`. `TypeInv` adds to the types that a worker between lock and unlock
  is the one that holds `pool_mutex` (`WorkerInv`: mutual exclusion, by program points),
  that an answer without a key is an error (`AnswerInv`), and that a SET in the log has
  a value (`FileInv`).  `BootInv` says that until the replay ends there is no route,
  hence no worker past `route`, and that `boot_len` is what the log had at the start.
  `AppendEffect` is what both actions of an append have in common, and `AppendKeeps`
  that afterwards the command is `Logged`: in the file, or in `unlogged`.  `LogInv` says
  of every value in the map that its SET is logged, or in the hand of the worker that is
  about to append it, or `Garbled` (`MapInv`), hence of every answer (`SeenInv`): a
  value that is read was appended, since the reader has the mutex.  `HoldInv` is that a
  lookup in the table `db` finds what the last command on a key did, and `LastInv` that
  this command is the last record, with the mutex taken: the log is then one command
  behind the map, the holder's.  Together they are `LogMatchesMap`.  Only
  `UnsyncedIsRecent` is inductive as it stands, once `BootInv` holds.
- `ConnProofs`, for any workers, connections and sizes: `TypeCorrect`, `ContextsAreOwn`
  (`OwnContext`), `ArmedInTheEnd` (`ArmedForState`), `ClosedForClient`
  (`ClosedByClient`).  `Shape` is that a worker past `wait` has a connection of its own
  (`CurInv`), that what it loaded of `conn_pool_next` is current while it has the mutex
  (`PoolInv`), and that a read buffer without a whole request has room (`CountInv`).
  `HandInv` and `IdleInv` split `ArmedForState` by whether a worker holds the
  connection: in hand, a response that waits to be sent is not empty.
- `ManagerProofs`, for any peers and limits, and also when they die: `TypeCorrect`,
  `ControlChannelsKept` (`OnlyServersStayOpen`), `AckedServersRegistered`,
  `LateClientsServed` (`NotRefusedAfterAck`).  The strengthening is
  that a peer connects once, so that the descriptor in hand is no registered server's and
  closing it closes no control channel (`OnceInv`, `OpenInv`), and that a late client
  implies a registered server (`LateInv`).
- `StorageProofs`, for any commands, sizes and stack contents, `Junk`:
  - `OnlyCutsShorten`: `LogOnlyGrows`.  Only the strings have to be strings
    (`FileInv`); the parser does not matter to it.
  - `NoShortRecordTorn`: `KillTearsOnlyLong`.  `LogInv` is that the file and stdio's
    buffer are the records of `recs` one behind the other (`Tiled`), each whole or cut
    off by an end of the machine, and that what stdio still holds is a part of the last
    one.
  - `StorageTyped`: `TypeOK`, with `LogInv`, and with `Buffer`, the line buffer's size.
    It is about the replay's place and its buffer, not about the copies from it, which
    may go beyond (`Overruns`).
  - `OnlyDamageStops`: `OnlyDamageStopsBoot`.  `ReplayInv` is that the replay of an
    undamaged log stands behind its first n records, for some n (`Behind`), that the
    line in the buffer is the record behind them or the newline that a value in a
    record ended in (`Parses`) and no copy from it leaves the buffer (`LeadsTo`), and
    that the map was asked for what the first n records amount to (`Reflects`).
  - `UndamagedIsReplayed`: `Undamaged => DamageIsLocal` for commands that are C strings
    (`CStrings`, which the run's commands are).  That is the whole of recovery for a
    log that no cut has torn and whose lines fit the buffer, as far as the log is
    concerned: the map is asked, of every key, last for what its last record says, and of
    no other key for anything.  What it answers afterwards is not said
    (`ServerRecovered`).

- `StorageLogProofs` goes on from there, again for any commands that are C strings:
  - `TornTailIsLocal`: `TailOnly => DamageIsLocal`.  `TailOnly` is that the commands
    are one line each and that no record but the last is torn, which is the state that
    the first cut leaves.  `TornLine` says what the parser makes of the cut record,
    whatever the stack and the lines before left behind it: it skips the line, dies,
    or sets or deletes a key that the record touches in the sense of `Touches`.
    `TailInv` extends `ReplayInv` over that line: up to it the map was asked for the
    records before it, and then for these but for the keys it touches (`ReflectsBut`).
  - `KillsDoNoDamage`: if each command is one line and fits a block, then without a
    power cut the log is undamaged, no replay crashes, and every restart asks the map,
    of every key, last for its last command.  It follows from `NoShortRecordTorn`,
    `OnlyDamageStops` and `UndamagedIsReplayed`.
  - `StorageImplementsLog`: `Spec => RefinesCommandLog`, for every log, also a damaged
    one.  `LogRefInv` adds to the invariants above that nothing of a record that stdio
    still holds is on the disk (`DiskInv`), so that a kill that takes the record takes
    nothing safe, and that `asked` is a function (`MapInv`).  `DieKeeps` says what either
    end leaves of the records, and `ReflectsAmounts` that what a replay of an undamaged
    log asks for is what `CommandLog` promises.

  The lemmas below the theorems about the files are about the parser: where the text
  behind blanks begins (`FromIs`, `NonBlankIs`), what `sscanf` reads of a number and of
  a word (`FieldRead`, `WordIs`), what of the buffer is still a C string (`CStringAll`),
  and that the line of a record does what the record says (`ReadsSet`, `ReadsDel`,
  `FetchedIs`).

Only model-checked:

- every liveness property (`EveryIndexRead`, both `RequestAnswered`,
  `HandshakeReturns`) and the fairness in `RefinesKVMap`, whose initial states and steps
  are `MapIsDictionary`: the prover does not reach liveness;
- `DamageIsLocal` over a log with a torn record in its middle or a record longer than
  the line.  It is not a theorem for every set of commands.  A value longer than the
  line is split by `fgets`, and if its second part reads like a command the replay runs
  it (the run's long value is not of that kind).  A record appended to a torn one
  continues its line, and the parser may take the beginning of the torn key with the
  name of the next command behind it for a key: torn in `SET 3 a` and followed by a
  `SET`, that is `aSE`, and TLC finds the violation if there is a key of that name.  How
  far damage reaches thus depends on the commands, and the run has the four that "Why
  the bounds are enough" names, chosen to differ for the parser.

## Not modelled

- The text of requests and responses (`parse.c`, `response.c`): `Conn` counts pieces.
- `db_load` and `db_save_proc`: no snapshot is ever complete, so there is nothing to
  load, and nothing calls the second.  For the same reason the end of `db_save` and of
  `aof_rewrite` with their renames.
- `hm_free`, `aof_close`, `arena_reset`, `arena_free`: nothing that runs calls them.
- The hash functions: a hash is a constant per key, a shard likewise.
- Failed writes in `Storage`, which has one writer and only crashes: `OrcaServer` has
  them, with a damaged line as one element.
- `orca.c` (stubs that crash), `util.c` (one `stat`), the test programs.

## Plan

1. `HashMap`, `RBuff`, `OrcaServer`, `Conn`, `Manager` and the first theorems (done).
2. `Storage`: the log as characters, with torn, glued and overlong records (done).
3. `Shard`: `db_insert`, `db_get` and `shard_worker` over the ring (done).
4. Proofs of `OrcaServer`, `Conn`, `Manager` and of the log's growth (done).
5. Proofs of the table's order and of its dictionary, of the log's records and of the
   replay of an undamaged log (done).
6. Proofs that a torn end of the log stays local, that kills alone do no damage, that
   `Storage` implements `CommandLog`, and that a lapped ring returns requests only (done).
7. Left: `DamageIsLocal` for torn records with others behind them, under a condition on
   the keys; theorems about `Shard`, which has none: its ring is `RBuff`'s, and of what
   becomes of a request whose frame is gone little can be promised.
