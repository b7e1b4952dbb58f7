# GLaKV in TLA+

GLaKV is a small key-value server used to measure *speculative prefetching*:
after it has answered a get, the server predicts the keys the client will ask
for next and executes the predictions in the background, so that the next get
finds its value ready. A benchmark client produces the load. This directory
holds TLA+ models of the code under `src/`, the TLC configurations that check
them, and proofs for TLAPS.

    tlc -workers 2 -config MCPrefetchServer_get.cfg MCPrefetchServer.tla
    tlapm PrefetchServerProofs.tla

## 1. The system

| component | files | state | operations |
|---|---|---|---|
| connection service | `glakv_server.cc`: `serve_client`, `prefetch_or_submit`, `prefetch_for_key`, `delete_tasks` | per connection: three lists of tasks (`prefetch_tasks`, `deprecated_tasks`, `tasks`), `key`, `response_count` | read a command; scan the predictions; hijack, deprecate, cancel or delete tasks; submit a task; answer |
| task | `task.h` | operation, key, value, state, callback, mutex | created by a serving thread or by a callback, executed by a worker, deleted by its serving thread |
| worker threads, pool | `worker_thread.*`, `thread_pool.*` | the shared queue, `quit` of each worker, the task in hand | dequeue, lock, execute, call back, `finished`, unlock, `detached`; stop, join |
| main thread | `glakv_server.cc`: `main`, `quit_server` | `quit`, `num_clients`, `reported`, `latencies`, hit counters | accept, report an experiment, join, destroy the pool |
| `fakeDB` | `fakeDB.*` | the size; a cache written and never read | `get` (always a whole value), `put`, `del` |
| `DBImpl` | `DBImpl.*` | cache, file, `db_size`, a mutex | `get`, `put`, `del`, creation |
| `LRUCache` | `lrucache.*` | map, list of keys, iterators, `size` | `put`, `get`, `del` |
| client | `glakv_client.cc` | one socket per thread, the last key | load the database, walk over the keys, quit |
| exponential distribution | `exponential_distribution.*` | `max_val`, `interval_size` | `next` |
| the task queue: blocks | `concurrentqueue.h`: `FreeList`, `requisition_block`, `Block` | initial pool, free list with reference counts, flags of the blocks | take a block, give it back |
| the task queue: sub-queues | `ProducerBase`, `ImplicitProducer`, `ExplicitProducer` | head, tail and two counters of reservations, blocks, block index | `enqueue`, `dequeue`, their bulk forms, destructor |
| the task queue: producers | `get_or_add_implicit_producer`, `recycle_or_create_producer`, tokens | the list of producers, hash tables of thread ids, tokens, rotation offset | find, create, enter or recycle a producer; choose a sub-queue; destructor |
| unused headers | `blockingconrurrentqueue.h`, `atomicops.h` | | |

The threads meet at four places. The *queue* passes tasks from serving threads
(and from workers, whose callbacks predict) to workers. The *task* is shared by
its serving thread and the worker that executes it: `task_mutex` is held by the
worker from before `processing` until after `finished`, `detached` is written
without it, and the serving thread reads `task_state` both with and without it.
The *frame* of `serve_client` is shared because the callbacks of its tasks point
into it, and they push on `prefetch_tasks` with no lock at all. The *socket* is
written by whichever thread answers.

What is hard about this code, and what makes each part correct:

* Serving: one get can be answered by the serving thread (its value is there), by
  a *hijacked* prediction (still queued, its empty callback replaced) or by a task
  of its own. Exactly one has to answer, after any history of hits, misses and
  half-finished predictions. Cancelling the other predictions must spare the one
  that answers.
* Memory: a task may be deleted only when its worker has touched it for the last
  time, by one owner; the frame must outlive the callbacks into it.
* Shutdown: a connection may end at any time; its clean-up waits for its tasks, an
  interrupt waits for the connections and then for the workers.
* `LRUCache`: every entry keeps an iterator into the list; list, map and counter
  have to agree over any sequence of calls, and the victim has to be the key that
  was used longest ago.
* `DBImpl`: cache and file change under two different mutexes, one after the other.
* The report: `num_clients`, `reported` and `latencies` are read and cleared by
  the main thread while serving threads and workers still run. Each experiment
  has to be reported once, when it is over; `main` has to end last.
* The task queue is lock-free, with one sub-queue for each thread that enqueues.
  A block or a block index is replaced and used again while other threads read
  it; consumers reserve before they know whether there is anything; the table of
  thread ids grows under the threads that search it. Nothing may be lost, handed
  out twice, read after it was given back, or searched for ever.
* The client: what it loads must be what it asks for, what it asks for next must
  be what the server predicts, and it must come to an end.

`PROJECT.json` lists the hazards one by one, each at its line, with the properties
that would catch it.

## 2. Modules

| module | what it is |
|---|---|
| `PrefetchServer` | the request path of the server: clients, serving threads, workers, tasks, shutdown |
| `RequestService` | what a connection promises: one response for each request |
| `MCPrefetchServer` | TLC instances of `PrefetchServer` (tasks as numbers, symmetry) |
| `PrefetchServerProofs` | the theorems about `PrefetchServer`: the memory of the tasks, then the answers; and those about `Experiments` |
| `LRUCache` | `lrucache.cc`: map, list, iterators, counter |
| `LRUStore` | what a cache promises: the entries it holds and which was used last |
| `MCLRUCache` | TLC instances of `LRUCache` |
| `LRUCacheProofs` | the theorems about `LRUCache` |
| `Database` | `DBImpl.cc`: `get`, `put` and `del` over an `LRUStore`, the file and the disk |
| `KVStore` | what a database promises: calls that take effect in one step, and are durable once they have returned |
| `MCDatabase`, `DatabaseProofs` | its TLC instances, its theorems |
| `Experiments` | `main` of the server: the accept loop, the reports, the joins |
| `MCExperiments` | its TLC instance |
| `Client` | `glakv_client.cc`: options, load, threads that get keys |
| `MCClient`, `ClientProofs` | its command lines for TLC, its theorems |
| `FreeList` | `requisition_block`, the initial pool and the free list of blocks |
| `BlockPool` | what they promise: a block is with one holder at a time |
| `ProducerBase` | what both kinds of sub-queue share: counters, blocks, the reservations of a dequeue, the end of an enqueue |
| `ImplicitProducer`, `ExplicitProducer` | the block index and the blocks of each kind |
| `SubQueue` | a sub-queue of either kind with its threads, up to its destructor |
| `ElementQueue` | what a sub-queue promises: each consumer takes a run of elements from the front |
| `ProducerList` | the list of producers: created, added, recycled |
| `ImplicitProducerHash` | the hash tables that lead a thread to its producer |
| `ConsumerTokens` | how a consumer chooses a sub-queue, with and without a token |
| `ConcurrentQueue` | the queue of these parts with its threads and tokens, up to its destructor |
| `MCFreeList`, `MCSubQueue`, `MCConcurrentQueue` | their TLC instances |
| `FreeListProofs`, `ConcurrentQueueProofs` | the theorems about `FreeList` and `ConcurrentQueue` |
| `SubQueueProofs`, `SubQueueBlocksProofs` | the theorems about `SubQueue`: its counters; the blocks and the index of the implicit kind |

`PrefetchServer` is the middle: `Experiments` is the outside of its connections
(when they start and when their command loops are over), `Client` is what they
talk to, `Database` is what its workers call, with `LRUCache` inside. Each module
replaces its neighbours by what they promise: `Database` uses `LRUStore`, which
`LRUCache` is shown to implement; `Client` assumes that a request is answered,
which `PrefetchServer` shows; `PrefetchServer` has the database of today's build,
`fakeDB`, whose answers do not depend on what was put, and a set for its queue.

The queue is split in three for the same reason. `FreeList` shows that blocks are
handed out to one holder at a time; `SubQueue` takes them from a set, `pool`, as
that allows, and shows that a sub-queue is a queue (`ElementQueue`); in
`ConcurrentQueue` a sub-queue is a number of elements, from which a call takes in
one step, and what is left is which sub-queue it takes from.

### 2.1 PrefetchServer and the code

Each thread has a program counter: `cpc[c]` for the serving thread of connection
`c`, `wpc[w]` for worker `w`. An action is a piece of code between two points
where another thread can tell the difference.

| code | actions |
|---|---|
| `while (!quit)`, `read`, dispatch | `CheckQuit`, `ReadGet`, `ReadPutOrDel`, `ReadQuit` |
| scan of `prefetch_tasks` (203-227) | `SkipOther`, `MatchKey` (the locked part), `Recheck` (222, state read again without the mutex), `Erase`, `EndScan` |
| loop over `deprecated_tasks` (228-240) | `Reap`, `Cancel` (the locked part), `EndReap` |
| loop over `tasks`, the own task (241-254) | `Sweep`, `SubmitGet` |
| answer of a prefetch hit (289-313) | `ServePrefetch` (one prediction a step), `Answer` |
| `delete_tasks` three times, return | `DeleteTask`, `NextList`, `Return` |
| `worker_thread::start` | `Take` (dequeue, lock, execute), `CallPrefetch`, `CallAnswer`, `CallAck` (the callback), `Finish`, `Detach`, `Exit` |
| `quit_server`, `~thread_pool` | `Interrupt`, `SetStop`, `Exit` |
| the client | `SendRequest`, `ReadResponse`, `SendQuit`, `ReadEnd`; `Drop` for a client or a network that fails |

Decisions a reader should know:

* **Take is one step.** Between dequeuing and locking the task is still
  `in_queue` and still reachable only from the lists; the serving thread may
  hijack or cancel it just as when it is queued. The time a worker spends there
  is therefore the time the task spends in `task_queue`, and because the queue is
  a *set* a task may stay there while others pass. Executing the operation is
  merged as well: nothing reads the value while the mutex is held.
* **The mutex has no variable.** A worker holds it exactly in the states
  `callback` and `finish`; a serving thread holds it only inside one step. `Locked`
  is the wait.
* **The queue is a set.** A sub-queue keeps the order of its producer
  (`ImplementsQueue`), but a worker tries the sub-queues in an order of its own
  (2.6), and every thread is a producer here. Any order is allowed. A worker that
  finds nothing looks again, so that a `try_dequeue` that misses an element which
  is just being added changes nothing.
* **The lists are sets**, visited in a fixed order (`First`). What a visit does
  depends on the order only if the scan meets two predictions of the requested
  key, which `DistinctPredictions` excludes when `DBSize >= 3` and
  `NumPrefetch <= DBSize - DBSize \div 3`. Every passing run is within this range.
  Outside it (the run `duplicates`) the order of the addresses is the order of
  `push_back` in the trace found.
* **The race on `prefetch_tasks`.** A hijacked prediction may run its callback,
  and push new predictions, while the serving thread is still scanning and
  erasing. `std::list` gives no guarantee then. `PushBack` lets the scan see the
  new element, or the element be lost when it comes during an erase; after a loss
  the tail pointer may be wrong, so that later pushes hang on the lost node, until
  the erasure of the last visible element repairs it. Corruption beyond lost
  nodes (a crash) is not modelled.
* **put and del** tasks are kept on no list, so nothing waits for them and nothing
  deletes them. Their callbacks capture the frame by reference; when it is gone
  `sockfd` is garbage and the byte goes to any open connection, or nowhere
  (`CallAck`). In the run `get` one connection may break; there is no other that
  the stray byte could reach.
* `fakeDB::get` always succeeds with `VAL_LEN` bytes: a value is `"empty"` or
  `"whole"`.
* A task that was deleted has state `"free"` and may be allocated again, so a
  dangling pointer is visible.
* **Left out**: latencies and hit counters (they are written and never read on
  this path), the end of a program by SIGPIPE when a response meets a socket the
  client has closed, `num_clients` (in `Experiments`), the contents of values.

### 2.2 LRUCache and the code

`cache` maps a key to its value and the *node* its iterator points to;
`lru_keys` is the sequence of nodes with the key each holds; a node taken off
the list is reused, so that a stale iterator points at another key's element, or
at none. `put` has the three cases of the code (present, new, evicting), `get` a
hit and a miss, `del` a hit and a miss. The shared mutex is held exclusively for
the whole of each operation, so an operation is one step. `LRUStore` has no list
and no counter, just the entries and, for two of them, which was used later.

### 2.3 Database and the code

| code | actions |
|---|---|
| `get`: `cache.get` (41), the read under the mutex (44-48), `cache.put` after it (51) | `GetFromCache`, `ReadEntry`, `Fill` |
| `put`: `cache.put` (60), the mutex and `++db_size` with its write (66-78), the entry (80), `fsync` and unlock (81-82) | `WriteToCache`, `WriteSize`, `WriteEntry`, `Sync` |
| `del`: `cache.del` (85), the mutex and the flag of the entry (86-90), `fsync` and unlock (91-92) | `WriteToCache`, `EraseEntry`, `Sync` |
| the kernel writes back what it has in its page cache | `WriteBackEntry`, `WriteBackHeader` |
| the process is killed, or the machine fails; the constructor opens the file (21-28) | `Kill`, `PowerFailure` |

`slots` and `header` are the file as a process sees it, `synced` and
`synced_header` what of them has reached the disk: all of it with an `fsync` (of
the whole file, whoever wrote it), and any slot, or the header, at any time before,
each by itself. `Kill` ends the process and leaves both as they are, so that the
page cache and the disk may stay different with nobody to sync; `PowerFailure` ends
the machine, and the file is then what the disk has. Both kinds happen in one
behaviour, in any order. A `put` or `del` that is killed between its write and its
`fsync` (80-81, 90-91) is therefore found by gets after the restart and can still be
lost when the machine fails later; the next `fsync`, for any key, makes it safe.
`cut_short` remembers those keys, and `machine_failed` that the machine has failed;
no step reads either. The promise is accordingly that of `KVStore`: what was
*acknowledged* is durable, what a get has *found* need not be. `write` and `fsync`
are taken to succeed (the code does not look at what they return), and a write of a
slot to be atomic: an entry of 129 bytes that is torn is not modelled. The file is
taken as completely created. `db_size` counts up with every new key and never down, so
`MaxSize` bounds it.

`Disciplined` restricts the callers: a call that writes a key runs while no other
call on that key does. `DBImpl` does not enforce this, and without it the cache
may keep a stale value for good: `get` fills the cache after it has released the
mutex, and `put` changes the cache before it takes it. Nothing in the code claims
otherwise, so there is no property of calls that do overlap like that; the benchmark
has the discipline, since it writes only while it loads, over one connection. `TypeOK` and the number of entries are proved without it.

Keys are put in no particular order, so that a slot may lie beyond `db_size`
entries. The validation that is commented out in the constructor (31-34) takes
the keys 0 to `db_size` - 1 as present; it could fail after a crash between the
two writes of `put`, and after any `del`, since `del` leaves `db_size` alone.

### 2.4 Experiments and the code

`mpc` is where `main` is: at the head of the loop, at `accept`, between the start
of a thread and `++num_clients` (the thread may be over by then, and `num_clients`
is -1 for a while), idle, in the joins, ended. `conn[c]` follows a connection from
the backlog of the socket to the return of `serve_client`. `CheckQuit`, `Accept`,
`CountClient`, `NothingToAccept`, `Report`, `NothingToReport`, `Join` and `End` are
`main`; `Serve` is the first line of `serve_client` that others see (269), `Leave`
is `--num_clients` (345) after the command loop, for whatever reason it ended,
`CleanUp` is the rest of the function.

`main` joins its threads in the order of their start. It ends when the last is
over in any order, so `Join` takes any thread that is over. An error of `accept`
other than `EAGAIN` ends the process and is not modelled. Latencies and hit counters
are left out: `main` reads and clears the vector without the lock while a worker
may append to it (the worker writes the answer before the latency), which is a
race that nothing in the code claims to be absent.

### 2.5 Client and the code

Options are read one at a time (`Read`), with the missing `break` of `-m`. Of an
argument only its whole part and its sign are kept: `atoi("0.15")` is 0. `load_data`
is `NextBatch`, `SendPut`, `ReceivePut`, `EndBatch`, `Loaded`; a thread of `execute`
is `SendGet`, `ReceiveGet`, `Finish`. An answer to a get has a first byte and the
rest, and with `MaySplit` a read returns any part of what is there. When a read begins
with the rest of an earlier answer, the client takes eight of its bytes for the length
of the value (117-118): the string may throw and end the process, or the client goes
on with some value, which it does not look at. The server
may be shut down (`Close`): requests it has not read are lost, a read at the end of
the connection returns nothing (or the process ends with an error), and a write
is lost or ends the process. `uint32_t` sums are taken modulo `Word`, which the
instances make so small that they do wrap around. A load into an empty database
counts keys as `DBImpl` does; the size of `fakeDB` is a constant, so a client of
today's build has to be told with `-s` at most `DB_SIZE`.

### 2.6 The task queue and the code

The server uses `enqueue` and `try_dequeue` without tokens; tokens and the bulk
calls are modelled too, because they share the code. Every atomic access that
another thread can observe is a step of its own; what is private to a thread goes
with the access before it. Memory is sequentially consistent: the fences and
memory orders of the code, which make that true where it matters, are not modelled.
`enqueue` and `dequeue` are the bulk calls with one element, with the differences
where there are any (`Single`).

| code | actions |
|---|---|
| `requisition_block`, initial pool (2952-3004) | `Requisition`, `TestPool`, `TakeFromPool`, `Create` |
| `FreeList::try_get` (1376-1413) | `LoadHead`, `LoadRefs`, `Grab`, `ReadNext`, `Pop`, `Release`, `Unref` |
| `FreeList::add` and `add_knowing_refcount_is_zero` (1362-1440) | `Add`, `LoadTop`, `Link`, `StoreOne`, `Push`, `Retry` |
| `dequeue_bulk`: how many (2156-2179, 2682-2705) | `Dequeue`, `LoadOvercommit`, `TestOptimistic`, `Reserve`, `Recheck`, `Overcommit`, `Claim` |
| `dequeue_bulk`: where, and out of the block | `LoadHeader`, `LoadBase`, `LoadBlock`, `SetEmpty`, `Unlink`, `Recycle` |
| implicit `enqueue_bulk` (2532-2680) | `Enqueue`, `Room`, `Insert`, `Grow`, `StoreTail`, `TakeBlock`; `Undo`, `Unindex`, `FreeChain` when memory runs out; `Construct`, `Publish` |
| explicit `enqueue_bulk` (1971-2154) | `Enqueue`, `Reuse`, `Room`, `Grow`, `TakeBlock`, `StoreFront`, `Construct`, `Publish` |
| the destructors | `SubQueue!Destroy`, `ConcurrentQueue!Destroy` |
| `recycle_or_create_producer`, `add_producer` (3123-3175) | `Scan`, `Grab`, `Create`, `CountProducer`, `Link`, `Push` |
| `get_or_add_implicit_producer` (3280-3428) | `GetOrAdd`, `Probe`, `Insert`, `Add`, `TestAndSet`, `Resize`, `Allocate`, `Clear`, `Room`, `New` |
| `try_dequeue`, `try_dequeue_bulk` without a token | `TryDequeue`, `Score`, `DequeueBest`, `Reload`, `TryDequeueAlong`, `DequeueRest` |
| the same with a token, and the rotation (1088-1195, 1295-1333) | `TryDequeueToken`, `CheckOffset`, `LoadList`, `Update`, `DequeueCurrent`, `Rotate`, `ResetTail`, `DequeueTurn` |
| tokens | `CreateToken`, `Register`, `DestroyToken`, `Deactivate`, `SwapTokens`, `CreateConsumer` |

Decisions a reader should know:

* Elements of a sub-queue are their own indices, so that `FindsItsElements` can tell
  whether a consumer got those that it has claimed. Indices wrap around at
  `Modulus`; a setup may start close to it.
* The header of a block index and its `front` are read in one step: a header that
  was replaced does not change any more, and a newer `front` only shows more.
* In the hash table a key is entered by a compare-and-swap and its value right
  after it; one step, because only the thread of that id reads the value. Ids are
  addresses of thread-local variables: a thread that has ended leaves its id, with
  its producer, to a later thread, so that one `Thread` stands for all of them, one
  after the other. Implicit producers are never made inactive:
  the code for it (3430-3471) is not compiled, since
  `MOODYCAMEL_CPP11_THREAD_LOCAL_SUPPORTED` is not defined.
* Elements are pointers to tasks, whose constructors and assignments do not throw:
  the paths for exceptions are dead and left out, as are debug options.
  `MAX_SUBQUEUE_SIZE` has its default, no limit. The first block index of a
  sub-queue and the first hash table are there.
* The assertion `overcommit <= myDequeueCount` (1903, 2167, 2470, 2693) compares
  without regard to wrap-around and is not stated.

## 3. What is checked

| run | instance | shows |
|---|---|---|
| `get` | 1 connection that may break, 2 workers, 2 requests of any kind, 2 predictions each, interrupt | `NoDanglingTask`, `OneOwner`, `DistinctPredictions`, `NoStaleFrame`, the inductive invariant `MemoryInv` of the proofs, `AnsweringInv` (`CancelledAreSilent`, `NoForgottenRequest`, `AnsweredOnce`, `AnswersWhole`), and the server implements `RequestService` |
| `live` | as `get`, 1 prediction, fairness | `GetAnswered`, `ConnectionCloses`, `PoolStops` |
| `duplicates` | 1 key, 2 predictions | the assertion `response_count == 1` fails (see 3.3) |
| `full` | 4 keys, capacity 3, 2 values | `WellFormed`, and the cache implements `LRUStore` |
| `disciplined` | 3 threads, 2 keys, 2 values, a cache of 1, disciplined callers, crashes of the process and of the machine | `SizeCoversEntries`, `Coherent`, the inductive invariant `DatabaseInv`, and `DBImpl` implements `KVStore` |
| `reports` | 4 connections, 2 reports, interrupt, fairness | the inductive invariant `ExperimentsInv` (with `IdleMeansLeft` and `MainOutlives`), `OneReportEach`, `ExperimentReported`, `ServerEnds` |
| `benchmark` | 9 command lines, up to 2 threads, up to 11 keys, `Word` = 12, a server that may be shut down, answers in parts | `ClientInv` (with `LoadExact`), `KeysInRange`, `Predicted`, `Finishes` |
| `pool` | 3 threads, 2 blocks, one of them in the initial pool, fairness | `FreeListInv` (`CountsReferences`, `PoppedOnce`), `NoABA`, `NothingLost`, it implements `BlockPool`, `CallsEnd` |
| `subqueue` | 8 setups of one sub-queue, 1 or 2 consumers, blocks of 2, fairness | `SubQueueInv` (`ReservationsAddUp`, `FindsItsEntry`, `RecycledOnce`), `FindsItsElements`, `DestructorIsExact`, it implements `ElementQueue`, `Drains` |
| `queue` | 10 setups of one queue, 3 threads, fairness | `QueueInv` (`NoProducerLost`, `CountIsExact`, `RoomToInsert`, `CountCoversList`), `OneProducerPerThread`, `TokenOwnsProducer`, `FalseMeansEmpty`, `CallsEnd`, `RotationServesAll` |
| `options` | `-e -n 2 -m 0.15` | `-m` sets the number of operations (see 3.3) |
| `shutdown` | one thread, a server that is shut down | the assertion of `send_get` fails (see 3.3) |

A name that ends in `Inv` is the conjunction of the named parts of its module, its
type invariant among them.

### 3.1 Bounds

`MaxRequests` bounds what a client sends and `MaxTasks` the heap; `MaxTasks` is
at least connections x requests x (1 + predictions), so that no allocation ever
waits. Two workers are enough for one to execute the hijacked prediction while
the other is between unlocking and detaching the previous task, and for both to
push on one list. Two gets are enough for the predictions of the first to be hit,
hijacked, deprecated, cancelled or reaped by the second. The keys are chosen so
that a request can hit a prediction (`DBSize \div 3` = 1 away) or miss all of them.
The workers are symmetric; the liveness run uses no symmetry. Connections share
workers and the queue and nothing else, so the run has one of them; that the tasks
of several connections do not mix is part of what the theorems show, for any number.

Four keys in a cache of three make the capacity a real limit, with victims in
every position of the list.

A cache of one and two keys let every operation of `Database` evict the key of
another; three threads allow two readers of one key while a writer of the other has the mutex.
Four connections are enough for two reports with two connections each, one of
which is over before `main` has counted it. The command lines of `benchmark` load
sizes that 5 divides and does not (the last batch is shorter), larger and smaller
than what is there, and 0; 11 keys and ranks to 2 make the sums exceed `Word`.
A real rank goes to 1000 (and may be 1000 itself: `next` rejects only what is
*above* `max_val`), which changes nothing since every rank is taken modulo the size.

Three threads and two blocks let a thread be overtaken inside `try_get` by two
others that pop and push the same node between them, with the second block as the
`next` that would be out of date. `SHOULD_BE_ON_FREELIST` is 8, above any count.

A sub-queue has blocks of 2 elements, so that calls of 1 to 3 elements start, end
and cross blocks in every way. `Modulus` is 16 and most setups start at 12, so
that indices wrap around; at 2 to 3 blocks and an index of 2 to 4 entries, growth
and failure of each allocation happen. Two consumers with two blocks contend for
elements, the last slot of a block and its recycling; one consumer allows runs of 5
to 7 elements, on which blocks and entries are used again.

The hash table starts with 2 slots (the code has 32; it wants a larger one from
half of the capacity, and does without up to three quarters), so that already the
first threads make it grow, twice. Two of the three threads hash to the same slot.
One setup has memory up to 8 slots and two threads, one up to 4 slots and three
threads, where the next growth fails for want of memory. Words are taken modulo 4
(`Words`) and the quota of a consumer is 2, so that rotation happens and the
offset wraps around. Three threads with memory for 8 slots have been checked as
well; that instance is too large to be kept as a run.

### 3.2 Fairness

`FairSpec` asks for weak fairness of each serving thread, of each worker and of
the loop that stops the pool: every thread of the server is an operating system
thread that is scheduled when it can run, and polls when it has nothing to do.
Nothing is assumed of clients or of the signal. A worker that finds the queue not
empty takes *some* task; that is enough because requests are bounded, and
because a connection waits for its own tasks before it closes. A mutex is held by
a worker only for a callback that ends, so weak fairness is enough for the
serving thread that waits for it.

`Experiments` has weak fairness of `main` and of the threads it starts, with one
exception: whether a command loop ends is up to the client (`Leave` is not fair),
because a serving thread that is blocked in `read` does not see the interrupt. Its
liveness properties say so: an interrupted server ends, or some client stays.
`Client` has weak fairness of `main` and its threads, and of the server's answers,
which is what `GetAnswered` and `RequestService` say of it.

In the queue a thread that is inside a call goes on with it (weak fairness of its
steps), and nobody has to begin one. `CallsEnd` asks that the calls end once no new
ones begin, which is lock-freedom: single threads may be overtaken for ever.
`Drains` is about one consumer that polls while the others are silent, because two
that poll can each see the reservation of the other and both report nothing, again
and again. `RotationServesAll` is about one consumer with a token: the offset is
counted for all of them together, and two in step can pass over the same sub-queue each
time. The quota is tested with `==` after single dequeues and with `>=` after bulk
ones, so that mixing both may miss it until the counter wraps around. `CHECK_DEADLOCK` is
off in `subqueue` and `queue`, where nothing happens after the destructor.

### 3.3 What the code does not keep

`assert(response_count == 1)` (193 and 306) can fail. When `-p` asks for more
predictions than the database has keys (nothing limits it; `fakeDB` has 500000
keys, so this takes a very large `-p`), `prefetch_tasks` may hold two predictions
of one key. The scan hijacks the first, still queued, and then finds the second
finished and sets `prefetch_success` too: both answer. The assertion is compiled
out of the default build and the client takes the surplus response for the answer
to its next command. For fewer predictions the assertion holds (`AnsweredOnce`).

`-n` of the client is "number of operations each client does" (225), but the case
of `-m` has no `break` (266) and goes on to set `num_exps` from the same argument:
after `-n 2000 -m 0.15` every client does 0 operations. `run.sh` gives `-m` first.

`assert(res_buf[0] == 1)` (116) can fail: `send_get` treats only a negative result
of `read` as an error, and a server that is shut down gives 0. Without the assertion
such a get is counted as one that was answered. `send_put` tests `<= 0`.

Five more disagreements were met that no run is spent on. `load_data` never ends
for 1 to 4 keys, because `db_size / 5` is 0 (with `-s 3` in `benchmark`, `Finishes` is
violated). The comment of `execute` gives `key + 1` the highest possibility, while
the code and the server's predictions add a third of the database (191, server
164). `assert(key < db.size())` of the server (286) fails for a client that loads
more keys than the constant size of `fakeDB` and asks for them. The validation of
the database file is wrong about `db_size` (2.3). An explicit `enqueue_bulk` that fails
in the middle puts `pr_blockIndexSlotsUsed` back (2011-2017) but leaves the blocks it
has added in the ring. They are found empty and used again, and an entry of the
index is written for each although it has none to replace: it overwrites one in use,
where the comment says that there is "guaranteed to be room" (1783). With the
setups `MCFailing` of `MCSubQueue`, `DestructorIsExact` is violated. This takes a
producer token and bulk calls, of which the server has none; in the run `subqueue` an explicit `enqueue_bulk` fails in its first block only.

## 4. What is proved

The proofs hold for any number of connections, workers, tasks, keys, predictions,
threads, tokens, producers and blocks, from the assumptions on the constants alone
(`ServerAssumption`, `CacheAssumption` and their like): constants are of the right
kind, there is at least one key, a capacity is positive, what there is in memory
(threads, producers, connections) is finite, the size of the server's database fits
a word. Only the theorems about the answers and about the sub-queues have hypotheses
more, of what the code does not check (below).

**PrefetchServerProofs.** `MemoryInv` is inductive (`MemorySound`). `TypeOK` alone
is not: `Recheck` and `Erase` use `iter[c]` and a worker uses `db_task[w]` as tasks,
which they are only because of where the thread is (`Loops`, `HeldTasks`). That a
task is never used after its deletion needs, besides, that a queued task is
`in_queue` and a held one `processing` or `finished` (`QueuedTasks`, `HeldTasks`),
neither of which is `detached`, the only state that is deleted; that a listed task
is allocated (`ListedTasks`), and that no other list has it (`OneOwner`), or the
other owner would be left with a freed one. `GetsAwaited` says that a task with a
get to answer is on a list that the clean-up has still to wait for: from it
follows that the frame outlives the get callbacks. One lemma a group of actions
shows that a step keeps the invariant, one step per conjunct; the theorems
`TypeCorrect`, `TasksNeverDangle`, `TasksHaveOneOwner` and `FramesOutliveGets`
follow from it.

**The answers** (`PrefetchServerProofs`, second part). A get is answered exactly once because, from its being sent to
its answer, exactly one party bears it: the socket (`Unread`), the serving thread
(`Serving`: it scans and has not hijacked anything, or it is about to answer itself)
or one task whose callback answers. `AnswerInv` says so (`OneBearer`), with what
keeps it true: the wire carries at most one response (`WireInStep`); a task is where
its state says and, once executed as a get or a prediction, has its value
(`StatesTrue`, `ExecutedWhole`); the lists hold no two predictions of one key, as far
as the scan can meet them, while a worker pushes on the list that is being scanned.
`RequestsAreAnswered` (`AnsweringInv`) and `PredictionsAreDistinct` follow, and
`ServiceImplemented`: every step of the server is a step of `RequestService` or a
stutter. The hypotheses are real limits of the code. `FewPredictions`
(`DBSize >= 3` and `NumPrefetch <= DBSize - DBSize \div 3`) is what makes the
predictions of a key differ; beyond it two parties can answer (run `duplicates`).
`NoStrayBytes` excludes that the byte by which a put or del of a dead frame is
acknowledged (`CallAck`) reaches the socket of another connection, which would
take it for its answer: there is one connection, or no put or del, or no
connection ends early. All of it holds of the run `get`.

**LRUCacheProofs.** `CacheWellFormed`: type, iterators, key sets and counter are
one inductive invariant. The lemmas say what removing the element an iterator
points to and pushing a fresh one do to a list without repeated keys or nodes.
`CacheImplemented`: from that invariant each operation is the operation of
`LRUStore`. What has to be shown is the order: moving a key to the end, dropping the
front and erasing in the middle change `Older` (of two keys, which comes first on
the list) exactly as use and eviction do in the store.

**ClientProofs.** The inductive invariant `IInv` has, for `load_data`, what the
database holds at each point (`AtRest`, `Asked`, `Answered`, `Lost`): the keys
below `key`, or the next one too while its answer is on the way. That the last batch
is shorter and that `key + writes` never passes `size` makes the load exact
(`LoadsExactly`). Each thread's next key is below the size, because the sum, wrapped
or not, is taken modulo the size last (`KeysExist`); that it follows from the key and
rank before (`Follows`) gives `NextKeysArePredicted`.

**FreeListProofs.** The argument is the life of a block (`Places`): fresh, used,
waiting for its last reference, being linked, being pushed, listed, popped. `IInv`
says that there is a placement of the blocks (`BlocksPlaced`) for which the count of
each block is the number of threads that hold it plus what its place adds
(`Weight`), that a block that is being linked or was popped is with one thread only,
and that the locals are right (`LocalsRight`): in particular the `next` that a thread
has read of a node it holds is still that node's. That is `PopsTheSecond` (`NoABA`): a
node with a reference is never linked again, so its `next` cannot change, and being
at the head again means it never left. `NoBlockLost`, `CountsAreSound` and
`PoolImplemented` (`FreeList` implements `BlockPool`) follow. The list is the
smallest set that contains the head and is closed under `next` (`OnList`): that a
push or a pop changes it by one block needs that no two nodes have the same next
(`OneWay`), and no induction along the list.

**ConcurrentQueueProofs.** `IInv` is inductive (`QueueSound`): the frames of the
calls (`Typed`), the tables of thread ids (`HashOK`), who has each producer (`Owned`),
which kind it is (`Kinds`), the list (`ListOK`). `TokensOwnTheirProducers` needs that
a producer is one thread's, or one token's, or free on the list, or not created yet,
and never two of these. `OneProducerEach` needs that a thread that did not find
itself in the table it began with is in no older one: a key is in the first slots of
its probe sequence, with no empty slot before it, and slots are never emptied; so a
search that meets an empty slot has seen all (`Smallest` gives the first empty slot:
induction in the form of a minimal counterexample, which needs no schema).
`ListIsComplete`: `From` is a smallest closed set like `OnList`, and a push adds one
producer to it whatever the others did since it was linked.

Three more invariants rest on `IInv`. `TablesGrow` (`TablesGrowRight`) is about room.
A thread compares the count it got with the table it goes for, and both may be stale
by the time it enters itself. `FewArrive` is what stays true: those that have a slot
of a table or an older one, or go for one, together with those that hold a count
below n, are fewer than n once the limit of the table is at most n. Ids are counted
once (`IdsCounted`) and one thread at a time appends a table, no smaller than the
newest (`OneResizes`, `Growing`). `TablesKeepRoom`: the limit is below the capacity,
so a slot is free. `ListCounted` (`ListIsCounted`): the list has no cycle, and
`producerCount` is the number of producers that are on it or counted already; since a
consumer reads the tail before the count, the count covers what it sees.
`ConsumersOK` (`ConsumersSound`): what a consumer has in its frame and token is on the
list, and `Ahead` says where the sub-queues are that have had elements since its call
began and gave it none. For a walk from the tail they are on the rest of the list. For
a turn round the list, that begins after the token's producer, they are between the
walk and the tail's end or between the tail and that producer, as long as it has not
passed over the tail, and then before that producer; `NoCycle` keeps the two cases
apart. At the end of either nothing is left: `FalseIsRight`. `Advance` is a recursive
function, whose existence (`WalksExist`) and whose staying on the list
(`AdvanceFacts`) go by a minimal counterexample too. `QueueIsSound` puts these
together.

**SubQueueProofs.** For both kinds of sub-queue. The two counters of reservations and
the head are never updated together; `Counted` says for each consumer which of its
reservations are in the counters but not in the head, and with `ReservationsAddUp`,
a sum over the consumers modulo the width of an index, it is inductive
(`CountersAddUp`). A reservation that is given up, in whole or in part, is counted as
overcommitted by the same call, so nothing is lost. That no consumer is given an
index beyond the tail (`NobodyPassesTheTail`: `InOrder`) needs more, because the
places that a consumer reserved are computed from two loads at different times:
`Placed` gives each reservation its place behind the head, and a reservation that
passes the tail is one that its consumer will find to be in excess. The hypothesis
`NotTooStale` is the assumption that the code makes and does not check: what
a consumer has loaded is less than half of the values of an index behind. It
holds in all states of the run `subqueue`.

**The implicit sub-queues** (`SubQueueProofs`, second part, and `SubQueueBlocksProofs`),
of which the server has one for each thread that enqueues. `ImplicitIsSound`
(`SubQueueInv`), `ImplicitFindsItsElements`, `ImplicitDestructorIsExact` and
`ImplicitIsAQueue` (the refinement of `ElementQueue`) hold under `NotTooStale` for any
number of consumers and blocks. The properties are not inductive, because they say
nothing of the *stale* things a consumer works with: a header of the index that has
been replaced since, a front that has moved on or been taken back by a failed
`enqueue_bulk`, an entry that is for another block by now. `Settled` is the invariant that
explains them. It numbers the elements and the blocks from the first, so that wrapped
indices become whole numbers, and says that there are: the blocks in use by their number (`blk`);
of each entry, the number it is or was for (`num`); of each header, the place that number 0
has in it (`z`), which no step moves; the number at the front of the index (`f`); and of a call
of the producer the blocks it has chosen, how far it has come, and how far back again
(`ch`, `t`, `w`). These are not variables: every step shows what the new ones are.
Its parts:

* `Shared`: what the consumers have claimed and not moved out is below the head, in
  runs that do not meet. `Stored`: each block has exactly those of its elements that
  are present, and its counter is the number of those that have left.
* `Owned`: a block is in the pool, in use under one number, withdrawn by the
  producer, or in the hands of the one consumer that recycles it.
* `Indexed` (`Headers`, `Keys`, `Reach`, `Listed`): an entry is for a number that has its
  place in every header that shares it, no more than a turn of the ring ahead; the entry
  of a block in use has its key and its address, in the newest header; and so does every
  number that the walk from the front can meet. Headers double, so a place in an
  old one is a place of the new one modulo the old size.
* `Consuming`: a consumer has found, in the header it read, the place where its
  block is in the newest one (`LookedUp`). A block all of whose elements have left is with
  exactly one consumer, which takes it off the index: `RecycledOnce`.
* `Chosen`, `Producing`, `Fronts`, `Marked`: the links between the blocks, the front and
  the free entries, at each point of an enqueue, of its growth of the index, of its
  undoing, and of the construction of its elements.

That a slot and an entry are never used for two blocks at once comes down to arithmetic
modulo the sizes: two numbers with one key are less than half of `Modulus` apart
(`Near`), and so equal. This is what the assumptions on the sizes are for: the
block index covers at most half of the values of an index, `Modulus` is a multiple of the block
size, and a sub-queue is given at most `Modulus - BLOCK_SIZE` elements in its life
(2^64 less a block in the code). `NotTooStale` comes in through `InOrder`: a claim is of elements that are
there. After the destructor nothing moves any more (`Emptied`). For the refinement a claim in
`SubQueue` is `Take` in `ElementQueue`, and moving a block's share out and going on
to the next block leaves `Taken` as it is.

**DatabaseProofs.** `DatabaseInv` is inductive (`DatabaseSound`). Coherence of the
cache needs to know where each thread is: what a reader has in hand between its
read and its `Fill` is still in the file (`InStep`), because no writer of that key
runs (`Apart`); who holds the mutex has the only half-done write (`Holding`); file
and disk differ only at a key that is being synced, or that was when a process died,
with no `fsync` since (`Synced`). `Synced` and `Holding` need no discipline: whoever
calls what, the only writes that a machine failure can take away are those. `CacheCoherent`
follows, and so does `StoreImplemented`, if the callers are disciplined: `slots` and
`synced` are the store of `KVStore` and its durable part, each step of `DBImpl` is one
of its steps or a stutter, a `put` or `del` takes effect when its slot is written, and is
durable, with all that came before it, before it returns.
`SizeCovers` needs no discipline and holds until the machine fails for the first time:
`SizeInv` (`SizeSound`) adds that the file has the
number that memory has and that whoever is about to write a slot has counted it,
in cardinalities; the mutex (`Holding`) keeps two such writers apart.
`DatabaseTyped` is the type invariant.

**main** (`PrefetchServerProofs`, last part; `Experiments` is `Main` there, and that the
connections are finitely many is a hypothesis). `ExperimentsInv` is inductive (`ExperimentsSound`). The key is
`ClientsCounted`, which says in cardinalities that `num_clients` is what `main` has
counted less what has left, so that 0 means that all have left (`NoneLeft`), and
`ReportDue`, which ties `reported` to the connections that were not reported.
`IdleIsIdle`, `MainEndsLast` and the action property `ReportsOnce` follow.

Only model-checked: liveness (fairness and ENABLED are out of the prover's reach), and
of the *explicit* sub-queues what concerns their blocks and their index: `SubQueueInv`
but for `ReservationsAddUp`, `FindsItsElements`, `DestructorIsExact`, and that they
implement `ElementQueue`. The server has none of those (it takes no producer token).

## 5. Not modelled

* The creation of the database file, and a creation that is interrupted: the file
  is then opened as if it were complete, and nothing in the code detects it.
* `latencies`, the hit counters and what a report prints (2.4).
* The sampling of the exponential distribution: floating point, and a loop that
  ends with probability 1 only. Its ranks are an input of `Client`.
* The server's options and socket set-up: run once, before any state exists.
* `task_queue.*`: empty, not built. `blockingconrurrentqueue.h` and `atomicops.h`: no
  file of the program includes them.
* Of `concurrentqueue.h`: moving and swapping whole queues and `size_approx`, which are
  not safe, or only estimates, beside other calls; the paths for elements whose constructors
  or assignments throw; the recycling of implicit producers at the exit of a
  thread, which is not compiled; executions that are not sequentially consistent.

## 6. Plan

1. The proofs about blocks and index for the explicit sub-queues: a ring of blocks and
   an index of its own, and none of the reuse that makes the implicit kind hard.
2. Latencies: when each answer is accounted for, over `PrefetchServer` and
   `Experiments`, with the unlocked report.
3. The creation of the database file.
