# NyxJ: models, checks and proofs

NyxJ is a C library and server for JSON: parsers, queries, patches and
MessagePack on one side; a thread pool, a key-value store, IPC, metrics, an HTTP
application framework, plugins, a proxy and gossip clustering on the other. This
directory holds TLA+ models of the parts whose correctness depends on order,
concurrency or failure, the TLC runs that check them on small instances, and
TLAPS proofs of what matters most for every instance, and models of the parsers and
of the document operations, whose difficulty is in their input. Paths are relative to the
root of the repository.

## 1. Inventory

| Component | State it keeps | Operations | Talks to | What is hard |
|---|---|---|---|---|
| Worker pool `src/runtime/pool.c` | ring of tasks, `active`, `limit`, `shutdown`, counters, two condition variables | create, submit, wait, set_concurrency, stats_get, destroy, `worker` | everything that runs tasks | signals against sleeps, throttling during shutdown |
| HTTP application `src/net/app.c` | routes, connections (in Mongoose), done list, gauges, `stop` | listen, poll, run, stop, destroy, dispatch, `job_run`, `drain_done` | pool, kv, metrics, cluster, plugins, proxy | pipelining, jobs that outlive connections, shutdown order |
| Eco-Throttle `heartbeat_tick` in `app.c` | `eco_level`, `eco_calm_samples` | one timer | pool (limit, delivery), kv (sweep) | hysteresis |
| Key-value store `src/runtime/kv.c` | hash table with expiry times, statistics | set, get, del, incr, expire, ttl, keys, sweep, clear, save, load | HTTP handlers on any thread, snapshot file | clock read outside the lock, crash while saving |
| Unix socket IPC `src/runtime/ipc.c` | one byte stream per channel | listen, accept, connect, send, recv, close | a peer process | timeouts in the middle of a frame |
| Shared memory ring `src/runtime/ipc.c` | byte ring, `head`, `tail` | create, open, write, read, close | a peer process | two processes without a lock, wrap-around, peers that come and go |
| Cluster gossip `src/net/cluster.c` | member table with heartbeats and last-seen times | start, tick, merge, members, alive_count, least_loaded, stop | UDP peers, pool statistics | lost and stale datagrams, failure detection |
| Metrics `src/runtime/metrics.c` | list of series, collectors | register, add, observe, render | every component | registration while rendering |
| Plugins `src/net/plugin.c` | loaded libraries | load, unload | app routes | partial failure of `init` |
| Safe-Gate proxy `src/net/proxy.c`, `src/modules/gate.c` | upstream, policy | enable, handle | app fallback, HTTP client | re-configuration with requests in flight |
| Reliability `src/modules/reliability.c` | three replicas | checksum, verified parse, TMR read and write | - | repair that itself fails |
| Parsers `src/core/parser.c`, `src/modules/sax.c` | input position; automaton, container stack | parse; feed, finish | everything | chunk boundaries, limits |
| Tree, arena, serializer `src/core/` | tree; chunks | constructors, clone, alloc | everything | ownership, out of memory |
| Patch, diff, merge `src/modules/patch.c` | - | apply, diff, merge | - | atomicity over several operations |
| View, query, schema, map, repair, MessagePack `src/modules/` | - | pure conversions | - | mostly layout and characters |
| Front ends `src/server`, `src/cli`, `src/wasm`; helpers `src/common` | options | - | all of the above | start-up and shutdown order |
| Mongoose `vendor/` | connections | third party | app | pipelining, MG_EV_CLOSE |

What makes each of them correct:

- **Pool**: a task that was accepted runs exactly once, in order, never beyond the
  limit; no wake-up is lost; `wait` returns when and only when the pool is idle;
  `destroy` drains.
- **Application**: responses leave in request order, one each; every job is
  answered or discarded and freed exactly once; `stop` ends `run` and `destroy`.
- **Eco-Throttle**: up at once, down after three calm samples, the limit that of
  the level.
- **Key-value store**: each operation is atomic, an expired key is never seen, a
  snapshot is complete or absent.
- **IPC**: frames arrive whole, once and in order, or the channel says so.
- **Gossip**: a live peer's news spreads, a dead peer is found dead and stays so.
- **Parsers**: five readers accept one language and read the same values, however the
  input is cut; limits hold; a repair changes nothing that is valid.
- **Proxy**: what the gate refuses never reaches the upstream; every forward ends.
- **Plugins**: no handler runs after its library is closed.
- **Replicas**: one fault never shows.
- **Patch**: all or nothing; `apply(a, diff(a, b)) = b`.

## 2. Plan

In order of importance, with what is built and what is ahead.

1. `WorkerPool` and the abstract `TaskQueue`, with refinement. *Built; invariants and
   the safety part of the refinement proved.*
2. `AsyncServer`, on top of `TaskQueue`. *Built; its invariants proved.*
3. `EcoThrottle`. *Built; hysteresis and limit proved.*
4. `ShmRing` and `IpcFrames`, which both implement the abstract `FrameChannel`. *Built; the
   ring's invariants and both refinements proved.*
5. `KvStore` and the abstract `KeyTable`, with refinement; `KvSnapshot`. *Built; soundness
   and refinement of the table proved, the snapshot for one saver.*
6. `Gossip`: ticks, merges, losses, crashes. *Built; all its properties proved.*
7. `JsonTree`, `JsonText`, `SaxParser`, `JsonView`, `SafeGate`, `JsonRepair`, put side by side
   in `JsonReaders`. *Built.*
8. `DocPatch`, and `DocSync`, which uses it to keep a copy of a document. *Built.*
9. `SafeProxy`, `PluginHost`, `Replicas`. *Built and proved.*
10. `Services`, which composes `Replicas`, `IpcFrames`, `SafeProxy`, `PluginHost`, `EcoThrottle` and
    `KvSnapshot`, and `MCServices`, which adds `DocSync`. *Built; the safety of the six parts proved of
    the composition.*
11. `EcoThrottle` driving `WorkerPool`, in place of the limits drawn at will there; metrics. *Ahead.*

What no theorem states, and why:

- Liveness (`EveryTaskRuns`, `CallsReturn`, `EveryRequestAnswered`, `StopEnds`, `EveryMessageArrives`, `Reclaimed`,
  `EveryForwardEnds`) and the fairness half of the refinements: the prover has neither `ENABLED` nor
  fairness.
- The five properties of `JsonReaders` and the three of `DocSync` (`ClientShowsAVersion`,
  `ClientCatchesUp`, `MovesLoseNothing`): they compare what recursive operators make of texts and trees, and
  a proof would be an induction over data. A theorem about the protocol of `DocSync` alone would have to
  assume that applying a difference gives the other document, which is what can be wrong there.

## 3. Worker pool

`WorkerPool` translates `src/runtime/pool.c`. One step is what a thread does between
taking `p->lock` and giving it up, by unlocking or by waiting on a condition
variable. A worker's `pc` is `check` (about to take the lock), `wait` (on
`has_work`), `nap` (the 1 ms sleep of line 37), `run` or `exit`; `unborn` before
`nyxj_thread_create`. `caller[c]` is the same for a thread in `nyxj_pool_wait`. The ring is
`queue`, `head`, `count` with the index arithmetic of the code. `Signal` is a set of
outcomes: any one sleeper may be chosen. Spurious wake-ups are steps. `status` and
`owed` are history variables; no guard reads them except that a task object is
submitted once.

Thread creation may stop after any number of threads, none included. `MayCall` says who may call:
anybody while the pool is open, tasks still running while it is being destroyed.

`TaskQueue` is what users of the pool rely on. `ImplementsTaskQueue` maps the ring
to a sequence; the pool implements the abstract queue with its fairness.

| Run | Instance | Shows |
|---|---|---|
| `pool` | 3 workers, 1 waiter, 3 tasks, ring of 2, limits -1, 1, 2 | all safety properties; accepted tasks run, `wait` and `destroy` return; refinement, fairness included |

The bounds: two slots for three tasks make the ring fill and wrap; three workers are
one more than the largest limit below "all", so that a signal can go to a worker that
must not start. Each task is submitted once, which bounds the counters. `NothingLost` is
`TypeOK`, `InOnePlace` (an accepted task is in the ring, with one worker or done),
`StatsAgree` and `WaitMeansDone` in one.

Fairness: a thread on its way to the mutex gets it and a task returns. Nothing is
assumed of clients. A task that never returns, or that calls `nyxj_pool_wait` itself (which
could not return: the caller is active), is outside the contract.

**Proofs** (`WorkerPool_proofs`, every value of the constants under `PoolAssumption`).
`TypeCorrect`, `NeverALostWakeup`, `NobodyStranded` and `ThrottleHolds` follow from one
inductive invariant `IInv`. `NoLostWakeup` is not inductive by itself: a step that
sends a worker to sleep is harmless only because of what `active` counts and of
when the limit can move, and a broadcast awakens everybody only among threads already born.
`IInv` therefore carries the type invariant, that `active` is the number
of running workers, that nobody is unborn but while the pool is being created, and
`NoLostWakeup` and `NoStrandedWaiter`. The lemmas `SignalCases`, `AfterSignal` and
`AfterBroadcast` say what a signal does to the number of workers awake; `Counting`
and `Monotone` are the facts on cardinalities they need; `SlotRange` keeps indices in the
ring. Then one lemma per part of the invariant takes the actions one by one.

`NothingIsLost`, `DrainsFirst` and `PoolIsATaskQueue` need a second invariant, `QInv`: every accepted
task is in one cell of the ring or held by one worker, the counters count the tasks in each
status, and what a waiter is owed is accepted or done. These cannot be proved one after the
other: that the counters agree when a task ends depends on the worker holding an accepted
task, and that on the cells being distinct (`SlotDistinct`, `SlotShift`: the arithmetic of the
ring). `PoolIsATaskQueue` is `Spec => Promise!SafeSpec`: `SubmitAppends` says that a submission appends
to the abstract queue, `TakeTakesHead` that a worker takes its head, and each other action is mapped to
its abstract one or to a stutter. The fairness of `TaskQueue`, and liveness, stay with the run `pool`.

## 4. HTTP application

`AsyncServer` models the event loop of `src/net/app.c` with the part of Mongoose that
decides when a request reaches it. The pool is an instance of `TaskQueue`.
`loop` is where the thread of `run` and `destroy` is: `top` of the loop, `io` inside
`mg_mgr_poll`, `drain` and `deliver` in `drain_done`, `wait` in `nyxj_pool_wait`, `join`
in `nyxj_pool_destroy`, `free` in `mg_mgr_free`. A connection parses its next buffered
request only while `is_resp` is 0. A dispatch is one step: the loop is one thread, and
a dispatch touches the shared pool once. `job_run` is cut where it releases
`done_lock`: `HandBack` (handler and list), then `Wake`. `MG_EV_CLOSE` parses and
dispatches what is still buffered, also during `mg_mgr_free`, where
`app->pool` is NULL and ASYNC routes run inline: that is why `DispatchSync` takes them
when the pool is gone. `barred` is `c->data[0] == 'X'`.

Left out: routing and middlewares (a request is one that ends in a synchronous
answer, or one for an ASYNC route), bodies, TLS, allocation failures, and requests whose
bytes arrive in parts.

| Run | Instance | Shows |
|---|---|---|
| `server_safety` | 2 connections, 4 requests (3 ASYNC, pipelined, one closing), 1 heartbeat, queue of 1, 2 workers | order, ownership, gauges, teardown |
| `server_liveness` | an ASYNC, a plain and an oversized request on one connection, an ASYNC and closing one on another, queue of 1, 1 worker | answers, one 413 and last, end of `stop` |
| `server_run_returns` | 3 requests, queue of 1, 1 worker, the code's 5 flush polls | *violation*, see findings |
| `server_read_after_free` | as above | *violation*, see findings |

`EveryJobInOnePlace` comprises the type invariant, the agreement of the gauges with the jobs
and that nothing is left to free at the end. A queue of one makes 503 reachable with two
requests. `FlushPolls` is a
parameter because only the first matters to the safety properties; the run about
the end of `run` uses the code's 5.

Fairness: the loop thread is scheduled (its poll has a timeout), workers run and
handlers return, and a draining connection is closed in the end (strong fairness: the
loop visits it again and again, in `io` only). Clients owe nothing.

**Proofs** (`AsyncServer_proofs`, any connections, requests, capacity, parallelism and number of
flush polls). One inductive invariant, of five parts. `LoopAgrees` is where the loop's thread may be
at each stage, and what is over by then; `PoolAgrees` says that the pool's sets are disjoint and no
list names a job twice; `Placed` puts each job in one of four places (pool's queue, handler, done list,
the batch of `drain_done`); `Counted` ties the gauges to them. `Conversation` is the core: on an
open connection what was answered, the one job under way and what is buffered make up, in this order, all
that was asked. `AnswersInOrder` alone is not inductive: that a response is the next one
owed follows from the connection having been idle when its request was dispatched. A connection that
got its 413 is the exception: it has no job, and nothing more is dispatched for it. `JobsAreNeverLost`, `PipeliningIsInOrder`,
`BusyConnectionsHaveAJob` and `RepliesOnlyOnce` follow. The lemmas
are about lists without duplicates, and then one per step of the loop, of a worker and of a client.

## 5. Eco-Throttle

`EcoThrottle` is `heartbeat_tick`: a sample, the level it asks for, the two `if`s of the
hysteresis in their order, the limit passed to the pool. Loads are hundredths per CPU. Samples are taken
at, below and between the thresholds, so each comparison goes both ways. `run` is a
history variable that counts samples in a row below the level.
It is checked in `services` (section 14).
The second half of `Hysteresis` holds today in a trivial way, since the level never goes down at
all (finding 3); it is kept for the day it does, and its mutant shows it can fail.

**Proofs** (section Eco of `Parts_proofs`, any thresholds, samples and number of threads). The invariant is
that the calm counter is 0 between two samples: the sample that makes it 1 clears it again. So it never
reaches 3 and no step lowers the level (`LevelNeverFalls`), which is finding 3 in general. `LimitFollows` is the
other half, that the pool runs what the level allows. `LevelsFollowTheSamples` (section 14) is both.

## 6. Shared memory ring

`ShmRing` is the second half of `src/runtime/ipc.c`. The ring is a function from cells to
bytes, and a byte is named by where it comes from, so that a frame assembled from two
messages would be seen. Every access to the other process's cursor is a step, and so is each
`ring_copy_in` and `ring_copy_out`, with their two `memcpy`. `seenHead` and `seenTail` are
the local copies of the cursors. A process writes its own cursor alone, which is why reading
that one is no step. The loads and stores of the cursors pair acquire with release: what was
copied before a store is visible to who loads it, as in a sequential interleaving.

`stage` follows `nyxj_shm_create`: a consumer may open the segment as soon as the magic
is written, before the cursors are reset. `LeaveProducer` is `nyxj_shm_close` and also
the producer's death at any point with its successor unlinking the segment; the
successor's ring is another instance. `CrashConsumer` is the consumer's death or close.

`FrameChannel` is a queue of messages; `ImplementsChannel` maps the frames in flight to it.

| Run | Instance | Shows |
|---|---|---|
| `ring` | 6 frames of 0 to 5 bytes, ring of 6, length of 2 bytes, 1 crash | no data race, no corrupted header, refinement, published frames are read |

Six bytes with a length of two let headers and bodies wrap at every offset, let one frame
fill the ring exactly and let one never fit. Fairness: a write that began goes on, the
consumer keeps reading and is restarted, and malloc succeeds in the end (strong fairness of
`GetBody`). The cursors are 64-bit counters of bytes and are not let overflow.

**Proofs** (`ShmRing_proofs`, any messages, any capacity that holds a header, any header, any crashes).
The invariant is about positions, which only grow, and not about cells. `Layout`: the frames
in flight lie end to end from `head` to `tail`, which are at most `Cap` apart. `Contents`: each holds its
bytes. `Draft`: what the producer has copied so far, and that the head it works with is never
ahead of the head there is, so that the room it sees is there. `Reading`: what the consumer has
loaded is the end of a frame. Cells come in only through `OffsetAdd` and
`OffsetDistinct`: less than `Cap` positions apart, two positions are two cells. `NobodyRaces`,
`LengthsAreWhole` and `RingIsAChannel` follow: `Publish` is the channel's `Send`, `Advance` its `Receive`,
and the other steps, the crash among them, stutter.

## 7. Key-value store

`KvStore` is the hash table of `src/runtime/kv.c`. Everything an operation does under
`kv->lock` is one step; `keys` and `sweep` read the clock before they lock, so they are
two (`reader` holds their `now`). Operations that read the clock twice (`set`, `expire`,
`incr`, `ttl`) end at a `later` instant. A bucket is the set of its entries: the order in
a chain is not observable. `Rechain` is `find_locked` with its lazy eviction and whatever replaces the entry found;
`Insert` is the other half of `set_locked`, with `grow_locked`, which may fail. Counters
of hits, misses and writes, prefixes and sorting are left out. A number above `MaxNumber` is not reached.

`KeyTable` is the promise: a map without expired keys. `ImplementsTable` maps the entries
alive at `clock` to it; evictions, sweeps and growth become stuttering, and every answer must be
one the map can give. Only `keys` is not atomic: between its two steps keys
come and go, so that it may return a set that was never alive all at once. `seen` is the
history of what was alive, and `EndList` says what such a listing still guarantees.

`KvSnapshot` follows `nyxj_kv_save` step by step over files whose content and names outlive
the program, and `nyxj_kv_load` at its restart. A file has two halves, so that a
writer can be cut off or two writers mixed. `Die` is a crash at any point or the ordinary end
of `main`. The power does not fail: what was written is there after a crash (the code does
not call `fsync`). `delay` is the longest time a save waited for the lock: what was set meanwhile
is recorded with that much more than its time to live.

| Run | Instance | Shows |
|---|---|---|
| `kv_table` | 2 keys in one bucket of 2, growth to 4, 3 values, TTL 1 or none, clock to 1, 1 lister, 1 sweeper | refinement, soundness of the table, expired entries are removed |
| `services` (section 14) | 1 key, 1 saver, TTL 2, clock to 3, 2 ends of the program, a failure of any call on the files | the snapshot is complete or absent, lifetimes |

`SnapshotSound` is the type invariant, `NeverTorn`, `MissingOnlyInTheWindow` and
`LivesAsLongAsGiven` in one. The hashes make the two keys share a bucket before the growth and part after it. Keys do not
influence each other in a snapshot, so one is enough there. Memory that runs out while the save copies the
table (`kv.c:310-314`: the record is skipped, or its `ttl_ms` is lost and the entry is permanent after the next load) is
not modelled. The gap between `remove` and
`rename` is real: `MissingOnlyInTheWindow` says it is the only way to have no snapshot.
`NeverTorn` needs the saves to one path to be one at a time, as they are in `nyxj-server`: they
share the temporary file, and with two `Savers` the second truncates what the first renames.
Fairness: the heartbeat sweeps again and again.

**Proofs** (`KvStore_proofs`, any finite set of keys, any hash function, values, times to live, and any
threads that list and sweep). `Shape` is `TableSound` on positions: every entry in the bucket of its hash, one
per key, and `count` their number; a table that grows keeps it because a hash modulo `2n` is
its value modulo `n` or `n` more (`ModDouble`). With it every operation is described by what it takes
out of the set of entries and puts into it (`RechainEffect`, `InsertEffect`, `SweepEffect`, `ClearEffect`), and
no buckets appear after that. `ReadersBehind` (the clock a listing or a sweep read is never ahead) and
`ListingSound` (a listing has seen every key its old clock takes for alive) complete the invariant.
`TheTableIsSound` and `TheTableIsAMap` follow; the second, `Spec => ImplementsTable`, has a lemma
per operation. `MaxNumber` bounds the counters from above and must leave room for 1, which `incr` of a
new key stores.

**Proofs** (`KvSnapshot_proofs`, any keys, values, times to live and crashes). `SnapshotsAreSound` has
one hypothesis, `One(s)`: a single thread saves to the path. It is the assumption above, and not a
convenience: with two the property is false. The invariant says which of the two files is being written,
which is complete, when none has the name of the snapshot, and how far an expiry may lie in the
future given how long saves have waited (`GoodEntries`, `GoodText`, `Waiting`). `SnapshotsStaySound` says it of
the composition of section 14.

## 8. Gossip

`Gossip` is `src/net/cluster.c` on several nodes. `Tick` is `gossip_tick`, `Deliver` is
`udp_in` with `merge` (both run on the event loop, one at a time), `Start` and `Crash` are
the life of a process. `members[n]` is the table of `n` and `net` the datagrams that may
still arrive: delivering one leaves it there, so it may arrive again, later than others, or
never. Time passes in gossip intervals, and only when every timer has fired (the nodes'
clocks are as good as each other), and a datagram does not outlive `Delay` intervals. A program that
starts again draws a new id and is a new node; its address is not reused. Malformed
datagrams and loads are left out.

| Run | Instance | Shows |
|---|---|---|
| `gossip` | two founders and one that joins at any time, suspect after 2, dead after 3, seeds every 2, one crash, clock to 6, `Delay` 0 | news is real, never goes back, a crash is detected in bounded time, the dead stay dead |

What the properties say that the code's comments do not: a rumour counts as hearing from
its subject, so a crash may be found out later than `dead_after_ms` at each node, by almost as much again
for every other node that passes the rumour on just before it would give up;
`DetectedBy` is the exact bound (one interval less fails), and six
intervals are what it needs to be reached with one relay. It rests on `merge` taking later
heartbeats only, never equal ones. `TheDeadStayDead` rests on leaving the dead out of the
news: with them in, a node that joins late would dig them up. With `Suspect` 1 a node is alive
only for those that heard it in this very interval, and the periodic seeds would never
matter; hence 2 and 3.

`Gossip_proofs` proves the type invariant, `NewsIsReal`, `NeverGoesBack`, `TheDeadStayDead` and
`DetectedInTime` for every set of nodes, seeds, delay and thresholds. The inductive
invariant of the first three adds to them that the datagrams are real too: each may become a belief
at any time. The last needs two more facts (`Settled`): an entry that is dead is overdue,
so the next tick, which judges by age alone, judges it dead again; and a node that does not run knows
nobody.

`CrashesAreDetected` is `DetectedInTime`. Its argument counts nodes. Call a node spent, for a crashed `p` and
a heartbeat `h` of it, when it knows `h` or later, or has crashed itself: it will not take `h` for news again,
and a spent node stays so (`SpentGrows`). A belief is passed on for less than `Dead` intervals after it was
taken, and what is passed on lives `Delay` more (`Life`). Hence every datagram and every belief about a crashed
node was sent or taken over no later than the crash plus what the nodes spent so far allow, one `Life` each
(`BeliefsFade`, `NewsFade`), and who
learns `h` becomes spent in that very step, so that the allowance grows before it is used (`Spending`). There are
at most as many spent nodes as watchers, which bounds it all. `AllJudged` adds that after a tick no
overdue entry is taken for anything but dead, and `Timed` that crashes and datagrams are not of the future.

## 9. Reading JSON

Five pieces of code read JSON: the parser (`src/core/parser.c`), the streaming parser
(`src/modules/sax.c`), the zero-copy view (`src/modules/view.c`), the gate
(`src/modules/gate.c`, on the streaming parser) and the repair (`src/modules/repair.c`).
Each has its own handling of containers, strings and ends, and only the lowest primitives
(`src/core/scan.h`) are shared. The risk is that they disagree: the gate
lets pass what the parser behind it reads otherwise, or a chunk boundary changes a value.

A text is a sequence of bytes, named by what they mean to the code: `JsonText` has the
structural characters, figures, the letters of escapes, one control byte, and enough leading
and continuation bytes of UTF-8 to meet each row of the table in `nyxj_utf8_invalid_at`.
The digits after `\u` are bytes like any others, read by `hex4` and encoded by `utf8_encode`; ASCII characters
that the code treats alike come out as one (`ctl`, `x`), and so do bytes of UTF-8. The literals are their first two letters, and
a number is an exact decimal `<<m, e>>`, so that equal doubles are equal pairs as long as the
figures are few; the rounding of `strtod` and `%.17g` is out of scope. Operators of the modules
are named after the functions; where an operator needs an intermediate result more than once it is
the parameter of a helper, which stands for the lines that follow in the same function.

| Module | Code | State |
|---|---|---|
| `JsonTree` | `value.c` | none: a tree is a value, a clone the tree itself |
| `JsonText` | `scan.h`, `parser.c`, `serializer.c`, `buf.c` | none; options are a record |
| `SaxParser` | `sax.c` | one record, the struct; `feed` is a fold of `Byte` |
| `SafeGate` | `gate.c` | none; a policy is a record |
| `JsonView` | `view.c` | none: `view_parse` returns the tokens with `next` and `size` |
| `JsonRepair` | `repair.c` | one record, the `rctx`; `Turns` is the loop |
| `JsonReaders` | a client | feeds a streaming parser piece by piece, may reset it |

Every state of `JsonReaders` is a text cut in some way, and every property compares two readers
there. `SaxAgreesWithParser`: same verdict, and the events are those of the tree, in one document or
a stream of them, with a handler that stops; the two texts where the verdicts differ are named in the property
(`EndsInMark`): a stream that ends within a byte order mark is a stream of no documents to
`nyxj_sax_finish` (`sax.c:366`), although `nyxj_sax_feed` calls such a mark truncated (`sax.c:300`) and the parser
refuses the text. `GateStandsForParser`: what the gate allows,
the parser reads within the policy; what it calls malformed, the parser refuses.
`ViewAgreesWithParser`: same verdict, same tree, same values at the end of paths, and token arrays
that are too small are refused. `RepairIsSound`: a valid text is not touched, one with comments and
trailing commas becomes its tree, and of anything else comes JSON or nothing.
`WrittenTextReadsBack`: the serializer and the parser are inverse.

| Run | Instance | Shows |
|---|---|---|
| `json` | every sequence of the fragments of `MCJsonReaders` up to a size: structure 12 bytes; structure with depth 2, one element and a handler that stops after four events 9; streams 6; strings 9 with tokens of 4; units after `\u` 14; UTF-8 6, with a reset; numbers 6; broken, marked-up and sloppy texts 5, texts broken off in an escape 8 | the five properties |

The sizes: twelve bytes hold an object with two keys or a key twice and something nested; fourteen a string of
one surrogate pair, in pieces that end at any of its eight digits; nine an escaped control byte and one more byte; six the shortest numbers beyond and below the doubles (`1e999`, `1e-999`)
and the longest character with its quotes; five any pair of mistakes in a container. What the
readers keep between bytes is bounded by the depth, which is small in the options.

Two carve-outs in `RepairIsSound` are honest limits of the code: a lone `\ud800` in a string
is copied, so that the "repaired" text does not parse, although `DOCUMENTATION.md:2494` says the
output is always valid; and invalid UTF-8 is copied as well. Texts nested more deeply than
the limit are cut off there.

## 10. Documents

`DocPatch` is `src/modules/patch.c`: JSON Pointer, the six operations of JSON Patch, `nyxj_diff`,
merge patches. Names of keys are sequences of characters, because the escapes `~0` and `~1` are
what can go wrong in a pointer. `fresh` is what the memory of the path buffer holds before it is
written, see finding 4. `DocSync` is the use that `DOCUMENTATION.md`, chapter 15, describes: a server
edits a document and sends patches or merge patches, a client applies them. `Begin`,
`Operation` and `Finish` are `nyxj_patch_apply`, one operation at a time on the clone.

`ClientShowsAVersion`: the copy is always a version the server had. `ClientCatchesUp`: when all is
applied, it is the last one sent. `MovesLoseNothing`: a move keeps the bag of leaves, a copy adds
what it copies, no object gets a key twice. The instance (`MCDocuments`): five documents with two keys
that need escapes, arrays that grow and shrink, fourteen operations (six kinds, some malformed),
two changes and two patches under way. No document has a member that is `null`: a merge patch cannot carry it
(RFC 7396 says so too).

## 11. Frames over the socket

`IpcFrames` is the first half of `src/runtime/ipc.c`. The wire is a sequence of units, headers and
bytes of bodies, each named by its message. A header is one unit: the four
bytes are one `send`, and are taken to arrive together (a receiver that timed out inside them would
drop what it has read and report a plain timeout). Either process may die after any unit. A timeout
before the header loses nothing (`TimedOut`); after it, `nyxj_ipc_recv` reports a truncated frame
(`Truncated`), and the receiver closes the channel, because what is left in the socket is the
middle of a frame.
`ImplementsChannel` maps the frames sent in full and not yet returned to `FrameChannel`, the
abstract channel the shared ring implements too. Messages of 0, 1, 2 and, over the limit, 3 bytes. One thread
per end is assumed.

**Proof** (section Frames of `Parts_proofs`, any messages, sizes and limit). `FramesAreAChannel` rests on one fact
about the stream: what the receiver has read of the frame it is in, with what is on the wire and what the sender
has still to put there, is a sequence of whole frames of the messages accepted and not yet returned,
followed by the frame that was begun but not accepted (`Splits`), if any; after a timeout in mid frame the
channel is closed and nothing is claimed of the rest. So the header that is read next
is that of the oldest message in the queue, and the units after it are its body. Frames over the limit are
never accepted by the receiver, which is why the channel is one of the messages that fit.

## 12. Proxy, plugins, replicas

`SafeProxy` follows a request through `proxy_handler`, `nyxj_gate_check` and `nyxj_http_request`
(`src/net/client.c`): each event of the client's connection is a step, the deadline may pass
at any time, and closing the connection at the end may still deliver a message. `GateHolds` relates
the verdict under the policy the request was dispatched with to what the upstream has
seen and what the client gets. Verdicts are the constant `Verdict`; what `nyxj_gate_check` decides
is `SafeGate` (section 9). `Quiet` is an assumption about the host: `nyxj_app_enable_gate_proxy` frees the
state before it, so it must not be called while requests use it. Fairness: the worker
runs and time passes; nothing is assumed of the upstream, which may never answer.
Section Proxy of `Parts_proofs` proves `TheGateHolds`, that is `GateHolds`, for any requests, policies and verdicts. The invariant is one
of a single request (`Sound`): a step leaves all others as they were (`OnlyOne`), except a change of the
policy, which requests do not notice since each keeps the one it was dispatched under.

`PluginHost` is `src/net/plugin.c` with the order of `nyxj_app_destroy`: drain the pool, let
the connections go (which can still dispatch, on the loop), free the routes, unload in
reverse order. `NoCallIntoAClosedLibrary` says that this order is right. Plugins whose load fails after
registering a route are excepted (`failed`): nobody takes their routes back, and a request for one
calls into a closed library.
Section Host of `Parts_proofs` proves it (`NoCallAfterClose`) for any plugins and requests. The invariant lists what is over
at each point of the destruction (`HostCalls`), that slots and open libraries are the same, the last one
possibly shut down (`HostSlots`), and where routes lead (`HostLoading`).

`Replicas` is `src/modules/reliability.c`: the vote, the repair that may find no memory for some copies, writes,
and faults that put any value in any copy. `nyxj_equals` looks at the first of equal keys only, so an object
with a key twice and a different value each time does not equal its own clone, and three good copies of it are no majority:
such a value is read as NULL, without any fault. `MasksOneFault` says so: with at most one fault a read
returns what was written if that equals itself, NULL if it does not, and never what the fault left.
`OneFaultIsMasked` proves it for any values, any relation in the place of `nyxj_equals` and any number of faults. The
invariant: no fault since the copies were last alike, no wrong copy; one fault, at most one. Then the
other two are the majority if they equal themselves; if not, there is no majority, since two of any three copies that agree
would include a right one. A repair that lacks memory leaves the wrong copy with its fault still counted.

## 13. Not modelled, and why

- Metrics: every update is one critical section; the unlocked walk over the collectors is a
  matter of who calls when, listed as a hazard.
- Queries, schemas, mapping, MessagePack, sanitizing of strings: sequential conversions without state
  between calls, of which a model would repeat the code.
- Arena and ownership of memory in the tree: TLA+ values cannot leak; allocation failures are modelled
  where they change what a caller sees (pool creation, growth of the table, frames, plugins, replicas,
  the proxy).
- Front ends, options, logging, TLS, OpenAPI: input, output and glue.
- Listening, accepting and connecting of IPC; the names of segments; the Windows variants.
- Loads, `least_loaded` and malformed datagrams of the gossip.

Noticed while modelling, and left as hazards or remarks rather than findings, since no
document promises otherwise or a model would add nothing: `proxy.c:84` reads the code of an error that
was not set when there is no memory for the URL (`NoUrl` takes either answer); a response cut off by the
upstream's close is delivered as complete (`part` in `SafeProxy`); SIGPIPE is not ignored on
platforms without `MSG_NOSIGNAL` (`ipc.c:146`); two saves to one path share the temporary file; a stream cut off
within a byte order mark is accepted (`sax.c:366`, section 9); `nyxj_tmr_read` and `nyxj_parse_verified`
report corruption of an unharmed object that has a key twice with different values (section 12), where `DOCUMENTATION.md:2641`
has "NULL if no two copies agree".

## 14. The run of the services

`Services` composes the parts that keep to themselves. The variable `system` names the part,
`v1` to `v14` are its variables, and each part is an instance of its module with these substituted, so that its
`Init`, `Next` and properties are those of the module. A state of one part is never a state of another.
`MCServices` adds `DocSync`, whose recursive operators no theorem may reach, and gives the constants their
values; the run checks all seven.

| Run | Instance | Shows |
|---|---|---|
| `services` | documents, replicas (4 values, one of them not equal to itself, 3 faults), frames, proxy (2 requests, 2 policies, enabled twice), plugins (2, with 2 requests), eco levels, snapshots: as above | `ClientShowsAVersion`, `ClientCatchesUp`, `MovesLoseNothing`, `MasksOneFault`, `ImplementsChannel`, `GateHolds`, `EveryForwardEnds`, `NoCallIntoAClosedLibrary`, `Hysteresis`, `SnapshotSound` |

Two requests let one outlive a change of the policy the other is dispatched under; three faults
are one more than two copies can hide; two plugins are unloaded in an order.

**Proofs** (`Services_proofs`). The theorems about a part (`Parts_proofs`, `KvSnapshot_proofs`) are instantiated with `v1`
to `v14` and carried over to `Services!Spec`: `OneFaultNeverShows`, `TheGateHoldsAlways`, `HandlersStayInOpenLibraries`,
`SnapshotsStaySound`, `TheSocketIsAChannel` and `LevelsFollowTheSamples` state the properties the run checks, for
every value of the constants. `PartStays` says that no step changes `system`; `CopiesRuns`, `ProxyRuns` and so on, that
while it names a part a step of the composition is one of that part or a stutter. `ServicesAssumption` is
the assumptions of the parts and that one thread saves to a path: `main` of the server saves once, at its end.

## 15. Findings

1. `job_run` reads `j->conn_id` after unlocking `done_lock` (`src/net/app.c:346`); the
   event loop may have freed `j`. Run `server_read_after_free`.
2. `nyxj_app_run` can return with an async job unfinished (`src/net/app.c:661`), unlike
   `DOCUMENTATION.md:3388` and `3763` say. Run `server_run_returns`.
3. The calm counter is cleared in the heartbeat that increments it
   (`src/net/app.c:585`), so the server never leaves an eco level. Run `eco_recovers`.
4. `nyxj_diff` of two roots of different kinds reads a buffer it has not written
   (`src/modules/patch.c:206`), so that the path of the operation is arbitrary, where
   `include/nyxj_patch.h:20` promises a patch that turns one into the other. Run `diff_root`,
   on an array and an object.

## 16. How to run

    tlc -workers 2 -config pool.cfg MCWorkerPool
    tlc -workers 2 -config json.cfg MCJsonReaders
    tlc -workers 2 -config services.cfg MCServices
    tlapm WorkerPool_proofs.tla
    tlapm AsyncServer_proofs.tla
    tlapm ShmRing_proofs.tla
    tlapm KvStore_proofs.tla
    tlapm KvSnapshot_proofs.tla
    tlapm Gossip_proofs.tla
    tlapm Parts_proofs.tla
    tlapm Services_proofs.tla

Each `.cfg` is run with the `MC` module of the same family. Definitions
such as `NoSignal` or `ParsesAhead` that no action uses are plausible mistakes; replacing
the definition that follows with one of them makes the property named for it in
`PROJECT.json` fail, which shows that the property depends on that line of code.
