# Formal models of the inference platform

This directory holds TLA+ specifications of the platform in `src/`, the TLC
configurations that check them on small instances, and machine-checked proofs of
their main properties. `PROJECT.json` maps every definition to the lines of
source it stands for.

## 1. The system

A request travels `gateway -> Redis stream -> scheduler -> Redis list -> worker ->
Redis mailbox -> gateway`. All processes share nothing but Redis; inside a process
everything runs on one asyncio loop (plus worker threads for blocking calls), so
the unit of interleaving is what lies between two awaits.

| Component | State it keeps | Operations | What makes it correct |
|---|---|---|---|
| `RequestStream` (`messaging/queues.py`) | stream entries, one consumer group with its last-delivered id and pending list | `publish`, `consume`, `ack`, `depth` | an accepted request is scheduled or rejected, exactly once unless a process dies; backpressure only when work waits |
| `DynamicBatcher`, strategies (`scheduler/domain`) | buckets by model | `add`, `collect_ready`, `flush_all` | homogeneous batches within the size limit, no item lost or doubled, no item older than `max_wait_ms` left behind, no starvation |
| `SchedulerLoop` | a batcher, a slice of the stream, its consumer name | `_tick`, `_dispatch`, `_reject`, `stop` | acknowledge only what is durable elsewhere; crash loses nothing |
| `BatchQueue` | `pip:batches`, one processing list per worker | `dispatch`, `reserve`, `complete`, `recover_orphans` | a batch is in one place; it leaves for good only when answered |
| `WorkerLoop` | slots, heartbeat task | `start`, `_serve_loop`, `_process`, `stop` | results before `complete`; an image stays until its request is answered, also across redeliveries (the code breaks this where an attempt is given up) |
| `DeadWorkerJanitor` | a snapshot of heartbeats | `_scan_once` | what a dead worker held comes back |
| `ModelRegistry`, `ModelCatalog` | LRU cache, in-flight loads, `latest` aliases | `get`, `promote`, eviction | one load per model at a time, bounded cache, a resident model returned |
| `ImageStore`, `ResultBus` | images and mailboxes with TTLs | `put`, `mget`, `delete`, `publish`, `wait` | image present until answered; first result wins |
| Gateway use case, data-plane client | a waiting call per request, a pool of connections | `execute`, `submit` with its undo, `await_result` | every call ends in a result or a typed error, a refused one leaves nothing behind |
| `CircuitBreaker` | state, failure count, time opened | `allow`, `record_success`, `record_failure` | opens on an outage, probes, closes on recovery, whatever order calls end in |
| `TokenBucketRateLimiter` | bucket per key | `allow`, in several threads | within `burst + rate * t`; races do no lasting harm; `Retry-After` is long enough |
| Metrics aggregator | last snapshot | `collect`, `_loop`, `stop` | a snapshot is off by no more than what moved meanwhile; the sampler survives errors |

Interactions: the gateway writes the image, then the stream; the scheduler writes
the batch list, then acknowledges; the worker moves the batch to its own list,
reads the images, writes the mailboxes, removes the batch, deletes the images;
janitors move batches between lists on behalf of workers they believe dead.

Hard to test, and what the properties below are for (every one at its line under
`hazards` in `PROJECT.json`): a process that dies between two Redis commands; a
janitor that acts on a snapshot which is stale by the time it acts; several drains
of one list at once; a command that took effect although its reply was lost; calls that
report to one breaker long after it changed its state; threads that race in a function
without a lock; a connection pool that is empty when an undo needs it; an
exception half way through a tick or a batch; a shutdown at any await; replicas
sharing one consumer group while the stream is trimmed under them; timers of
requests that a strategy keeps passing over.

## 2. The modules

| Module | Models | Role |
|---|---|---|
| `WorkerPool` | `BatchQueue`, `WorkerLoop`, `DeadWorkerJanitor`, the outcome of `BatchExecutor`, image and mailbox presence | composes the components that meet in the processing lists |
| `AtLeastOnceQueue` | the docstring of `BatchQueue`, seen by its users | abstract specification `WorkerPool` implements |
| `RequestHandover` | what `RequestStream` and `scheduler_loop.py` promise a gateway | abstract specification `SchedulerLoop` implements |
| `BatchBuffer` | what the docstring of `batcher.py` promises the scheduler loop | abstract specification `DynamicBatcher` implements |
| `DynamicBatcher` | `DynamicBatcher` and its three strategies, with a clock | component |
| `SchedulerLoop` | `RequestStream` and `SchedulerLoop`, with an abstraction of the batcher | composes gateways, stream and replicas |
| `ModelRegistry` | `ModelRegistry.get` of one worker process, the lock it uses and the timeout that cancels it | component |
| `ModelServing` | `resolve`, `preload`, `promote`, the `latest` alias of `ModelCatalog` | composes slots and promotions with `ModelRegistry` |
| `CircuitBreaker` | the class of the same name | component |
| `Gateway` | `SubmitInferenceUseCase`, `GatewayDataPlaneClient`, the exception handlers, the connection pool | composes the calls of a gateway with the breaker and with the data plane as a call sees it |
| `RateLimiter` | `TokenBucketRateLimiter.allow` in the thread pool, and `enforce_rate_limit` | component |
| `MetricsSnapshot` | `PlatformStateCollector`, `AggregatorLoop`, the lifespan of the metrics service | component beside a platform that goes on moving batches |
| `MCWorkerPool`, `MCDynamicBatcher`, `MCSchedulerLoop`, `MCModelRegistry`, `MCModelServing`, `MCGateway`, `MCRateLimiter`, `MCMetricsSnapshot` | - | the functions the TLC instances use as constants, and their model values |
| `QueueLemmas` | - | what `Cons`, `Append`, `Front`, `Tail`, `RemoveAt`, `SubSeq` keep of a sequence's contents, and of its having no repetitions |
| `WorkerPoolProofs`, `SchedulerLoopProofs`, `ModelServingProofs`, `GatewayProofs`, `RateLimiterProofs`, `DynamicBatcherProofs`, `MetricsSnapshotProofs` | - | the theorems |

Common conventions. One Redis command is one step, because Redis executes commands
one by one; what an `await` separates is separated in the model, what it does not
separate is one action. Index 1 of a sequence is the left end of a Redis list or the
oldest entry of a stream. A definition whose comment begins with "A slip" is not part
of the specification: it is a plausible wrong version of the definition that follows
it, kept to show that a property notices. Faults are ordinary actions with a conjunct
`Fault(kind)`: the constant `Faults` says which kinds an instance has, `MaxFaults`
how many may happen in one behaviour. There is no other bound on `WorkerPool`; the
proofs hold for every value of both.

### WorkerPool

| Code | State and actions |
|---|---|
| `pip:batches`, `pip:processing:{w}` | `batchQueue`, `processing`; `Dispatch` (LPUSH), `TakeRight` (BLMOVE right to left), `RemoveFrom` (LREM 1), `RecoverOne` (one LMOVE left to left) |
| `_serve_loop`, `_process` | `pc`, `job`, `fetched`, `outbox` of a slot: `Reserve`, `FetchImages` (MGET), `Execute` / `ExecuteTimesOut` / `ExecuteRaises`, `PublishResult` (one RPUSH), `Complete`, `Cleanup` (the `finally`) |
| an exception in `_process` | `SlotError` goes straight to the `finally`; `CleanupFails` is the suppressed DELETE; `ReserveReplyLost` is a BLMOVE that took effect and whose reply did not arrive |
| the `finally` of a failed attempt | `GiveUp` notes in the history `spoiled` the requests whose images this attempt deletes before they are answered (`ExecuteRaises`, `SlotError`, `Stop`); `ImageExpires` notes those whose TTL ran out |
| heartbeats | the hash reduced to absent / fresh / stale and the task to `beating`: `Beat`, `Expire` (nobody beats, time passes), `Stall` (the task is late by more than `stale_after_s`), `HeartbeatTaskDies` |
| `_scan_once` | `janitor`, the rest of the snapshot: `JanitorScan` (HGETALL), `JanitorMove` per LMOVE, `JanitorDrained`, `JanitorForget` (HDEL); `JanitorError` is the suppressed exception |
| process | `worker`: `Start`, `RecoverOwn`, `Launch`, `Crash`, `Stop` (lifespan, all tasks cancelled at their awaits), `Stopped` |

Abstractions: a batch and a request are model values; which logits come out is left
out, which status comes out is not (`Poison` batches make `registry.get` raise,
`Corrupt` images do not decode). The mailbox keeps its first result and whether a
further one arrived: the gateway pops the head once. `pip:batches` is filled by an
arbitrary environment that pushes each batch once, and `MembersAssumption` gives it
batches that are not empty and share no request; that this is what the scheduler does is
`HandoverContract` of `SchedulerLoop`, proved for any number of replicas and faults.

### DynamicBatcher

`bucket`, `size`, `entered` are the buckets, the counter behind `pending` and the
order of arrival; `age` is the clock, in milliseconds, of each waiting request. The
class is synchronous, so `Add` and `Tick` happen only between calls; a call of
`collect_ready` or `flush_all` is taken apart into `NextBucket` and `FlushOne`, one
formed batch a step, so that the property of an intermediate state can be stated.
`Before` and `Ranks` are the sort keys of `order_items` and `rank_buckets`; where two
items have equal keys of a weighted strategy either may come first, because that key
reads the clock once per item.

### SchedulerLoop

| Code | State and actions |
|---|---|
| `RequestStream.publish` | `client`, `stream`: `CheckDepth` (XLEN) and `Enqueue` (XADD MAXLEN ~) are two steps; the approximate trim drops between nothing and the excess |
| `consume`, `ack` | `delivered` (the group's position), `pel` (its pending list): `Deliver`, `Ack` |
| `_tick` | `pc`, `slice`, `bucket`, `formed`: `Read`, then for each entry `Feed`, or `Reject` and `AckRejected`, then `Flush` until `Collected`, then `Push` and `AckPushed` per batch, `EndTick` |
| errors | `TickError` (the command had no effect), `ReplyLost` (it had): both leave the tick through `Raise`, which drops the local variables and keeps the batcher |
| process | `replica`: `Stop` ends the loop at its next test of `_stop`, then flushes what is buffered; `Crash`; `Start` |

Whether a deadline has passed when an entry is fed is a choice of the environment
(`Feed` or `Reject`). `Wait` makes the timer of a buffered request fire. `batched` and
`rejected` count the LPUSHes and REJECTED results of a request; they are history and
no guard reads them. Which items of an over-full bucket leave first is left open here,
`DynamicBatcher` decides it.

### ModelRegistry

| Code | State and actions |
|---|---|
| `_cache`, an `OrderedDict` | `cache`, the most recently used model last; `WithMostRecent` is assignment and `move_to_end` |
| `_lock` | `lock`, the callers that have asked for it, the first one has it. `asyncio.Lock` is first come, first served, and an `acquire` of a free lock does not suspend: `running` is the caller that goes straight on, and nobody else moves meanwhile |
| `_inflight` | `inflight`: the loader whose event is the mark of a model |
| `get`, fast path | `Ask`, then `FindsModel`, `BecomesLoader` or `FindsLoader` |
| `get`, waiter | `Rejoin` after the event, then `RereadHit` or `RereadMiss` (the `RuntimeError`) |
| `get`, loader | `Loaded` / `LoadFails` (the two threads of `_load_and_warm`), `Insert`, `Unloaded` / `UnloadFails` for each victim (the only await under the lock), `Release` (the `finally`) |
| `wait_for` in `_process` | `TimesOutWaiting`, `TimesOutLoading`, `TimesOutReleasing`: where the cancellation strikes decides what still runs |

A model is a key of the catalog. `Callers` stands for the serving slots and for
requests to `promote`, which is a `get` followed by one assignment to the alias; that a
`promote` has no timeout makes the model admit more than the code. A load
has no duration and a model no contents. That a slot still infers with a model which
another slot evicts is not prevented by the code and not claimed here.

### ModelServing

`EXTENDS ModelRegistry`, and each of its steps is one of that module with what it does
to the catalog beside it (`Beside`). `Resolve` is `resolve` and the start of `get`: a
request without a version (`Unpinned`) asks for `latest`, and fails at once when the
catalog has no such version, which a `catalog.json` may bring about (`Configured` is
not checked against `Models`). `Flips` is the `set_latest` of `promote`, in the step in
which `get` returns, for there is no await between them. `warm` is history: the
versions whose load and warm-up have ever succeeded.

### Gateway and CircuitBreaker

| Code | State and actions |
|---|---|
| `breaker.allow()` | `Enter`, `Refuse`; a client told `circuit_open` may come back (`ComeBack`) |
| `submit` | `Put` (SET), `Check` (XLEN), `Add` (XADD), and on any exception of the last two `Undo` (DEL) before the exception goes on |
| `await_result` | `Block` takes a connection, `Answered` and `TimesOut` give it back |
| `except RedisConnectionError` | `Raise`: failure recorded and `QueueOverflowError`; any other exception passes unrecorded and is a 500 |
| `install_exception_handlers` | `HTTP` and `Handled` |
| connection pool | `Free`: every call in BLPOP has one. `Exhausted` is a command that finds none and raises at once, the DEL of an undo included; `CommandFails` is one that breaks before or after it took effect |
| breaker | `state`, `failures`, `ripe` (whether `reset_timeout` is over); `MaybeHalfOpen` is the property that moves OPEN to HALF_OPEN when it is read |
| scheduler | `Schedule`: reads an entry, sheds it if its deadline has passed, else it joins `queued` (batcher, `pip:batches`, or a processing list that will be recovered). Nobody looks at the deadline after that |
| worker | `HandOut` (BLMOVE; `working` counts the slots that have the request in hand), `Serve` (image or "image missing", then cleanup) |
| a worker that fails | `ServeInPart` (answered, but the batch or the image stays), `GiveUp` (exception or stop: no answer, the image deleted, the batch requeued; noted in `spoiled`), `Recover` (dead or stalled: redelivered, and the stalled slot may go on) |
| image TTL | `ImageExpires`, at any time, because 60 s and `request_timeout_ms` are unrelated; noted in `spoiled` |
| process | `Crash`: calls are lost, the new process begins with a closed circuit |

The data plane is the part of `SchedulerLoop` and `WorkerPool` that a call can notice,
one request at a time; all of its actions may never happen. Redeliveries are bounded by
`MaxFaults`, not by a heartbeat or a list: which of them can really happen, and when, is
`WorkerPool`'s. Publish, `complete` and cleanup are one step of `Serve`, because no call
reads an image or a list; `ServeInPart` has the ways it stops half way, and `WorkerPool`
has them apart. `published` never shrinks because nothing
deletes stream entries. `expired` says for a request whether its `deadline_at` has
passed. BLPOP is given the same span and begins later, so it cannot time out before.

### RateLimiter

One bucket key, several threads, because `enforce_rate_limit` is a plain function that
FastAPI runs in its thread pool and `allow` has no lock. The steps end where a thread
can lose the interpreter at a call: `Call` (reads the clock), `Get`, `Create`, `Refill`
(up to the return of `min`), then the rest as `Admit` or `Refuse`. Buckets are named
after the thread that made them, for two threads may each make one, and the first goes
on with a bucket nobody else will see. `RetryAfter` is the header: `round`, half to even,
and at least one second. `Grace` is what that rounding can take from the wait: nothing
where a request is refilled within the second every 429 asks for, else half a second. `since`, `admitted`, `alone`, `promise` are history: a window
may be opened at any moment when no thread is in `allow` (`OpenWindow`), so the
properties speak of all windows. `MaxTime` bounds the clock for TLC.

### MetricsSnapshot

`CountQueue` (LLEN), `CountWorkers` (HGETALL), `CountList` (LLEN per worker of the
HGETALL), `Publish`, with `Dispatched`, `Reserved`, `Completed`, `Recovered` and `Beats`
in between. `moved` counts the moves during a collect (`MaxMoves` bounds it, and
`MaxErrors` the failed commands). `Start`, `Ping`, `PingFails` are the lifespan with the
retries of `ping_redis`; `CommandFails` is the `except` of the loop, `Stop` its
cancellation. XLEN of the stream and the count of fresh heartbeats are each read at
once and are left out.

### The abstract specifications

`AtLeastOnceQueue` has three places for a batch (queued, held, done) and the set of
answered requests. Its steps are enqueue, take, return, finish and answer; `Finish`
demands that every request of the batch has been answered. `WorkerPool` maps to it by
`Abstract`: queued if the batch is in `pip:batches`, held if it is in some processing
list, done if it was dispatched and is in neither. `QueueContract` says every
behaviour of the pool maps to one of the abstract queue: in particular a batch goes
from a list to nowhere only once it is answered, and comes from nowhere only once.

`RequestHandover` follows a request through `new`, `refused`, `accepted`, `batched`,
`rejected`, `trimmed`, and keeps the set `open` of requests whose entry is unread or
pending. `Batch` takes accepted, open requests of one model, no more than fit; `Close`
demands that they were batched or rejected; only `Accept` drops entries, and only ones
nobody has dealt with. There is one scheduler in it and no tick, slice, pending list or
fault. `SchedulerLoop` maps to it by `StateOf`, which has two values of its own for what
must never be ("handled twice", "handled and trimmed"). `HandoverContract` joins the
three things a reader of the stream wants to know: once, in a proper batch, and
acknowledged after that.

`BatchBuffer` has a place for each request (outside, waiting, due, gone), the kind of
call that runs and the batches it has formed. `Closed` says when a bucket has to give a
batch, `Form` that the batch is full or all there is, `Return` that nothing closed is left.
No strategy, clock or order of buckets is in it, so it is what `SchedulerLoop` may assume
of a batcher whatever strategy is configured. `DynamicBatcher` maps to it by
`PlaceOf`. `Tick` may take several requests from waiting to due at once (`Elapse`);
`NextBucket`, the choice of what to flush next, is a stutter.

## 3. The runs

| Run | Instance | What it asks and shows |
|---|---|---|
| `wp_slots` | 1 worker, 2 slots, 3 batches (a pair with a corrupt image, a single, one for an unknown model), any one fault of a slot, the process or the storage | The slots of one worker share a processing list and complete out of order: `AnsweredBeforeForgotten`, the refinement `QueueContract`, and `FirstAnswerGood`: a first answer is an error only for an image that does not decode, ran out its TTL, or was deleted by a given-up attempt at its own batch. |
| `wp_liveness` | 2 workers with janitors, 1 batch, any two crashes, stalls, dead heartbeat tasks or failed scans | Everything that can drain a list at once: `OneCopy`, `NoFaultNoDuplicate`; `EveryBatchAnswered` where dead workers are restarted, `RecordedDeadRecovered` where they are not. |
| `wp_forgotten_record` | 2 workers, 1 janitor, two crashes | Violation: a finding, below. |
| `db_batches` | 5 requests of all priority classes for 2 models, batches of 3, timer of 2 ms, calls at most 1 ms apart, the three strategies | `WaitBound`, `NoOvertaking`, `Conserved`, `OldestLeads`, and the refinement `BufferContract`. |
| `sl_liveness` | 2 requests of a model, 2 replicas, stream of 1, any two crashes, stops, failed commands or lost replies | `AckedIsHandled`, `HeldOnce`, `NothingOrphaned`, the refinement `HandoverContract`, and `HandledOrOrphaned` under fairness. |
| `sl_reclaim` | 3 requests, 2 replicas, one crash | Violation: a finding. |
| `sl_backpressure` | 3 requests, 1 replica, stream of 2, no fault | Violation: a finding. |
| `mr_loads` | 2 slots and a promoter, 2 versions, a cache of 1, any two failed loads, failed unloads or timeouts | `MarksHonoured` (one loader per model, and nobody waits for a mark that has gone), `NeverReplaced`, `CacheBounded`, `PromotedIsWarm`, and `EveryGetEnds` under fairness. |
| `mr_resident` | 2 callers, 3 models, a cache of 1, no fault | Violation: a finding. |
| `gw_calls` | 3 calls, 2 connections, stream of 2, a threshold of 2, one failed command, lost reply, crash, expired image or failing worker | `BreakerCount`, `ImageWhileWaited`, `RefusedLeavesNothing`, `LateIsShed`; `EveryCallEnds` and `BreakerRecovers` under fairness. |
| `rl_threads` | 2 threads, rate 1, burst 7, cost 7, four ticks a second, a clock up to 7 | `WithinRate`, `Solvent`, `RetryAfterEnough`. |
| `ms_snapshot` | 2 workers, 3 batches, two moves during a collect, two failed commands, two attempts to ping | `OffByMoves`, `SamplesForEver`. |

Why the bounds are enough to be worth something. In `WorkerPool` two slots and a pair
plus a single give every order of two completions on a shared list, with the batch to
remove on top or underneath; two workers with janitors give all the parties
that can drain a list; two faults give a crash of a worker that was revived, or an
error during the recovery from another fault. One batch is enough there: lists of several are
the subject of `wp_slots`, and drains move batches one by one. In `DynamicBatcher` four requests of
one model against batches of three give a bucket that is over-full, one whose
remainder is due after a size flush and one that is not, and a request of each
priority class that can be passed over; a call once per millisecond against a timer
of two gives the boundary from both sides. In `SchedulerLoop` a stream of one with two
requests gives the trim of delivered and of undelivered entries (two gateways that
both passed the check), and a read of two gives a slice that fails half way and, with
a timer that fires for one request and not yet for the other, batches of one and of
two; two batches of different models in one tick, with an error between them, are
left to the proofs, which cover every safety property of this run. In
`ModelRegistry` three callers give a loader, a waiter for its model and a loader of
another model that evicts the first; the code compares the cache with its size in one
place, so that a cache of one is as good as the four of the settings, and meets
evictions at once. In `Gateway` three calls against two connections give a call that
finds the pool empty at each of its commands, the undo included; a stream of two gives
a refusal between two accepted calls; a threshold of two gives failures that add up
and a success in between, and a third call that ends after the circuit was opened by
the others; a stalled slot (`Recover`) gives a second one with the same request, whose results
come in either order. In `RateLimiter` two threads give every way two readings of the clock and
two balances can be overwritten; a cost of seven against a refill of one in each quarter of
a second gives waits of every quarter up to 1.75 s: rounding leaves a client a quarter short at
1.25 s, which needs `Grace`, where cutting off would leave it three quarters short at 1.75 s,
beyond `Grace`. In `MetricsSnapshot`
two moves give a batch counted twice (returned to the queue and taken by the other worker) and
one missed.

`CHECK_DEADLOCK FALSE` stands where the system may really stop: in `wp_slots`
and `wp_liveness` once every batch is served and no fault is left (in the second also
because the heartbeat tasks of both workers may have died), in `db_batches`
after `flush_all`, in `gw_calls` when every call has its answer (a request is one call,
there is no fourth), in `mr_loads` when callers wait for an event nobody will set
(`EveryGetEnds` says when that may be) and the bound leaves no timeout to free them.
No run uses symmetry or a state constraint.

### What the code does other than its documentation says

1. `wp_forgotten_record` (janitor.py:75). The HDEL that ends a recovery is
   unconditional. The dead worker restarts and beats between the janitor's HGETALL
   and its HDEL, takes a batch, loses its new record to the HDEL and dies before the
   next beat: no janitor will ever look at its list, though janitor.py:3-7 says any
   survivor moves its batches back. The run's assumption is that the worker is
   not restarted a second time; if it is, `EveryBatchAnswered` applies.
   `RecordedDeadRecovered` shows that this is the only way, beside having no record at all:
   a dead worker that no janitor was visiting when it died is drained by any survivor.
2. `sl_reclaim` (queues.py:101). Entries a dead replica had read are never claimed
   by anyone, where scheduler_loop.py:13-15 and ARCHITECTURE.md:198 say they are.
   `HandledOrOrphaned` and `NothingOrphaned` delimit the loss: only requests
   that a failed replica, or a failed tick, had in hand.
3. `sl_backpressure` (queues.py:77). XACK does not delete, so XLEN counts
   served entries. Once `queue_maxlen` requests were published, new work is
   refused although nothing waits.
4. `mr_resident` (registry.py:95). `get` gives up the lock after the insertion and asks
   for it again to remove its mark. Another loader queued in between inserts its
   model, evicts and unloads the first one, and `get` returns it all the same, where
   registry.py:57 promises a resident model. It takes two slots and as many models
   being loaded at once as the cache has room for plus one.

Read off the code while modelling, and kept in the models without a run of their own.

In the scheduler: strategies.py:9-10 warns that strict priority risks "low-priority
starvation under sustained high-priority load", and lines 87-90 speak of "the starvation
that strict priority causes". It causes none: the timer of a bucket does not depend on the
strategy, and `collect_ready` goes on flushing each bucket until nothing in it is due, so
that the wait of a LOW request has the bound of any other (`WaitBound`, checked and proved
for all three strategies). What strict priority does is to let newcomers of an over-full
bucket into an earlier batch of the same call; and "HIGH always beats NORMAL" (line 9)
holds within a model, while buckets are only ordered by their most urgent request.

In the worker: the images of a batch are deleted in the `finally` clause of `_process`
(worker_loop.py:143), also when nothing was published and the batch will be redelivered:
the retry then answers "image missing" to a client still waiting, where queues.py:30 says
the TTL is there "to absorb retries" (`GiveUp`; `FirstAnswerGood` and `ImageWhileWaited`
exempt exactly the requests of such an attempt); an exception out of `registry.get` or the backend leaves the batch with
no result at all (`ExecuteRaises`, executor.py:45), where ARCHITECTURE.md:203 says a backend error
becomes error results; the gateway times out, and the batch stays in the processing
list until the worker restarts, and fails there again;
a worker that dies between its first reserve and its first heartbeat has no record
and is invisible to janitors (the proviso `heartbeat[w] # "none"` of
`RecordedDeadRecovered`; its other proviso, `~ Visited(w)`, is finding 1); the shutdown of a worker cancels its slots where
DEPLOYMENT.md:106-109 speaks of draining (`Stop`); `janitor.stop()` re-raises the
cancellation it causes, so `WorkerLoop.stop()` and its HDEL are skipped in a
worker with a janitor (`Stopped`); two janitors may well work on the same dead worker,
where janitor.py:9-11 expects one (harmless, `OneCopy`); one failing command in a tick
loses whatever the tick had in hand, where scheduler_loop.py:10-11 speaks of surviving
transient errors (`Raise`); a timeout that hits a loader in its `finally` clause, waiting for the lock, leaves the
mark and never sets the event, so that later requests for this model wait until their
own timeout, for as long as the process lives (`Stuck`, the proviso of `EveryGetEnds`);
a waiter may fail with "load failed in another task" (registry.py:82) although the load
succeeded and its result was evicted since (`RereadMiss`); a thread goes on loading
after its caller timed out, and a second load of that model may start beside it, where
registry.py:14-16 excludes two concurrent loads (`TimesOutLoading`);
`promote` reaches the catalog of the one worker that
served the request; `latest` may be flipped to a version that another load has evicted
again (`PromotedIsWarm` says was warmed, not is resident); a `catalog.json` may name a
`latest` that no version has (`Configured`);
and `WeightedScheduler._credits`, with the
rotation its docstring describes, is never used (`Before` and `Ranks` follow the code).

In the gateway: HALF_OPEN admits every caller until the first of them ends, where
circuit_breaker.py:7 speaks of a single trial call (`Allow`), and a late success of a
call from before the outage closes an open circuit (`RecordSuccess`); `queue_overflow`
is also the answer when the connection pool is empty or a connection breaks, even
after the XADD took effect, where API.md:80 has "ingest queue at capacity" only
(`Handled`; `RefusedLeavesNothing` excludes these); a 504 carries no `Retry-After`,
where ARCHITECTURE.md:257 shows one; a request with an image that is refused by an
exhausted pool during the undo leaves its image to the TTL (`Exhausted`). Threads that
race in `allow` can be admitted above the rate that rate_limiter.py:3-7 promises: two that each create
the bucket, or one that overwrites the other's balance (`Create`, `Stores`), which is why
`WithinRate` speaks of windows without overlap. Below a rate of one request per second
the rounding of `Retry-After` can name up to half a second too few, as at 0.8, where 1.25 s
become 1 (`Grace` in `RetryAfterEnough`). A request that the scheduler read before its
deadline is executed long after its client's 504, for nobody looks at the deadline after
scheduler_loop.py:114 (`Schedule`; `LateIsShed` is what remains). Images live 60 s,
"generous enough to absorb retries" (queues.py:30), while `request_timeout_ms`
(settings.py:47) has no upper bound: with a longer timeout an image may go while its client
waits (`ImageExpires`). DEPLOYMENT.md:85 explains 503s by `SCHEDULER_QUEUE_MAXLEN`, which
the gateway does not read: its own limit is the constant 50 000 of its `main.py`.

In the metrics service: the gauge of pending requests is XLEN and so counts served
ones; the batches of a worker without a heartbeat record are not in the in-flight gauge.

## 4. Fairness

`WorkerPool`: weak fairness for each slot, janitor, heartbeat and start-up sequence:
each is an asyncio task of its own and no task of the loop blocks it for ever (the
executor runs blocking calls in threads, under a timeout). `Expire` is weakly fair
because clocks advance. Restarts are a promise of the container runtime, not of this
code: `Restarts` is an antecedent of `EveryBatchAnswered` and of no other property.
Faults are never fair.

`SchedulerLoop`: weak fairness for the loop of every replica and for restarts, for
the same reasons. The timer of a waiting request is strongly fair: `Wait` is disabled
while a call of `collect_ready` runs, which reads the clock once, so it is enabled
again and again rather than for ever.

`ModelRegistry`: each caller is a task of the event loop, and loads and unloads end
(their threads have no timeout of their own, the batch timeout is a fault here).
Fairness is strong because a caller is held up while another one goes straight on
(`running`): it can move again and again rather than for ever.

`Gateway`: weak fairness for the steps of every call (the event loop) and for the two
clocks (`DeadlinePasses`, `ResetPasses`); none for the data plane, so that
`EveryCallEnds` holds with a dead one. Whether clients come is not the gateway's
business: `ClientsAsk` is an antecedent of `BreakerRecovers`.

`MetricsSnapshot`: weak fairness for the sampling loop and the ping, tasks of one
event loop. Errors are bounded, restarts are not fair.

`DynamicBatcher` and `RateLimiter` need none: for the first, "no request waits for ever" is the
invariant `WaitBound`, at most `max_wait_ms` plus the time to the next call.

## 5. The proofs

All proofs are checked by TLAPS without assumptions other than the named `ASSUME`s of
the modules (`Host` and `Members` are functions of the right sets, batches have
pairwise disjoint, non-empty sets of members, requests are finitely many, limits
are natural numbers, `NoCaller` is no caller), except where a theorem states one more.
They hold for any number of workers, slots, replicas, requests, models, callers, calls, threads
and faults, any clock and any length of list.

`WorkerPoolProofs`. `AnsweredBeforeForgotten` alone is not inductive: `Complete` takes
a batch off its list without looking at any answer. What justifies it is that the
slot at "complete" has published for every member, which needs that at "publish" what
has been published and what is still in the outbox cover the batch
(`SlotCoversJob`); and that needs slots to run exactly in live processes
(`SlotsFollowWorker`), or a `Launch` would reset a slot at work. The invariant proved
is `IInv == TypeOK /\ SlotInv /\ AnsweredBeforeForgotten`; `TypeStep`, `CoversStep` and
`AnsweredStep` prove the three parts, with one step per action.
The lemmas about `TakeRight`, `RemoveFrom` and `RecoverOne` say which batches remain
in which list; they rest on `QueueLemmas`. Results: `TypeCorrect`,
`NothingForgotten`, `SlotsCover`.

Four more invariants are proved on top of it. `Sole` (no list has a batch twice, no two
lists share one, what is in a list was dispatched) needs only that LREM takes
out one entry and that BLMOVE and LMOVE move one; it gives `NeverTwice`. `Jobs` (a slot
has a dispatched batch and answers its members only) and `Sole` give `ImplementsQueue`:
`ContractStep` maps every action to a step of `AtLeastOnceQueue` or to a stutter. `Good`
gives `FirstIsGood`, under every fault: an image stays while its request has no
answer, because a slot that cleans up has answered or given up, and what it gives up is in
`spoiled` (`GivesUpWell`, `StopsWell`). `Calm` (before the first fault
every process is up with a fresh heartbeat and every janitor rests) and `Fresh` (a
batch is in the queue or in one slot, and unanswered until that slot publishes)
give `NothingTwice`.

`StaysFindable` is the safety half of `RecordedDeadRecovered`: a worker that is down with a
batch in its list, with a heartbeat record and no janitor about to delete it (`Findable`),
stays so until the batch is moved or the worker restarted. The argument is about the
HDEL of other janitors: one that has not yet marked the list as drained cannot do so while
the batch is there, and only a janitor that has marked it deletes the record. It needs
that nobody but a janitor makes snapshots (`NoOtherJanitor`). What is left to fairness is that
the survivor then scans and moves.

`SchedulerLoopProofs`. The invariant is
`IInv == TypeOK /\ HandlingInv /\ HandledOnce /\ AckedIsHandled`, and `HandlingInv`
says why an acknowledgement is justified: `LoopShape` (which local variables are in
use at which await), `StreamInv` (an entry is in the stream once and nobody touched it
before it was read), `HandsInv` (what a replica has in hand is pending, in one hand
only, and in one place there) and `EvidenceInv` (it is not yet counted as handled, but
for the one entry or batch whose XACK comes next, and that is). A `Push` then raises a
count from zero, which is `HandledOnce`, and an `Ack` removes what is counted, which
is `AckedIsHandled`. Results: `TypeCorrect`, `AckedAfterHandled`, `AtMostOnce`,
`HandlingAgrees`, and `OneHolder`, which follows from `HandsInv`.
`GracefulStopsLoseNothing` adds that a pending entry without an owner appears only
with a crash, a failed command or a lost reply.

`ImplementsHandover` is the refinement, from `HandoverInv == IInv /\ FormedInv /\
TrimmedInv`: what a replica is about to push is not empty, of one model and within the
limit; what was trimmed was never delivered. Each action of a replica, a client or the
environment is a lemma of its own that names the abstract step or the stutter. The two
values of `StateOf` outside the contract are excluded by `HandledOnce` and `TrimmedInv`. A
`Push` by a replica whose reply is lost is the same abstract step as one that went well,
and a `Crash` is none.

`ModelServingProofs`. The invariant of the registry is
`IInv == TypeOK /\ OneLoader /\ NeverReplaced /\ CacheBounded` (`TypeOK` taken apart
into `LockInv` and `DataTypes`). `OneLoader` is kept because a caller becomes a loader
only where there is no mark and removes only its own; `NeverReplaced` because what
enters the cache is its only loader's model, so that nobody else can be waiting to
insert it; `CacheBounded` because an insertion adds at most one model and `Trim`
takes one out before the await. `LockInv` says a caller is in the queue of the lock
once, and exactly where `get` asks for it, cancellations included; it rests on
`RemoveFromDistinct` of `QueueLemmas`. With it `NoLostWakeUp` (a mark is there for as long
as anybody waits for it, so that its owner's `Release` wakes them) is inductive, which gives
`MarksHonoured`. `MarksOwned` (every mark belongs to a caller on its way to `Release`) is
kept by every fault but a timeout; under that assumption `MarksGo` says that no model is
`Stuck`, the proviso of `EveryGetEnds`. Results: `TypeCorrect`, `MarksKept`, `MarksGo`,
`NoneReplaced`, `Bounded`.

`ServingIsRegistry` shows that slots and promoters use the registry as
`ModelRegistry` lets any caller use it, so the theorems above hold for a whole worker.
`WarmInv` says that whoever waits to insert a model, and whatever is in the cache, was
loaded and warmed up; with it a promotion flips the alias to a warm version only
(`PromotesWarm`).

`GatewayProofs`. The invariant is `BreakerTypeOK /\ BreakerCount /\ CallTypes /\ AllTidy`.
`BreakerCount` is inductive by itself. `Tidy` says for each place of a call
what is in Redis for its request: before the XADD nothing but perhaps the image, afterwards the
image for as long as the request waits for its first result and nobody has spoiled it
(`Awaited`), however many slots have it in hand; expired when told 504, which gives
`LateShed`. Every action but
`Crash` is about one request, so `TidyStep` is proved for that one and the rest is
unchanged. Results: `TypeCorrect`, `BreakerAgrees`, `ImageThere`, `NothingLeft`,
`LateShed`.

`RateLimiterProofs`. `Solvent` needs `Debt`, the same bound for the balance that a
thread has computed and not yet stored. `WithinRate` needs the books of a window
(`Window`): one call at a time (`OneByOne`), and what has been admitted plus the balance
is no more than burst plus refill at the bucket's own clock. `RetryAfterEnough` needs
`Promised`: when the wait is over, and `Grace` with it, balance and refill cover a request
(`Covers`), because rounding takes off half a second at most (`RoundedLacksHalf`);
`WaitingIsEnough` assumes that a request costs no more than the burst, without which
it is never admitted. Results: `TypeCorrect`, `NeverInDebt`, `RateKept`, `WaitingIsEnough`.

`DynamicBatcherProofs`. The invariant is
`Types /\ Placed /\ Counts /\ Bounded /\ FullOrDue /\ NoOvertaking`. `Placed`: a request is
in the bucket of its model, once. `Bounded`: during a call nothing due is left in the
buckets the call has been through; the last bucket then gives `WaitBound`, since between
two calls nothing ages by more than `MaxGap`. `Ages` (who was added earlier is at least as old) and
`Led` (until the first batch of a call is formed, `current` and `visit` begin with the bucket of
the oldest request) give `OldestLeads`. Results: `TypeCorrect`, `NobodyStarves`,
`NobodyOvertakes`, `NothingLost`, `NoneEarly`, `OldestFirst`.

`ImplementsBuffer` is the refinement, from `BufferInv == IInv /\ Drained`: a bucket
that the running call is through with, or was never asked to look at, has nothing full or due
in it (`Drained`). It is what makes `Return` of the code a `Return` of the contract, and
it is not a part of the other invariants: those bound ages, this one sizes as well. That a flushed
batch has the size the contract wants comes from the cardinalities of `FlushOne`'s choice.

`MetricsSnapshotProofs`. `OffByMoves` is proved from `IInv == TypeOK /\ LocalsInv /\
OffByMoves`. `CountApart` says counts of disjoint places add up, `OneMove` that one batch
that moves changes any count by at most one; so each move while a collect runs, which
counts itself in `moved`, pays for the error it makes, and each LLEN adds the list it reads to
what is being compared. Results: `TypeCorrect`, `TornByMovesOnly`.

Model-checked only: everything under fairness (`EveryBatchAnswered`,
`RecordedDeadRecovered`, `HandledOrOrphaned`, `EveryGetEnds`, `EveryCallEnds`,
`BreakerRecovers`, `SamplesForEver`), which is out of the prover's reach. Where the safety
part of such a property can be named it is proved: `StaysFindable` for
`RecordedDeadRecovered`, `MarksGo` for `EveryGetEnds`, `HandlingAgrees` and
`GracefulStopsLoseNothing` for `HandledOrOrphaned`. Every invariant, action property and
refinement of the passing runs is a theorem.

## 6. Not modelled

`PROJECT.json` gives the reason per component: settings are values only, and load
generators, benchmarks, model export, manifests and the demo page are not part of the serving
path. Partly modelled are the runtime backends (the steps of a load, not what torch and
onnxruntime compute), the wire schemas (the deadline, not the validation of fields), the
small utilities (retries and the connection pool, not logging, tracing and metrics
objects) and the HTTP surfaces (error handlers, promotion and lifespans, not the
routes that only read state).

Beyond that: Redis is reliable and
keeps its data (`allkeys-lru` in docker-compose.yml may evict whole lists; that is
a hazard no model here covers); message ids are the requests themselves;
`max_wait_ms = 0` is excluded by an assumption of `DynamicBatcher`; the wall-clock skew
between workers, which the janitor's comparison of heartbeats is exposed to, is the
same as a `Stall`. The deadline of a request is one instant for gateway and scheduler: skew
between their clocks could make the scheduler shed late or early. Tokens
and time are integers in `RateLimiter`; the code has floats, and their rounding errors
are left out. `_failures` is counted up to the threshold, which is all the breaker
compares. The number of fresh heartbeats in a snapshot is left out.

## 7. What could follow

1. The gateway, the scheduler and the workers in one module, with the deadline crossing all
   three; today `Gateway` has the other two as a client sees them, one request at a time, and
   the lists and heartbeats behind redelivery are modelled separately.
2. Eviction of keys by a full Redis as a fault of `WorkerPool` and `SchedulerLoop`.
