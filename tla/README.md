# Verification of id_effect

`id_effect` is an effect system for Rust: effects are values that are run with an
environment, and around them stands a runtime with software transactional memory,
scopes with finalizers, caches, pools, cancellation, queues, schedules, and a family of
crates for resilience, jobs, workflows and bridges to other libraries. Most of it is
pure combinators. What can go wrong in ways a unit test hardly reaches is the concurrent
core of `crates/id_effect`, and the services on top of it: state shared by threads, tasks
or processes, changed in several steps, with callbacks, waits, failures, cancellation and
crashes in between. That is what the modules here model.

## 1. Inventory

| Component (source under `src/crates/`) | State | Operations | What is hard |
|---|---|---|---|
| STM (`id_effect/src/stm/mod.rs`) | per cell a value and a version; a global commit lock; per attempt a log (shadow values, validators, writes) | `TRef` read, write, update, modify; `or_else`, `retry`, `fail`, `check`; `TQueue`, `TMap`, `TSemaphore`; `commit` | bodies read live cells while another commit is half applied; retry; conflicts |
| Scope (`resource/scope.rs`) | closed flag, weak parent and children, finalizers in a `TRef`, close latch | `make`, `fork`, `extend`, `add_finalizer`, `close_with_exit`, `wait_closed` | check-then-act in `fork`, `extend` and `add_finalizer` against a recursive close; a transaction body with a side effect |
| Cache (`resource/cache.rs`) | entries with expiry, LRU list, in-flight `Deferred` per key, counters | `get`, `invalidate` | critical sections with the load between them; invalidation of a running load |
| Deferred (`coordination/deferred.rs`) | a result, once | `succeed`, `fail`, `interrupt`, `wait` | first completion wins |
| Cancellation (`concurrency/cancel.rs`, `async_notify.rs`) | flag, children, wakers | `cancel`, `child_token`, `wait_cancelled`, `check_interrupt` | check and registration of a waiter in two steps; children made during a cascade |
| Pools (`resource/pool.rs`), Semaphore (`coordination/semaphore.rs`) | idle values, discarded values, permits | `get`, `invalidate`, `acquire` | the permit and the value live in finalizers of the caller's scope; failing factories; closed scopes |
| Latch, Deferred, queues, channels, publish/subscribe (`coordination/`) | flag; bounded, dropping, sliding and unbounded buffers; shutdown flag; list of expanded elements; ring of the hub and one forwarding task per subscriber | `wait`, `open`, `offer`, `take`, `offer_all`, `take_all`, `take_up_to`, `take_n`, `take_between`, `shutdown`, `read`, `write`, `publish`, `subscribe` | lost wake-ups of the waiting loops; partial batches; a forwarding task that outlives or misses its scope |
| Ref, SynchronizedRef, SubscriptionRef, request resolver (`coordination/`) | one cell, with its hub | `get`, `set`, `modify`, `subscribe` | store and publish are two steps, subscribe and read too |
| Streams fed by senders (`streaming/stream.rs`) | queue, buffer, state | `send`, `end`, `fail`, `poll` | marks offered to a full queue under four policies |
| Fiber handles, fiber references, supervisor (`concurrency/`) | exit of a fiber, its status; a slot per fiber; a token, a scope, a restart count | `map`, `zip`, `or_else`, `scoped`, `interrupt`, `fiber_all`; `locally`, `fork`, `join`; `attach` | interrupts race tasks and a closing scope; overrides that do not nest; dropped handles |
| Schedules (`scheduling/schedule.rs`) | tree of a schedule, attempt | `next`, `repeat`, `retry` | which part is asked with which attempt; a cancellation during a sleep |
| Planner and graph (`capability/`) | queue and indegrees; built services; hooks | `plan_topological`, `build`, `run_with` | the order of a hash map; providers that fail after others were built |
| Compute fabric (`compute/`) | permits, channel of jobs, threads | `admit`, `spawn`, `tick` | permits stored while others acquire and release; panics |
| Resilience (`id_effect_resilience`) | breaker state, tokens, permits | guarded call, refill | several `Ref`s read and written one at a time |
| Jobs, outbox (`id_effect_jobs`) | queue, running map, dead letters; rows | `drain_jobs`, `relay` | panics and faults between effect and record; two workers |
| Workflow, state machine, saga (`id_effect_workflow`, `id_effect_fsm`) | journal, machine in memory; steps done | `run_step`, `step`, `restore`, `run` | crashes and races between computing and inserting a step; failing compensations |
| Events (`id_effect_events`) | log in memory, in a file, in a table | `append` | appends without a lock; several rows for one append |
| SQL (`id_effect_sql`, `id_effect_sql_pg`) | pool of connections, open transactions | `with_transaction`, `execute` | what the transaction covers; dropped futures; an answer that is lost |
| Tower bridge (`id_effect_tower`) | permits, per clone a reserved or awaited one, counters | `poll_ready`, `call` | dropped clones and calls |
| The rest (algebra, collections, schema, RPC, hosts, config, macros) | none, or a library's | conversions, input and output | outside this project |

Interactions: a `Scope` stores its finalizers in a `TRef`, so registration and drain are
STM transactions. A pool puts permits and values into finalizers of the caller's
`Scope`. A cache coalesces misses on a `Deferred`, as fiber handles do. A supervisor ties
a cancellation token to a scope, a scoped handle its interrupt, a subscription its
forwarding task. Channels and streams run over a queue, a subscription reference over the
hub, a durable state machine over a journal. The correctness of the upper parts therefore rests on
the serializability of `commit`, on finalizers running once and in order, and on waiters
being released.

## 2. Modules

| Module | Role |
|---|---|
| `StmValues` | cells, values, partial functions, shared by the next two |
| `StmAtomic` | what `commit` promises: a transaction is one step at which all its reads are current |
| `Stm` | how `commit` does it: body, lock, validators one by one, writes one by one |
| `StmProofs` | the proofs about `Stm` |
| `StmPrograms` | `TQueue`, `TMap` and `TSemaphore` as bodies of `Stm`, composed with it |
| `StmSnapshot` | `Stm` with an observer that remembers past stores |
| `Scope` | the scope tree |
| `Cache` | the cache with its `Deferred`s |
| `Cancel` | cancellation tokens and `AsyncNotify` |
| `Pool` | keyed pools, the semaphore, and the finalizers of the caller's scope |
| `Queue` | the four kinds of queue |
| `Channel`, `StreamChannel` | channels, and streams fed by senders, on the variables of `Queue` |
| `PubSub` | the hub, its forwarding tasks, the broadcast pump of streams |
| `SubscriptionRef` | a cell whose changes are published, on the variables of `PubSub` |
| `Signals` | `Latch`, `await_shutdown` of a queue, and `Deferred` |
| `Fibers`, `FiberRef`, `Supervisor` | fiber handles, fiber references, supervisors |
| `Schedule` | schedules and the repeat and retry loops |
| `Capability` | planner, provider graph, `run_with` |
| `Admission` | admission, fiber pool and rebalancing of the compute fabric |
| `Breaker`, `RateLimiter` | circuit breaker; rate limiter with bulkhead |
| `Jobs`, `Outbox` | job runner; outbox and relay |
| `Workflow` | durable state machine on the SQLite and the PostgreSQL journal |
| `Saga` | sagas with compensations |
| `EventStore` | `append` in memory, in a file, in SQL |
| `SqlTransaction` | `with_transaction` over the PostgreSQL client |
| `Tower` | the concurrency limit of the Tower service |
| `ProofLemmas` | facts about sequences, sets and counting that the proofs share |
| `LifecycleProofs` | the proofs about `Scope`, `Supervisor`, `Cancel`, `Fibers`, `FiberRef`, `Capability` |
| `ResourceProofs` | the proofs about `Pool`, `Cache` |
| `CoordinationProofs` | the proofs about `Queue`, `Channel`, `StreamChannel`, `Signals`, `PubSub`, `SubscriptionRef`, and about their composition in `MCCoordination` |
| `ResilienceProofs` | the proofs about `Breaker`, `RateLimiter`, `Tower`, `Admission` |
| `DurableProofs` | the proofs about `SqlTransaction`, `Workflow`, `Jobs`, `Saga`, `Outbox` |
| `EventStoreProofs` | the proofs about `EventStore` |
| `MC*` | the instances that TLC checks |

`Channel`, `StreamChannel` and `SubscriptionRef` extend the module they run on and add
variables and steps of their own, so that the queue or hub below is the one that its own
run checks. `Supervisor` and `Fibers` keep the part of `Scope` that they use: a check, a
registration and a drain that can overtake each other. The components that do not
interact are checked by four runs in which each behaviour is one of a single component:
`MCBasics` (`StmPrograms` and `Scope`), `MCCoordination`, `MCServices` and `MCRuntime` have a
variable `focus` that names it, and the others keep their initial state. Names carry a prefix per module for that.

How state and actions correspond to the code is said at each variable and action;
`PROJECT.json` gives the lines. In outline:

* **Stm.** `data` and `ver` are `Inner::data` and `Inner::ver`; `shadow`, `readVer` and
  `writes` are the three parts of a `Txn`; `lock` is `STM_COMMIT_LOCK`. `Begin` enters
  `commit`. A body is any sequence of `ReadStm`, `WriteStm` and `UpdateStm` (`modify` is a read
  followed by a write in the same log), possibly inside the left branch of an `or_else`, and ends in
  Done, Fail or Retry. `try_commit` is `TakeLock`, `ValidateOk` per cell or `Conflict`,
  `Validated`, `ApplyWrite` per cell in address order, and `Return`. A body reads live
  cells between any two of these steps of another thread. `seen` and `result` are
  observers.
* **StmPrograms.** One action runs one operation of a fixed program with its outcome:
  go on with a new value, go on without a write, or retry (empty queue, no permit).
* **Scope.** `close_with_exit` is a stack of frames per thread with the phases copy the
  children, close them, drain body, drain commit, run finalizers, open the latch.
  `fork`, `extend` and `add_finalizer` are split where the code releases a lock or
  ends a check. `emptied` holds the `Option` cells that a drain body has emptied; it is
  not part of the transaction.
* **Cache.** Each `SynchronizedRef::modify` is one action; the load, the completion of
  the `Deferred` and the waits are actions between them. The value and the `Deferred` of
  a fiber are named after the fiber. The passing of time is `Expire`. A `get` may be
  dropped at each of its awaits (`Drop`): in the load, in the wait, and at the lock before
  the store or the clean-up, where its `Deferred` is complete and stays registered.
* **Cancel.** `cancel` is a stack of frames: swap the flag, notify, copy the children,
  cancel them. Children are `Weak`: the program may drop its handles of a token (`CaDrop`),
  and the copy holds those that are still there. `wait_cancelled` is look at the flag,
  register the waker, sleep.
* **Pool.** `get` is wait for a permit, put it into a finalizer, take an idle value or
  make one, put the value into a finalizer. Each registration is the check and the store of
  `add_finalizer`, and the close is the flag, the drain body, its commit or conflict, and
  the finalizers, as in `Scope`: a finalizer is refused, stored in time or stored too late,
  and a drain that a registration disturbs drops what it took. A permit stored too late
  stays with the scope until its last handle is dropped (`PlForget`). The fair semaphore is
  tokio's and is modelled from its use.
* **Queue.** Every taking operation is a demand for between `lo` and `hi` values, so one
  set of steps serves `take`, `take_n`, `take_between`, `take_up_to` and `take_all`. The
  sliding queue is a deque with a mutex and a `Notify`: look, create the `Notified`, sleep.
  The bounded kinds block or refuse in the library's channel. `qgone`, `qdrop` and `qlate`
  observe where values and sleepers went.
* **Channel.** `read` drains the shared list, takes from the queue, expands and pushes the
  rest back, step by step; `write` folds under its mutex and offers after it. A stream is
  polled under its mutex, and the poll may fail (`ChPullFails`); of a chunk, the first
  element is expanded and the others go to the list as they are.
* **StreamChannel.** Senders offer chunks and the marks End and Fail, repeating as the
  policy says; `StPoll` is the poll of the stream.
* **PubSub.** A hub is a ring with a position per receiver. `subscribe` makes the queue,
  spawns the forwarding task, and registers a finalizer that a closed scope refuses; the
  close aborts the task and shuts the queue down.
* **SubscriptionRef.** A setter stores and then publishes. `subscribe` subscribes to the
  hub first, then reads the cell and offers the value to the queue.
* **Signals.** One value, waiters that look and then sleep, setters that store and then
  notify; a `Deferred` compares versions, as the library's watch channel does.
* **Breaker, RateLimiter.** A call is the sequence of reads and writes of the `Ref`s that
  the code makes, and other calls run between any two of them. Time is whether the reset
  timeout has passed (`BrTick`), and a clock of `RlTicks` steps.
* **Jobs.** `drain_jobs` pops, records, runs the handler, which may succeed, fail, panic
  or be abandoned, and settles the record by id.
* **Outbox.** A relay fetches a batch, publishes row by row and then marks them; a
  publish may fail and a relay may die at any point.
* **Workflow.** A worker registers or restores, then runs steps: select, compute, insert,
  with the transaction of the backend around them, and may crash anywhere.
* **EventStore.** Memory appends under a lock; the file is read, then written as lines
  and line breaks; SQL is read, then inserted row by row under a unique version.
* **Supervisor.** `attach` forks a scope and registers the finalizer in two steps, of which
  the first looks at the flags of the scope and of its parent; the loop checks the token,
  runs, and follows its policy; the close of the parent, step by step, runs beside it, and
  the last handle may be dropped.
* **Admission.** Permits are one counter that jobs decrement and increment and the tick
  overwrites. A panic ends its thread; when none is left the channel has no receiver, and a
  job that is sent is dropped with its permit kept (`AdSendFails`).
* **Schedule.** `ScNext` is `next` on a tree of schedules, as a recursive operator; the
  references `ScGoes` and `ScDelayOf` say without state what the k-th answer should be,
  as the documentation has it: every predicate is asked with the attempt of its step.
* **Fibers.** A derived handle has a task that waits for its inputs and completes a
  `Deferred`; `interrupt` completes the same one.
* **FiberRef.** Slots per fiber and a stack of saved values per task; `frbase` observes
  what the operations outside `locally` have made of a slot.
* **Capability.** Kahn's algorithm turn by turn from any initial order, then building,
  `verify`, the run and the hooks.
* **SqlTransaction.** The transaction of a call is on the connection it took; a statement
  goes to any connection; a lost answer leaves both outcomes open, also that of a `BEGIN`
  (`SqBeginLost`).
* **Tower.** Per clone a reserved permit or a pending acquire in the library's fair queue;
  a call takes the permit along; clones and calls may be dropped at every await.

Definitions headed "Faulty variant" are not part of a specification. Each changes one
definition as a plausible mistake in the code would, and the property it is paired with
in `PROJECT.json` is then violated; they show that the properties can fail.

## 3. What TLC checks

| Run | Instance | Shows |
|---|---|---|
| `stm` | two threads, two cells, two values, bodies of up to two operations, one and two calls | `StmInv` (the inductive invariant) and `Serializable` (`Stm` implements `StmAtomic`) |
| `basics` | a producer and two workers on two queues, a semaphore and a map; two threads on a root with a forked child and a second root that is reparented, with two finalizers | `ProgramsInv`, `ScopeInv`, `ProgramsReturn`, `CloseReachesDescendants` |
| `stm_torn_reads` | a reader that may fail, a writer | finding 1 |
| `scope_finalizer_lost` | the scopes of `basics` | finding 2 |
| `cache` | four calls on one or two keys, two of which may be invalidations, capacity one | `CacheInv`, `EveryCallReturns` |
| `cache_single_flight` | the same | finding 3 |
| `coordination` | two producers with three values, two consumers with several demands, capacity one, every kind, mode and policy; a hub with two publishers and two subscribers; two waiters and two setters | `QueueInv`, `ChannelOk`, `StreamOk`, `HubOk`, `SignalInv`, `ShutdownReleases`, `StreamEnds`, `PubSubDelivers`, `SignalReleases` |
| `queue_lost_wakeup` | one producer, one consumer, a sliding queue | finding 4 |
| `services` | per service two or three actors, one or two faults | `BreakerInv`, `RateInv`, `JobsInv`, `OutboxInv`, `WorkflowInv`, `EventStoreInv`, `SupervisorInv`, `AdmissionInv`, `SagaInv`, `PoolInv`, `BreakerRecovers`, `EveryRowRelayed`, `CloseStopsLoop`, `EveryGetReturns` |
| `runtime` | three tokens, of which the middle one may be dropped, and two waiting tasks; every schedule up to two operators deep; two fibers and three derived handles; every graph of three providers; two calls on two connections; three clones and two calls on two permits | `CancelInv`, `ScheduleInv`, `FibersInv`, `FiberRefInv`, `CapabilityInv`, `SqlInv`, `TowerInv`, `CancellationArrives`, `HandlesSettle` |
| `sql_rollback` | two calls of `with_transaction` | finding 5 |
| `capability_hooks` | the graphs of `runtime` | finding 6 |

An invariant named after a component is the conjunction of its type invariant and named
parts, each with a comment. What the parts say, in short:

* `StmInv`: the inductive invariant of section 4. `ProgramsInv`: queues stay FIFO and
  bounded, and as many keys are in the map as permits are out.
* `ScopeInv`: finalizers run at most once and last in, first out; the latch is open only
  when the scope is done; a close that no registration disturbed runs all; children are
  closed before the finalizers of their parent.
* `CacheInv`: entries and LRU list agree, the capacity holds, an interrupted load is not
  cached. `EveryCallReturns` excepts the callers behind a loader whose future was dropped
  before its `Deferred` was complete.
* `QueueInv`: FIFO across all takers; every value offered was stored, handed back or
  swallowed where the kind says so; a stored value is dropped only by a sliding queue, or,
  when a queue was shut down, by a take for several values that meets the end with some in
  its hand (finding 8); only overtaken sleepers sleep beside a value.
* `ChannelOk`: every output of every element that left the queue is in exactly one place,
  on the shared list, in the hand of a read or with a caller, and so is what reads make of a
  stream, the outputs of the first element of each chunk and the other elements as they are
  (`ChannelConserves`, finding 9); a reader that is alone gets all of it, from a queue in the
  order of the writes and within one expansion in its order (`ChannelInOrder`), from a stream
  chunk by chunk (`ChannelInChunks`); the snapshots of a writer that
  is alone are enqueued in the order of its writes. `StreamOk`: what leaves the queue
  reaches the puller once and in order (`StreamInOrder`), and a stream that blocks or fails
  its senders ends only behind an End, with every chunk sent before it yielded or refused to
  its sender (`StreamComplete`).
* `HubOk`: a subscriber is given everything sent after it subscribed, in order, unless
  its receiver lags, which only a sliding hub allows; a task that forwards for a closed
  scope was refused by it; a subscriber of a reference misses no value stored after the
  one it read (`SubRefInv`).
* `SignalInv`: one completion wins; only overtaken waiters sleep on.
* `PoolInv`: permits are conserved, a value has one place, no more values than places and
  one for every drain that dropped a permit before the value was returned, no discarded
  value is idle. `EveryGetReturns` excepts the gets beside a scope that was closed while a
  permit was being registered on it (finding 12).
* `BreakerInv`: an open breaker always has an instant from which it can recover; without
  overlapping calls the three `Ref`s agree. `RateInv`: without overlapping refills the
  rate holds; the burst always does; bulkhead permits are conserved.
* `JobsInv`: a job is handled at most once and not lost before; records are mixed up only
  between equal ids. `OutboxInv`: marked rows were published, first publications are in
  order, repeats are bounded by relays and faults.
* `WorkflowInv`: the journal has no gap, workers only use what it holds, one worker at a
  time makes it a path of the transition table, SQLite computes again only after a crash.
* `EventStoreInv`: versions count 1, 2, 3; an acknowledged append is stored once and whole;
  only overlapping appends spoil the file.
* `SupervisorInv`: the restart limit; a close that returned and found a handle of the child
  scope has run the finalizer registered before it, which cancels the token; at most one run
  after a cancellation. `CloseStopsLoop` has the same exceptions (finding 7). `AdmissionInv`:
  permits stay bounded, an admitted job has one place and is dropped only when every thread
  of the pool has ended, a panic costs a permit and a thread. `SagaInv`: compensations in reverse, all of them unless one
  fails.
* `CancelInv`: one canceller per token; only overtaken tasks sleep on a cancelled one.
  `CancellationArrives` goes from a token to its children that are still there (finding 11).
* `ScheduleInv`: the loop sleeps as the stateless reference says, and stops when it does
  unless a predicate is under a `Compose` or a `Jittered` (finding 10), and at most
  one run begins after a cancellation. `FibersInv`: a derived handle agrees with its inputs
  for ever after. `FiberRefInv`: outside `locally` the slot is what it was before, but for
  dropped futures and calls that do not nest. `CapabilityInv`: built once, after what it
  requires; refused exactly for a cycle, a missing capability, a conflict or a repeated id;
  every hook is called once or, after an error of the build, none; their order is finding 6. `SqlInv`: a connection has one
  place, a transaction one end. `TowerInv`: permits are conserved, nobody waits beside a free
  one, the counters are what they count.

**Why the bounds are enough for the hazards.** In `stm` the second thread makes two calls,
so it can change a cell and change it back during one attempt of the first (versions, not
values, are compared), and two cells are what a half-applied commit needs. In
`basics` the producer can fill the queue (capacity two, three offers) and both
workers can be blocked, and one thread closes while the other forks, reparents,
registers or closes a scope above or below; a third thread adds no new pair of
operations. In `cache` four calls are a load, an invalidation, a second load and the call
that finds the second load unregistered, so two of them may invalidate; with capacity one every store of another key
evicts. For queues capacity one makes the second value block, drop or slide, and a
consumer with a demand for two is left with part of it by the other or by a shutdown. A
ring of one makes a receiver lag after two messages. Three callers of a breaker with
threshold two are two late failures and a probe. Three rows with batches of two and two
relays overlap in one row. Two workers, two steps and one crash per journal give every
race for a seq and every place to die in it. Two events per append on one stream is what
interleaves lines and rows. Two permits and three scopes, jobs or clones give a waiter in
`Pool`, `Admission` and `Tower`. Two tasks tell waking one waiter from waking all, and a
chain of three tokens lets two threads cancel overlapping subtrees while the third token
is being made; the middle one may be dropped, which parts the other two. One scope of the
pool may be closed at any step of its get, the others when it has ended. Schedules two operators deep have every operator over every other that can
be under it, and five runs pass every limit. Three providers have cycles of one, two and
three and a diamond without its top. Bounded counters are named constants: `QCalls`,
`RlTicks`, `ObFaults`, `WfSteps`, `WfCrashes`, `AdTicks`, `ScRuns`, `ScMax`, `FrOps`, `SqWrites`;
so are the sets of who may do a thing: `Invalidators`, `CaDropped`, `PlRacing`, `PsClosable`.

**Deadlock** is checked in `stm`, `basics` and `cache`; where all calls can
have been made, a `Terminated` disjunct says that the program has ended. `Scope` needs
none: closing a closed scope is always possible and changes nothing. The other three runs
do not check it: most of their components are finite programs that end, and some
really may stop, like a task that was overtaken before its sleep. That nobody else stops is
what their liveness properties and the parts about sleepers and waiters say.

**Fairness.** All fairness is weak, and per thread, task or fiber.
`Stm`: a thread inside `try_commit` goes on (it holds or waits for a mutex and makes no
other wait); nothing is assumed of bodies. `StmPrograms`: every thread that can go on
does; `std::sync::Mutex` gives no more, and `ProgramsReturn` holds without strong
fairness because every conflict means that another call committed and calls are
finite. `Scope`: a thread inside a call goes on and finalizers return; no call is ever
obliged to begin. `Cache`: the executor polls fibers that can go on, and loads end or their
futures are dropped. `Cancel`: a task whose waker was called is polled; `CaPolledAnyway` has
no fairness, as nothing polls a task for no reason. `Pool`: besides that, every scope is
closed in the end, which is what releases a permit: a pool cannot promise more.
`Queue`, `Channel`, `Signals`: a task inside a call goes on if it can, and a shutdown or
`open` that has stored its flag notifies; no call is obliged to begin. `StreamChannel`: the
stream is polled, and a sender that has begun, or that yields on a full queue, is polled
again. `PubSub`: forwarding tasks are polled, and a subscribe or a close that has begun goes
on. `Breaker`: calls come, their effects return and time passes, which is all that lets a
breaker half-open. `Outbox`: relays are called again, and faults are finite.
`Supervisor`: the child effect returns, sleeps end, and a close that has begun goes on.
`Fibers`: spawned tasks are polled, and a scoped call and `fiber_all` go on when what they
wait for is there; base fibers need not end.

### Findings

1. *Torn reads* (`NoTornReads`, `stm/mod.rs:540`). A body that ends in `Fail` is not
   validated, so its error may rest on one cell from before and one from after a
   concurrent commit. The book says "No torn reads".
2. *Lost finalizers* (`FinalizersAlwaysRun`, `resource/scope.rs:134`). The body of the
   drain transaction empties the cells it finds. If an `add_finalizer` that passed its
   check before the close commits in between, the drain conflicts and its body runs again
   on empty cells: finalizers registered long before never run. The comment in the file
   says that the transactions can retry idempotently. `UndisturbedCloseRunsAll` is what
   does hold.
3. *Two loads* (`SingleFlight`, `resource/cache.rs:266`). The end of a load removes
   whatever `Deferred` is registered for its key. After an invalidation that is the
   `Deferred` of the next load, and a third call starts another load. The type says "one
   shared load per key in flight". Nobody is left waiting (`EveryCallReturns`).

4. *Lost wake-up* (`NoSleepBesideValues`, `coordination/queue.rs:245`). A take on a sliding
   queue looks at the deque, releases the mutex, and creates its `Notified` afterwards. An
   offer in between wakes nobody, and the take sleeps beside the value. The documentation
   says "Block until a value is available or the queue disconnects".
5. *Statements outside the transaction* (`FailureLeavesNothing`,
   `id_effect_sql/src/transaction.rs:85`). The handle that the body gets can commit and roll
   back only, and the PostgreSQL client sends every statement to any connection of its
   pool. What the body executes stays when it fails. The documentation says "commits on
   success and rolls back on failure".

6. *Hooks in the order of the arguments* (`DependentsStopFirst`, `capability/run.rs:41`).
   `run_with` calls the shutdown hooks in reverse order of its arguments. A provider that is
   passed behind one that requires it is shut down first. The trait says "Release resources
   (reverse build order)" (`provider.rs:14`), and the specification and the decision record
   of the capability system say "reverse-topo".

The next ones were met while a module was written. For 7 to 11 the module has an operator
that states the documentation, and TLC refutes it within seconds as an invariant of the run that
is named; that run itself checks what does hold, with the exception that the finding needs.

7. *Supervisors that outlive their parent* (`CloseCancelsToken`, run `services`,
   `concurrency/supervisor.rs:75`). `attach` ignores that `add_finalizer` refuses under a closed
   parent or stores behind the drain, and the parent reaches the child by a `Weak` pointer.
   In these three cases closing the parent never cancels the token. The module documentation
   says that the close cascades to the child, "whose finalizer cancels the token"
   (`supervisor.rs:3-5`, 68-70).
8. *Values dropped by takes for several* (`BufferedStayAvailable`, run `coordination`,
   `coordination/queue.rs:424`, 452, 471, 507). `take_all`, `take_up_to`, `take_n` and
   `take_between` drop what they have collected when they meet the end of a queue that was
   shut down. The documentation says "buffered values remain available to receivers"
   (`queue.rs:568`) and "drain all currently available elements" (407).
9. *Elements that are not expanded* (`EveryElementExpanded`, run `coordination`,
   `coordination/channel.rs:394-398`). On a stream channel only the first element of a chunk
   goes through `flat_map_out`. The documentation says "Expand each dequeued wire element"
   (`channel.rs:531`); the test at 1132 says so of streams, with a chunk of one.
10. *Predicates asked with attempt 0* (`PredicatesSeeSteps`, run `runtime`,
    `scheduling/schedule.rs:236-249`). `Compose` and `Jittered` ask their parts with the default
    input at every step, so a `recurs_while` inside them does not stop. The documentation
    says that inputs are passed "on each step" (`schedule.rs:17`), that a composition goes on
    "while both produce a step" (65), and that the predicate is asked "on each" input (69, 150).
11. *Descendants behind a dropped token* (`CancelPropagates`, run `runtime`,
    `concurrency/cancel.rs:45-53`). A token in the middle that the program has dropped is not
    there to pass the cancellation on, and a descendant that the program still holds is not
    cancelled. The documentation says "propagates to [`Self::child_token`] descendants"
    (`cancel.rs:14`).
12. *A permit that no close releases* (run `services`, `coordination/semaphore.rs:47`). A scope
    closed between the check and the store of `add_finalizer` keeps the permit of `acquire` until
    its last handle is dropped. The documentation says "When `scope` closes, the permit is
    released" (`semaphore.rs:38`). `EveryGetReturns` excepts the gets that wait for it.

**Exceptions.** Where a property has an exception for something the code really does, the
exception is stated and no wider:

* `SleepersWereOvertaken`, `QueueSleepers`, `SleepersNotified` and the liveness next to them
  except exactly the tasks that looked before and registered after a notification;
* `RateKept`, `SequentialBreaker`, `VersionsCount` and `JournalIsPath` hold as long as calls do
  not overlap, which the modules record;
* `UndisturbedCloseRunsAll` (in `ScopeInv`) excepts closes that a registration overtook, and
  `CloseReachesDescendants` scopes that `extend` stored in the list of a closed scope;
* `EveryCallReturns` excepts callers that are `Stranded` behind a dropped load;
* `DropsExplained` (in `QueueInv`) allows a take for several values to drop what it holds at
  the end of a queue that was shut down;
* `ChHanded` (in `ChannelInv`) hands out all but the first element of a chunk as they are;
* `PubSubInv`, `SubRefInv` and `PubSubDelivers` promise nothing to a subscriber whose scope was
  closed (`psscope`): its task may be aborted before it has delivered the last messages;
* `StreamEnds` excepts `DropOldest`, which may evict the End;
* `TokenFollowsScope` and `CloseStopsLoop` except supervisors whose finalizer was refused or
  stored late, and those without a handle (`svgone`);
* `HandlesSettle` excepts a scoped handle whose registration the close of its scope missed
  (`fbmissed`);
* `FiberRefInv` excepts fibers on which calls of `locally` were dropped or did not nest
  (`frcrossed`);
* `PlBounded` allows one more value for each disturbed drain, and `EveryGetReturns` excepts the
  gets beside a late permit;
* `JobsPlaced` allows a job to be dropped when no thread of the pool is left;
* `CancellationArrives` leaves out tokens that were dropped and does not jump over them;
* `ScheduleInv` does not compare the stop of a schedule with a predicate under a `Compose` or a
  `Jittered` (`ScBlind`);
* `SqlInv` speaks of durable statements only while no connection was left with an open
  transaction, and `TowerInv` counts the calls dropped while they ran as a term of its own.

Smaller disagreements met on the way: `SubscriptionRef::subscribe`
says that the current value comes first (`subscription_ref.rs:58`), yet updates can be
queued before it; `FiberHandle::zip` says that the first failure wins (`fiber_handle.rs:177`),
yet it waits for both and takes the cause of its first argument; shutdown hooks are skipped
when a provider fails; `in_flight` of the Tower service stays
too high by one for every call that is dropped while it runs.

## 4. What is proved

`StmProofs` proves, for any sets of threads, cells and values and any bounds:

* `StmInvariant`: `Spec => []StmInv`;
* `StmSerializable`: `Spec => Serializable`, the optimistic protocol implements
  `StmAtomic`;
* `ProgramsInvariant`: `PSpec => []ProgramsInv`, for programs over transactional queues, a
  semaphore and a map.

The assumption of the first two is `StmAssumption`: cells are natural numbers (the address, by which
`try_commit` orders the writes), initial values are values, and `NoVal` and `NoThread` are
neither values nor threads. That of the third is `ProgramsAssumption`, below. No assumption is made about finiteness.

*The argument.* The refinement maps the abstract store to `Mem`: the live cells, except
that once the lock holder has validated, its remaining writes count as done. A transaction
takes effect at `Validated`, and then `StmAtomic` demands that every value the body saw is in
`Mem`. That needs an invariant about times before the validation, which none of the
visible properties gives:

* `LockInv`: exactly the lock holder validates or applies, so versions and cells move
  under the lock only;
* `LogInv`: a cell was read or written exactly if it has a validator, so no read escapes
  validation;
* `VersionInv`: a captured version is never ahead of the cell, and while it is the
  cell's version the value seen is the cell's value: writing a cell always
  moves its version;
* `ValidatedInv`: versions that were checked stay valid until the lock is released;
* `ResultInv`: the observer follows the call.

Together with `TypeOK` they are `StmInv`, which is inductive. The proof has one lemma per
group of actions. Then a step of `Stm` maps to a step of `StmAtomic` or a stutter: only
`Begin`, `Validated`, `BodyFail` and `Return` are visible.

`ProgramsInvariant` is about `StmPrograms` and rests on `StmInv`. It adds that the log of an
attempt is what the operations so far made of the values they saw (`LogsMade`). A transaction that
takes effect saw the store as it is, so its writes are its operations applied to that store
(`BodyApplied`), even if another body in the meantime had run on values that never were
in the store together. With that, queues change at one end by one operation, and
`KeysThere` says whose keys are in the map: those of the threads that are between the call that
acquires and the one that releases. `ProgramsAssumption` says what the programs do (the
contents of a structure are a sequence of numbers, `Vals = Seq(Nat)`): a body
changes a structure at most once, and whoever acquires a permit registers under a key of its
own in the same body and undoes both in one later body. Bodies are otherwise arbitrary, as
are threads, calls, queues, permits and keys.

Every other component but the schedules has its theorem `Spec => []Inv`, with the invariant
that its run checks. `ProofLemmas` holds what the proofs share about sequences without repetition, parts
of sequences, counting, and queues; each proof module has one lemma per action or group of
actions.

| Module | Theorems |
|---|---|
| `StmProofs` | `StmInvariant`, `StmSerializable`, `ProgramsInvariant` |
| `LifecycleProofs` | `ScopeInvariant`, `SupervisorInvariant`, `CancelInvariant`, `FibersInvariant`, `FiberRefInvariant`, `CapabilityInvariant` |
| `ResourceProofs` | `PoolInvariant`, `CacheInvariant` |
| `CoordinationProofs` | `QueueInvariant`, `ChannelInvariant`, `StreamInvariant`, `SignalInvariant`, `PubSubInvariant`, `SubRefInvariant`; of the composed system `ChannelOkInvariant`, `StreamOkInvariant`, `HubOkInvariant` |
| `ResilienceProofs` | `BreakerInvariant`, `RateInvariant`, `TowerInvariant`, `AdmissionInvariant` |
| `DurableProofs` | `SqlInvariant`, `WorkflowInvariant`, `JobsInvariant`, `SagaInvariant`, `OutboxInvariant` |
| `EventStoreProofs` | `EventStoreInvariant` |

*Assumptions.* Each theorem rests on the assumption of its component's module and nothing else,
and TLC evaluates these assumptions on every run. They type the constants; say
that absent values (`NoFiber`, `PlNoItem`, `NoJob` and so on) are no real ones; and ask for
finite sets where something is counted: the keys of a cache, the scopes of a pool, the
clones and calls of a Tower service, jobs and workers of the fabric, callers of a bulkhead,
rows and relays, setters, subscribers, tokens. A process has finitely many of these.
Capacities and limits are any numbers. Zero is included for queues, caches, the rate limiter,
the bulkhead and the restart limit of a supervisor. It is excluded where the code panics (a tick clamps to
between 1 and `AdMax`; `TwMax`; `PsCapacity`), where nothing would ever happen (every `get` of a
pool with `PlCapacity` 0 waits for ever, a drain or relay with `JbLimit` or `ObLimit` 0 does
nothing), and for `BrThreshold`: a threshold of 0 opens at the first failure as 1 does, but the
model counts failures up to the threshold only.

*The arguments.* Hardly any of the invariants is inductive as it stands. What each proof adds:

* **Scope** (`ScopeIInv`): a scope is closed by one call, so it has one frame on one stack, and the
  phase of the frame says what is known (`ScFrameOk`): while children are closed nothing of
  the bucket is gone; what a drain took and what has run are, in the order of registration,
  below one another; and without a late registration nothing is missing. `ScAdded`: one
  call adds a finalizer, to one scope. `ScLifo` is the order by positions. `ScOpen`: an open
  scope has all its finalizers, and an open latch says that the close is over. `ScOwned`: a
  child is in its owner's list and made, or about to be.
* **Fiber references** (`FiberRefIInv`): a task has saved as many values as it has calls of
  `locally` open (`FrNested`), and while the calls on a fiber nest, the outermost one has saved what
  the operations outside `locally` made of the slot (`FrOutermost`).
* **Supervisor** (`SupervisorIInv`): how far `attach` is and how far the close of the parent is when the finalizer is registered,
  what the counters of the loop are between a failure and the next run, and that after a
  cancellation the loop is on its way to the check of the token.
* **Cancellation** (`CancelIInv`): every frame on a thread's stack stands for a token whose
  flag is set (`FramesCancelled`), so a second `cancel` returns at once.
* **Fiber handles** (`FibersIInv`): a handle that its task completed has complete inputs
  (`FbSettled`). An exit never changes once it is there, so agreement is for ever.
* **Planner** (`CapabilityIInv`): the invariant of Kahn's loop (`CpKahn`): the indegree counts
  what is not ordered yet and what has none is in the queue. A queue that runs empty early
  leaves nodes that all wait for one another: a cycle, and only then.
* **Pool** (`PoolIInv`): the place of a `get` and the phase of the close determine the
  finalizers of its scope (`PlShape`), so the permits that are out can be counted, and the values of a key are the
  idle ones and those of open scopes (`PlPlaces`, `PlFits`).
* **Cache** (`CacheIInv`): the list has every entry's key once (`CaListed`). From that it follows
  that `evict_lru` always makes room by the list alone, and its branch for a list that has run
  out of keys is dead. A load that won its `Deferred` completed it well (`CaWinners`).
* **Queue** (`QueueIInv`): what producers still hold, what was handed back and what was stored
  are disjoint (`QOnce`, `QBack`), and takers hold values that left the buffer (`QHands`);
  `QWaits` follows a sleeper from the moment it releases the mutex.
* **Streams** (`StreamIInv`): what a sender owes is the rest of its offers, and a message that
  it repeats is the one it was told of last (`StOwes`); the messages of one sender are stored in
  the order of its calls (`StStored`); what the reader has in its hand left the queue after
  all that reached the stream (`StNewest`). A stream that has closed took an End out of the
  queue; by `StStored` every earlier chunk of that sender was stored before it, so it left before it.
* **Channels** (`ChannelIInv`): the outputs that are somewhere are those of `ChHanded` and none is in
  two places (`ChApart`). The outputs of a reader that is alone are in order, whatever it takes is
  newer than all of them, and it takes nothing while the list has something (`ChLinedUp`). A
  writer that is alone stores what it folds in the same order (`ChFolds`). `ChReader` and `ChWriter`
  say what a call can hold in each phase, `ChSource` that the chunks to come are the last of
  the stream.
* **Signals** (`SignalIInv`): versions count the notifications (`SgCounting`), and a waiter
  between its look and its sleep is about to be notified or was overtaken.
* **Publish/subscribe** (`PubSubIInv`): what a subscriber has, what its task holds and what its
  receiver has still to read are the log from its start on (`PsOne`); hubs that refuse keep
  receivers near (`PsNear`).
* **Subscription reference** (`SubRefIInv`): its hub is unbounded and never shut down, so every
  publish is sent and the task of an open subscriber lives (`SrTask`). A subscriber read the
  value that was stored k-th, and what was stored since is given, on its way or with a setter
  that has stored and not published (`SrKept`). Values are stored once and the initial one is
  none of them, an assumption, so that k is determined (`SrStored`).
* **The composition** (`ChannelOk`, `StreamOk`, `HubOk`): queue and hub belong to one user at a
  time. A behaviour of `MCSpec` with focus on a channel takes steps of `ChannelSpec`
  and no others, and so on; the invariants carry over.
* **Breaker** (`BreakerIInv`): an open breaker without an instant would reject for ever; the
  code opens it by writing the state first and the instant second. `OpenHasInstant` says that
  in between some call is about to write it. The part about calls that did not overlap
  speaks of moments between calls; `BrAlone` adds what the three `Ref`s hold at every place
  inside a call that is alone.
* **Rate limiter, bulkhead** (`RateIInv`): tokens and grants account for the time up to the last
  stamp or, while one refill has added and not stamped, up to the instant it will store
  (`RlAccount`).
* **Tower** (`TowerIInv`): the shape of the library's queue (`TwQueued`) and the two counts of
  permits and of calls in flight; errors that are not counted yet (`TwObserved`).
* **Admission** (`AdmissionIInv`): a queued job is once in the channel, a running one with one
  worker (`AdPlaced`); as many threads are dead as jobs panicked.
* **SQL** (`SqlIInv`): a connection is in the pool or with one call (`SqShared`), which has it
  from begin to the end of its transaction (`SqFinished`).
* **Workflow** (`WorkflowIInv`): no gap, and no worker ahead of the journal (`WfDense`); under
  SQLite the holder of the lock computes only what is missing (`WfLocked`); a worker that is
  alone is at the end of the journal (`WfAlone`).
* **Jobs** (`JobsIInv`): a job is new, queued, with one worker or behind it (`JbPlaces`), and
  the record of a running job is its own unless ids are equal (`JbRecords`).
* **Saga** (`SagaIInv`): the effects are the steps done, then the compensations done in reverse,
  up to where the run is (`SaProgress`).
* **Outbox** (`OutboxIInv`): a relay's batch is in order and nothing older than it is unsent
  (`ObAhead`); publications are counted against relays and faults (`ObCounted`).
* **Event store** (`EventStoreIInv`): the records of a writer are the first events of its
  append, at consecutive versions from the one it read (`EsPrefix`, `EsProgress`); without
  overlap that version is the next of the stream (`EsGiven`), so versions stay dense
  (`EsDense`).

*Definitions written for the provers.* The provers do not reason about `SelectSeq`, folds or
`SetToSeq`. Where the model needed one of them, the module states the same
value by positions or by what it contains: `ObByTime` (rows in order), `PlRetain` and `RemoveLru`
(a list without one element), `EsAt` and `EsVersions` (where the records of a stream are),
`TwForget` (a waiter leaves the queue), `CpByArgument` (dependents in the order of the
arguments), `SaUndone` (the compensations that took place), `Lineage` and `Held` (the scopes
above a scope, and what its bucket still holds), `FrPlaces` and `FrLatest` (calls of `locally` by position), `StFiltered` (a
sequence is another one without some elements), `ChHanded`, `ChLine` and `ChBefore` (what is
made of the elements, the outputs of one reader, and their order). TLC runs the same definitions.

*Only model-checked*:

* all liveness (`ProgramsReturn`, `CloseReachesDescendants`, `EveryCallReturns`,
  `CancellationArrives`, `HandlesSettle`, `ShutdownReleases`, `StreamEnds`, `PubSubDelivers`,
  `SignalReleases`, `BreakerRecovers`, `EveryRowRelayed`, `CloseStopsLoop`, `EveryGetReturns`),
  which is out of the reach of the prover;
* `ScheduleInv`: what its recursive operators compute would need an induction over trees, and
  the prover does not work in modules with recursive operators.

## 5. Not modelled

* In the modelled parts: scopes whose last handle is dropped, whose weak pointers then
  cannot be upgraded (`Scope`; `Supervisor` does drop its handle); `extend` under a parent
  that closes between its two checks; the walk of `is_closed` up the parents as several
  steps; more than one `get` per scope and a `get` whose future is dropped (`Pool`); a `write` to a channel whose queue was shut
  down, which repeats its offer without end (`channel.rs:703`); poisoned mutexes; panics
  other than those of job handlers, compute jobs and Tower handlers. Memory orders are not
  modelled either: the flags are sequentially consistent, and the versions of cells are
  only used under the mutex of their cell.
* Version counters do not overflow in the model; the code's are 64 bits wide.
* Hedged requests (a select over library timers), the request resolver, the test clock,
  draining of hosts, projections and CQRS handlers.
* Parts without state of their own: the effect kernel (combinators over futures, whose
  interleavings are those of every module), algebra, collections, schema, optics, parsers,
  stream combinators, dates and durations; compile-time code (macros, lints); and
  adapters to a library or the operating system (axum, RPC, CLI, configuration, logging,
  OpenTelemetry, AI clients, brokers). They are most of the repository's lines. A module about
  them would repeat the code without an interleaving, a failure or an order to check; the
  laws of the pure ones are tested in the repository. `PROJECT.json` lists each part with
  its reason.

## 6. Plan

Done, in the order in which it was built: `Stm` against `StmAtomic`, with proofs;
`StmPrograms`; `Scope`; `Cache`; `Cancel` and `Pool`; the coordination primitives;
resilience; durable execution with crashes; the supervisor and admission; dropped futures
in `Cache`; schedules, fiber handles and references, the planner, SQL
transactions and the Tower limit; the proofs about all components but the schedules.

Left to model: the request resolver with its batches, stream combinators that run
tasks (`merge`, timed windows), dropped handles in `Scope`, hedged requests.

Theorems to come: the refinement of an unbounded first-in, first-out queue by `Queue`, and
that of a `Channel` by it, along the invariants that are proved. `ScheduleInv` would have to be
stated without recursive operators first.
