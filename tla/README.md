# A verification project for jsext

`@ayonli/jsext` is a library of JavaScript extensions.  Most of it converts
data; a part of it coordinates asynchronous code: channels, queues, locks, a
pool of workers, rate limiters, remote calls, event streams.  This project
models that part in TLA+, checks it with TLC on small instances, and proves the
results that matter most, with TLAPS, for instances of every size.

JavaScript interleaves only at awaits, callbacks and events: what runs between
two of them is one step of a model.  The models differ from the code in what
they leave out (data, messages, wording), not in the order of events.

## Inventory

The system's parts that keep state of their own, in the order of the plan.

**Channel** (`chan.ts`).  State: a buffer of at most `capacity` data, a queue
of producers (closures of blocked `send()` calls), a queue of consumers
(closures of blocked `recv()` calls), the error of `close(err)` and a state: open
1, closing 2, finished 0.  Operations: `send`, `recv`, `close`, dispose, `for
await`.  Hard: which of the three queues a call finds filled depends on the order of all
calls before it, and the state after `close()` is decided by whoever takes the
last datum.  Right when: no datum is lost, duplicated or overtaken, no caller
waits for what is there, the end comes last, a loop sees every datum.

**Queue** (`queue.ts`).  A channel and one loop over it that calls a handler.
Hard: the handler, or the error handler, may throw; pushes block, and go on after `close()`
has been called.  Right when: every pushed datum is handled once, in order.

**Locks** (`lock.ts`) on top of **BiMap** (`collections/BiMap.ts`).  A mutex is a
queue of resolvers whose head belongs to the owner; `lock(key)` makes a mutex
for a key and keeps it in a registry while the key is locked.  Hard: a lock is
handed over in one turn and its new owner runs in a later one; the registry entry goes with the last
`unlock()`; `unlock()` and `using` may both release a lock.  Right when: owners
exclude each other, nobody starves, no entry leaks and none is dropped early.

**run()** (`run.ts`).  A pool of workers for each adapter, shared by all calls, with a queue of
calls that wait for a worker.  A call takes an idle worker, makes one, or waits;
when its task ends, its worker goes back to the pool or is terminated, and the next call is woken.
Hard: aborts while the worker starts, runs or has just answered; workers that
die or never start; the garbage collection of idle ones.  Right when: the pool
stays within its limit, a worker has one task, no place is lost, nobody waits beside a free worker.

**throttle() and debounce()** (`throttle.ts`, `debounce.ts`).
A cache for each function or key, with a pending call, a last result and its
expiry; or the calls of a batch, their merged data and a timer.  Hard: calls
while the handler runs, errors, aborts, several wrappers of one key.  Right when:
the handler does not run twice at once, and every call settles.

**parallel()** (`parallel.ts`, `parallel/threads.ts`, `parallel/worker.ts`,
`worker*.ts`).  State: the pool of workers with the calls each serves, an entry for
every remote call (its promise, its channel, its outcome), and in each worker the
generators it holds.  Operations: a call, `then`, `next`, `return`, `throw`; the messages `return`,
`error`, `yield`, `gen`, the death of a worker, the interval that collects idle ones.
Hard: an answer may come before or after the caller asks for it, a worker dies with calls in flight, or
starts with calls waiting.  Right when: a call that goes on is in the record of a worker that
exists, one that has ended is in none, every `then()` and `next()` settles
(not all do, see the known limits), no datum is lost.

**Channels between threads** (`parallel/channel.ts`).  State: for each thread the ports it
writes to and a counter for their turns.  Operations: passing a channel to a worker,
`send`, `close`.  Hard: a close from one thread crosses data, other closes and the
channel itself on their way to others.  Right when: what is sent before a close
is given to one thread, once, and a close reaches every thread.

**Server-sent events** (`sse.ts`).  State: of the source its state, its timer and its last event
ID; of an endpoint its last ID and whether it is closed; and the marks of clients that must not
reconnect, shared by all endpoints.  Hard: connections that break at any point, `close()` between
two steps of `connect()`.  Right when: no event is repeated or skipped over a reconnection, an
interrupted source comes back, a closed one does not, and one that was told to stay away is turned away.

**Async utilities** (`async.ts`), **defer()** (`func.ts`), **WebSockets** (`ws.ts`, `ws/`),
**event streams as iterables** (`reader/util.ts`): races of tasks, timers and signals, deferred
callbacks, and connections that open, fail and close.

**Tar archives** (`archive/`): a parser of a stream cut anywhere.

**Everything else** converts data or wraps the runtime: arrays, strings, bytes,
objects, numbers, paths, JSON, hashes, errors, HTTP headers, files, sockets,
dialogs, `once()`, the command line, module loading, augmentation of the built-in types,
and builds for edge runtimes.

Interactions: a queue owns a channel and loops over it; `lock(key)` keeps its
mutexes in a BiMap; `run()` uses a channel to iterate over the values a worker
yields; parallel calls use channels for generators and wire channels across
threads, whose own `recv()` is that of `chan.ts`; `worker.ts` serves the calls of both
`parallel()` and `run()`; debounced calls are the tasks of `async.ts`.

`PROJECT.json` lists all components with their status, and the hazards of each
at the line where they bite.

## Modules

| Module | Models | Used by |
| --- | --- | --- |
| `Channel` | the class of `chan.ts` | `MCChannel`, `ChannelIterator` |
| `FifoChannel` | what a channel promises: a FIFO queue with handoff | `Channel` (refinement) |
| `ChannelIterator` | `for await` loops over a channel | `Queue` |
| `Queue` | `queue.ts`: a channel, one loop, a handler | `MCQueue` |
| `BiMap` | `collections/BiMap.ts` | `Lock` |
| `Lock` | the mutexes and the registry of `lock.ts` | `MCLock` |
| `AbstractLock` | what a lock promises | `Lock` (refinement) |
| `RunPool` | the pool of `run.ts` | `MCRunPool` |
| `RunTask` | what becomes of one call of `run()` | `MCRunTask` |
| `Throttle` | `throttle.ts`: the cache of a key | `MCThrottle` |
| `Debounce` | `debounce.ts`: contexts, their registry and batches | `MCDebounce` |
| `Parallel` | remote calls: `parallel.ts`, `parallel/threads.ts`, `parallel/worker.ts` | `MCParallel` |
| `ThreadChannel` | `parallel/channel.ts` | `MCThreadChannel` |
| `EventSource` | `sse.ts`: the source, its endpoints, the connection | `MCEventSource` |
| `MC*` | instances for TLC | the runs |
| `*Proofs` | theorems about a module; `ChannelProofs` also about `ChannelIterator` and `Queue`, `LockProofs` about `BiMap`, `ParallelProofs` about `ThreadChannel` | |

**Channel.**  A member of `Sends` is one call of `send()` with its datum, a member of
`Recvs` one call of `recv()`; a promise settles once, so promises are functions on
the calls.  `send`, `recv` and `close` run to their end without an await: each branch of
them is an action (`SendToConsumer`, `SendToBuffer`, `SendBlocks`,
`RecvBuffered`, `RecvFromProducer`, ...).  The closures in `producers` and
`consumers` are represented by the calls that left them; what they do when they are called is
`Produce` and `Broadcast`.  `Produce` follows the closure literally, the shift
of an empty buffer included.

**ChannelIterator.**  `next()` is split where it awaits: `IterNext` notes what
is queued and calls `recv()`; `IterResume` computes `done` later, from
the state of that moment.

**Queue.**  The loop started by the constructor, with `yielded` as the sequence of data
given to the handler.  A handler that throws is caught and the loop goes on; an
error handler that throws ends it, which the model allows (`ErrorHandlerThrows`).

**BiMap.**  A Map is a function on its keys; `Next` is any caller, `PairNext` one that
adds only new pairs and deletes by value, which is what `lock.ts` does.

**Lock.**  `MutexLock` enqueues and grants at once when the queue was empty;
`Resume` is the microtask that hands the caller its Lock; `Release` shifts the queue, grants its
new head and drops the registry entry when nobody is left.  `Read` and `Write` are
the two halves of an update with an await between them.

**RunPool.**  `Run` is the part of `run()` before it awaits its worker (abort,
idle worker, new worker, queue); `Start*` what follows the await; `Finish` the end of a task;
`CloseKept` and `Close` the two forms of `handleClose()`; `Abort`, `Die` and
`Collect` the abort listener, the error event and the interval.  The worker threads are external: `Ready`,
`FailToStart`, `Post`.

**RunTask.**  One call from the moment it is posted.  `posted` holds the messages of the worker on their
way; `HearYield` and `HearEnd` are `handleMessage()`, `Die` and `Abort` the other two ways to end,
`Terminated` the promise of `terminate()` after which `handleClose()` runs; `HandleClose` tells the
calls in `promise` and `channel`, of which there is one each because `result()` and `iterate()` overwrite
what an earlier call left.  Every loop has a channel of its own, unbounded and with one receiver: `Send` gives a datum to the loop that
waits or queues it, `Recv` is what the loop's next `recv()` finds.  So a loop may be behind when its channel is closed,
and the queued data decide what it is told: `stream` is "failed" while the error of `close(error)` can still be thrown, and
"closed" when it was closed without one or has lost it with its last datum.  That state, 2 without an error or 0,
answers the same: the end.

**Throttle.**  A call ends in the step in which it is made, because what it
returns is a result, a thrown error or a promise; the promise settles later,
in `Settle`, which is the `finally` callback.  A run of the handler is known by its number; `Tick` is the clock.
When it began and ended, and what the last call was given, are kept as history.

**Debounce.**  `Make` is `debounce()` itself, which may find the context of its
key in the registry.  `Call` merges, arms the timer and collects; `Fire` empties the
context (`getResolvers`) and starts a batch; `Finish` settles all calls of the batch, with
the result or the error, which no property tells apart; `Abort` is the listener of a function's signal.
A handler that returns no promise finishes in the step in which it is fired; the model
allows that and more.

**Parallel.**  A member of `Tasks` is one remote call; its entry in `remoteTasks` is spread over functions on
the calls (`remote`, `settled`, `promise`, `channel`, `generate`).  `Call` is
`createRemoteCall()` with `acquireWorker()` up to its await: a worker that is online is
posted in that step, for one that starts the call waits in its record until `Online`.  `Await`,
`IterateNext` and `Leave` are what a caller does with the call, `Deliver*` the branches of
`handleWorkerMessage()`, `HandleClose` the end of a worker, `Collect` the interval, `Serve*`
and `FinishCall` the worker's `handleCallRequest()`.  The thread is external: `Die`.  `faults` says, per
behaviour, which of start failures, clone errors, exits without an event and `return()` may happen.
Messages of different calls are independent, so each call has queues of its own.

**ThreadChannel.**  `writers[t]` and `counter[t]` are the record of the channel in thread `t`; a writer is known by
the thread it posts to, and a thread the channel was passed to twice is there twice.  `Pass` wires the main
thread's side and posts the channel itself, `ReceiveCall` the worker's; `Send` takes the next
writer in turn; `ReceiveClose` distributes a close when there are several.  `link` are the
ports: they keep the order of one sender and nothing else.

**EventSource.**  The client's `connect()` is split where it awaits: `fetching`, `responding`,
`reading`.  `Interrupted` is the error event with a listener that may call `close()`, then
`tryReconnect()`.  The server accepts (`Accept`), sends and closes; `close()` of an endpoint is
`CloseEndpoint` and, when its promise settles, `FinishClose`.  The application goes on after the last
event ID of a request, as such servers do.  `MaxBreaks` counts failures and
endpoints that are closed.

## Runs

| Run | Instance | Shows |
| --- | --- | --- |
| `channel` | 5 sends, 10 receives; capacities 0, 1, 2, Infinity | data exactly once, nobody missed, the end last, refinement of the FIFO queue, everything accepted is received |
| `channel_phantom` | capacity 1, 3 sends, 3 receives | a finding: see below |
| `queue` | 3 pushes, 7 receives; capacities 0, 1, Infinity | nothing skipped, handled in order, close ends the loop after the channel is drained, everything pushed is handled |
| `lock` | 3 coroutines, one guarded mutex, 2 keys; with and without a coroutine that releases twice | exclusion, an exact registry, no starvation, refinement of the abstract lock |
| `run_pool` | 3 calls, 3 workers, pools of 1 and 2; no fault, workers that fail to start, waiting calls or tasks that are aborted | one task for a worker, no place lost, nobody stuck, everyone served |
| `run_task` | 3 data, 3 calls of `result()` and `iterate()`, with and without `keepAlive`; loops that keep up or fall behind | nobody is told a value when another is told an error, and the error of a failure reaches exactly the loops that had taken what had arrived (`OneOutcome`); `LoopComplete`; the last to ask are told (`EverybodyTold`) |
| `throttle` | 2 functions, durations 0, 1, 2, 3 runs, 5 ticks | runs a duration apart, nothing stale or superseded |
| `debounce` | 3 functions, 3 calls, 1 key | every call in one batch that ends, data not mixed, aborts cancel |
| `parallel` | 2 calls, 2 workers, pools of 1 and 2, 2 data; five sets of faults | calls that go on have a worker (`ServedByPool`) and others have none (`NoTaskKept`), `NoDatumLost`, `then()` settles, and `next()` does for callers who do not wait for a `gen` that no longer comes (`NextSettles`) |
| `thread_channel` | 3 threads, 3 passes, 2 data from each | `CloserHeard`: data before a close arrive, once and in order; `CloseReachesAll` |
| `event_source` | 3 events, 3 interruptions; other statuses, endpoints closed twice, data after a close | no event repeated or lost, clean closes stay, turned away when and only when asked, reconnection |
| `event_source_close` | 1 event, 1 interruption | a finding |

*Why the bounds are enough.*  Five sends exceed the largest finite buffer by three: the buffer is full with
senders blocked in line behind it.  Ten receives drain it past every phantom value and
still ask after the end.  The calls are interchangeable, so `MCChannel` makes
them in a fixed order; every order of *kinds* of calls remains.  A queue has one
loop, and 7 receives cover 3 data, the phantom values of capacity 1 and the
end.  Three coroutines are an owner, one that waits, and a third that comes in between; a
fourth mutex is never needed, since each coroutine asks for one at a time.  Three calls on a
pool of one or two give a worker that is used, one call that waits, and another
that waits behind it or comes new.

Two functions of a
throttle's cache are the one that has started a run and another; three runs are the last result, the
pending run and the one after it.  Three debounced functions are two that
share a context and one made after it has left the registry; three calls fill
one batch with two, beside or after another.

Three calls on one task are a loop, a promise and a call after the end, or a loop that is overwritten and its
successor; three data are one that a loop was given, one in its channel and one on its way.  Two remote calls are one that shares a worker, in a pool of one, or
keeps it from being idle, and the other; two workers are one that has died or failed and its successor; two data put an end behind a datum
that was given and one that was not.  Three passes to two workers give a worker with two turns and one
with one.  Three events over three interruptions are one event for each
connection, and a fourth connection after the last.
`MCRunPool`, `MCDebounce` and `MCParallel`
start only from the combinations of options that are in order, since the callers are alike but for them.

*Bounds in the modules.*  `ValueBound` (Lock) wraps the guarded counter.  `Workers` (RunPool) is how
many workers may ever be created: each of the 3 calls makes one at most, so 3 are enough.
`MaxRuns` and `MaxTime` (Throttle) stop the handler and the clock.
A Mutex object (Lock) nobody refers to stands for a new one.
`LockNewKey` and `RunOnNew` take the first unused identity, since unused ones are alike.

`MaxCalls`, `MaxYields`, `MaxPasses`, `MaxData`, `MaxEvents` and `MaxBreaks` stop the callers, generators,
threads, the application and the failures of the network.

*Deadlock* is checked for `lock`.  The other models make finitely many calls and then
stop, which their configurations allow.

*Fairness.*  `channel`: a receiver calls `recv()` again and again, as a loop does.  `queue`: the
loop's microtasks run and each handler settles.  `lock`: microtasks run and a coroutine that has a
lock gives it up.  `run_pool`: microtasks and messages are delivered, a starting worker
becomes ready, a task posts its last message.  `run_task`: the worker's function ends, messages and
`terminate()` are delivered, and a loop asks for its next datum as long as it was not told the end.  `debounce`: timers fire and handlers end.  `parallel`: messages and events
are delivered, workers start or fail to, functions end.  `thread_channel`: what is posted arrives.  `event_source`: timers
fire, the server answers, what is written arrives, promises settle; that the network fails no more is
the bound `MaxBreaks`.  `throttle` claims no liveness.  Senders, closers, aborts, deaths, failures and the
garbage collection are never forced.

## Findings

* `channel_phantom` (`chan.ts:65`): `recv()` calls the closure of a blocked `send()` only when
  the buffer is empty, and the closure of a buffered channel then shifts that empty buffer: the receiver is given `undefined`,
  the sign of the end, by an open channel, and the datum stays in the buffer for the next one.
* `event_source_close` (`sse.ts:749`): when `close()` is called while `connect()` awaits `fetch()`, or by a listener
  of the error event, `connect()` goes on to `tryReconnect()`, which does not look whether the source was closed: it sets
  `readyState` to CONNECTING and arms the timer.  Every later `fetch()` fails at once, the signal being aborted,
  and the source reconnects for ever.  `sse.ts:758` says "Closes the connection."

## Proofs

The proofs hold for all values of the constants that satisfy the assumptions
in the modules (`CapacityAssumption`, `UndefAssumption`, `OneLoop`, `LockAssumption`, `RunPoolAssumption`,
`RunTaskAssumption`, `ThrottleAssumption`, `DebounceAssumption`, `ParallelAssumption`, `ThreadChannelAssumption`,
`EventSourceAssumption`): any sets of
calls, capacities, coroutines, keys, workers, limits, functions and durations, any numbers of data, events and interruptions.

* **`ChannelProofs`**, the channel: `TypeCorrect`, `NobodyMissed`, `NobodyForgotten`, `DataExactlyOnce`, `EndIsLast`, `FifoImplemented`.
  `NoReceiverMissed` is not inductive: a channel with an error and waiting consumers would
  break it, so it is proved with *an error is there only once the channel is
  closed* (`ErrorMeansClosed`).  `ExactlyOnce` needs that only a fulfilled receiver has a datum (`ValuesGiven`).
  Each rests on the ones before it.  `FifoImplemented` shows, action by action, which step of `FifoChannel`
  an action is under the mapping `queue <- buffer \o producers`.  It needs
  `OneQueueUsed`: of an ordered channel one of the two is always empty.  `EndIsLast` needs `EndMeansFinished`.
* **`ChannelProofs`**, the loop and the queue: `NothingIsSkipped`, `LoopDrains`, `HandlesInOrder`.  The queue is the iterator with a
  loop body that may fail (`QueueIsLoop`), and each of its steps is a step of the channel or leaves it alone
  (`LoopUsesChannel`), so that all theorems above hold of it.  `next()` computes `done` after the await, from the
  state of that moment: `NothingSkipped` needs that a loop whose `recv()` found something was given it
  (`FoundIsGiven`), and `EndedMeansDrained` that one which found nothing and sees a finished channel
  was given the end and leaves nothing queued (`EndsEmpty`).  `HandledInOrder` needs that what was pushed is what was
  handled, what the loop has in hand and what the channel holds, in that order (`OrderInv`).
* **`LockProofs`**: one inductive invariant, `LockInv`, joins the queue in step
  with the coroutines, the exact registry and the value of a mutex that its reader has seen; neither of the first
  two is inductive alone, because `lock(key)` trusts the registry and
  `unlock()` drops an entry by the queue.  From it: `LockTypeCorrect`, `QueueInStep`, `RegistryCorrect`, `Exclusion`,
  `NoUpdateLost`, and `MutexImplementsLock`, the refinement of `AbstractLock`
  by every mutex at once.  The last five are conditional on locks being released once.  The registry:
  `RegistryUsesPairs` shows that whatever the callers of `lock.ts` do it changes its BiMap by pairs only, and `PairsAgree` that the two
  maps of such a BiMap are inverse; hence `RegistryAgrees`, without a condition.
* **`RunPoolProofs`**: `RunPoolTypeCorrect` needs `ClosingBounded` (who may still call
  `terminate()`); `PoolWithinLimit` follows from what each action may do to a pool (`PoolSteps`).
  `NoPlaceKept` proves `NoPlaceLost` by `PlaceInv`: a record is in one pool only and never comes back to
  it; a call aborted while its worker starts has a `handleClose()` on the way or has lost its record; the
  queue holds each waiting call once, so that waking its head disturbs no owner.  `FramePlaces` states once
  what a step must respect; each action is shown to respect it.
  `NobodyStaysStuck` needs `SlotInv`: while a call waits, each place of the pool is taken by a worker
  with a task or is the one a call was woken for and has not used yet (`PlacesTaken`); that nobody waits beside an idle worker
  says nothing about the wake-ups on their way.  `WorkerServesOne` needs `HoldInv`: the calls that hold
  a record hold different ones, a held record is busy, and one that was stopped is held by the call it was stopped for;
  where workers are never kept, that each record was used by one call only (`UsedOnce`).
* **`RunTaskProofs`**: one invariant, `RunTaskInv`.  `OneOutcome` needs that those who were told were told what the
  variables of `run()` say, and why a channel may be closed without the error (`ToldAsKnown`), what the state of a channel says of the data in it
  (`StreamKnown`: one that will throw holds data just when it held some when it was closed), and that once the result is there the worker has nothing left to post, so that no later message changes it (`EndHeard`).  `LoopComplete` needs that the
  messages on their way are the data still to come, in order, and then the end (`EndLast`), and that what a loop was given and what is left in
  its channel follow each other up to what has arrived (`ItemsInOrder`).  `RecvInv` is the step of a loop, `Telling` what `handleClose()` does to one call.
  From it: `RunTaskTypeCorrect`, `OutcomeIsOne`, `LoopIsGivenAll`.
* **`ThrottleProofs`**: one invariant, `ThrottleInv`, of which the heart is that only the
  last run may be pending (`RunsInOrder`) and that the expiry of the cache covers every run that has ended
  (`ExpiryCovers`): `RunsApart` alone says nothing about when the next run may begin.  From it:
  `ThrottleTypeCorrect`, `RunsKeptApart`, `LatestIsGiven`, `NobodyWaits`.  `NothingGivenStale` needs also that a cached result with time left
  is one of a run that ended no longer ago than its duration (`ResultFresh`, `ReplyFresh`).
* **`DebounceProofs`**: one invariant, `DebounceInv`.  `PendingInOneBatch` needs that a pending promise is one of a call in a
  context or a running batch and the other way round (`PromiseKnown`), and that these share no call (`BatchesApart`); `AbortCancels` is
  inductive only with *what a context has collected came from functions that have this context* (`OwnContext`): the
  listener of a signal empties the context of its function and no other.  From it: `DebounceTypeCorrect`, `OneBatchEach`,
  `BatchHasItsData`, `AbortEndsCalls`.
* **`ParallelProofs`**: one invariant, `ParallelInv`, says for each call, by itself, where it is: nothing is on its way for a
  call that was not posted (`PostedFirst`), one that waits for a worker is in the record of one that starts
  (`Starting`), who iterates has a channel (`Iterating`), a record holds calls of its own that go on (`Held`), and between the two
  threads of a generator there is at most one message, the one the caller waits for (`InStep`).  `ServedByPool` alone is not
  inductive: that the worker of a call is not collected needs its place in the record.  `UntouchedInv` states once that a step of one call
  leaves the others in order, `OneCall` and `OneWorker` what a step must then still show.  From it: `ParallelTypeCorrect`, `CallsAreServed`,
  `RecordsAreLeft`, `NothingIsLost`; and, from what a step may do to the pool (`PoolStep`), `PoolWithinMaxWorkers`.
* **`ParallelProofs`**, channels between threads: one invariant, `ThreadInv`.  That the data of a sender are given once and in order
  (`SentOnce`) needs that no more were given than sent; what a step does between two threads is one of three
  things (`PairSteps`).  That nothing sent before a close is lost (`Delivered`) is not inductive: a datum is dropped when its receiver has no record.
  So each datum on its way has no close before it and finds a record, or the channel itself comes before it (`AllAccepted`);
  who is written to has the channel or it is on its way, as long as nobody has closed it (`Expected`); and each close on its way comes from a
  thread that closed (`ClosesKnown`, `Sides`).  From it: `PortTypeCorrect`, `SentBeforeClose`.
* **`EventSourceProofs`**: one invariant, `EventSourceInv`.  `NothingRepeated` needs what is still on the wire:
  it follows on the last event the client has, and the end comes last (`WireInOrder`); `ClosedStaysClosed` needs that a
  clean close leaves no request behind (`CleanlyClosed`); `TurnedAwayIfAsked` that marks were asked for
  (`MarkedWereAsked`).  From it: `EventSourceTypeCorrect`, `EventsInOrder`, `NeverTwoConnections`, `CloseStays`, `OnlyAskedTurnedAway`.

*Only model-checked.*  Liveness (`EventuallyReceived`, `CloseEndsLoops`, `EventuallyHandled`,
`NoStarvation`, `EventuallyServed`, `EverybodyTold`, `EveryCallSettles`, `AwaitSettles`, `NextSettles`, `CloseReachesAll`,
`NoReconnectObeyed`, `Reconnects`), which is out of the prover's reach, as are ENABLED
and induction over data; no module uses a RECURSIVE operator.  Every safety invariant that a run checks is proved.

## Known limits

Behaviour met while modelling, stated by no property of a passing run:

* `close(err)` while data are queued: taking the last datum finishes the channel, and the error is
  never raised (`chan.ts:95`).  This reaches `run()`: `run.ts:102` says of `abort()` that "`result()` or `iterate()` will throw that
  error", but a loop over `iterate()` that has not taken all data when the task fails or is aborted is given the rest and then
  ends as if the generator had (`run.ts:386`), while a later `result()` is rejected.  `OneOutcome` states which loops are told the error and
  which are not, so it describes the code and not the sentence in `run.ts`: the sentence is violated in
  six steps (`Iterate`, `WorkYield`, `HearYield`, `Die`, and `Recv` twice).
* In a finite buffer a blocked sender is not moved into room that a `recv()` makes, so that a later
  `send()` overtakes it (`chan.ts:49`, `chan.ts:92`): order is claimed for capacities 0 and Infinity only.
* `BiMap.set()` of a known key or value, and the inherited `delete()`, leave the two maps apart
  (`BiMap.ts:43`); the registry of `lock.ts` does neither.
* `run()`: a worker that fails to start keeps its place in the pool (`run.ts:475`), so `NoPlaceLost` is
  conditional on that fault; a task with `keepAlive` that is aborted while its last message is on
  the way gives back a worker that is being terminated, so `OneTaskPerWorker` is conditional on that; calls of both
  adapters wait in one queue, and a call may be woken for a place of the other pool, so `NobodyStuck` is asked for one adapter.
* A queue whose error handler throws stops handling (`queue.ts:20`): `EventuallyHandled` says so.
* `throttle()`: a function with `noWait` that finds an expired error starts a new run, throws the old error and
  caches it again for the duration (`throttle.ts:126`, `throttle.ts:139`); until the run ends, functions of
  the same key without `noWait` are given that error for fresh.  `NothingStale` leaves it out.
* `debounce()`: the abort of one function's signal rejects the calls of all functions that share its context.

* Channels: of two loops over one channel that wait, one may lose its datum: `send(x)` serves the first, `close()` ends the second and
  finishes the channel, and the first computes `done` from that state (`chan.ts:171`).  `Queue` has one loop.
* Locks: `unlock()` does not look whether it was called before (`lock.ts:123`); `unlock()` and then `using` take the next
  owner out of the queue and let a third coroutine in.  Exclusion is claimed for locks released once.
* `run()`, the pool: a woken call whose signal is aborted throws without waking the next one (`run.ts:183`).
* `run()`, the outcome: a second `result()` replaces the promise of the first, which never settles
  (`run.ts:598`); a second `iterate()`, or one after an error, makes a channel that never ends (`run.ts:603`); values
  yielded before `iterate()` go nowhere; a loop ends without the error when `result()` was called as well
  (`run.ts:378`), or when data were queued as it failed (above); what comes for a channel that is closed makes
  `send()` throw inside `handleMessage()` (`run.ts:340`); an error that is falsy becomes the result undefined.
* `debounce()`: the context of a key leaves the registry when its batch is taken or aborted (`debounce.ts:167`);
  functions made before keep it, later ones get another, and the calls of one key are no longer merged.
* `parallel()`, callers: `next()` waits for the message `gen`; made after that has come, or for a call that
  fails instead or whose worker dies first, it waits for ever (`parallel.ts:102`).  `NextSettles` leaves these callers out, by name (`Stranded`), and
  holds of all others, whose worker may die too.  A generator that is awaited never settles.  `return()` and `throw()` leave
  the task in the record, so that its worker never becomes idle (`parallel.ts:120`, `threads.ts:238`).  A remote error that is falsy is taken for no error.
* `parallel()`, workers: one that fails to start keeps its place and fails every call it is given (`threads.ts:349`); one that calls
  `process.exit()` raises no error event, and its calls wait for ever (`threads.ts:360`; likewise in `run.ts`).  The entries of
  iterated calls stay in `remoteTasks`, the generators in a worker's `pendingTasks` (`worker.ts:227`).
* Thread channels: `send()` after a close from another thread resolves, and the datum is lost (`channel.ts:65`); a closed channel
  passed to a worker is open there, which the model leaves out; a worker that has died keeps its turn.
* Event sources: the messages of one chunk are dispatched also after a listener has called `close()`.  `close(true)` of two endpoints
  that have sent the same ID, or twice of one, takes the mark back (`sse.ts:442`); and the mark is for the ID sent last, which the
  client may not have received, so that it is not turned away.

## Not modelled

What functions return and yield, and how values and errors are converted between threads; the difference between threads and
processes; the durations of timers; the format of an event stream.  The parser of tar archives is a loop over one
stream with no second actor and no state that outlives it: the hazard is the data, not the order of
events.  WebSockets (`ws.ts`, `ws/`) forward the events of the platform's socket and keep no
state but its; of the async utilities (`async.ts`, `func.ts`, `once.ts`) each call keeps its own promise, timer and listener and shares
nothing with others: both come next in the plan, after what is shared.  File system, HTTP, network, dialogs and the
command line are I/O; arrays, strings, bytes, objects, numbers, paths and JSON are pure; `bundle/` and `esm/` are built from
the TypeScript sources.

## Plan

1. Done, with their proofs: `Channel`, `FifoChannel`, `ChannelIterator`, `Queue`; `BiMap`, `Lock`, `AbstractLock`; `RunPool`.
2. Done, with their proofs: `Throttle`, `Debounce`, `RunTask`, `Parallel`, `EventSource`.
3. Done, with its proofs: `ThreadChannel`.  Left: its composition with `Channel` for each thread's own `recv()`.
4. Left: the connection of a WebSocket and the events it raises, and the races of `select()` and `abortable()`.
