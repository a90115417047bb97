-------------------------------- MODULE RunPool --------------------------------
(***************************************************************************)
(* The worker pool of run.ts: run() takes an idle worker, makes one while    *)
(* the pool has room, or waits in workerConsumerQueue; the task's worker     *)
(* goes back to the pool (`keepAlive`) or is terminated and taken out of it. *)
(* A step is what JavaScript runs between two awaits.  The worker threads    *)
(* are another program: they become ready, post one message, or die.         *)
(***************************************************************************)
EXTENDS Naturals, Sequences, FiniteSets

CONSTANTS
  Tasks,       \* the calls of run()
  Workers,     \* the workers that may be created
  Adapters,    \* "worker_threads" and "child_process": a pool for each
  Limits,      \* the values of run.maxWorkers to explore
  Faults,      \* the sets of faults to explore, of those named in Init
  None

ASSUME RunPoolAssumption == Limits \subseteq Nat \ {0} /\ None \notin Workers

VARIABLES
  maxWorkers, \* run.maxWorkers
  adapter,    \* each task's options.adapter
  keepAlive,  \* each task's options.keepAlive
  faults,     \* which of the faults may happen in this behaviour
  pool,       \* workerPools: the workers of each adapter's records
  busy,       \* PoolRecord.busy of a worker's record
  worker,     \* what the worker itself does: "none", "starting", "ready", ...
  consumers,  \* workerConsumerQueue
  phase,      \* how far each call of run() is
  record,     \* the worker of its pool record
  aborted,    \* whether its options.signal is aborted
  settled,    \* whether its `error` or `result` is set
  listening,  \* whether handleMessage is attached to its worker
  message,    \* whether its worker's last message is on the way
  closing     \* how many handleClose(_, true) wait for terminate()

options == <<maxWorkers, adapter, keepAlive, faults>>
pools   == <<pool, busy, worker>>
task    == <<record, aborted, settled, listening, message, closing>>
vars    == <<options, pools, consumers, phase, task>>

Init ==
  /\ maxWorkers \in Limits
  /\ adapter \in [Tasks -> Adapters]
  /\ keepAlive \in [Tasks -> BOOLEAN]
  \* "start": a worker may fail to start; "wait": the signal of a call that
  \* has no worker yet may be aborted; "abort": a task may be aborted.
  /\ faults \in Faults
  /\ pool = [a \in Adapters |-> {}]
  /\ busy = [w \in Workers |-> FALSE]
  /\ worker = [w \in Workers |-> "none"]
  /\ consumers = << >>
  /\ phase = [t \in Tasks |-> "idle"]
  /\ record = [t \in Tasks |-> None]
  /\ aborted = [t \in Tasks |-> FALSE]
  /\ settled = [t \in Tasks |-> FALSE]
  /\ listening = [t \in Tasks |-> FALSE]
  /\ message = [t \in Tasks |-> FALSE]
  /\ closing = [t \in Tasks |-> 0]

-----------------------------------------------------------------------------
(* run(): called, or called again by the callback of a queued call. *)

Idle(a) == {w \in pool[a] : ~busy[w]}

HasPlace(a) == Cardinality(pool[a]) < maxWorkers

MayRun(t) == phase[t] \in {"idle", "woken"}

RunAborted(t) ==
  /\ MayRun(t) /\ aborted[t]
  /\ phase' = [phase EXCEPT ![t] = "over"]
  /\ UNCHANGED <<options, pools, consumers, task>>

MarkBusy(w) == busy' = [busy EXCEPT ![w] = TRUE]

RunOnIdle(t) ==
  /\ MayRun(t) /\ ~aborted[t]
  /\ \E w \in Idle(adapter[t]) :
       /\ MarkBusy(w)
       /\ record' = [record EXCEPT ![t] = w]
  /\ phase' = [phase EXCEPT ![t] = "starting"]
  /\ UNCHANGED <<options, pool, worker, consumers, aborted, settled, listening, message, closing>>

RunOnNew(t) ==
  /\ MayRun(t) /\ ~aborted[t]
  /\ Idle(adapter[t]) = {} /\ HasPlace(adapter[t])
  /\ \E w \in Workers :
       /\ worker[w] = "none"
       /\ w = CHOOSE v \in Workers : worker[v] = "none"
       /\ pool' = [pool EXCEPT ![adapter[t]] = @ \cup {w}]
       /\ busy' = [busy EXCEPT ![w] = TRUE]
       /\ worker' = [worker EXCEPT ![w] = "starting"]
       /\ record' = [record EXCEPT ![t] = w]
  /\ phase' = [phase EXCEPT ![t] = "starting"]
  /\ UNCHANGED <<options, consumers, aborted, settled, listening, message, closing>>

RunQueued(t) ==
  /\ MayRun(t) /\ ~aborted[t]
  /\ Idle(adapter[t]) = {} /\ ~HasPlace(adapter[t])
  /\ consumers' = Append(consumers, t)
  /\ phase' = [phase EXCEPT ![t] = "queued"]
  /\ UNCHANGED <<options, pools, task>>

Run(t) == RunAborted(t) \/ RunOnIdle(t) \/ RunOnNew(t) \/ RunQueued(t)

-----------------------------------------------------------------------------
(* handleClose(), called synchronously or after terminate(). *)

NobodyWoken(over) == phase' = over /\ UNCHANGED consumers           \* mutant

\* `workerConsumerQueue.shift()?.()`: the head will call run() again.
WakeHead(over) ==
  IF consumers = << >> THEN phase' = over /\ UNCHANGED consumers
  ELSE /\ consumers' = Tail(consumers)
       /\ phase' = [over EXCEPT ![Head(consumers)] = "woken"]

KeptBusy(t) == busy                                                 \* mutant
Released(t) == [busy EXCEPT ![record[t]] = FALSE]

\* handleClose(_, false): release() and wake.
CloseKept(t) ==
  /\ busy' = Released(t)
  /\ listening' = [listening EXCEPT ![t] = FALSE]
  /\ WakeHead([phase EXCEPT ![t] = "over"])
  /\ UNCHANGED <<pool, worker, closing>>

WithoutRecord(t) == [pool EXCEPT ![adapter[t]] = @ \ {record[t]}]

\* handleClose(_, true) that a terminate() preceded; run() may still be waiting
\* for its worker, when it was aborted before.
Close(t) ==
  /\ closing[t] > 0
  /\ closing' = [closing EXCEPT ![t] = @ - 1]
  /\ pool' = WithoutRecord(t)
  /\ WakeHead([phase EXCEPT ![t] = IF @ = "starting" THEN @ ELSE "over"])
  /\ UNCHANGED <<options, busy, worker, record, aborted, settled, listening, message>>

\* terminate() once the worker is known, and the handleClose() that awaits it.
Terminate(t) ==
  /\ worker' = [worker EXCEPT ![record[t]] = "stopped"]
  /\ closing' = [closing EXCEPT ![t] = @ + 1]

\* What follows the last message or a failed postMessage().
Finish(t) ==
  /\ settled' = [settled EXCEPT ![t] = TRUE]
  /\ IF keepAlive[t]
       THEN CloseKept(t)
       ELSE Terminate(t) /\ UNCHANGED <<pool, busy, listening, phase, consumers>>

-----------------------------------------------------------------------------
(* The rest of run(), after `await poolRecord.getWorker`. *)

Started(t) == phase[t] = "starting" /\ worker[record[t]] \in {"ready", "stopped"}

Start(t) ==
  /\ Started(t) /\ ~settled[t]
  /\ phase' = [phase EXCEPT ![t] = "running"]
  /\ listening' = [listening EXCEPT ![t] = TRUE]
  /\ UNCHANGED <<options, pools, consumers, record, aborted, settled, message, closing>>

\* It was aborted in the meantime: terminate and throw.
StartAborted(t) ==
  /\ Started(t) /\ settled[t]
  /\ worker' = [worker EXCEPT ![record[t]] = "stopped"]
  /\ phase' = [phase EXCEPT ![t] = "over"]
  /\ UNCHANGED <<options, pool, busy, consumers, task>>

\* The arguments cannot be posted: safeRemoteCall() cleans up and throws.
StartUnposted(t) ==
  /\ Started(t) /\ ~settled[t]
  /\ Finish(t)
  /\ UNCHANGED <<options, record, aborted, message>>

\* getWorker was rejected: run() throws, and nothing else is done.
StartFailed(t) ==
  /\ phase[t] = "starting" /\ worker[record[t]] = "failed"
  /\ phase' = [phase EXCEPT ![t] = "over"]
  /\ UNCHANGED <<options, pools, consumers, task>>

-----------------------------------------------------------------------------
(* What happens to a task. *)

Deliver(t) ==
  /\ message[t] /\ listening[t]
  /\ message' = [message EXCEPT ![t] = FALSE]
  /\ Finish(t)
  /\ UNCHANGED <<options, record, aborted>>

Abortable(t) == phase[t] \in {"starting", "running"} /\ ~settled[t]

\* The abort listener, of the signal or of task.abort(); terminate() does
\* nothing yet while the worker is starting.
Abort(t) ==
  /\ "abort" \in faults /\ Abortable(t)
  /\ settled' = [settled EXCEPT ![t] = TRUE]
  /\ IF phase[t] = "running"
       THEN Terminate(t)
       ELSE closing' = [closing EXCEPT ![t] = @ + 1] /\ UNCHANGED worker
  /\ UNCHANGED <<options, pool, busy, consumers, phase, record, aborted, listening, message>>

\* options.signal is aborted before run() looks at it.
AbortWaiting(t) ==
  /\ "wait" \in faults
  /\ phase[t] \in {"idle", "queued", "woken"} /\ ~aborted[t]
  /\ aborted' = [aborted EXCEPT ![t] = TRUE]
  /\ UNCHANGED <<options, pools, consumers, phase, record, settled, listening, message, closing>>

-----------------------------------------------------------------------------
(* The workers, and the garbage collection of the idle ones. *)

Ready(w) == /\ worker[w] = "starting"
            /\ worker' = [worker EXCEPT ![w] = "ready"]
            /\ UNCHANGED <<options, pool, busy, consumers, phase, task>>

FailToStart(w) == /\ "start" \in faults /\ worker[w] = "starting"
                  /\ worker' = [worker EXCEPT ![w] = "failed"]
                  /\ UNCHANGED <<options, pool, busy, consumers, phase, task>>

\* The function of the task returns or throws, in the worker.
Post(t) ==
  /\ phase[t] = "running" /\ ~settled[t] /\ ~message[t] /\ worker[record[t]] = "ready"
  /\ message' = [message EXCEPT ![t] = TRUE]
  /\ UNCHANGED <<options, pools, consumers, phase, record, aborted, settled, listening, closing>>

\* The worker dies while it runs the task: its error event calls handleClose().
Die(t) ==
  /\ phase[t] = "running" /\ ~settled[t] /\ worker[record[t]] = "ready"
  /\ worker' = [worker EXCEPT ![record[t]] = "stopped"]
  /\ settled' = [settled EXCEPT ![t] = TRUE]
  /\ pool' = WithoutRecord(t)
  /\ WakeHead([phase EXCEPT ![t] = "over"])
  /\ UNCHANGED <<options, busy, record, aborted, listening, message, closing>>

BusyCollected(a) == {w \in pool[a] : worker[w] = "ready"}           \* mutant
Unused(a) == Idle(a)

\* A worker unused for long is taken out of the pool and terminated.
Collect(a) ==
  /\ \E w \in Unused(a) :
       /\ pool' = [pool EXCEPT ![a] = @ \ {w}]
       /\ worker' = [worker EXCEPT ![w] = "stopped"]
  /\ UNCHANGED <<options, busy, consumers, phase, task>>

Progress(t) == \/ phase[t] = "woken" /\ Run(t)
               \/ Start(t) \/ StartAborted(t) \/ StartFailed(t)
               \/ Post(t) \/ Deliver(t) \/ Close(t)

Next == \/ \E t \in Tasks : \/ Run(t) \/ Start(t) \/ StartAborted(t) \/ StartUnposted(t)
                            \/ StartFailed(t) \/ Deliver(t) \/ Close(t)
                            \/ Abort(t) \/ AbortWaiting(t) \/ Post(t) \/ Die(t)
        \/ \E w \in Workers : Ready(w) \/ FailToStart(w)
        \/ \E a \in Adapters : Collect(a)

\* Microtasks and messages are delivered, workers start, and tasks end.
Fairness == /\ \A t \in Tasks : WF_vars(Progress(t))
            /\ \A w \in Workers : WF_vars(Ready(w))

Spec == Init /\ [][Next]_vars /\ Fairness

-----------------------------------------------------------------------------
TypeOK ==
  /\ maxWorkers \in Limits
  /\ adapter \in [Tasks -> Adapters] /\ keepAlive \in [Tasks -> BOOLEAN]
  /\ faults \in Faults
  /\ pool \in [Adapters -> SUBSET Workers] /\ busy \in [Workers -> BOOLEAN]
  /\ worker \in [Workers -> {"none", "starting", "ready", "failed", "stopped"}]
  /\ consumers \in Seq(Tasks)
  /\ phase \in [Tasks -> {"idle", "queued", "woken", "starting", "running", "over"}]
  /\ record \in [Tasks -> Workers \cup {None}]
  /\ aborted \in [Tasks -> BOOLEAN] /\ settled \in [Tasks -> BOOLEAN]
  /\ listening \in [Tasks -> BOOLEAN] /\ message \in [Tasks -> BOOLEAN]
  /\ closing \in [Tasks -> 0 .. 2]

\* run.ts:623: "The maximum number of workers allowed to exist at the same time."
PoolBounded == \A a \in Adapters : Cardinality(pool[a]) <= maxWorkers

Uses(t, w) == record[t] = w /\ phase[t] \in {"starting", "running"} /\ ~settled[t]

\* run.ts:119: "Only one task is allow to run at a time for one worker thread",
\* and the worker is alive.  Unless a task that keeps its worker is aborted
\* while its last message is on the way, which gives a dying worker back.
OneTaskPerWorker ==
  "abort" \notin faults \/ (\A t \in Tasks : ~keepAlive[t]) =>
    \A t, u \in Tasks, w \in Workers :
      Uses(t, w) => worker[w] # "stopped" /\ (Uses(u, w) => t = u)

\* A record that is busy belongs to a call that will give it back: no place of
\* the pool is lost.  Unless a worker fails to start.
NoPlaceLost ==
  "start" \notin faults =>
    \A a \in Adapters : \A w \in pool[a] : busy[w] =>
      \E t \in Tasks : record[t] = w /\ (phase[t] \in {"starting", "running"} \/ closing[t] > 0)

Stuck(t) == /\ phase[t] = "queued"
            /\ Idle(adapter[t]) # {} \/ HasPlace(adapter[t])
            /\ \A u \in Tasks : phase[u] # "woken"

OneAdapter == \A t, u \in Tasks : adapter[t] = adapter[u]

\* No call stays queued beside a worker it could have.  Unless a call that
\* waits is aborted, which ends it without waking the next; or calls use both
\* adapters, whose calls wait in one queue and may be woken for nothing.
NobodyStuck ==
  OneAdapter /\ "wait" \notin faults => \A t \in Tasks : ~Stuck(t)

\* A call that waits for a worker is eventually served, or throws, when nothing fails.
EventuallyServed == \A t \in Tasks :
  faults = {} /\ phase[t] = "queued" ~> phase[t] = "over"
=============================================================================
