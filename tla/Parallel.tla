------------------------------- MODULE Parallel -------------------------------
(***************************************************************************)
(* Remote calls: createRemoteCall() of parallel.ts, the workers and the      *)
(* responses in parallel/threads.ts, and the worker's side of a call in      *)
(* parallel/worker.ts.  A worker serves any number of calls at once; a call  *)
(* is awaited (then) or, when its function is a generator, iterated (next,   *)
(* return).  A step is what a thread runs between two messages or events, so *)
(* that a call whose worker is online is posted in the step that makes it.   *)
(* The order of messages of different calls plays no part: each call has     *)
(* queues of its own.                                                        *)
(***************************************************************************)
EXTENDS Naturals, Sequences, FiniteSets

CONSTANTS
  Tasks,      \* the remote calls
  Workers,    \* the workers that may be created
  Limits,     \* the values of parallel.maxWorkers to explore
  Faults,     \* the sets of faults to explore, of those named in Init
  MaxYields,  \* how often a generator yields at most
  None

ASSUME ParallelAssumption ==
  Limits \subseteq Nat \ {0} /\ MaxYields \in Nat /\ None \notin Workers

VARIABLES
  maxWorkers, \* parallel.maxWorkers
  generator,  \* the calls of generator functions
  faults,     \* which of the faults may happen in this behaviour
  pool,       \* workerPool
  tasks,      \* PoolRecord.tasks of a worker's record
  worker,     \* what the worker itself does
  remote,     \* remoteTasks: the calls it has an entry for
  record,     \* the worker of a call
  getWorker,  \* the call's promise of a worker that was posted the call
  settled,    \* task.error or task.result
  promise,    \* whether task.promise is there
  channel,    \* task.channel
  generate,   \* whether task.generate is there
  caller,     \* what the caller of a call waits for
  given,      \* what it was given at last
  requests,   \* the messages on the way to the worker
  responses,  \* the messages on the way to the main thread
  serving,    \* what the worker does with a call
  yielded,    \* how many data a generator has yielded
  received    \* how many of them the caller was given

options == <<maxWorkers, generator, faults>>
pools   == <<pool, tasks, worker>>
entry   == <<remote, settled, promise, channel, generate>>
mine    == <<record, getWorker, caller, given, received>>
wire    == <<requests, responses>>
thread  == <<serving, yielded>>
vars    == <<options, pools, entry, mine, wire, thread>>

Init ==
  /\ maxWorkers \in Limits
  /\ generator \in SUBSET Tasks
  \* "start": a worker may fail to start; "clone": a call may not be posted;
  \* "exit": a worker may end without an error event; "leave": a caller may
  \* call return() or throw().
  /\ faults \in Faults
  /\ pool = {}
  /\ tasks = [w \in Workers |-> {}]
  /\ worker = [w \in Workers |-> "none"]
  /\ remote = {}
  /\ record = [t \in Tasks |-> None]
  /\ getWorker = [t \in Tasks |-> "pending"]
  /\ settled = [t \in Tasks |-> "none"]
  /\ promise = [t \in Tasks |-> FALSE]
  /\ channel = [t \in Tasks |-> "none"]
  /\ generate = [t \in Tasks |-> FALSE]
  /\ caller = [t \in Tasks |-> "idle"]
  /\ given = [t \in Tasks |-> "nothing"]
  /\ requests = [t \in Tasks |-> << >>]
  /\ responses = [t \in Tasks |-> << >>]
  /\ serving = [t \in Tasks |-> "none"]
  /\ yielded = [t \in Tasks |-> 0]
  /\ received = [t \in Tasks |-> 0]

-----------------------------------------------------------------------------
(* createRemoteCall(): acquireWorker(), and the first message. *)

Idle == {w \in pool : tasks[w] = {}}

HasPlace == Cardinality(pool) < maxWorkers

\* A message to a worker that has ended is dropped.
Posted(t, w, msg) == IF worker[w] = "online" THEN Append(requests[t], msg) ELSE requests[t]

\* The record the call is entered in: an idle one, a new one, or, by its
\* number, any other.
Acquire(t, w) ==
  /\ \/ w \in Idle /\ UNCHANGED <<pool, worker>>
     \/ /\ Idle = {} /\ HasPlace
        /\ worker[w] = "none" /\ w = CHOOSE v \in Workers : worker[v] = "none"
        /\ pool' = pool \cup {w}
        /\ worker' = [worker EXCEPT ![w] = "starting"]
     \/ Idle = {} /\ ~HasPlace /\ w \in pool /\ UNCHANGED <<pool, worker>>
  /\ tasks' = [tasks EXCEPT ![w] = @ \cup {t}]
  /\ record' = [record EXCEPT ![t] = w]
  /\ caller' = [caller EXCEPT ![t] = "called"]

Call(t) ==
  /\ caller[t] = "idle"
  /\ \E w \in Workers :
       /\ Acquire(t, w)
       /\ \/ /\ worker[w] \in {"none", "starting"}
             /\ remote' = remote \cup {t}
             /\ UNCHANGED <<getWorker, requests>>
          \/ /\ worker[w] \in {"online", "dead", "exited"}
             /\ remote' = remote \cup {t}
             /\ getWorker' = [getWorker EXCEPT ![t] = "resolved"]
             /\ requests' = [requests EXCEPT ![t] = Posted(t, w, "call")]
          \* The arguments cannot be cloned: safeRemoteCall() throws.
          \/ /\ worker[w] \in {"online", "dead", "exited"} /\ "clone" \in faults
             /\ getWorker' = [getWorker EXCEPT ![t] = "rejected"]
             /\ UNCHANGED <<remote, requests>>
          \/ /\ worker[w] = "failed"
             /\ remote' = remote \cup {t}
             /\ getWorker' = [getWorker EXCEPT ![t] = "rejected"]
             /\ UNCHANGED requests
  /\ UNCHANGED <<options, settled, promise, channel, generate, given, received, responses, thread>>

-----------------------------------------------------------------------------
(* What the caller does with the call: then(), next(), return(), throw(). *)

Over(t, what) == /\ caller' = [caller EXCEPT ![t] = "over"]
                 /\ given' = [given EXCEPT ![t] = what]

\* What both then() and next() look at first; without an entry they throw.
Settled(t) == t \notin remote \/ settled[t] # "none" \/ getWorker[t] = "rejected"

GiveSettled(t) ==
  /\ Settled(t)
  /\ Over(t, IF t \notin remote \/ settled[t] # "result" THEN "error"
             ELSE IF t \in generator THEN "end" ELSE "value")
  /\ remote' = IF settled[t] = "none" THEN remote ELSE remote \ {t}

\* then(), of a function that is no generator.
Await(t) ==
  /\ caller[t] = "called" /\ t \notin generator
  /\ \/ GiveSettled(t) /\ UNCHANGED promise
     \/ /\ ~Settled(t)
        /\ caller' = [caller EXCEPT ![t] = "awaiting"]
        /\ promise' = [promise EXCEPT ![t] = getWorker[t] = "resolved"]
        /\ UNCHANGED <<remote, given>>
  /\ UNCHANGED <<options, pools, settled, channel, generate, record, getWorker, received, wire, thread>>

AskTwice(t) ==                                                      \* mutant
  /\ requests' = [requests EXCEPT ![t] = Append(Posted(t, record[t], "next"), "next")]
  /\ caller' = [caller EXCEPT ![t] = "receiving"]
  /\ channel' = [channel EXCEPT ![t] = "open"]
  /\ UNCHANGED given

\* next() once task.generate is resolved: a request, and recv().
AskForNext(t) ==
  /\ requests' = [requests EXCEPT ![t] = Posted(t, record[t], "next")]
  /\ IF channel[t] = "failed"
       THEN Over(t, "error") /\ channel' = [channel EXCEPT ![t] = "closed"]
       ELSE /\ caller' = [caller EXCEPT ![t] = "receiving"]
            /\ channel' = [channel EXCEPT ![t] = "open"]
            /\ UNCHANGED given

\* next(): it waits for its worker, then for the generator.
IterateNext(t) ==
  /\ caller[t] \in {"called", "iterating"} /\ t \in generator
  /\ \/ /\ GiveSettled(t)
        /\ channel' = IF t \in remote /\ settled[t] = "none"
                        THEN [channel EXCEPT ![t] = "open"] ELSE channel
        /\ UNCHANGED <<requests, generate>>
     \/ /\ ~Settled(t) /\ generate[t]
        /\ AskForNext(t)
        /\ UNCHANGED <<remote, generate>>
     \/ /\ ~Settled(t) /\ ~generate[t]
        /\ caller' = [caller EXCEPT ![t] = "generating"]
        /\ channel' = [channel EXCEPT ![t] = "open"]
        /\ generate' = [generate EXCEPT ![t] = getWorker[t] = "resolved"]
        /\ UNCHANGED <<requests, remote, given>>
  /\ UNCHANGED <<options, pools, settled, promise, record, getWorker, received, responses, thread>>

\* return() and throw(), which forget the call first.
Leave(t) ==
  /\ "leave" \in faults
  /\ caller[t] \in {"called", "iterating"} /\ t \in generator
  /\ remote' = remote \ {t}
  /\ IF getWorker[t] = "pending"
       THEN caller' = [caller EXCEPT ![t] = "leaving"] /\ UNCHANGED given
       ELSE Over(t, IF getWorker[t] = "rejected" THEN "error" ELSE "left")
  /\ requests' = IF getWorker[t] = "resolved"
                   THEN [requests EXCEPT ![t] = Posted(t, record[t], "return")] ELSE requests
  /\ UNCHANGED <<options, pools, settled, promise, channel, generate, record, getWorker, received, responses, thread>>

-----------------------------------------------------------------------------
(* Responses: handleWorkerMessage(). *)

Receive(t) == responses' = [responses EXCEPT ![t] = Tail(@)]

StillEntered(t) == tasks                                            \* mutant
WithoutTask(t) == [tasks EXCEPT ![record[t]] = @ \ {t}]

\* The call's entry is gone: nothing else is done.
Ignore(t) ==
  /\ responses[t] # << >> /\ t \notin remote
  /\ Receive(t)
  /\ UNCHANGED <<options, pools, entry, mine, requests, thread>>

\* A function's return value, for the awaiting caller or the one to come.
DeliverReturn(t) ==
  /\ responses[t] # << >> /\ Head(responses[t]) = "return" /\ t \in remote
  /\ Receive(t)
  /\ tasks' = WithoutTask(t)
  /\ IF promise[t]
       THEN Over(t, "value") /\ remote' = remote \ {t} /\ UNCHANGED settled
       ELSE settled' = [settled EXCEPT ![t] = "result"] /\ UNCHANGED <<caller, given, remote>>
  /\ UNCHANGED <<options, pool, worker, promise, channel, generate, record, getWorker, received, requests, thread>>

NotRejected(T) == {}                                                \* mutant
Awaited(T) == {t \in T : promise[t]}

NotClosed(T) == {}                                                  \* mutant
Iterated(T) == {t \in T \ Awaited(T) : channel[t] # "none"}

\* How the calls in T fail, in the main thread: an awaited one is rejected, the
\* channel of an iterated one is closed with the error, which recv() throws at once or
\* later, and any other keeps the error.
Fail(T) ==
  LET awaited  == Awaited(T)
      iterated == Iterated(T)
      ending   == awaited \cup {t \in iterated : caller[t] = "receiving" /\ channel[t] = "open"}
  IN /\ caller' = [t \in Tasks |-> IF t \in ending THEN "over" ELSE caller[t]]
     /\ given' = [t \in Tasks |-> IF t \in ending THEN "error" ELSE given[t]]
     /\ remote' = remote \ awaited
     /\ channel' = [t \in Tasks |-> IF t \notin iterated \/ channel[t] # "open" THEN channel[t]
                                    ELSE IF t \in ending THEN "closed" ELSE "failed"]
     /\ settled' = [t \in Tasks |-> IF t \in T \ (awaited \cup iterated) THEN "error" ELSE settled[t]]

DeliverError(t) ==
  /\ responses[t] # << >> /\ Head(responses[t]) = "error" /\ t \in remote
  /\ Receive(t)
  /\ tasks' = WithoutTask(t)
  /\ Fail({t})
  /\ UNCHANGED <<options, pool, worker, promise, generate, record, getWorker, received, requests, thread>>

\* A datum, for the recv() that waits for it.
DeliverYield(t) ==
  /\ responses[t] # << >> /\ Head(responses[t]) = "yield" /\ t \in remote
  /\ caller[t] = "receiving"
  /\ Receive(t)
  /\ received' = [received EXCEPT ![t] = @ + 1]
  /\ caller' = [caller EXCEPT ![t] = "iterating"]
  /\ UNCHANGED <<options, pools, entry, record, getWorker, given, requests, thread>>

\* The last datum is the generator's return value: it is sent, and the call returns.
DeliverDone(t) ==
  /\ responses[t] # << >> /\ Head(responses[t]) = "done" /\ t \in remote
  /\ caller[t] = "receiving"
  /\ Receive(t)
  /\ tasks' = WithoutTask(t)
  /\ settled' = [settled EXCEPT ![t] = "result"]
  /\ channel' = [channel EXCEPT ![t] = "closed"]
  /\ Over(t, "end")
  /\ UNCHANGED <<options, pool, worker, remote, promise, generate, record, getWorker, received, requests, thread>>

\* The generator is ready: next() goes on if it waits for that, else nothing is done.
DeliverGen(t) ==
  /\ responses[t] # << >> /\ Head(responses[t]) = "gen" /\ t \in remote
  /\ Receive(t)
  /\ IF caller[t] = "generating" THEN AskForNext(t) ELSE UNCHANGED <<requests, caller, given, channel>>
  /\ UNCHANGED <<options, pools, remote, settled, promise, generate, record, getWorker, received, thread>>

Deliver(t) == \/ Ignore(t) \/ DeliverReturn(t) \/ DeliverError(t)
              \/ DeliverYield(t) \/ DeliverDone(t) \/ DeliverGen(t)

-----------------------------------------------------------------------------
(* The life of a worker, seen from the main thread. *)

Waiting(w) == {t \in Tasks : record[t] = w /\ caller[t] # "idle" /\ getWorker[t] = "pending"}

\* createWorker() is fulfilled: every call that waits is posted, but for those
\* whose arguments cannot be cloned.
Online(w) ==
  /\ worker[w] = "starting"
  /\ \E unposted \in IF "clone" \in faults THEN SUBSET Waiting(w) ELSE {{}} :
       LET posted == Waiting(w) \ unposted
           failing == {t \in unposted : caller[t] # "called"}
       IN /\ getWorker' = [t \in Tasks |-> IF t \in posted THEN "resolved"
                                           ELSE IF t \in unposted THEN "rejected" ELSE getWorker[t]]
          /\ requests' = [t \in Tasks |-> IF t \notin posted THEN requests[t]
                                          ELSE IF caller[t] = "leaving" THEN <<"call", "return">>
                                          ELSE <<"call">>]
          /\ promise' = [t \in Tasks |-> promise[t] \/ (t \in posted /\ caller[t] = "awaiting")]
          /\ generate' = [t \in Tasks |-> generate[t] \/ (t \in posted /\ caller[t] = "generating")]
          /\ caller' = [t \in Tasks |-> IF t \in failing \/ (t \in posted /\ caller[t] = "leaving")
                                          THEN "over" ELSE caller[t]]
          /\ given' = [t \in Tasks |-> IF t \in failing THEN "error"
                                       ELSE IF t \in posted /\ caller[t] = "leaving" THEN "left"
                                       ELSE given[t]]
          /\ remote' = remote \ unposted
  /\ worker' = [worker EXCEPT ![w] = "online"]
  /\ UNCHANGED <<options, pool, tasks, settled, channel, record, received, responses, thread>>

\* createWorker() is rejected, and with it every call that waits; the record stays.
FailToStart(w) ==
  /\ "start" \in faults /\ worker[w] = "starting"
  /\ worker' = [worker EXCEPT ![w] = "failed"]
  /\ getWorker' = [t \in Tasks |-> IF t \in Waiting(w) THEN "rejected" ELSE getWorker[t]]
  /\ LET failing == {t \in Waiting(w) : caller[t] # "called"}
     IN /\ caller' = [t \in Tasks |-> IF t \in failing THEN "over" ELSE caller[t]]
        /\ given' = [t \in Tasks |-> IF t \in failing THEN "error" ELSE given[t]]
  /\ UNCHANGED <<options, pool, tasks, entry, record, received, wire, thread>>

\* The thread stops; with "exit" it is process.exit(), which no listener hears.
Die(w) ==
  /\ worker[w] = "online"
  /\ \E how \in {"dead"} \cup (faults \cap {"exit"}) :
       worker' = [worker EXCEPT ![w] = IF how = "exit" THEN "exited" ELSE "dead"]
  /\ requests' = [t \in Tasks |-> IF record[t] = w THEN << >> ELSE requests[t]]
  /\ serving' = [t \in Tasks |-> IF record[t] = w THEN "none" ELSE serving[t]]
  /\ UNCHANGED <<options, pool, tasks, entry, mine, responses, yielded>>

CallsOf(w) == tasks[w] \cap remote

\* The error event: handleWorkerClose().  What has not been received is lost.
HandleClose(w) ==
  /\ worker[w] = "dead"
  /\ worker' = [worker EXCEPT ![w] = "closed"]
  /\ tasks' = [tasks EXCEPT ![w] = {}]
  /\ pool' = pool \ {w}
  /\ Fail(CallsOf(w))
  /\ responses' = [t \in Tasks |-> IF record[t] = w THEN << >> ELSE responses[t]]
  /\ UNCHANGED <<options, promise, generate, record, getWorker, received, requests, thread>>

AnyRecord == {w \in pool : worker[w] = "online"}                    \* mutant
Unused == Idle

\* The interval: a record without tasks for long is taken out, its worker terminated.
Collect ==
  /\ \E w \in Unused : /\ pool' = pool \ {w}
                       /\ worker' = [worker EXCEPT ![w] = "terminated"]
  /\ UNCHANGED <<options, tasks, entry, mine, wire, thread>>

-----------------------------------------------------------------------------
(* The worker's side: handleCallRequest(), which awaits the function and may *)
(* serve the next message meanwhile.                                         *)

Reply(t, msg) == responses' = [responses EXCEPT ![t] = Append(@, msg)]

Serve(t, msg) == /\ requests[t] # << >> /\ Head(requests[t]) = msg
                 /\ requests' = [requests EXCEPT ![t] = Tail(@)]
                 /\ UNCHANGED <<options, pools, entry, mine>>

ServeCall(t) == /\ Serve(t, "call")
                /\ serving' = [serving EXCEPT ![t] = "running"]
                /\ UNCHANGED <<responses, yielded>>

\* The function returns, a generator or another value, or throws.
FinishCall(t) ==
  /\ serving[t] = "running"
  /\ \/ /\ Reply(t, IF t \in generator THEN "gen" ELSE "return")
        /\ serving' = [serving EXCEPT ![t] = IF t \in generator THEN "generator" ELSE "none"]
     \/ Reply(t, "error") /\ serving' = [serving EXCEPT ![t] = "none"]
  /\ UNCHANGED <<options, pools, entry, mine, requests, yielded>>

ServeNext(t) ==
  /\ Serve(t, "next")
  /\ \/ /\ serving[t] = "generator" /\ yielded[t] < MaxYields
        /\ Reply(t, "yield")
        /\ yielded' = [yielded EXCEPT ![t] = @ + 1]
        /\ UNCHANGED serving
     \/ /\ serving[t] = "generator"
        /\ \E msg \in {"done", "error"} : Reply(t, msg)
        /\ serving' = [serving EXCEPT ![t] = "exhausted"]
        /\ UNCHANGED yielded
     \/ /\ serving[t] # "generator"
        /\ Reply(t, IF serving[t] = "exhausted" THEN "done" ELSE "error")
        /\ UNCHANGED thread

\* return(), or throw(): the generator ends, if it is there already.
ServeReturn(t) ==
  /\ Serve(t, "return")
  /\ IF serving[t] \in {"generator", "exhausted"}
       THEN Reply(t, "done") /\ serving' = [serving EXCEPT ![t] = "exhausted"]
       ELSE Reply(t, "error") /\ UNCHANGED serving
  /\ UNCHANGED yielded

Work(t) == ServeCall(t) \/ FinishCall(t) \/ ServeNext(t) \/ ServeReturn(t)

Next == \/ \E t \in Tasks : Call(t) \/ Await(t) \/ IterateNext(t) \/ Leave(t) \/ Deliver(t) \/ Work(t)
        \/ \E w \in Workers : Online(w) \/ FailToStart(w) \/ Die(w) \/ HandleClose(w)
        \/ Collect

\* Workers start and serve, functions end, messages and error events arrive.
Fairness == /\ \A t \in Tasks : WF_vars(Deliver(t)) /\ WF_vars(Work(t))
            /\ \A w \in Workers : WF_vars(Online(w)) /\ WF_vars(HandleClose(w))

Spec == Init /\ [][Next]_vars /\ Fairness

-----------------------------------------------------------------------------
PoolTypeOK ==
  /\ maxWorkers \in Limits /\ generator \subseteq Tasks /\ faults \in Faults
  /\ pool \subseteq Workers
  /\ tasks \in [Workers -> SUBSET Tasks]
  /\ worker \in [Workers -> {"none", "starting", "online", "failed", "dead", "exited", "closed", "terminated"}]

EntryTypeOK ==
  /\ remote \subseteq Tasks
  /\ settled \in [Tasks -> {"none", "result", "error"}]
  /\ promise \in [Tasks -> BOOLEAN] /\ generate \in [Tasks -> BOOLEAN]
  /\ channel \in [Tasks -> {"none", "open", "failed", "closed"}]

CallerTypeOK ==
  /\ record \in [Tasks -> Workers \cup {None}]
  /\ getWorker \in [Tasks -> {"pending", "resolved", "rejected"}]
  /\ caller \in [Tasks -> {"idle", "called", "awaiting", "generating", "receiving",
                           "iterating", "leaving", "over"}]
  /\ given \in [Tasks -> {"nothing", "value", "end", "error", "left"}]
  /\ received \in [Tasks -> Nat]

ThreadTypeOK ==
  /\ requests \in [Tasks -> Seq({"call", "next", "return"})]
  /\ responses \in [Tasks -> Seq({"return", "error", "yield", "done", "gen"})]
  /\ serving \in [Tasks -> {"none", "running", "generator", "exhausted"}]
  /\ yielded \in [Tasks -> 0 .. MaxYields]

TypeOK == PoolTypeOK /\ EntryTypeOK /\ CallerTypeOK /\ ThreadTypeOK

\* parallel.ts:420: "The maximum number of workers allowed to exist at the
\* same time", whatever fails, dies or is collected meanwhile.
PoolBounded == Cardinality(pool) <= maxWorkers

Unsettled(t) == /\ t \in remote /\ settled[t] = "none"
                /\ caller[t] \notin {"idle", "over"}

\* The interval never terminates the worker of a call that is not settled, and
\* a call that is not settled is known to the record that must fail it when the worker dies.
Served(t) == Unsettled(t) /\ channel[t] \notin {"failed", "closed"}
               => record[t] \in pool /\ t \in tasks[record[t]]
ServedByPool == \A t \in Tasks : Served(t)

\* A record holds the calls that go on and no other, so that a worker becomes idle
\* and may be given away, collected, and does not keep the process alive.
\* Unless a worker fails to start, a call is not posted, or the caller leaves.
NoTaskKept ==
  faults \cap {"start", "clone", "leave"} = {} =>
    \A w \in Workers : \A t \in tasks[w] : record[t] = w /\ Unsettled(t)

\* Every datum a generator yields is given to its caller once, and the end comes
\* after all of them.
NoDatumLost == \A t \in Tasks :
  /\ received[t] <= yielded[t]
  /\ given[t] = "end" \/ caller[t] = "iterating" => received[t] = yielded[t]

\* then() of a call settles, even if its worker dies.  Unless it ends without an error event.
AwaitSettles == \A t \in Tasks :
  "exit" \notin faults /\ caller[t] = "awaiting" ~> caller[t] = "over"

\* The caller who waits at parallel.ts:102 for the message `gen` when it does not come any
\* more: the call has failed or its worker died first, or it came before next() was called.
\* Nobody calls task.generate, and next() never settles.
GenToCome(t) == requests[t] # << >> \/ serving[t] = "running" \/ responses[t] # << >>
Stranded(t) == caller[t] = "generating" /\ getWorker[t] = "resolved" /\ ~GenToCome(t)

\* next() of a call that was posted settles with a datum, the end, or the error, also when the
\* call fails or its worker dies.  Except for a caller who is stranded, at any time, and
\* unless a worker ends without an error event.
Asked(t) == caller[t] = "receiving" \/ (caller[t] = "generating" /\ getWorker[t] = "resolved")
NextSettles == \A t \in Tasks :
  [](~Stranded(t)) => ("exit" \notin faults /\ Asked(t) ~> caller[t] \in {"iterating", "over"})
=============================================================================
