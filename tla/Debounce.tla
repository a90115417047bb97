------------------------------- MODULE Debounce -------------------------------
(***************************************************************************)
(* debounce.ts: the calls of debounced functions are collected in a context *)
(* (`cache`) until its timer fires; the handler then runs once for all of   *)
(* them, and what it returns or throws settles their promises.  Functions   *)
(* made for the same key share the context they find in the registry.       *)
(*                                                                          *)
(* A datum is the call that brought it, and merged data are a set of those. *)
(***************************************************************************)
EXTENDS Naturals, Sequences

CONSTANTS
  Wrappers,  \* the functions that debounce() makes
  Calls,     \* the calls of those functions
  Keys,      \* the values of `options.for`
  Caches,    \* the identities of the contexts
  None

ASSUME DebounceAssumption == None \notin Wrappers \cup Keys \cup Caches

VARIABLES
  key,       \* each function's options.for, or None
  reducer,   \* whether it was given a reducer
  aborted,   \* whether its options.signal is aborted
  cache,     \* its context, None before debounce() is called
  registry,  \* the context of each key, or None
  tasks,     \* what a context has collected, oldest first: each call, and the
             \* function that was called
  data,      \* the data it has merged, {} for undefined
  timer,     \* the function whose call has armed its timer, or None
  batches,   \* the batches whose handler runs
  promise    \* the promise of each call: "idle", "pending" or "settled"

contexts == <<registry, tasks, data, timer>>
vars == <<key, reducer, aborted, cache, contexts, batches, promise>>

CallsOf(batch) == {batch[i].call : i \in DOMAIN batch}

Init ==
  /\ key \in [Wrappers -> Keys \cup {None}]
  /\ reducer \in [Wrappers -> BOOLEAN]
  /\ aborted = [w \in Wrappers |-> FALSE]
  /\ cache = [w \in Wrappers |-> None]
  /\ registry = [k \in Keys |-> None]
  /\ tasks = [c \in Caches |-> << >>]
  /\ data = [c \in Caches |-> {}]
  /\ timer = [c \in Caches |-> None]
  /\ batches = {}
  /\ promise = [x \in Calls |-> "idle"]

-----------------------------------------------------------------------------
(* debounce() *)

Registered(w) == IF key[w] = None THEN None ELSE registry[key[w]]

Share(w) ==
  /\ cache[w] = None /\ Registered(w) # None
  /\ cache' = [cache EXCEPT ![w] = Registered(w)]
  /\ UNCHANGED registry

New(c) == \A w \in Wrappers : cache[w] # c

MakeContext(w) ==
  /\ cache[w] = None /\ Registered(w) = None
  /\ \E c \in Caches :
       /\ New(c) /\ c = CHOOSE d \in Caches : New(d)
       /\ cache' = [cache EXCEPT ![w] = c]
       /\ registry' = [k \in Keys |-> IF k = key[w] THEN c ELSE registry[k]]

Make(w) == /\ Share(w) \/ MakeContext(w)
           /\ UNCHANGED <<key, reducer, aborted, tasks, data, timer, batches, promise>>

-----------------------------------------------------------------------------
(* getResolvers(): the context is emptied, and its key can be made anew. *)

DataKept(c) == UNCHANGED data                                       \* mutant
DataTaken(c) == data' = [data EXCEPT ![c] = {}]

TakeBatch(c, w) ==
  /\ tasks' = [tasks EXCEPT ![c] = << >>]
  /\ DataTaken(c)
  /\ registry' = [k \in Keys |-> IF k = key[w] THEN None ELSE registry[k]]

Settle(batch) ==
  promise' = [x \in Calls |-> IF x \in CallsOf(batch) THEN "settled" ELSE promise[x]]

-----------------------------------------------------------------------------
(* A call of a debounced function. *)

NeverRefused(w) == FALSE                                            \* mutant
Refuses(w) == aborted[w]

\* `reducer(cache.data, data)`, or `data`.
Merged(w, c, x) == IF reducer[w] /\ data[c] # {} THEN data[c] \cup {x} ELSE {x}

CallRefused(x, w) ==
  /\ promise[x] = "idle" /\ cache[w] # None /\ Refuses(w)
  /\ promise' = [promise EXCEPT ![x] = "settled"]
  /\ UNCHANGED <<key, reducer, aborted, cache, contexts, batches>>

\* The reducer throws: the call ends, and what was collected stays.
ReducerThrows(x, w) ==
  /\ promise[x] = "idle" /\ cache[w] # None /\ ~Refuses(w)
  /\ reducer[w] /\ data[cache[w]] # {}
  /\ promise' = [promise EXCEPT ![x] = "settled"]
  /\ UNCHANGED <<key, reducer, aborted, cache, contexts, batches>>

Call(x, w) ==
  LET c == cache[w] IN
  /\ promise[x] = "idle" /\ c # None /\ ~Refuses(w)
  /\ data' = [data EXCEPT ![c] = Merged(w, c, x)]
  /\ timer' = [timer EXCEPT ![c] = w]
  /\ tasks' = [tasks EXCEPT ![c] = Append(@, [call |-> x, by |-> w])]
  /\ promise' = [promise EXCEPT ![x] = "pending"]
  /\ UNCHANGED <<key, reducer, aborted, cache, registry, batches>>

\* The timer of a context: the handler of the function called last is called.
Fire(c) ==
  /\ timer[c] # None
  /\ batches' = batches \cup {[tasks |-> tasks[c], data |-> data[c]]}
  /\ TakeBatch(c, timer[c])
  /\ timer' = [timer EXCEPT ![c] = None]
  /\ UNCHANGED <<key, reducer, aborted, cache, promise>>

FirstOnly(b) ==                                                     \* mutant
  promise' = [promise EXCEPT ![b.tasks[1].call] = "settled"]
\* `_tasks.forEach(...)`
SettleAll(b) == Settle(b.tasks)

\* The handler has returned or thrown, or its promise is settled.
Finish(b) ==
  /\ b \in batches
  /\ batches' = batches \ {b}
  /\ SettleAll(b)
  /\ UNCHANGED <<key, reducer, aborted, cache, contexts>>

TimerLeft(c) == UNCHANGED timer                                     \* mutant
ClearTimeout(c) == timer' = [timer EXCEPT ![c] = None]

\* The abort listener: whatever the context has collected is rejected.  Before
\* debounce() is called there is none.
Abort(w) ==
  /\ ~aborted[w]
  /\ aborted' = [aborted EXCEPT ![w] = TRUE]
  /\ IF cache[w] = None
       THEN UNCHANGED <<contexts, promise>>
       ELSE /\ ClearTimeout(cache[w])
            /\ TakeBatch(cache[w], w)
            /\ Settle(tasks[cache[w]])
  /\ UNCHANGED <<key, reducer, cache, batches>>

Next ==
  \/ \E w \in Wrappers : Make(w) \/ Abort(w)
  \/ \E w \in Wrappers, x \in Calls : CallRefused(x, w) \/ ReducerThrows(x, w) \/ Call(x, w)
  \/ \E c \in Caches : Fire(c)
  \/ \E b \in batches : Finish(b)

\* Timers fire and handlers end.
Fairness == /\ \A c \in Caches : WF_vars(Fire(c))
            /\ WF_vars(\E b \in batches : Finish(b))

Spec == Init /\ [][Next]_vars /\ Fairness

-----------------------------------------------------------------------------
Tasks == Seq([call : Calls, by : Wrappers])

TypeOK ==
  /\ key \in [Wrappers -> Keys \cup {None}] /\ reducer \in [Wrappers -> BOOLEAN]
  /\ aborted \in [Wrappers -> BOOLEAN] /\ cache \in [Wrappers -> Caches \cup {None}]
  /\ registry \in [Keys -> Caches \cup {None}]
  /\ tasks \in [Caches -> Tasks] /\ data \in [Caches -> SUBSET Calls]
  /\ timer \in [Caches -> Wrappers \cup {None}]
  /\ \A b \in batches : b \in [tasks : Tasks, data : SUBSET Calls]
  /\ promise \in [Calls -> {"idle", "pending", "settled"}]

Collected(x) == {c \in Caches : x \in CallsOf(tasks[c])}
Running(x) == {b \in batches : x \in CallsOf(b.tasks)}

\* A call whose promise is pending will be settled, once: it is in one batch,
\* and that batch has a timer armed or its handler runs.  No timer is armed for
\* an empty batch.
PendingInOneBatch ==
  /\ \A x \in Calls :
       /\ promise[x] = "pending" <=> Collected(x) \cup Running(x) # {}
       /\ \A p, q \in Collected(x) \cup Running(x) : p = q
  /\ \A c \in Caches : tasks[c] # << >> <=> timer[c] # None

\* The data that survive in a batch are those of the calls that no later call
\* without a reducer has replaced.
Surviving(batch) ==
  {batch[i].call : i \in {j \in DOMAIN batch :
                            \A l \in DOMAIN batch : l > j => reducer[batch[l].by]}}

\* The handler is given the data of its own batch: none of an earlier batch or
\* of a later call, and none of its own that was to be merged is missing.
DataOfTheBatch ==
  /\ \A b \in batches : b.data = Surviving(b.tasks)
  /\ \A c \in Caches : data[c] = Surviving(tasks[c])

\* debounce.ts:34: "Cancel the pending task if the signal is aborted."  No
\* handler is going to run for a call of a function whose signal is aborted.
AbortCancels ==
  \A c \in Caches : \A i \in DOMAIN tasks[c] : ~aborted[tasks[c][i].by]

\* Every call ends, also beside calls of other functions of its key, of other
\* batches, and aborts.
EveryCallSettles == \A x \in Calls : promise[x] = "pending" ~> promise[x] # "pending"
=============================================================================
