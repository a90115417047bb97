----------------------------- MODULE ParallelProofs -----------------------------
(* Theorems about Parallel, and about the channels between its threads,            *)
(* ThreadChannel.                                                                  *)
EXTENDS Parallel, ThreadChannel, TLAPS, FiniteSetTheorems

(***************************************************************************)
(* What is known of each call, whatever the others do.                       *)
(***************************************************************************)

\* Nothing is on its way for a call that was not posted.
PostedFirst(t) ==
  /\ generate[t] \/ promise[t] \/ requests[t] # << >> \/ responses[t] # << >> \/ serving[t] # "none"
       => getWorker[t] = "resolved"
  /\ caller[t] = "idle" =>
       /\ getWorker[t] = "pending" /\ settled[t] = "none" /\ given[t] = "nothing"
       /\ t \notin remote /\ \A w \in Workers : t \notin tasks[w]
  /\ caller[t] # "idle" => record[t] \in Workers
  /\ getWorker[t] = "resolved" => caller[t] \notin {"idle", "leaving"}

\* A call that waits for its worker to start is in its record, and has not ended.
Starting(t) ==
  getWorker[t] = "pending" /\ caller[t] # "idle" =>
    /\ record[t] \in pool /\ worker[record[t]] = "starting" /\ t \in tasks[record[t]]
    /\ settled[t] = "none" /\ channel[t] \in {"none", "open"}
    /\ caller[t] # "over" /\ (caller[t] # "leaving" => t \in remote)

\* A caller that iterates has a channel, and the call has not ended.
Iterating(t) ==
  /\ caller[t] \in {"idle", "called", "awaiting"} => channel[t] = "none" /\ ~generate[t]
  /\ caller[t] \in {"receiving", "iterating"} => generate[t]
  /\ caller[t] = "generating" => generate[t] \/ getWorker[t] = "pending"
  /\ caller[t] = "receiving" => channel[t] = "open"
  /\ caller[t] \in {"generating", "iterating"} => channel[t] \in {"open", "failed"}
  /\ caller[t] \in {"generating", "receiving", "iterating"} => t \in remote /\ settled[t] = "none"
  /\ t \in generator => ~promise[t] /\ caller[t] # "awaiting"
  /\ t \in generator /\ settled[t] = "result" => caller[t] = "over"
  /\ t \notin generator => caller[t] \notin {"generating", "receiving", "iterating", "leaving"}

\* The calls of a record, without the faults that leave some in it.
Held(t) ==
  /\ \A w \in Workers : t \in tasks[w] => record[t] = w
  /\ faults \cap {"start", "clone", "leave"} = {} =>
       /\ getWorker[t] # "rejected" /\ caller[t] # "leaving"
       /\ \A w \in Workers : t \in tasks[w] => Unsettled(t) /\ channel[t] \in {"none", "open"}

\* What is on its way between the worker and the caller of a generator: at most one
\* message, and that is what the caller waits for.
InStep(t) ==
  /\ received[t] <= yielded[t]
  /\ given[t] # "nothing" => caller[t] = "over"
  /\ t \notin generator => received[t] = 0 /\ given[t] # "end"
  /\ caller[t] \in {"idle", "called", "generating"} /\ t \in generator =>
       /\ received[t] = 0 /\ yielded[t] = 0
       /\ \/ requests[t] \in {<< >>, <<"call">>} /\ responses[t] = << >> /\ serving[t] = "none"
          \/ requests[t] = << >> /\ responses[t] = << >>
          \/ requests[t] = << >> /\ responses[t] \in {<<"gen">>, <<"error">>} /\ serving[t] # "running"
  /\ caller[t] = "receiving" =>
       /\ serving[t] # "running"
       /\ \/ requests[t] \in {<< >>, <<"next">>} /\ responses[t] = << >> /\ received[t] = yielded[t]
          \/ requests[t] = << >> /\ responses[t] = <<"yield">> /\ received[t] + 1 = yielded[t]
          \/ requests[t] = << >> /\ responses[t] \in {<<"done">>, <<"error">>} /\ received[t] = yielded[t]
  /\ caller[t] = "iterating" \/ given[t] = "end" =>
       /\ serving[t] # "running" /\ requests[t] = << >> /\ responses[t] = << >>
       /\ received[t] = yielded[t]

CallInv(t) == PostedFirst(t) /\ Starting(t) /\ Iterating(t) /\ Held(t) /\ InStep(t) /\ Served(t)

\* A record in the pool has a worker, which fails to start only where it may.
RecordsStarted ==
  \A w \in Workers :
    /\ w \in pool => worker[w] # "none"
    /\ worker[w] = "failed" => "start" \in faults

ParallelInv == TypeOK /\ RecordsStarted /\ \A t \in Tasks : CallInv(t)

\* The sequences of messages are short.
LEMMA ShortSequences ==
  /\ Head(<<"gen">>) = "gen" /\ Tail(<<"gen">>) = << >> /\ <<"gen">> # << >>
  /\ Head(<<"error">>) = "error" /\ Tail(<<"error">>) = << >> /\ <<"error">> # << >>
  /\ Head(<<"yield">>) = "yield" /\ Tail(<<"yield">>) = << >> /\ <<"yield">> # << >>
  /\ Head(<<"done">>) = "done" /\ Tail(<<"done">>) = << >> /\ <<"done">> # << >>
  /\ Head(<<"call">>) = "call" /\ Tail(<<"call">>) = << >> /\ <<"call">> # << >>
  /\ Head(<<"next">>) = "next" /\ Tail(<<"next">>) = << >> /\ <<"next">> # << >>
  /\ \A x : Append(<< >>, x) = <<x>>
OBVIOUS

LEMMA Appending ==
  ASSUME NEW S, NEW s \in Seq(S), NEW e \in S
  PROVE  Append(s, e) \in Seq(S) /\ Append(s, e) # << >>
<1>1. Append(s, e) \in Seq(S) /\ Len(Append(s, e)) = Len(s) + 1 /\ Len(s) \in Nat
  OBVIOUS
<1> QED
  BY <1>1

LEMMA Taking == ASSUME NEW S, NEW s \in Seq(S), s # << >> PROVE Tail(s) \in Seq(S) /\ Head(s) \in S
OBVIOUS

-----------------------------------------------------------------------------
\* A step that does not touch a call, whatever it does to the pool.
Untouched(u) ==
  /\ generate'[u] = generate[u] /\ promise'[u] = promise[u] /\ requests'[u] = requests[u]
  /\ responses'[u] = responses[u] /\ serving'[u] = serving[u] /\ getWorker'[u] = getWorker[u]
  /\ caller'[u] = caller[u] /\ given'[u] = given[u] /\ settled'[u] = settled[u]
  /\ channel'[u] = channel[u] /\ record'[u] = record[u]
  /\ received'[u] = received[u] /\ yielded'[u] = yielded[u]
  /\ u \in remote' <=> u \in remote
  /\ \A w \in Workers : u \in tasks'[w] <=> u \in tasks[w]

\* A step that leaves the record of a call where it is.
RecordStays(u) ==
  /\ record[u] \in pool => record[u] \in pool'
  /\ worker[record[u]] = "starting" /\ getWorker[u] = "pending" /\ caller[u] # "idle" =>
       worker'[record[u]] = "starting"

LEMMA UntouchedInv ==
  ASSUME TypeOK, NEW u \in Tasks, CallInv(u), Untouched(u), UNCHANGED options
  PROVE  /\ PostedFirst(u)' /\ Iterating(u)' /\ Held(u)' /\ InStep(u)'
         /\ RecordStays(u) => CallInv(u)'
<1> USE DEF CallInv, Untouched, options
<1>1. PostedFirst(u)'
  BY DEF PostedFirst
<1>2. Iterating(u)'
  BY DEF Iterating
<1>3. Held(u)'
  BY DEF Held, Unsettled
<1>4. InStep(u)'
  BY DEF InStep
<1>5. RecordStays(u) => Served(u)'
  BY DEF RecordStays, Served, Unsettled, TypeOK, PoolTypeOK
<1>6. RecordStays(u) => Starting(u)'
  BY DEF RecordStays, Starting, TypeOK, PoolTypeOK
<1> QED
  BY <1>1, <1>2, <1>3, <1>4, <1>5, <1>6

\* A step of one call.
LEMMA OneCall ==
  ASSUME ParallelInv, NEW t \in Tasks, CallInv(t)', TypeOK', RecordsStarted', UNCHANGED options,
         \A u \in Tasks \ {t} : Untouched(u) /\ RecordStays(u)
  PROVE  ParallelInv'
<1>1. \A u \in Tasks : CallInv(u)'
  <2> SUFFICES ASSUME NEW u \in Tasks, u # t PROVE CallInv(u)'
    OBVIOUS
  <2> QED
    BY UntouchedInv DEF ParallelInv
<1> QED
  BY <1>1 DEF ParallelInv

LEMMA MakeCallInv == ASSUME ParallelInv, NEW t \in Tasks, Call(t) PROVE ParallelInv'
<1>1. TypeOK /\ CallInv(t) /\ RecordsStarted
  BY DEF ParallelInv
<1>2. /\ caller[t] = "idle" /\ getWorker[t] = "pending" /\ settled[t] = "none"
      /\ given[t] = "nothing" /\ channel[t] = "none" /\ requests[t] = << >> /\ responses[t] = << >>
      /\ serving[t] = "none" /\ ~promise[t] /\ ~generate[t] /\ \A v \in Workers : t \notin tasks[v]
  BY <1>1 DEF Call, CallInv, PostedFirst, Iterating
<1>3. PICK w \in Workers :
        /\ Acquire(t, w)
        /\ \/ /\ worker[w] \in {"none", "starting"}
              /\ remote' = remote \cup {t} /\ UNCHANGED <<getWorker, requests>>
           \/ /\ remote' = remote \cup {t}
              /\ getWorker' = [getWorker EXCEPT ![t] = "resolved"]
              /\ requests' = [requests EXCEPT ![t] = Posted(t, w, "call")]
           \/ /\ faults \cap {"start", "clone", "leave"} # {}
              /\ remote' \in {remote, remote \cup {t}}
              /\ getWorker' = [getWorker EXCEPT ![t] = "rejected"]
              /\ UNCHANGED requests
  BY <1>1 DEF Call, RecordsStarted
<1>4. /\ pool' \in {pool, pool \cup {w}} /\ w \in pool'
      /\ worker' \in {worker, [worker EXCEPT ![w] = "starting"]}
      /\ pool' = pool \/ worker' = [worker EXCEPT ![w] = "starting"]
      /\ w \in pool \/ worker' = [worker EXCEPT ![w] = "starting"]
      /\ tasks' = [tasks EXCEPT ![w] = @ \cup {t}]
      /\ record' = [record EXCEPT ![t] = w] /\ caller' = [caller EXCEPT ![t] = "called"]
  BY <1>3 DEF Acquire, Idle
<1>5. UNCHANGED <<maxWorkers, generator, faults, settled, promise, channel, generate, given, received,
                  responses, serving, yielded>>
  BY DEF Call, options, thread
<1>6. requests' \in [Tasks -> Seq({"call", "next", "return"})] /\ requests'[t] \in {<< >>, <<"call">>}
  <2>1. <<"call">> \in Seq({"call", "next", "return"})
    OBVIOUS
  <2>2. requests' = requests \/ requests' = [requests EXCEPT ![t] = << >>]
          \/ requests' = [requests EXCEPT ![t] = <<"call">>]
    BY <1>2, <1>3, ShortSequences DEF Posted
  <2> QED
    BY <1>1, <1>2, <2>1, <2>2 DEF TypeOK, ThreadTypeOK
<1>7. /\ getWorker' \in [Tasks -> {"pending", "resolved", "rejected"}]
      /\ requests'[t] # << >> => getWorker'[t] = "resolved"
      /\ faults \cap {"start", "clone", "leave"} = {} => getWorker'[t] # "rejected" /\ t \in remote'
  BY <1>1, <1>2, <1>3 DEF TypeOK, CallerTypeOK
<1>8. TypeOK'
  <2>1. PoolTypeOK'
    BY <1>1, <1>4, <1>5 DEF TypeOK, PoolTypeOK
  <2>2. EntryTypeOK'
    BY <1>1, <1>3, <1>5 DEF TypeOK, EntryTypeOK
  <2>3. CallerTypeOK'
    BY <1>1, <1>4, <1>5, <1>7 DEF TypeOK, CallerTypeOK
  <2>4. ThreadTypeOK'
    BY <1>1, <1>5, <1>6 DEF TypeOK, ThreadTypeOK
  <2> QED
    BY <2>1, <2>2, <2>3, <2>4 DEF TypeOK
<1>9. UNCHANGED options /\ RecordsStarted'
  BY <1>1, <1>4, <1>5 DEF options, RecordsStarted, TypeOK, PoolTypeOK
<1>10. ASSUME NEW u \in Tasks \ {t} PROVE Untouched(u) /\ RecordStays(u)
  <2>1. requests'[u] = requests[u] /\ getWorker'[u] = getWorker[u] /\ (u \in remote' <=> u \in remote)
    BY <1>1, <1>3 DEF TypeOK, CallerTypeOK, ThreadTypeOK
  <2>2. \A v \in Workers : worker[v] = "starting" => worker'[v] = "starting"
    BY <1>1, <1>4 DEF TypeOK, PoolTypeOK
  <2>3. caller[u] # "idle" => record[u] \in Workers
    BY DEF ParallelInv, CallInv, PostedFirst
  <2>4. RecordStays(u)
    BY <1>4, <2>2, <2>3 DEF RecordStays
  <2>5. /\ caller'[u] = caller[u] /\ record'[u] = record[u]
        /\ \A v \in Workers : u \in tasks'[v] <=> u \in tasks[v]
    BY <1>1, <1>4 DEF TypeOK, PoolTypeOK, CallerTypeOK
  <2> QED
    BY <1>5, <2>1, <2>4, <2>5 DEF Untouched
<1>11. caller'[t] = "called" /\ record'[t] = w /\ \A v \in Workers : t \in tasks'[v] <=> v = w
  BY <1>1, <1>2, <1>4 DEF TypeOK, PoolTypeOK, CallerTypeOK
<1>12. getWorker'[t] = "pending" => worker'[w] = "starting" /\ t \in remote'
  <2>1. getWorker'[t] = "pending" => worker[w] \in {"none", "starting"} /\ t \in remote'
    BY <1>1, <1>3 DEF TypeOK, CallerTypeOK
  <2>2. worker[w] = "starting" => worker'[w] = "starting"
    BY <1>1, <1>4 DEF TypeOK, PoolTypeOK
  <2>3. worker[w] = "none" => worker'[w] = "starting"
    BY <1>1, <1>4 DEF RecordsStarted, TypeOK, PoolTypeOK
  <2> QED
    BY <2>1, <2>2, <2>3
<1>13. CallInv(t)'
  <2>1. PostedFirst(t)'
    BY <1>2, <1>5, <1>7, <1>11 DEF PostedFirst
  <2>2. Iterating(t)'
    BY <1>2, <1>5, <1>11 DEF Iterating
  <2>3. Held(t)'
    BY <1>2, <1>5, <1>7, <1>11 DEF Held, Unsettled
  <2>4. InStep(t)'
    <3>1. received[t] <= yielded[t] /\ (t \in generator => received[t] = 0 /\ yielded[t] = 0)
          /\ (t \notin generator => received[t] = 0)
      BY <1>1, <1>2 DEF CallInv, InStep
    <3> QED
      BY <1>2, <1>5, <1>6, <1>11, <3>1 DEF InStep
  <2>5. Served(t)'
    BY <1>4, <1>11 DEF Served
  <2>6. Starting(t)'
    BY <1>2, <1>4, <1>5, <1>11, <1>12 DEF Starting
  <2> QED
    BY <2>1, <2>2, <2>3, <2>4, <2>5, <2>6 DEF CallInv
<1> QED
  BY <1>8, <1>9, <1>10, <1>13, OneCall

LEMMA AwaitInv == ASSUME ParallelInv, NEW t \in Tasks, Await(t) PROVE ParallelInv'
<1> USE DEF Await, GiveSettled, Settled, Over, options, pools, entry, mine, wire, thread
<1>1. TypeOK /\ CallInv(t) /\ RecordsStarted
  BY DEF ParallelInv
<1>2. TypeOK'
  <2>1. PoolTypeOK'
    BY <1>1 DEF TypeOK, PoolTypeOK, EntryTypeOK, CallerTypeOK, ThreadTypeOK
  <2>2. EntryTypeOK'
    BY <1>1 DEF TypeOK, PoolTypeOK, EntryTypeOK, CallerTypeOK, ThreadTypeOK
  <2>3. CallerTypeOK'
    BY <1>1 DEF TypeOK, PoolTypeOK, EntryTypeOK, CallerTypeOK, ThreadTypeOK
  <2>4. ThreadTypeOK'
    BY <1>1 DEF TypeOK, PoolTypeOK, EntryTypeOK, CallerTypeOK, ThreadTypeOK
  <2> QED
    BY <2>1, <2>2, <2>3, <2>4 DEF TypeOK
<1>3. UNCHANGED options /\ RecordsStarted'
  BY <1>1 DEF RecordsStarted, TypeOK, PoolTypeOK
<1>4. ASSUME NEW u \in Tasks \ {t} PROVE Untouched(u) /\ RecordStays(u)
  BY <1>1 DEF Untouched, RecordStays, TypeOK, PoolTypeOK, EntryTypeOK, CallerTypeOK, ThreadTypeOK
<1>5. CallInv(t)'
  <2>1. PostedFirst(t)'
    BY <1>1 DEF CallInv, PostedFirst, TypeOK, PoolTypeOK, EntryTypeOK, CallerTypeOK, ThreadTypeOK
  <2>2. Iterating(t)'
    BY <1>1 DEF CallInv, PostedFirst, Iterating, TypeOK, PoolTypeOK, EntryTypeOK, CallerTypeOK,
       ThreadTypeOK
  <2>3. Held(t)'
    BY <1>1 DEF CallInv, PostedFirst, Iterating, Held, InStep, Served, Unsettled, RecordsStarted,
       TypeOK, PoolTypeOK, EntryTypeOK, CallerTypeOK, ThreadTypeOK
  <2>4. InStep(t)'
    BY <1>1 DEF CallInv, PostedFirst, Iterating, InStep, TypeOK, PoolTypeOK, EntryTypeOK,
       CallerTypeOK, ThreadTypeOK
  <2>5. Served(t)'
    BY <1>1 DEF CallInv, Served, Unsettled, PostedFirst, Iterating, TypeOK, PoolTypeOK,
       EntryTypeOK, CallerTypeOK, ThreadTypeOK
  <2>6. Starting(t)'
    BY <1>1 DEF CallInv, Starting, PostedFirst, Iterating, TypeOK, PoolTypeOK, EntryTypeOK,
       CallerTypeOK, ThreadTypeOK
  <2> QED
    BY <2>1, <2>2, <2>3, <2>4, <2>5, <2>6 DEF CallInv
<1> QED
  BY <1>2, <1>3, <1>4, <1>5, OneCall

LEMMA IterateNextInv == ASSUME ParallelInv, NEW t \in Tasks, IterateNext(t) PROVE ParallelInv'
<1> USE DEF IterateNext, GiveSettled, Settled, Over, AskForNext, Posted, options, pools, entry, mine, wire, thread
<1>1. TypeOK /\ CallInv(t) /\ RecordsStarted
  BY DEF ParallelInv
<1>2. TypeOK'
  <2>1. PoolTypeOK'
    BY <1>1 DEF TypeOK, PoolTypeOK, EntryTypeOK, CallerTypeOK, ThreadTypeOK
  <2>2. EntryTypeOK'
    <3>1. remote' \subseteq Tasks
      BY <1>1 DEF TypeOK, EntryTypeOK
    <3>2. channel' \in [Tasks -> {"none", "open", "failed", "closed"}]
      BY <1>1 DEF TypeOK, EntryTypeOK
    <3>3. generate' \in [Tasks -> BOOLEAN]
      BY <1>1 DEF TypeOK, EntryTypeOK
    <3> QED
      BY <1>1, <3>1, <3>2, <3>3 DEF TypeOK, EntryTypeOK
  <2>3. CallerTypeOK'
    <3>1. caller' \in [Tasks -> {"idle", "called", "awaiting", "generating", "receiving",
                              "iterating", "leaving", "over"}]
      BY <1>1 DEF TypeOK, CallerTypeOK
    <3>2. given' \in [Tasks -> {"nothing", "value", "end", "error", "left"}]
      BY <1>1 DEF TypeOK, CallerTypeOK
    <3> QED
      BY <1>1, <3>1, <3>2 DEF TypeOK, CallerTypeOK
  <2>4. ThreadTypeOK'
    <3>1. Append(requests[t], "next") \in Seq({"call", "next", "return"})
      BY <1>1, Appending DEF TypeOK, ThreadTypeOK
    <3>2. requests' \in [Tasks -> Seq({"call", "next", "return"})]
      BY <1>1, <3>1 DEF TypeOK, ThreadTypeOK
    <3>3. responses' \in [Tasks -> Seq({"return", "error", "yield", "done", "gen"})]
      BY <1>1, Taking DEF TypeOK, ThreadTypeOK
    <3> QED
      BY <1>1, <3>2, <3>3 DEF TypeOK, ThreadTypeOK
  <2> QED
    BY <2>1, <2>2, <2>3, <2>4 DEF TypeOK
<1>3. UNCHANGED options /\ RecordsStarted'
  BY <1>1 DEF RecordsStarted, TypeOK, PoolTypeOK
<1>4. ASSUME NEW u \in Tasks \ {t} PROVE Untouched(u) /\ RecordStays(u)
  BY <1>1 DEF Untouched, RecordStays, TypeOK, PoolTypeOK, EntryTypeOK, CallerTypeOK, ThreadTypeOK
<1>5. CallInv(t)'
  <2>1. PostedFirst(t)'
    BY <1>1 DEF CallInv, PostedFirst, TypeOK, PoolTypeOK, EntryTypeOK, CallerTypeOK, ThreadTypeOK
  <2>2. Iterating(t)'
    BY <1>1 DEF CallInv, PostedFirst, Iterating, TypeOK, PoolTypeOK, EntryTypeOK, CallerTypeOK,
       ThreadTypeOK
  <2>3. Held(t)'
    BY <1>1 DEF CallInv, PostedFirst, Iterating, Held, InStep, Served, Unsettled, RecordsStarted,
       TypeOK, PoolTypeOK, EntryTypeOK, CallerTypeOK, ThreadTypeOK
  <2>4. InStep(t)'
    <3>1. CASE GiveSettled(t)
      <4>1. /\ caller'[t] = "over" /\ given'[t] \in {"error", "end"}
            /\ received'[t] = received[t] /\ yielded'[t] = yielded[t]
            /\ requests'[t] = requests[t] /\ responses'[t] = responses[t] /\ serving'[t] = serving[t]
        BY <1>1, <3>1 DEF TypeOK, CallerTypeOK
      <4>2. given'[t] # "end"
        BY <1>1, <3>1 DEF CallInv, Iterating, TypeOK, CallerTypeOK
      <4> QED
        BY <1>1, <4>1, <4>2 DEF CallInv, InStep, TypeOK, PoolTypeOK
    <3>2. CASE ~Settled(t) /\ generate[t] /\ AskForNext(t)
      <4>1. /\ caller[t] = "iterating" /\ t \in generator /\ serving[t] # "running" /\ given[t] = "nothing"
            /\ requests[t] = << >> /\ responses[t] = << >> /\ received[t] = yielded[t]
        BY <1>1, <3>2 DEF CallInv, Iterating, InStep, TypeOK, CallerTypeOK
      <4>2. /\ requests'[t] \in {<< >>, <<"next">>} /\ responses'[t] = << >>
            /\ UNCHANGED <<received, yielded, serving, generator>>
        BY <1>1, <3>2, <4>1, ShortSequences DEF TypeOK, ThreadTypeOK
      <4>3. \/ caller'[t] = "receiving" /\ given'[t] = "nothing"
            \/ caller'[t] = "over" /\ given'[t] = "error"
        BY <1>1, <3>2, <4>1 DEF TypeOK, CallerTypeOK
      <4>4. received[t] <= yielded[t]
        BY <1>1 DEF CallInv, InStep
      <4> QED
        BY <4>1, <4>2, <4>3, <4>4 DEF InStep
    <3>3. CASE ~Settled(t) /\ ~generate[t]
      BY <1>1, <3>3 DEF CallInv, PostedFirst, Iterating, InStep, TypeOK, PoolTypeOK, EntryTypeOK,
         CallerTypeOK, ThreadTypeOK
    <3> QED
      BY <3>1, <3>2, <3>3
  <2>5. Served(t)'
    BY <1>1 DEF CallInv, Served, Unsettled, PostedFirst, Iterating, TypeOK, PoolTypeOK,
       EntryTypeOK, CallerTypeOK, ThreadTypeOK
  <2>6. Starting(t)'
    BY <1>1 DEF CallInv, Starting, PostedFirst, Iterating, TypeOK, PoolTypeOK, EntryTypeOK,
       CallerTypeOK, ThreadTypeOK
  <2> QED
    BY <2>1, <2>2, <2>3, <2>4, <2>5, <2>6 DEF CallInv
<1> QED
  BY <1>2, <1>3, <1>4, <1>5, OneCall

LEMMA LeaveInv == ASSUME ParallelInv, NEW t \in Tasks, Leave(t) PROVE ParallelInv'
<1> USE DEF Leave, Over, Posted, options, pools, entry, mine, wire, thread
<1>1. TypeOK /\ CallInv(t) /\ RecordsStarted
  BY DEF ParallelInv
<1>2. TypeOK'
  <2>1. PoolTypeOK'
    BY <1>1 DEF TypeOK, PoolTypeOK, EntryTypeOK, CallerTypeOK, ThreadTypeOK
  <2>2. EntryTypeOK'
    BY <1>1 DEF TypeOK, PoolTypeOK, EntryTypeOK, CallerTypeOK, ThreadTypeOK
  <2>3. CallerTypeOK'
    BY <1>1 DEF TypeOK, PoolTypeOK, EntryTypeOK, CallerTypeOK, ThreadTypeOK
  <2>4. ThreadTypeOK'
    BY <1>1 DEF TypeOK, PoolTypeOK, EntryTypeOK, CallerTypeOK, ThreadTypeOK
  <2> QED
    BY <2>1, <2>2, <2>3, <2>4 DEF TypeOK
<1>3. UNCHANGED options /\ RecordsStarted'
  BY <1>1 DEF RecordsStarted, TypeOK, PoolTypeOK
<1>4. ASSUME NEW u \in Tasks \ {t} PROVE Untouched(u) /\ RecordStays(u)
  BY <1>1 DEF Untouched, RecordStays, TypeOK, PoolTypeOK, EntryTypeOK, CallerTypeOK, ThreadTypeOK
<1>5. CallInv(t)'
  <2>1. PostedFirst(t)'
    BY <1>1 DEF CallInv, PostedFirst, TypeOK, PoolTypeOK, EntryTypeOK, CallerTypeOK, ThreadTypeOK
  <2>2. Iterating(t)'
    BY <1>1 DEF CallInv, PostedFirst, Iterating, TypeOK, PoolTypeOK, EntryTypeOK, CallerTypeOK,
       ThreadTypeOK
  <2>3. Held(t)'
    BY <1>1 DEF CallInv, PostedFirst, Iterating, Held, InStep, Served, Unsettled, RecordsStarted,
       TypeOK, PoolTypeOK, EntryTypeOK, CallerTypeOK, ThreadTypeOK
  <2>4. InStep(t)'
    BY <1>1 DEF CallInv, PostedFirst, Iterating, InStep, TypeOK, PoolTypeOK, EntryTypeOK,
       CallerTypeOK, ThreadTypeOK
  <2>5. Served(t)'
    BY <1>1 DEF CallInv, Served, Unsettled, PostedFirst, Iterating, TypeOK, PoolTypeOK,
       EntryTypeOK, CallerTypeOK, ThreadTypeOK
  <2>6. Starting(t)'
    BY <1>1 DEF CallInv, Starting, PostedFirst, Iterating, TypeOK, PoolTypeOK, EntryTypeOK,
       CallerTypeOK, ThreadTypeOK
  <2> QED
    BY <2>1, <2>2, <2>3, <2>4, <2>5, <2>6 DEF CallInv
<1> QED
  BY <1>2, <1>3, <1>4, <1>5, OneCall

LEMMA IgnoreInv == ASSUME ParallelInv, NEW t \in Tasks, Ignore(t) PROVE ParallelInv'
<1> USE DEF Ignore, Receive, options, pools, entry, mine, wire, thread
<1>1. TypeOK /\ CallInv(t) /\ RecordsStarted
  BY DEF ParallelInv
<1>2. TypeOK'
  <2>1. PoolTypeOK'
    BY <1>1 DEF TypeOK, PoolTypeOK, EntryTypeOK, CallerTypeOK, ThreadTypeOK
  <2>2. EntryTypeOK'
    BY <1>1 DEF TypeOK, PoolTypeOK, EntryTypeOK, CallerTypeOK, ThreadTypeOK
  <2>3. CallerTypeOK'
    BY <1>1 DEF TypeOK, PoolTypeOK, EntryTypeOK, CallerTypeOK, ThreadTypeOK
  <2>4. ThreadTypeOK'
    BY <1>1 DEF TypeOK, PoolTypeOK, EntryTypeOK, CallerTypeOK, ThreadTypeOK
  <2> QED
    BY <2>1, <2>2, <2>3, <2>4 DEF TypeOK
<1>3. UNCHANGED options /\ RecordsStarted'
  BY <1>1 DEF RecordsStarted, TypeOK, PoolTypeOK
<1>4. ASSUME NEW u \in Tasks \ {t} PROVE Untouched(u) /\ RecordStays(u)
  BY <1>1 DEF Untouched, RecordStays, TypeOK, PoolTypeOK, EntryTypeOK, CallerTypeOK, ThreadTypeOK
<1>5. CallInv(t)'
  <2>1. PostedFirst(t)'
    BY <1>1 DEF CallInv, PostedFirst, TypeOK, PoolTypeOK, EntryTypeOK, CallerTypeOK, ThreadTypeOK
  <2>2. Iterating(t)'
    BY <1>1 DEF CallInv, PostedFirst, Iterating, TypeOK, PoolTypeOK, EntryTypeOK, CallerTypeOK,
       ThreadTypeOK
  <2>3. Held(t)'
    BY <1>1 DEF CallInv, PostedFirst, Iterating, Held, InStep, Served, Unsettled, RecordsStarted,
       TypeOK, PoolTypeOK, EntryTypeOK, CallerTypeOK, ThreadTypeOK
  <2>4. InStep(t)'
    BY <1>1, ShortSequences DEF CallInv, PostedFirst, Iterating, InStep, TypeOK, PoolTypeOK,
       EntryTypeOK, CallerTypeOK, ThreadTypeOK
  <2>5. Served(t)'
    BY <1>1 DEF CallInv, Served, Unsettled, PostedFirst, Iterating, TypeOK, PoolTypeOK,
       EntryTypeOK, CallerTypeOK, ThreadTypeOK
  <2>6. Starting(t)'
    BY <1>1 DEF CallInv, Starting, PostedFirst, Iterating, TypeOK, PoolTypeOK, EntryTypeOK,
       CallerTypeOK, ThreadTypeOK
  <2> QED
    BY <2>1, <2>2, <2>3, <2>4, <2>5, <2>6 DEF CallInv
<1> QED
  BY <1>2, <1>3, <1>4, <1>5, OneCall

LEMMA DeliverReturnInv == ASSUME ParallelInv, NEW t \in Tasks, DeliverReturn(t) PROVE ParallelInv'
<1> USE DEF DeliverReturn, Receive, WithoutTask, Over, options, pools, entry, mine, wire, thread
<1>1. TypeOK /\ CallInv(t) /\ RecordsStarted
  BY DEF ParallelInv
<1>2. TypeOK'
  <2>1. PoolTypeOK'
    BY <1>1 DEF TypeOK, PoolTypeOK, EntryTypeOK, CallerTypeOK, ThreadTypeOK
  <2>2. EntryTypeOK'
    BY <1>1 DEF TypeOK, PoolTypeOK, EntryTypeOK, CallerTypeOK, ThreadTypeOK
  <2>3. CallerTypeOK'
    BY <1>1 DEF TypeOK, PoolTypeOK, EntryTypeOK, CallerTypeOK, ThreadTypeOK
  <2>4. ThreadTypeOK'
    BY <1>1 DEF TypeOK, PoolTypeOK, EntryTypeOK, CallerTypeOK, ThreadTypeOK
  <2> QED
    BY <2>1, <2>2, <2>3, <2>4 DEF TypeOK
<1>3. UNCHANGED options /\ RecordsStarted'
  BY <1>1 DEF RecordsStarted, TypeOK, PoolTypeOK
<1>4. ASSUME NEW u \in Tasks \ {t} PROVE Untouched(u) /\ RecordStays(u)
  BY <1>1 DEF Untouched, RecordStays, TypeOK, PoolTypeOK, EntryTypeOK, CallerTypeOK, ThreadTypeOK
<1>5. CallInv(t)'
  <2>1. PostedFirst(t)'
    BY <1>1 DEF CallInv, PostedFirst, TypeOK, PoolTypeOK, EntryTypeOK, CallerTypeOK, ThreadTypeOK
  <2>2. Iterating(t)'
    BY <1>1, ShortSequences DEF CallInv, PostedFirst, Iterating, InStep, TypeOK, PoolTypeOK,
       EntryTypeOK, CallerTypeOK, ThreadTypeOK
  <2>3. Held(t)'
    BY <1>1 DEF CallInv, PostedFirst, Iterating, Held, InStep, Served, Unsettled, RecordsStarted,
       TypeOK, PoolTypeOK, EntryTypeOK, CallerTypeOK, ThreadTypeOK
  <2>4. InStep(t)'
    BY <1>1 DEF CallInv, PostedFirst, Iterating, InStep, TypeOK, PoolTypeOK, EntryTypeOK,
       CallerTypeOK, ThreadTypeOK
  <2>5. Served(t)'
    BY <1>1 DEF CallInv, Served, Unsettled, PostedFirst, Iterating, TypeOK, PoolTypeOK,
       EntryTypeOK, CallerTypeOK, ThreadTypeOK
  <2>6. Starting(t)'
    BY <1>1 DEF CallInv, Starting, PostedFirst, Iterating, TypeOK, PoolTypeOK, EntryTypeOK,
       CallerTypeOK, ThreadTypeOK
  <2> QED
    BY <2>1, <2>2, <2>3, <2>4, <2>5, <2>6 DEF CallInv
<1> QED
  BY <1>2, <1>3, <1>4, <1>5, OneCall

LEMMA DeliverErrorInv == ASSUME ParallelInv, NEW t \in Tasks, DeliverError(t) PROVE ParallelInv'
<1> USE DEF DeliverError, Receive, WithoutTask, Fail, Awaited, Iterated, options, pools, entry, mine, wire, thread
<1>1. TypeOK /\ CallInv(t) /\ RecordsStarted
  BY DEF ParallelInv
<1>2. TypeOK'
  <2>1. PoolTypeOK'
    BY <1>1 DEF TypeOK, PoolTypeOK, EntryTypeOK, CallerTypeOK, ThreadTypeOK
  <2>2. EntryTypeOK'
    BY <1>1 DEF TypeOK, PoolTypeOK, EntryTypeOK, CallerTypeOK, ThreadTypeOK
  <2>3. CallerTypeOK'
    BY <1>1 DEF TypeOK, PoolTypeOK, EntryTypeOK, CallerTypeOK, ThreadTypeOK
  <2>4. ThreadTypeOK'
    BY <1>1 DEF TypeOK, PoolTypeOK, EntryTypeOK, CallerTypeOK, ThreadTypeOK
  <2> QED
    BY <2>1, <2>2, <2>3, <2>4 DEF TypeOK
<1>3. UNCHANGED options /\ RecordsStarted'
  BY <1>1 DEF RecordsStarted, TypeOK, PoolTypeOK
<1>4. ASSUME NEW u \in Tasks \ {t} PROVE Untouched(u) /\ RecordStays(u)
  BY <1>1 DEF Untouched, RecordStays, TypeOK, PoolTypeOK, EntryTypeOK, CallerTypeOK, ThreadTypeOK
<1>5. CallInv(t)'
  <2>1. PostedFirst(t)'
    BY <1>1 DEF CallInv, PostedFirst, TypeOK, PoolTypeOK, EntryTypeOK, CallerTypeOK, ThreadTypeOK
  <2>2. Iterating(t)'
    BY <1>1 DEF CallInv, PostedFirst, Iterating, TypeOK, PoolTypeOK, EntryTypeOK, CallerTypeOK,
       ThreadTypeOK
  <2>3. Held(t)'
    BY <1>1 DEF CallInv, PostedFirst, Iterating, Held, InStep, Served, Unsettled, RecordsStarted,
       TypeOK, PoolTypeOK, EntryTypeOK, CallerTypeOK, ThreadTypeOK
  <2>4. InStep(t)'
    BY <1>1, ShortSequences DEF CallInv, PostedFirst, Iterating, InStep, TypeOK, PoolTypeOK,
       EntryTypeOK, CallerTypeOK, ThreadTypeOK
  <2>5. Served(t)'
    BY <1>1 DEF CallInv, Served, Unsettled, PostedFirst, Iterating, TypeOK, PoolTypeOK,
       EntryTypeOK, CallerTypeOK, ThreadTypeOK
  <2>6. Starting(t)'
    BY <1>1 DEF CallInv, Starting, PostedFirst, Iterating, TypeOK, PoolTypeOK, EntryTypeOK,
       CallerTypeOK, ThreadTypeOK
  <2> QED
    BY <2>1, <2>2, <2>3, <2>4, <2>5, <2>6 DEF CallInv
<1> QED
  BY <1>2, <1>3, <1>4, <1>5, OneCall

LEMMA DeliverYieldInv == ASSUME ParallelInv, NEW t \in Tasks, DeliverYield(t) PROVE ParallelInv'
<1> USE DEF DeliverYield, Receive, options, pools, entry, mine, wire, thread
<1>1. TypeOK /\ CallInv(t) /\ RecordsStarted
  BY DEF ParallelInv
<1>2. TypeOK'
  <2>1. PoolTypeOK'
    BY <1>1 DEF TypeOK, PoolTypeOK, EntryTypeOK, CallerTypeOK, ThreadTypeOK
  <2>2. EntryTypeOK'
    BY <1>1 DEF TypeOK, PoolTypeOK, EntryTypeOK, CallerTypeOK, ThreadTypeOK
  <2>3. CallerTypeOK'
    BY <1>1 DEF TypeOK, PoolTypeOK, EntryTypeOK, CallerTypeOK, ThreadTypeOK
  <2>4. ThreadTypeOK'
    BY <1>1 DEF TypeOK, PoolTypeOK, EntryTypeOK, CallerTypeOK, ThreadTypeOK
  <2> QED
    BY <2>1, <2>2, <2>3, <2>4 DEF TypeOK
<1>3. UNCHANGED options /\ RecordsStarted'
  BY <1>1 DEF RecordsStarted, TypeOK, PoolTypeOK
<1>4. ASSUME NEW u \in Tasks \ {t} PROVE Untouched(u) /\ RecordStays(u)
  BY <1>1 DEF Untouched, RecordStays, TypeOK, PoolTypeOK, EntryTypeOK, CallerTypeOK, ThreadTypeOK
<1>5. CallInv(t)'
  <2>1. PostedFirst(t)'
    BY <1>1 DEF CallInv, PostedFirst, TypeOK, PoolTypeOK, EntryTypeOK, CallerTypeOK, ThreadTypeOK
  <2>2. Iterating(t)'
    BY <1>1 DEF CallInv, PostedFirst, Iterating, TypeOK, PoolTypeOK, EntryTypeOK, CallerTypeOK,
       ThreadTypeOK
  <2>3. Held(t)'
    BY <1>1 DEF CallInv, PostedFirst, Iterating, Held, InStep, Served, Unsettled, RecordsStarted,
       TypeOK, PoolTypeOK, EntryTypeOK, CallerTypeOK, ThreadTypeOK
  <2>4. InStep(t)'
    <3>1. caller[t] = "receiving" /\ t \in generator
      BY <1>1 DEF CallInv, Iterating
    <3>2. /\ responses[t] = <<"yield">> /\ requests[t] = << >> /\ received[t] + 1 = yielded[t]
          /\ serving[t] # "running" /\ given[t] # "end"
      BY <1>1, <3>1, ShortSequences DEF CallInv, InStep
    <3>3. /\ responses'[t] = << >> /\ received'[t] = yielded[t] /\ caller'[t] = "iterating"
          /\ UNCHANGED <<requests, serving, yielded, given, generator>>
      BY <1>1, <3>2, ShortSequences DEF TypeOK, PoolTypeOK, EntryTypeOK, CallerTypeOK, ThreadTypeOK
    <3>4. yielded[t] \in Nat
      BY <1>1, ParallelAssumption DEF TypeOK, ThreadTypeOK
    <3> QED
      BY <1>1, <3>1, <3>2, <3>3, <3>4 DEF CallInv, InStep
  <2>5. Served(t)'
    BY <1>1 DEF CallInv, Served, Unsettled, PostedFirst, Iterating, TypeOK, PoolTypeOK,
       EntryTypeOK, CallerTypeOK, ThreadTypeOK
  <2>6. Starting(t)'
    BY <1>1 DEF CallInv, Starting, PostedFirst, Iterating, TypeOK, PoolTypeOK, EntryTypeOK,
       CallerTypeOK, ThreadTypeOK
  <2> QED
    BY <2>1, <2>2, <2>3, <2>4, <2>5, <2>6 DEF CallInv
<1> QED
  BY <1>2, <1>3, <1>4, <1>5, OneCall

LEMMA DeliverDoneInv == ASSUME ParallelInv, NEW t \in Tasks, DeliverDone(t) PROVE ParallelInv'
<1> USE DEF DeliverDone, Receive, WithoutTask, Over, options, pools, entry, mine, wire, thread
<1>1. TypeOK /\ CallInv(t) /\ RecordsStarted
  BY DEF ParallelInv
<1>2. TypeOK'
  <2>1. PoolTypeOK'
    BY <1>1 DEF TypeOK, PoolTypeOK, EntryTypeOK, CallerTypeOK, ThreadTypeOK
  <2>2. EntryTypeOK'
    BY <1>1 DEF TypeOK, PoolTypeOK, EntryTypeOK, CallerTypeOK, ThreadTypeOK
  <2>3. CallerTypeOK'
    BY <1>1 DEF TypeOK, PoolTypeOK, EntryTypeOK, CallerTypeOK, ThreadTypeOK
  <2>4. ThreadTypeOK'
    BY <1>1 DEF TypeOK, PoolTypeOK, EntryTypeOK, CallerTypeOK, ThreadTypeOK
  <2> QED
    BY <2>1, <2>2, <2>3, <2>4 DEF TypeOK
<1>3. UNCHANGED options /\ RecordsStarted'
  BY <1>1 DEF RecordsStarted, TypeOK, PoolTypeOK
<1>4. ASSUME NEW u \in Tasks \ {t} PROVE Untouched(u) /\ RecordStays(u)
  BY <1>1 DEF Untouched, RecordStays, TypeOK, PoolTypeOK, EntryTypeOK, CallerTypeOK, ThreadTypeOK
<1>5. CallInv(t)'
  <2>1. PostedFirst(t)'
    BY <1>1 DEF CallInv, PostedFirst, TypeOK, PoolTypeOK, EntryTypeOK, CallerTypeOK, ThreadTypeOK
  <2>2. Iterating(t)'
    BY <1>1 DEF CallInv, PostedFirst, Iterating, TypeOK, PoolTypeOK, EntryTypeOK, CallerTypeOK,
       ThreadTypeOK
  <2>3. Held(t)'
    BY <1>1 DEF CallInv, PostedFirst, Iterating, Held, InStep, Served, Unsettled, RecordsStarted,
       TypeOK, PoolTypeOK, EntryTypeOK, CallerTypeOK, ThreadTypeOK
  <2>4. InStep(t)'
    BY <1>1 DEF CallInv, PostedFirst, Iterating, InStep, TypeOK, PoolTypeOK, EntryTypeOK,
       CallerTypeOK, ThreadTypeOK
  <2>5. Served(t)'
    BY <1>1 DEF CallInv, Served, Unsettled, PostedFirst, Iterating, TypeOK, PoolTypeOK,
       EntryTypeOK, CallerTypeOK, ThreadTypeOK
  <2>6. Starting(t)'
    BY <1>1 DEF CallInv, Starting, PostedFirst, Iterating, TypeOK, PoolTypeOK, EntryTypeOK,
       CallerTypeOK, ThreadTypeOK
  <2> QED
    BY <2>1, <2>2, <2>3, <2>4, <2>5, <2>6 DEF CallInv
<1> QED
  BY <1>2, <1>3, <1>4, <1>5, OneCall

LEMMA DeliverGenInv == ASSUME ParallelInv, NEW t \in Tasks, DeliverGen(t) PROVE ParallelInv'
<1> USE DEF DeliverGen, Receive, AskForNext, Over, Posted, options, pools, entry, mine, wire, thread
<1>1. TypeOK /\ CallInv(t) /\ RecordsStarted
  BY DEF ParallelInv
<1>2. TypeOK'
  <2>1. PoolTypeOK'
    BY <1>1 DEF TypeOK, PoolTypeOK, EntryTypeOK, CallerTypeOK, ThreadTypeOK
  <2>2. EntryTypeOK'
    BY <1>1 DEF TypeOK, PoolTypeOK, EntryTypeOK, CallerTypeOK, ThreadTypeOK
  <2>3. CallerTypeOK'
    <3>1. caller' \in [Tasks -> {"idle", "called", "awaiting", "generating", "receiving",
                              "iterating", "leaving", "over"}]
      BY <1>1 DEF TypeOK, CallerTypeOK
    <3>2. given' \in [Tasks -> {"nothing", "value", "end", "error", "left"}]
      BY <1>1 DEF TypeOK, CallerTypeOK
    <3> QED
      BY <1>1, <3>1, <3>2 DEF TypeOK, CallerTypeOK
  <2>4. ThreadTypeOK'
    <3>1. Append(requests[t], "next") \in Seq({"call", "next", "return"})
      BY <1>1, Appending DEF TypeOK, ThreadTypeOK
    <3>2. requests' \in [Tasks -> Seq({"call", "next", "return"})]
      BY <1>1, <3>1 DEF TypeOK, ThreadTypeOK
    <3>3. responses' \in [Tasks -> Seq({"return", "error", "yield", "done", "gen"})]
      BY <1>1, Taking DEF TypeOK, ThreadTypeOK
    <3> QED
      BY <1>1, <3>2, <3>3 DEF TypeOK, ThreadTypeOK
  <2> QED
    BY <2>1, <2>2, <2>3, <2>4 DEF TypeOK
<1>3. UNCHANGED options /\ RecordsStarted'
  BY <1>1 DEF RecordsStarted, TypeOK, PoolTypeOK
<1>4. ASSUME NEW u \in Tasks \ {t} PROVE Untouched(u) /\ RecordStays(u)
  BY <1>1 DEF Untouched, RecordStays, TypeOK, PoolTypeOK, EntryTypeOK, CallerTypeOK, ThreadTypeOK
<1>5. CallInv(t)'
  <2>1. PostedFirst(t)'
    BY <1>1 DEF CallInv, PostedFirst, TypeOK, PoolTypeOK, EntryTypeOK, CallerTypeOK, ThreadTypeOK
  <2>2. Iterating(t)'
    BY <1>1 DEF CallInv, PostedFirst, Iterating, TypeOK, PoolTypeOK, EntryTypeOK, CallerTypeOK,
       ThreadTypeOK
  <2>3. Held(t)'
    BY <1>1 DEF CallInv, PostedFirst, Iterating, Held, InStep, Served, Unsettled, RecordsStarted,
       TypeOK, PoolTypeOK, EntryTypeOK, CallerTypeOK, ThreadTypeOK
  <2>4. InStep(t)'
    <3>1. received'[t] = received[t] /\ yielded'[t] = yielded[t] /\ serving'[t] = serving[t]
      OBVIOUS
    <3>2. CASE caller[t] = "generating"
      <4>1. t \in generator
        BY <1>1, <3>2 DEF CallInv, Iterating
      <4>2. responses[t] = <<"gen">> /\ requests[t] = << >> /\ serving[t] # "running"
        BY <1>1, <3>2, <4>1 DEF CallInv, InStep
      <4> QED
        BY <1>1, <3>2, <4>1, <4>2, ShortSequences DEF CallInv, PostedFirst, Iterating, InStep,
           TypeOK, PoolTypeOK, EntryTypeOK, CallerTypeOK, ThreadTypeOK
    <3>3. CASE caller[t] # "generating"
      BY <1>1, <3>1, <3>3, ShortSequences DEF CallInv, PostedFirst, Iterating, InStep, TypeOK,
         PoolTypeOK, EntryTypeOK, CallerTypeOK, ThreadTypeOK
    <3> QED
      BY <3>2, <3>3
  <2>5. Served(t)'
    BY <1>1 DEF CallInv, Served, Unsettled, PostedFirst, Iterating, TypeOK, PoolTypeOK,
       EntryTypeOK, CallerTypeOK, ThreadTypeOK
  <2>6. Starting(t)'
    BY <1>1 DEF CallInv, Starting, PostedFirst, Iterating, TypeOK, PoolTypeOK, EntryTypeOK,
       CallerTypeOK, ThreadTypeOK
  <2> QED
    BY <2>1, <2>2, <2>3, <2>4, <2>5, <2>6 DEF CallInv
<1> QED
  BY <1>2, <1>3, <1>4, <1>5, OneCall

LEMMA ServeCallInv == ASSUME ParallelInv, NEW t \in Tasks, ServeCall(t) PROVE ParallelInv'
<1> USE DEF ServeCall, Serve, options, pools, entry, mine, wire, thread
<1>1. TypeOK /\ CallInv(t) /\ RecordsStarted
  BY DEF ParallelInv
<1>2. TypeOK'
  <2>1. PoolTypeOK'
    BY <1>1 DEF TypeOK, PoolTypeOK, EntryTypeOK, CallerTypeOK, ThreadTypeOK
  <2>2. EntryTypeOK'
    BY <1>1 DEF TypeOK, PoolTypeOK, EntryTypeOK, CallerTypeOK, ThreadTypeOK
  <2>3. CallerTypeOK'
    BY <1>1 DEF TypeOK, PoolTypeOK, EntryTypeOK, CallerTypeOK, ThreadTypeOK
  <2>4. ThreadTypeOK'
    BY <1>1 DEF TypeOK, PoolTypeOK, EntryTypeOK, CallerTypeOK, ThreadTypeOK
  <2> QED
    BY <2>1, <2>2, <2>3, <2>4 DEF TypeOK
<1>3. UNCHANGED options /\ RecordsStarted'
  BY <1>1 DEF RecordsStarted, TypeOK, PoolTypeOK
<1>4. ASSUME NEW u \in Tasks \ {t} PROVE Untouched(u) /\ RecordStays(u)
  BY <1>1 DEF Untouched, RecordStays, TypeOK, PoolTypeOK, EntryTypeOK, CallerTypeOK, ThreadTypeOK
<1>5. CallInv(t)'
  <2>1. PostedFirst(t)'
    BY <1>1 DEF CallInv, PostedFirst, TypeOK, PoolTypeOK, EntryTypeOK, CallerTypeOK, ThreadTypeOK
  <2>2. Iterating(t)'
    BY <1>1 DEF CallInv, PostedFirst, Iterating, TypeOK, PoolTypeOK, EntryTypeOK, CallerTypeOK,
       ThreadTypeOK
  <2>3. Held(t)'
    BY <1>1 DEF CallInv, PostedFirst, Iterating, Held, InStep, Served, Unsettled, RecordsStarted,
       TypeOK, PoolTypeOK, EntryTypeOK, CallerTypeOK, ThreadTypeOK
  <2>4. InStep(t)'
    BY <1>1 DEF CallInv, PostedFirst, Iterating, InStep, TypeOK, PoolTypeOK, EntryTypeOK,
       CallerTypeOK, ThreadTypeOK
  <2>5. Served(t)'
    BY <1>1 DEF CallInv, Served, Unsettled, PostedFirst, Iterating, TypeOK, PoolTypeOK,
       EntryTypeOK, CallerTypeOK, ThreadTypeOK
  <2>6. Starting(t)'
    BY <1>1 DEF CallInv, Starting, PostedFirst, Iterating, TypeOK, PoolTypeOK, EntryTypeOK,
       CallerTypeOK, ThreadTypeOK
  <2> QED
    BY <2>1, <2>2, <2>3, <2>4, <2>5, <2>6 DEF CallInv
<1> QED
  BY <1>2, <1>3, <1>4, <1>5, OneCall

LEMMA FinishCallInv == ASSUME ParallelInv, NEW t \in Tasks, FinishCall(t) PROVE ParallelInv'
<1> USE DEF FinishCall, Reply, options, pools, entry, mine, wire, thread
<1>1. TypeOK /\ CallInv(t) /\ RecordsStarted
  BY DEF ParallelInv
<1>2. TypeOK'
  <2>1. PoolTypeOK'
    BY <1>1 DEF TypeOK, PoolTypeOK, EntryTypeOK, CallerTypeOK, ThreadTypeOK
  <2>2. EntryTypeOK'
    BY <1>1 DEF TypeOK, PoolTypeOK, EntryTypeOK, CallerTypeOK, ThreadTypeOK
  <2>3. CallerTypeOK'
    BY <1>1 DEF TypeOK, PoolTypeOK, EntryTypeOK, CallerTypeOK, ThreadTypeOK
  <2>4. ThreadTypeOK'
    <3>1. ASSUME NEW msg \in {"return", "gen", "error"}
          PROVE  Append(responses[t], msg) \in Seq({"return", "error", "yield", "done", "gen"})
      BY <1>1, Appending DEF TypeOK, ThreadTypeOK
    <3>2. responses' \in [Tasks -> Seq({"return", "error", "yield", "done", "gen"})]
      BY <1>1, <3>1 DEF TypeOK, ThreadTypeOK
    <3>3. requests' \in [Tasks -> Seq({"call", "next", "return"})]
      BY <1>1, Taking DEF TypeOK, ThreadTypeOK
    <3>4. serving' \in [Tasks -> {"none", "running", "generator", "exhausted"}]
      BY <1>1 DEF TypeOK, ThreadTypeOK
    <3>5. yielded' \in [Tasks -> 0 .. MaxYields]
      BY <1>1, ParallelAssumption DEF TypeOK, ThreadTypeOK
    <3> QED
      BY <3>2, <3>3, <3>4, <3>5 DEF ThreadTypeOK
  <2> QED
    BY <2>1, <2>2, <2>3, <2>4 DEF TypeOK
<1>3. UNCHANGED options /\ RecordsStarted'
  BY <1>1 DEF RecordsStarted, TypeOK, PoolTypeOK
<1>4. ASSUME NEW u \in Tasks \ {t} PROVE Untouched(u) /\ RecordStays(u)
  BY <1>1 DEF Untouched, RecordStays, TypeOK, PoolTypeOK, EntryTypeOK, CallerTypeOK, ThreadTypeOK
<1>5. CallInv(t)'
  <2>1. PostedFirst(t)'
    BY <1>1 DEF CallInv, PostedFirst, TypeOK, PoolTypeOK, EntryTypeOK, CallerTypeOK, ThreadTypeOK
  <2>2. Iterating(t)'
    BY <1>1 DEF CallInv, PostedFirst, Iterating, TypeOK, PoolTypeOK, EntryTypeOK, CallerTypeOK,
       ThreadTypeOK
  <2>3. Held(t)'
    BY <1>1 DEF CallInv, PostedFirst, Iterating, Held, InStep, Served, Unsettled, RecordsStarted,
       TypeOK, PoolTypeOK, EntryTypeOK, CallerTypeOK, ThreadTypeOK
  <2>4. InStep(t)'
    <3>1. caller[t] \in {"called", "generating"} /\ t \in generator =>
            requests[t] = << >> /\ responses[t] = << >>
      BY <1>1 DEF CallInv, InStep
    <3>2. caller[t] \notin {"idle", "receiving", "iterating"} /\ given[t] # "end"
      BY <1>1 DEF CallInv, PostedFirst, InStep
    <3>3. caller[t] \in {"called", "generating"} /\ t \in generator =>
            requests'[t] = << >> /\ responses'[t] \in {<<"gen">>, <<"error">>} /\ serving'[t] # "running"
      <4>1. t \in generator => \E msg \in {"gen", "error"} :
              responses'[t] = Append(responses[t], msg) /\ serving'[t] # "running"
        BY <1>1 DEF TypeOK, ThreadTypeOK
      <4>2. Append(<< >>, "gen") = <<"gen">> /\ Append(<< >>, "error") = <<"error">>
        BY ShortSequences
      <4> QED
        BY <3>1, <4>1, <4>2
    <3>4. /\ UNCHANGED <<caller, given, received, yielded, generator>>
      OBVIOUS
    <3> QED
      BY <1>1, <3>2, <3>3, <3>4 DEF CallInv, InStep
  <2>5. Served(t)'
    BY <1>1 DEF CallInv, Served, Unsettled, PostedFirst, Iterating, TypeOK, PoolTypeOK,
       EntryTypeOK, CallerTypeOK, ThreadTypeOK
  <2>6. Starting(t)'
    BY <1>1 DEF CallInv, Starting, PostedFirst, Iterating, TypeOK, PoolTypeOK, EntryTypeOK,
       CallerTypeOK, ThreadTypeOK
  <2> QED
    BY <2>1, <2>2, <2>3, <2>4, <2>5, <2>6 DEF CallInv
<1> QED
  BY <1>2, <1>3, <1>4, <1>5, OneCall

LEMMA ServeNextInv == ASSUME ParallelInv, NEW t \in Tasks, ServeNext(t) PROVE ParallelInv'
<1> USE DEF ServeNext, Serve, Reply, options, pools, entry, mine, wire, thread
<1>1. TypeOK /\ CallInv(t) /\ RecordsStarted
  BY DEF ParallelInv
<1>2. TypeOK'
  <2>1. PoolTypeOK'
    BY <1>1 DEF TypeOK, PoolTypeOK, EntryTypeOK, CallerTypeOK, ThreadTypeOK
  <2>2. EntryTypeOK'
    BY <1>1 DEF TypeOK, PoolTypeOK, EntryTypeOK, CallerTypeOK, ThreadTypeOK
  <2>3. CallerTypeOK'
    BY <1>1 DEF TypeOK, PoolTypeOK, EntryTypeOK, CallerTypeOK, ThreadTypeOK
  <2>4. ThreadTypeOK'
    <3>1. ASSUME NEW msg \in {"yield", "done", "error"}
          PROVE  Append(responses[t], msg) \in Seq({"return", "error", "yield", "done", "gen"})
      BY <1>1, Appending DEF TypeOK, ThreadTypeOK
    <3>2. responses' \in [Tasks -> Seq({"return", "error", "yield", "done", "gen"})]
      <4>1. \E msg \in {"yield", "done", "error"} : responses' = [responses EXCEPT ![t] = Append(@, msg)]
        BY <1>1 DEF TypeOK, ThreadTypeOK
      <4> QED
        BY <1>1, <3>1, <4>1 DEF TypeOK, ThreadTypeOK
    <3>3. requests' \in [Tasks -> Seq({"call", "next", "return"})]
      BY <1>1, Taking DEF TypeOK, ThreadTypeOK
    <3>4. serving' \in [Tasks -> {"none", "running", "generator", "exhausted"}]
      BY <1>1 DEF TypeOK, ThreadTypeOK
    <3>5. yielded' \in [Tasks -> 0 .. MaxYields]
      <4>1. yielded[t] \in 0 .. MaxYields /\ MaxYields \in Nat
        BY <1>1, ParallelAssumption DEF TypeOK, ThreadTypeOK
      <4>2. CASE yielded' = yielded
        BY <1>1, <4>2 DEF TypeOK, ThreadTypeOK
      <4>3. CASE yielded[t] < MaxYields /\ yielded' = [yielded EXCEPT ![t] = @ + 1]
        <5>1. yielded[t] + 1 \in 0 .. MaxYields
          BY <4>1, <4>3
        <5> QED
          BY <1>1, <4>3, <5>1 DEF TypeOK, ThreadTypeOK
      <4> QED
        BY <4>2, <4>3
    <3> QED
      BY <3>2, <3>3, <3>4, <3>5 DEF ThreadTypeOK
  <2> QED
    BY <2>1, <2>2, <2>3, <2>4 DEF TypeOK
<1>3. UNCHANGED options /\ RecordsStarted'
  BY <1>1 DEF RecordsStarted, TypeOK, PoolTypeOK
<1>4. ASSUME NEW u \in Tasks \ {t} PROVE Untouched(u) /\ RecordStays(u)
  BY <1>1 DEF Untouched, RecordStays, TypeOK, PoolTypeOK, EntryTypeOK, CallerTypeOK, ThreadTypeOK
<1>5. CallInv(t)'
  <2>1. PostedFirst(t)'
    BY <1>1 DEF CallInv, PostedFirst, TypeOK, PoolTypeOK, EntryTypeOK, CallerTypeOK, ThreadTypeOK
  <2>2. Iterating(t)'
    BY <1>1 DEF CallInv, PostedFirst, Iterating, TypeOK, PoolTypeOK, EntryTypeOK, CallerTypeOK,
       ThreadTypeOK
  <2>3. Held(t)'
    BY <1>1 DEF CallInv, PostedFirst, Iterating, Held, InStep, Served, Unsettled, RecordsStarted,
       TypeOK, PoolTypeOK, EntryTypeOK, CallerTypeOK, ThreadTypeOK
  <2>4. InStep(t)'
    <3>1. requests[t] # << >> /\ Head(requests[t]) = "next" /\ requests' = [requests EXCEPT ![t] = Tail(@)]
          /\ UNCHANGED <<caller, given, received, generator>>
      OBVIOUS
    <3>2. /\ caller[t] # "iterating" /\ given[t] # "end"
          /\ t \in generator => caller[t] \notin {"called", "generating"}
          /\ caller[t] # "idle"
      BY <1>1, <3>1, ShortSequences DEF CallInv, PostedFirst, InStep
    <3>3. received[t] \in Nat /\ yielded[t] \in Nat /\ yielded'[t] \in {yielded[t], yielded[t] + 1}
      BY <1>1, ParallelAssumption DEF TypeOK, CallerTypeOK, ThreadTypeOK
    <3>4. CASE caller[t] = "receiving"
      <4>1. requests[t] = <<"next">> /\ responses[t] = << >> /\ received[t] = yielded[t] /\ serving[t] # "running"
        BY <1>1, <3>1, <3>4 DEF CallInv, InStep
      <4>2. requests'[t] = << >> /\ serving'[t] # "running"
        BY <1>1, <3>1, <4>1, ShortSequences DEF TypeOK, ThreadTypeOK
      <4>3. \/ responses'[t] = <<"yield">> /\ yielded'[t] = yielded[t] + 1
            \/ responses'[t] \in {<<"done">>, <<"error">>} /\ yielded'[t] = yielded[t]
        BY <1>1, <4>1, ShortSequences DEF TypeOK, ThreadTypeOK
      <4>4. received'[t] <= yielded'[t] /\ (t \notin generator => received[t] = 0)
        BY <1>1, <3>1, <3>3, <4>1 DEF CallInv, InStep
      <4> QED
        BY <1>1, <3>1, <3>2, <3>3, <3>4, <4>1, <4>2, <4>3, <4>4 DEF CallInv, InStep
    <3>5. CASE caller[t] # "receiving"
      BY <1>1, <3>1, <3>2, <3>3, <3>5 DEF CallInv, InStep
    <3> QED
      BY <3>4, <3>5
  <2>5. Served(t)'
    BY <1>1 DEF CallInv, Served, Unsettled, PostedFirst, Iterating, TypeOK, PoolTypeOK,
       EntryTypeOK, CallerTypeOK, ThreadTypeOK
  <2>6. Starting(t)'
    BY <1>1 DEF CallInv, Starting, PostedFirst, Iterating, TypeOK, PoolTypeOK, EntryTypeOK,
       CallerTypeOK, ThreadTypeOK
  <2> QED
    BY <2>1, <2>2, <2>3, <2>4, <2>5, <2>6 DEF CallInv
<1> QED
  BY <1>2, <1>3, <1>4, <1>5, OneCall

LEMMA ServeReturnInv == ASSUME ParallelInv, NEW t \in Tasks, ServeReturn(t) PROVE ParallelInv'
<1> USE DEF ServeReturn, Serve, Reply, options, pools, entry, mine, wire, thread
<1>1. TypeOK /\ CallInv(t) /\ RecordsStarted
  BY DEF ParallelInv
<1>2. TypeOK'
  <2>1. PoolTypeOK'
    BY <1>1 DEF TypeOK, PoolTypeOK, EntryTypeOK, CallerTypeOK, ThreadTypeOK
  <2>2. EntryTypeOK'
    BY <1>1 DEF TypeOK, PoolTypeOK, EntryTypeOK, CallerTypeOK, ThreadTypeOK
  <2>3. CallerTypeOK'
    BY <1>1 DEF TypeOK, PoolTypeOK, EntryTypeOK, CallerTypeOK, ThreadTypeOK
  <2>4. ThreadTypeOK'
    <3>1. ASSUME NEW msg \in {"done", "error"}
          PROVE  Append(responses[t], msg) \in Seq({"return", "error", "yield", "done", "gen"})
      BY <1>1, Appending DEF TypeOK, ThreadTypeOK
    <3>2. responses' \in [Tasks -> Seq({"return", "error", "yield", "done", "gen"})]
      BY <1>1, <3>1 DEF TypeOK, ThreadTypeOK
    <3>3. requests' \in [Tasks -> Seq({"call", "next", "return"})]
      BY <1>1, Taking DEF TypeOK, ThreadTypeOK
    <3>4. serving' \in [Tasks -> {"none", "running", "generator", "exhausted"}]
      BY <1>1 DEF TypeOK, ThreadTypeOK
    <3>5. yielded' \in [Tasks -> 0 .. MaxYields]
      BY <1>1, ParallelAssumption DEF TypeOK, ThreadTypeOK
    <3> QED
      BY <3>2, <3>3, <3>4, <3>5 DEF ThreadTypeOK
  <2> QED
    BY <2>1, <2>2, <2>3, <2>4 DEF TypeOK
<1>3. UNCHANGED options /\ RecordsStarted'
  BY <1>1 DEF RecordsStarted, TypeOK, PoolTypeOK
<1>4. ASSUME NEW u \in Tasks \ {t} PROVE Untouched(u) /\ RecordStays(u)
  BY <1>1 DEF Untouched, RecordStays, TypeOK, PoolTypeOK, EntryTypeOK, CallerTypeOK, ThreadTypeOK
<1>5. CallInv(t)'
  <2>1. PostedFirst(t)'
    BY <1>1 DEF CallInv, PostedFirst, TypeOK, PoolTypeOK, EntryTypeOK, CallerTypeOK, ThreadTypeOK
  <2>2. Iterating(t)'
    BY <1>1 DEF CallInv, PostedFirst, Iterating, TypeOK, PoolTypeOK, EntryTypeOK, CallerTypeOK,
       ThreadTypeOK
  <2>3. Held(t)'
    BY <1>1 DEF CallInv, PostedFirst, Iterating, Held, InStep, Served, Unsettled, RecordsStarted,
       TypeOK, PoolTypeOK, EntryTypeOK, CallerTypeOK, ThreadTypeOK
  <2>4. InStep(t)'
    BY <1>1 DEF CallInv, PostedFirst, Iterating, InStep, TypeOK, PoolTypeOK, EntryTypeOK,
       CallerTypeOK, ThreadTypeOK
  <2>5. Served(t)'
    BY <1>1 DEF CallInv, Served, Unsettled, PostedFirst, Iterating, TypeOK, PoolTypeOK,
       EntryTypeOK, CallerTypeOK, ThreadTypeOK
  <2>6. Starting(t)'
    BY <1>1 DEF CallInv, Starting, PostedFirst, Iterating, TypeOK, PoolTypeOK, EntryTypeOK,
       CallerTypeOK, ThreadTypeOK
  <2> QED
    BY <2>1, <2>2, <2>3, <2>4, <2>5, <2>6 DEF CallInv
<1> QED
  BY <1>2, <1>3, <1>4, <1>5, OneCall

-----------------------------------------------------------------------------
(* The steps of a worker, which concern all of its calls. *)

\* The calls of the other workers are left alone, those of this one must be looked at.
LEMMA OneWorker ==
  ASSUME ParallelInv, NEW w \in Workers, TypeOK', RecordsStarted', UNCHANGED options,
         \A u \in Tasks : record[u] # w => Untouched(u) /\ RecordStays(u),
         \A u \in Tasks : record[u] = w => CallInv(u)'
  PROVE  ParallelInv'
BY UntouchedInv DEF ParallelInv

LEMMA CollectInv == ASSUME ParallelInv, Collect PROVE ParallelInv'
<1>1. TypeOK /\ RecordsStarted /\ \A u \in Tasks : CallInv(u)
  BY DEF ParallelInv
<1>2. PICK w \in pool : /\ tasks[w] = {} /\ pool' = pool \ {w}
                        /\ worker' = [worker EXCEPT ![w] = "terminated"]
  BY DEF Collect, Unused, Idle
<1>3. UNCHANGED <<options, tasks, entry, mine, wire, thread>> /\ w \in Workers
  BY <1>1, <1>2 DEF Collect, TypeOK, PoolTypeOK
<1>4. TypeOK'
  <2>1. PoolTypeOK'
    BY <1>1, <1>2, <1>3 DEF options, TypeOK, PoolTypeOK
  <2>2. EntryTypeOK' /\ CallerTypeOK' /\ ThreadTypeOK'
    BY <1>1, <1>3 DEF entry, mine, wire, thread, TypeOK, EntryTypeOK, CallerTypeOK, ThreadTypeOK
  <2> QED
    BY <2>1, <2>2 DEF TypeOK
<1>5. RecordsStarted'
  BY <1>1, <1>2, <1>3 DEF options, RecordsStarted, TypeOK, PoolTypeOK
<1>6. ASSUME NEW u \in Tasks PROVE Untouched(u)
  BY <1>3 DEF Untouched, entry, mine, wire, thread
<1>7. ASSUME NEW u \in Tasks, record[u] # w PROVE RecordStays(u)
  BY <1>1, <1>2, <1>7 DEF RecordStays, TypeOK, PoolTypeOK
<1>8. ASSUME NEW u \in Tasks, record[u] = w PROVE CallInv(u)'
  <2>1. ~(Unsettled(u) /\ channel[u] \notin {"failed", "closed"})
        /\ ~(getWorker[u] = "pending" /\ caller[u] # "idle")
    BY <1>1, <1>2, <1>8 DEF CallInv, Served, Starting
  <2>2. Served(u)' /\ Starting(u)'
    BY <1>3, <2>1 DEF Served, Unsettled, Starting, entry, mine
  <2> QED
    BY <1>1, <1>3, <1>6, <2>2, UntouchedInv DEF CallInv
<1> QED
  BY <1>3, <1>4, <1>5, <1>6, <1>7, <1>8, OneWorker

LEMMA DieInv == ASSUME ParallelInv, NEW w \in Workers, Die(w) PROVE ParallelInv'
<1>1. TypeOK /\ RecordsStarted /\ \A u \in Tasks : CallInv(u)
  BY DEF ParallelInv
<1>2. /\ worker[w] = "online"
      /\ worker' \in {[worker EXCEPT ![w] = "dead"], [worker EXCEPT ![w] = "exited"]}
      /\ requests' = [t \in Tasks |-> IF record[t] = w THEN << >> ELSE requests[t]]
      /\ serving' = [t \in Tasks |-> IF record[t] = w THEN "none" ELSE serving[t]]
      /\ UNCHANGED <<options, pool, tasks, entry, mine, responses, yielded>>
  BY DEF Die
<1>3. TypeOK'
  <2>1. PoolTypeOK'
    BY <1>1, <1>2 DEF options, TypeOK, PoolTypeOK
  <2>2. EntryTypeOK' /\ CallerTypeOK'
    BY <1>1, <1>2 DEF entry, mine, TypeOK, EntryTypeOK, CallerTypeOK
  <2>3. ThreadTypeOK'
    BY <1>1, <1>2 DEF TypeOK, ThreadTypeOK
  <2> QED
    BY <2>1, <2>2, <2>3 DEF TypeOK
<1>4. RecordsStarted'
  BY <1>1, <1>2 DEF options, RecordsStarted, TypeOK, PoolTypeOK
<1>5. ASSUME NEW u \in Tasks, record[u] # w PROVE Untouched(u) /\ RecordStays(u)
  <2>1. Untouched(u)
    BY <1>2, <1>5 DEF Untouched, entry, mine
  <2>2. RecordStays(u)
    BY <1>1, <1>2, <1>5 DEF RecordStays, CallInv, PostedFirst, TypeOK, PoolTypeOK
  <2> QED
    BY <2>1, <2>2
<1>6. ASSUME NEW u \in Tasks, record[u] = w PROVE CallInv(u)'
  <2>1. CallInv(u) /\ requests'[u] = << >> /\ serving'[u] = "none"
    BY <1>1, <1>2, <1>6
  <2>2. PostedFirst(u)' /\ Iterating(u)' /\ Held(u)' /\ Served(u)'
    BY <1>2, <2>1 DEF CallInv, PostedFirst, Iterating, Held, Served, Unsettled, options, entry, mine
  <2>3. InStep(u)'
    BY <1>2, <2>1 DEF CallInv, InStep, options, entry, mine
  <2>4. Starting(u)'
    BY <1>2, <1>6, <2>1 DEF CallInv, Starting, entry, mine
  <2> QED
    BY <2>2, <2>3, <2>4 DEF CallInv
<1> QED
  BY <1>2, <1>3, <1>4, <1>5, <1>6, OneWorker

\* What is known of the calls that wait for a worker.
LEMMA WaitingFacts ==
  ASSUME ParallelInv, NEW w \in Workers, NEW u \in Waiting(w)
  PROVE  /\ u \in Tasks /\ record[u] = w /\ getWorker[u] = "pending"
         /\ caller[u] \in {"called", "awaiting", "generating", "leaving"}
         /\ ~generate[u] /\ ~promise[u] /\ settled[u] = "none" /\ channel[u] \in {"none", "open"}
         /\ requests[u] = << >> /\ responses[u] = << >> /\ serving[u] = "none"
         /\ given[u] = "nothing"
BY DEF ParallelInv, CallInv, Waiting, PostedFirst, Starting, Iterating, InStep, TypeOK, CallerTypeOK

LEMMA FailToStartInv == ASSUME ParallelInv, NEW w \in Workers, FailToStart(w) PROVE ParallelInv'
<1>1. TypeOK /\ RecordsStarted /\ \A u \in Tasks : CallInv(u)
  BY DEF ParallelInv
<1>2. /\ "start" \in faults /\ worker[w] = "starting"
      /\ worker' = [worker EXCEPT ![w] = "failed"]
      /\ getWorker' = [t \in Tasks |-> IF t \in Waiting(w) THEN "rejected" ELSE getWorker[t]]
      /\ caller' = [t \in Tasks |-> IF t \in Waiting(w) /\ caller[t] # "called" THEN "over" ELSE caller[t]]
      /\ given' = [t \in Tasks |-> IF t \in Waiting(w) /\ caller[t] # "called" THEN "error" ELSE given[t]]
      /\ UNCHANGED <<options, pool, tasks, entry, record, received, wire, thread>>
  BY DEF FailToStart
<1>3. TypeOK'
  <2>1. PoolTypeOK'
    BY <1>1, <1>2 DEF options, TypeOK, PoolTypeOK
  <2>2. EntryTypeOK' /\ ThreadTypeOK'
    BY <1>1, <1>2 DEF entry, wire, thread, TypeOK, EntryTypeOK, ThreadTypeOK
  <2>3. CallerTypeOK'
    BY <1>1, <1>2 DEF TypeOK, CallerTypeOK
  <2> QED
    BY <2>1, <2>2, <2>3 DEF TypeOK
<1>4. RecordsStarted'
  BY <1>1, <1>2 DEF options, RecordsStarted, TypeOK, PoolTypeOK
<1>5. ASSUME NEW u \in Tasks, u \notin Waiting(w) PROVE CallInv(u)'
  <2>1. Untouched(u)
    BY <1>2, <1>5 DEF Untouched, entry, wire, thread
  <2>2. RecordStays(u)
    BY <1>1, <1>2, <1>5 DEF RecordStays, Waiting, TypeOK, PoolTypeOK
  <2> QED
    BY <1>1, <1>2, <2>1, <2>2, UntouchedInv
<1>6. ASSUME NEW u \in Waiting(w) PROVE CallInv(u)'
  <2> DEFINE stays == caller[u] = "called"
  <2>1. /\ CallInv(u) /\ u \in Tasks /\ getWorker'[u] = "rejected"
        /\ caller'[u] = IF stays THEN "called" ELSE "over"
        /\ given'[u] = IF stays THEN "nothing" ELSE "error"
    BY <1>1, <1>2, WaitingFacts
  <2>2. PostedFirst(u)' /\ Starting(u)'
    BY <1>2, <2>1, WaitingFacts DEF CallInv, PostedFirst, Starting, entry, wire, thread
  <2>3. Iterating(u)'
    BY <1>2, <2>1, WaitingFacts DEF CallInv, Iterating, options, entry, wire, thread
  <2>4. Held(u)'
    BY <1>2, <2>1 DEF CallInv, Held, options
  <2>5. InStep(u)'
    BY <1>2, <2>1, WaitingFacts DEF CallInv, InStep, options, wire, thread
  <2>6. Served(u)'
    BY <1>2, <2>1, WaitingFacts DEF CallInv, Served, Unsettled, entry
  <2> QED
    BY <2>2, <2>3, <2>4, <2>5, <2>6 DEF CallInv
<1> QED
  BY <1>3, <1>4, <1>5, <1>6 DEF ParallelInv

LEMMA OnlineInv == ASSUME ParallelInv, NEW w \in Workers, Online(w) PROVE ParallelInv'
<1>1. TypeOK /\ RecordsStarted /\ \A u \in Tasks : CallInv(u)
  BY DEF ParallelInv
<1>2. PICK unposted \in SUBSET Waiting(w) :
        /\ unposted # {} => "clone" \in faults
        /\ getWorker' = [t \in Tasks |-> IF t \in Waiting(w) \ unposted THEN "resolved"
                                         ELSE IF t \in unposted THEN "rejected" ELSE getWorker[t]]
        /\ requests' = [t \in Tasks |-> IF t \notin Waiting(w) \ unposted THEN requests[t]
                                        ELSE IF caller[t] = "leaving" THEN <<"call", "return">>
                                        ELSE <<"call">>]
        /\ promise' = [t \in Tasks |-> promise[t] \/ (t \in Waiting(w) \ unposted /\ caller[t] = "awaiting")]
        /\ generate' = [t \in Tasks |-> generate[t] \/ (t \in Waiting(w) \ unposted /\ caller[t] = "generating")]
        /\ caller' = [t \in Tasks |->
             IF (t \in unposted /\ caller[t] # "called")
                \/ (t \in Waiting(w) \ unposted /\ caller[t] = "leaving") THEN "over" ELSE caller[t]]
        /\ given' = [t \in Tasks |->
             IF t \in unposted /\ caller[t] # "called" THEN "error"
             ELSE IF t \in Waiting(w) \ unposted /\ caller[t] = "leaving" THEN "left" ELSE given[t]]
        /\ remote' = remote \ unposted
  BY DEF Online
<1>3. /\ worker[w] = "starting" /\ worker' = [worker EXCEPT ![w] = "online"]
      /\ UNCHANGED <<options, pool, tasks, settled, channel, record, received, responses, thread>>
  BY DEF Online
<1>4. TypeOK'
  <2>1. PoolTypeOK'
    BY <1>1, <1>3 DEF options, TypeOK, PoolTypeOK
  <2>2. EntryTypeOK'
    BY <1>1, <1>2, <1>3 DEF TypeOK, EntryTypeOK
  <2>3. CallerTypeOK'
    BY <1>1, <1>2, <1>3 DEF TypeOK, CallerTypeOK
  <2>4. <<"call">> \in Seq({"call", "next", "return"}) /\ <<"call", "return">> \in Seq({"call", "next", "return"})
    OBVIOUS
  <2>5. ThreadTypeOK'
    BY <1>1, <1>2, <1>3, <2>4 DEF thread, TypeOK, ThreadTypeOK
  <2> QED
    BY <2>1, <2>2, <2>3, <2>5 DEF TypeOK
<1>5. RecordsStarted'
  BY <1>1, <1>3 DEF options, RecordsStarted, TypeOK, PoolTypeOK
<1>6. ASSUME NEW u \in Tasks, u \notin Waiting(w) PROVE CallInv(u)'
  <2>1. Untouched(u)
    BY <1>1, <1>2, <1>3, <1>6 DEF Untouched, thread, TypeOK, EntryTypeOK
  <2>2. RecordStays(u)
    BY <1>1, <1>3, <1>6 DEF RecordStays, Waiting, TypeOK, PoolTypeOK
  <2> QED
    BY <1>1, <1>3, <2>1, <2>2, UntouchedInv
<1>7. ASSUME NEW u \in unposted PROVE CallInv(u)'
  <2> DEFINE stays == caller[u] = "called"
  <2>1. /\ CallInv(u) /\ u \in Tasks /\ u \in Waiting(w) /\ getWorker'[u] = "rejected"
        /\ caller'[u] = IF stays THEN "called" ELSE "over"
        /\ given'[u] = IF stays THEN "nothing" ELSE "error"
        /\ requests'[u] = << >> /\ ~promise'[u] /\ ~generate'[u] /\ u \notin remote'
        /\ "clone" \in faults
    BY <1>1, <1>2, WaitingFacts
  <2>2. PostedFirst(u)' /\ Starting(u)' /\ Served(u)'
    BY <1>3, <2>1, WaitingFacts DEF CallInv, PostedFirst, Starting, Served, Unsettled, thread
  <2>3. Iterating(u)'
    BY <1>3, <2>1, WaitingFacts DEF CallInv, Iterating, options
  <2>4. Held(u)'
    BY <1>3, <2>1 DEF CallInv, Held, options
  <2>5. InStep(u)'
    BY <1>3, <2>1, WaitingFacts DEF CallInv, InStep, options, thread
  <2> QED
    BY <2>2, <2>3, <2>4, <2>5 DEF CallInv
<1>8. ASSUME NEW u \in Waiting(w) \ unposted PROVE CallInv(u)'
  <2> DEFINE leaves == caller[u] = "leaving"
  <2>1. /\ CallInv(u) /\ u \in Tasks /\ getWorker'[u] = "resolved"
        /\ caller'[u] = IF leaves THEN "over" ELSE caller[u]
        /\ given'[u] = IF leaves THEN "left" ELSE "nothing"
        /\ ~leaves => requests'[u] = <<"call">>
        /\ (promise'[u] <=> caller[u] = "awaiting") /\ (generate'[u] <=> caller[u] = "generating")
        /\ (u \in remote' <=> u \in remote)
    BY <1>1, <1>2, WaitingFacts
  <2>2. PostedFirst(u)' /\ Starting(u)'
    BY <1>3, <2>1, WaitingFacts DEF CallInv, PostedFirst, Starting
  <2>3. Iterating(u)'
    BY <1>3, <2>1, WaitingFacts DEF CallInv, Iterating, options
  <2>4. Held(u)'
    BY <1>3, <2>1, WaitingFacts DEF CallInv, Held, Unsettled, options
  <2>5. InStep(u)'
    BY <1>3, <2>1, WaitingFacts DEF CallInv, InStep, options, thread
  <2>6. Served(u)'
    BY <1>3, <2>1, WaitingFacts DEF CallInv, Served, Unsettled
  <2> QED
    BY <2>2, <2>3, <2>4, <2>5, <2>6 DEF CallInv
<1> QED
  BY <1>4, <1>5, <1>6, <1>7, <1>8 DEF ParallelInv

\* How a call fails that is awaited, iterated, or neither yet.
LEMMA FailFacts ==
  ASSUME TypeOK, NEW T \in SUBSET Tasks, Fail(T), NEW u \in Tasks
  PROVE  /\ u \notin T => /\ caller'[u] = caller[u] /\ given'[u] = given[u] /\ channel'[u] = channel[u]
                          /\ settled'[u] = settled[u] /\ (u \in remote' <=> u \in remote)
         /\ u \in T /\ promise[u] =>
              /\ caller'[u] = "over" /\ given'[u] = "error" /\ u \notin remote'
              /\ channel'[u] = channel[u] /\ settled'[u] = settled[u]
         /\ u \in T /\ ~promise[u] /\ channel[u] # "none" =>
              /\ settled'[u] = settled[u] /\ (u \in remote' <=> u \in remote)
              /\ channel'[u] = IF channel[u] # "open" THEN channel[u]
                               ELSE IF caller[u] = "receiving" THEN "closed" ELSE "failed"
              /\ caller'[u] = IF channel[u] = "open" /\ caller[u] = "receiving" THEN "over" ELSE caller[u]
              /\ given'[u] = IF channel[u] = "open" /\ caller[u] = "receiving" THEN "error" ELSE given[u]
         /\ u \in T /\ ~promise[u] /\ channel[u] = "none" =>
              /\ settled'[u] = "error" /\ (u \in remote' <=> u \in remote)
              /\ caller'[u] = caller[u] /\ given'[u] = given[u] /\ channel'[u] = "none"
BY DEF Fail, Awaited, Iterated, TypeOK, EntryTypeOK, CallerTypeOK

LEMMA HandleCloseInv == ASSUME ParallelInv, NEW w \in Workers, HandleClose(w) PROVE ParallelInv'
<1>1. TypeOK /\ RecordsStarted /\ \A u \in Tasks : CallInv(u)
  BY DEF ParallelInv
<1>2. /\ worker[w] = "dead" /\ worker' = [worker EXCEPT ![w] = "closed"]
      /\ tasks' = [tasks EXCEPT ![w] = {}] /\ pool' = pool \ {w} /\ Fail(CallsOf(w))
      /\ responses' = [t \in Tasks |-> IF record[t] = w THEN << >> ELSE responses[t]]
      /\ UNCHANGED <<options, promise, generate, record, getWorker, received, requests, thread>>
  BY DEF HandleClose
<1>3. CallsOf(w) \in SUBSET Tasks
  BY <1>1 DEF CallsOf, TypeOK, PoolTypeOK
<1>4. TypeOK'
  <2>1. PoolTypeOK'
    BY <1>1, <1>2 DEF options, TypeOK, PoolTypeOK
  <2>2. EntryTypeOK'
    BY <1>1, <1>2 DEF Fail, TypeOK, EntryTypeOK
  <2>3. CallerTypeOK'
    BY <1>1, <1>2 DEF Fail, TypeOK, CallerTypeOK
  <2>4. ThreadTypeOK'
    BY <1>1, <1>2 DEF thread, TypeOK, ThreadTypeOK
  <2> QED
    BY <2>1, <2>2, <2>3, <2>4 DEF TypeOK
<1>5. RecordsStarted'
  BY <1>1, <1>2 DEF options, RecordsStarted, TypeOK, PoolTypeOK
<1>6. ASSUME NEW u \in Tasks, record[u] # w PROVE Untouched(u) /\ RecordStays(u)
  <2>1. u \notin tasks[w]
    BY <1>1, <1>6 DEF CallInv, Held
  <2>2. u \notin CallsOf(w)
    BY <2>1 DEF CallsOf
  <2>3. \A v \in Workers : u \in tasks'[v] <=> u \in tasks[v]
    BY <1>1, <1>2, <2>1 DEF TypeOK, PoolTypeOK
  <2>4. RecordStays(u)
    BY <1>1, <1>2, <1>6 DEF RecordStays, TypeOK, PoolTypeOK
  <2> QED
    BY <1>1, <1>2, <1>3, <1>6, <2>2, <2>3, <2>4, FailFacts DEF Untouched, thread
<1>7. ASSUME NEW u \in Tasks, record[u] = w PROVE CallInv(u)'
  <2>1. /\ CallInv(u) /\ responses'[u] = << >> /\ record'[u] = w
        /\ UNCHANGED <<generator, faults, promise, generate, getWorker, received, requests, serving, yielded>>
    BY <1>1, <1>2, <1>7 DEF options, thread
  <2>2. \A v \in Workers : u \notin tasks'[v]
    BY <1>1, <1>2, <1>7, <2>1 DEF CallInv, Held, TypeOK, PoolTypeOK
  <2>3. ~(getWorker[u] = "pending" /\ caller[u] # "idle")
    BY <1>2, <1>7, <2>1 DEF CallInv, Starting
  <2>4. u \in CallsOf(w) => caller[u] # "idle"
    BY <2>1 DEF CallInv, PostedFirst, CallsOf
  <2>5. u \notin CallsOf(w) => ~(Unsettled(u) /\ channel[u] \notin {"failed", "closed"})
    BY <1>7, <2>1 DEF CallInv, Served, Unsettled, CallsOf
  <2>6. PostedFirst(u)' /\ Starting(u)'
    BY <1>1, <1>2, <1>3, <2>1, <2>2, <2>3, <2>4, FailFacts DEF CallInv, PostedFirst, Starting
  <2>7. Held(u)'
    BY <1>1, <1>2, <1>3, <2>1, <2>2, FailFacts DEF CallInv, Held
  <2>8. caller[u] = "receiving" => u \in CallsOf(w) /\ ~promise[u] /\ channel[u] = "open"
    BY <2>1, <2>5 DEF CallInv, Iterating, Unsettled
  <2>9. Iterating(u)'
    BY <1>1, <1>2, <1>3, <2>1, <2>4, <2>8, FailFacts DEF CallInv, Iterating
  <2>10. InStep(u)'
    <3>1. \/ caller'[u] = caller[u] /\ given'[u] = given[u] /\ caller[u] # "receiving"
          \/ caller'[u] = "over" /\ given'[u] = "error"
      BY <1>1, <1>2, <1>3, <2>8, FailFacts
    <3> QED
      BY <2>1, <3>1 DEF CallInv, InStep
  <2>11. Served(u)'
    <3>1. CASE u \in CallsOf(w)
      <4>1. u \notin remote' \/ settled'[u] # "none" \/ channel'[u] \in {"failed", "closed"}
        BY <1>1, <1>2, <1>3, <3>1, FailFacts DEF TypeOK, EntryTypeOK
      <4> QED
        BY <4>1 DEF Served, Unsettled
    <3>2. CASE u \notin CallsOf(w)
      BY <1>1, <1>2, <1>3, <2>5, <3>2, FailFacts DEF Served, Unsettled
    <3> QED
      BY <3>1, <3>2
  <2> QED
    BY <2>6, <2>7, <2>9, <2>10, <2>11 DEF CallInv
<1> QED
  BY <1>2, <1>4, <1>5, <1>6, <1>7, OneWorker

-----------------------------------------------------------------------------
LEMMA InitInv == Init => ParallelInv
<1> SUFFICES ASSUME Init PROVE ParallelInv
  OBVIOUS
<1>1. TypeOK
  BY ParallelAssumption DEF Init, TypeOK, PoolTypeOK, EntryTypeOK, CallerTypeOK, ThreadTypeOK
<1>2. RecordsStarted
  BY DEF Init, RecordsStarted
<1>3. ASSUME NEW t \in Tasks PROVE CallInv(t)
  BY DEF Init, CallInv, PostedFirst, Starting, Iterating, Held, InStep, Served, Unsettled
<1> QED
  BY <1>1, <1>2, <1>3 DEF ParallelInv

LEMMA StepInv == ParallelInv /\ [Next]_vars => ParallelInv'
<1> SUFFICES ASSUME ParallelInv, [Next]_vars PROVE ParallelInv'
  OBVIOUS
<1>1. ASSUME NEW t \in Tasks, Call(t) \/ Await(t) \/ IterateNext(t) \/ Leave(t) PROVE ParallelInv'
  BY <1>1, MakeCallInv, AwaitInv, IterateNextInv, LeaveInv
<1>2. ASSUME NEW t \in Tasks, Deliver(t) PROVE ParallelInv'
  BY <1>2, IgnoreInv, DeliverReturnInv, DeliverErrorInv, DeliverYieldInv, DeliverDoneInv,
     DeliverGenInv
  DEF Deliver
<1>3. ASSUME NEW t \in Tasks, Work(t) PROVE ParallelInv'
  BY <1>3, ServeCallInv, FinishCallInv, ServeNextInv, ServeReturnInv DEF Work
<1>4. ASSUME NEW w \in Workers, Online(w) \/ FailToStart(w) \/ Die(w) \/ HandleClose(w) PROVE ParallelInv'
  BY <1>4, OnlineInv, FailToStartInv, DieInv, HandleCloseInv
<1>5. CASE UNCHANGED vars
  <2>1. UNCHANGED <<options, pools, entry, mine, wire, thread>>
    BY <1>5 DEF vars
  <2>2. TypeOK' /\ RecordsStarted'
    BY <2>1 DEF options, pools, entry, mine, wire, thread, ParallelInv, RecordsStarted, TypeOK,
       PoolTypeOK, EntryTypeOK, CallerTypeOK, ThreadTypeOK
  <2>3. ASSUME NEW u \in Tasks PROVE Untouched(u) /\ RecordStays(u)
    BY <2>1 DEF pools, entry, mine, wire, thread, Untouched, RecordStays
  <2> QED
    BY <2>1, <2>2, <2>3, UntouchedInv DEF ParallelInv
<1> QED
  BY <1>1, <1>2, <1>3, <1>4, <1>5, CollectInv DEF Next

LEMMA InvHolds == Spec => []ParallelInv
BY InitInv, StepInv, PTL DEF Spec

\* Every variable of the pool, of the calls and of the threads stays within its type.
THEOREM ParallelTypeCorrect == Spec => []TypeOK
<1>1. ParallelInv => TypeOK
  BY DEF ParallelInv
<1> QED
  BY <1>1, InvHolds, PTL

\* A call that is not settled is in the record of a worker that the pool still has,
\* whatever fails, dies or is collected.
THEOREM CallsAreServed == Spec => []ServedByPool
<1>1. ParallelInv => ServedByPool
  BY DEF ParallelInv, CallInv, ServedByPool
<1> QED
  BY <1>1, InvHolds, PTL

\* A record holds only calls that are not settled, so that its worker becomes idle.
THEOREM RecordsAreLeft == Spec => []NoTaskKept
<1>1. ParallelInv => NoTaskKept
  BY DEF ParallelInv, CallInv, Held, NoTaskKept, TypeOK, PoolTypeOK
<1> QED
  BY <1>1, InvHolds, PTL

\* A caller that iterates is given all that the generator yields, before its end.
THEOREM NothingIsLost == Spec => []NoDatumLost
<1>1. ParallelInv => NoDatumLost
  BY DEF ParallelInv, CallInv, InStep, NoDatumLost
<1> QED
  BY <1>1, InvHolds, PTL

-----------------------------------------------------------------------------
PoolInv == IsFiniteSet(pool) /\ PoolBounded

\* Only acquireWorker() adds a record, and it looks at the limit first.
LEMMA PoolStep ==
  ASSUME TypeOK, PoolInv, [Next]_vars PROVE PoolInv'
<1>1. \/ pool' = pool
      \/ \E w \in Workers : pool' = pool \ {w}
      \/ HasPlace /\ \E w \in Workers : pool' = pool \cup {w}
  <2>1. ASSUME NEW t \in Tasks, Call(t)
        PROVE  pool' = pool \/ (HasPlace /\ \E w \in Workers : pool' = pool \cup {w})
    BY <2>1 DEF Call, Acquire
  <2>2. ASSUME NEW t \in Tasks, Await(t) \/ IterateNext(t) \/ Leave(t) \/ Deliver(t) \/ Work(t)
        PROVE  pool' = pool
    BY <2>2 DEF pools, Await, IterateNext, Leave, Deliver, Ignore, DeliverReturn, DeliverError,
       DeliverYield, DeliverDone, DeliverGen, Work, ServeCall, FinishCall, ServeNext, ServeReturn, Serve
  <2>3. ASSUME NEW w \in Workers, Online(w) \/ FailToStart(w) \/ Die(w) \/ HandleClose(w)
        PROVE  pool' = pool \/ pool' = pool \ {w}
    BY <2>3 DEF Online, FailToStart, Die, HandleClose
  <2>4. Collect => \E w \in Workers : pool' = pool \ {w}
    BY DEF Collect, Unused, Idle, TypeOK, PoolTypeOK
  <2>5. UNCHANGED vars => pool' = pool
    BY DEF vars, pools
  <2> QED
    BY <2>1, <2>2, <2>3, <2>4, <2>5 DEF Next
<1>2. maxWorkers' = maxWorkers
  BY DEF Next, vars, options, Call, Await, IterateNext, Leave, Deliver, Ignore, DeliverReturn,
     DeliverError, DeliverYield, DeliverDone, DeliverGen, Work, ServeCall, FinishCall, ServeNext,
     ServeReturn, Serve, Online, FailToStart, Die, HandleClose, Collect
<1>3. maxWorkers \in Nat /\ Cardinality(pool) \in Nat /\ Cardinality(pool) <= maxWorkers /\ IsFiniteSet(pool)
  BY FS_CardinalityType, ParallelAssumption DEF PoolInv, PoolBounded, TypeOK, PoolTypeOK
<1>4. CASE pool' = pool
  BY <1>2, <1>4 DEF PoolInv, PoolBounded
<1>5. ASSUME NEW w \in Workers, pool' = pool \ {w} PROVE PoolInv'
  BY <1>2, <1>3, <1>5, FS_RemoveElement DEF PoolInv, PoolBounded
<1>6. ASSUME NEW w \in Workers, HasPlace, pool' = pool \cup {w} PROVE PoolInv'
  BY <1>2, <1>3, <1>6, FS_AddElement DEF PoolInv, PoolBounded, HasPlace
<1> QED
  BY <1>1, <1>4, <1>5, <1>6

\* The pool never holds more workers than parallel.maxWorkers.
THEOREM PoolWithinMaxWorkers == Spec => []PoolBounded
<1>1. Init => PoolInv
  BY FS_EmptySet, ParallelAssumption DEF Init, PoolInv, PoolBounded
<1>2. PoolInv => PoolBounded
  BY DEF PoolInv
<1> QED
  BY <1>1, <1>2, PoolStep, ParallelTypeCorrect, PTL DEF Spec

-----------------------------------------------------------------------------
(***************************************************************************)
(* The channels that remote calls take to other threads: ThreadChannel.      *)
(***************************************************************************)
LEMMA MessageKinds ==
  ASSUME NEW m \in Messages
  PROVE  /\ m[1] \in {"call", "close", "send"}
         /\ IsDatum(m) => m[2] \in 1 .. MaxData /\ m = <<"send", m[2]>>
         /\ m[1] = "close" => m = <<"close">>
         /\ m[1] = "call" => m = <<"call">>
  BY DEF Messages, IsDatum

LEMMA ClosesType ==
  ASSUME PortTypeOK, NEW t \in Threads, NEW u \in Threads
  PROVE  /\ Closes(t, u) \in Seq(Messages)
         /\ WritersTo(t, u) \in Nat /\ Len(Closes(t, u)) = WritersTo(t, u)
         /\ \A i \in 1 .. Len(Closes(t, u)) : Closes(t, u)[i] = <<"close">>
         /\ u \notin Of(writers[t]) => Len(Closes(t, u)) = 0
<1>1. IsFiniteSet({i \in DOMAIN writers[t] : writers[t][i] = u})
  <2>1. DOMAIN writers[t] = 1 .. Len(writers[t]) /\ Len(writers[t]) \in Nat
    BY DEF PortTypeOK
  <2>2. IsFiniteSet(DOMAIN writers[t])
    BY <2>1, FS_Interval
  <2> QED
    BY <2>2, FS_Subset
<1>2. WritersTo(t, u) \in Nat
  BY <1>1, FS_CardinalityType DEF WritersTo
<1>3. Closes(t, u) \in Seq(Messages)
  BY <1>2 DEF Closes, Messages
<1>4. u \notin Of(writers[t]) => WritersTo(t, u) = 0
  <2> SUFFICES ASSUME u \notin Of(writers[t]) PROVE WritersTo(t, u) = 0
    OBVIOUS
  <2>1. {i \in DOMAIN writers[t] : writers[t][i] = u} = {}
    BY DEF Of
  <2> QED
    BY <2>1, FS_EmptySet DEF WritersTo
<1> QED
  BY <1>2, <1>3, <1>4 DEF Closes

LEMMA WriteCloseType ==
  ASSUME PortTypeOK, NEW t \in Threads
  PROVE  WriteClose(t) \in [Threads -> [Threads -> Seq(Messages)]]
<1>1. \A u \in Threads : link[t][u] \o Closes(t, u) \in Seq(Messages)
  BY ClosesType DEF PortTypeOK
<1> QED
  BY <1>1 DEF WriteClose, PortTypeOK

LEMMA NextWriterIn ==
  ASSUME PortTypeOK, NEW t \in Threads, Stored(t)
  PROVE  NextWriter(t) \in Of(writers[t]) /\ NextWriter(t) \in Threads
<1>1. Len(writers[t]) \in Nat \ {0} /\ counter[t] \in Nat /\ DOMAIN writers[t] = 1 .. Len(writers[t])
  BY DEF PortTypeOK, Stored
<1>2. counter[t] % Len(writers[t]) \in 0 .. Len(writers[t]) - 1
  BY <1>1
<1>3. (counter[t] % Len(writers[t])) + 1 \in DOMAIN writers[t]
  BY <1>1, <1>2
<1>4. \A i \in DOMAIN writers[t] : writers[t][i] \in Threads
  BY DEF PortTypeOK
<1> QED
  BY <1>3, <1>4 DEF NextWriter, Of

-----------------------------------------------------------------------------
(* What each step does to the messages between two threads. *)

LEMMA MainApart == /\ Main \in Threads /\ Main \notin WorkerThreads /\ WorkerThreads \subseteq Threads
                   /\ \A t \in Threads : t # Main => t \in WorkerThreads
  BY ThreadChannelAssumption DEF Threads

LEMMA PassLinks ==
  ASSUME PortTypeOK, NEW w \in WorkerThreads, Pass(w)
  PROVE  \A s, t \in Threads : link'[s][t] =
           IF s = Main /\ t = w THEN Append(link[s][t], <<"call">>) ELSE link[s][t]
  BY MainApart DEF Pass, PortTypeOK

LEMMA SendLinks ==
  ASSUME PortTypeOK, NEW t0 \in Threads, Send(t0)
  PROVE  \A s, t \in Threads : link'[s][t] =
           IF s = t0 /\ t = NextWriter(t0) THEN Append(link[s][t], <<"send", sent[s] + 1>>) ELSE link[s][t]
<1>1. Stored(t0)
  BY DEF Send
<1>2. NextWriter(t0) \in Threads
  BY <1>1, NextWriterIn
<1> QED
  BY <1>2 DEF Send, Post, PortTypeOK

LEMMA CloseLinks ==
  ASSUME PortTypeOK, NEW t0 \in Threads, Close(t0)
  PROVE  \A s, t \in Threads : link'[s][t] =
           IF s = t0 THEN link[s][t] \o Closes(s, t) ELSE link[s][t]
  BY DEF Close, WriteClose, PortTypeOK

LEMMA TakenLinks ==
  ASSUME PortTypeOK, NEW s0 \in Threads, NEW t0 \in Threads, link' = Taken(s0, t0, link)
  PROVE  \A s, t \in Threads : link'[s][t] =
           IF s = s0 /\ t = t0 THEN Tail(link[s][t]) ELSE link[s][t]
  BY DEF Taken, PortTypeOK

\* The main thread passes a close on; a message to it comes from a worker.
LEMMA CloseHeardLinks ==
  ASSUME PortTypeOK, NEW s0 \in Threads, NEW t0 \in Threads, ReceiveClose(s0, t0), s0 # t0
  PROVE  \A s, t \in Threads : link'[s][t] =
           IF s = s0 /\ t = t0 THEN Tail(link[s][t])
           ELSE IF s = t0 /\ Distributes(t0) /\ Stored(t0) THEN link[s][t] \o Closes(s, t) ELSE link[s][t]
<1>1. CASE Stored(t0) /\ Distributes(t0)
  <2>1. link' = Taken(s0, t0, WriteClose(t0))
    BY <1>1 DEF ReceiveClose
  <2>2. \A s, t \in Threads : WriteClose(t0)[s][t] = IF s = t0 THEN link[s][t] \o Closes(s, t) ELSE link[s][t]
    BY DEF WriteClose, PortTypeOK
  <2>3. WriteClose(t0) \in [Threads -> [Threads -> Seq(Messages)]]
    BY WriteCloseType
  <2> QED
    BY <1>1, <2>1, <2>2, <2>3 DEF Taken
<1>2. CASE ~(Stored(t0) /\ Distributes(t0))
  BY <1>2, TakenLinks DEF ReceiveClose
<1> QED
  BY <1>1, <1>2

-----------------------------------------------------------------------------
LEMMA TailType ==
  ASSUME PortTypeOK, NEW s \in Threads, NEW t \in Threads, link[s][t] # << >>
  PROVE  Taken(s, t, link) \in [Threads -> [Threads -> Seq(Messages)]]
<1>1. Tail(link[s][t]) \in Seq(Messages)
  BY DEF PortTypeOK
<1> QED
  BY <1>1 DEF Taken, PortTypeOK

LEMMA HeadType ==
  ASSUME PortTypeOK, NEW s \in Threads, NEW t \in Threads, link[s][t] # << >>
  PROVE  /\ Head(link[s][t]) \in Messages /\ Head(link[s][t]) = link[s][t][1]
         /\ Head(link[s][t])[1] = "send" => Head(link[s][t])[2] \in 1 .. MaxData
<1>1. Head(link[s][t]) \in Messages /\ Head(link[s][t]) = link[s][t][1]
  BY DEF PortTypeOK
<1> QED
  BY <1>1, MessageKinds DEF IsDatum

LEMMA ThreadTypeInit == PortInit => PortTypeOK
  BY ThreadChannelAssumption DEF PortInit, PortTypeOK, Never, Threads

LEMMA ThreadTypeNext == PortTypeOK /\ [PortNext]_portVars => PortTypeOK'
<1> SUFFICES ASSUME PortTypeOK, [PortNext]_portVars PROVE PortTypeOK'
  OBVIOUS
<1> USE ThreadChannelAssumption
<1>1. ASSUME NEW w \in WorkerThreads, Pass(w) PROVE PortTypeOK'
  <2>1. Append(link[Main][w], <<"call">>) \in Seq(Messages)
    BY <1>1, MainApart DEF PortTypeOK, Messages
  <2>2. link' \in [Threads -> [Threads -> Seq(Messages)]]
    BY <1>1, <2>1, MainApart DEF Pass, PortTypeOK
  <2>3. writers' \in [Threads -> Seq(Threads)]
    BY <1>1, MainApart DEF Pass, Wire, PortTypeOK
  <2> QED
    BY <1>1, <2>2, <2>3 DEF Pass, PortTypeOK
<1>2. ASSUME NEW t \in Threads, Send(t) PROVE PortTypeOK'
  <2>1. NextWriter(t) \in Threads
    BY <1>2, NextWriterIn DEF Send
  <2>2. Append(link[t][NextWriter(t)], <<"send", sent[t] + 1>>) \in Seq(Messages)
    BY <1>2, <2>1 DEF Send, PortTypeOK, Messages
  <2>3. link' \in [Threads -> [Threads -> Seq(Messages)]]
    BY <1>2, <2>1, <2>2 DEF Send, Post, PortTypeOK
  <2>4. counter' \in [Threads -> Nat] /\ sent' \in [Threads -> 0 .. MaxData]
    BY <1>2 DEF Send, PortTypeOK
  <2> QED
    BY <1>2, <2>3, <2>4 DEF Send, PortTypeOK
<1>3. ASSUME NEW t \in Threads, SendNowhere(t) PROVE PortTypeOK'
  BY <1>3 DEF SendNowhere, PortTypeOK
<1>4. ASSUME NEW t \in Threads, Close(t) PROVE PortTypeOK'
  <2>1. link' \in [Threads -> [Threads -> Seq(Messages)]]
    BY <1>4, WriteCloseType DEF Close
  <2>2. closed' \in [Threads -> 0 .. Never]
    BY <1>4 DEF Close, PortTypeOK, Never
  <2> QED
    BY <1>4, <2>1, <2>2 DEF Close, Delete, PortTypeOK
<1>5. ASSUME NEW w \in WorkerThreads, ReceiveCall(w) PROVE PortTypeOK'
  <2>1. link' \in [Threads -> [Threads -> Seq(Messages)]]
    BY <1>5, TailType, MainApart DEF ReceiveCall, Head2
  <2>2. writers' \in [Threads -> Seq(Threads)]
    BY <1>5, MainApart DEF ReceiveCall, Wire, PortTypeOK
  <2>3. state' \in [Threads -> {"none", "open", "closed", "ended"}]
    BY <1>5 DEF ReceiveCall, PortTypeOK
  <2> QED
    BY <1>5, <2>1, <2>2, <2>3 DEF ReceiveCall, PortTypeOK
<1>6. ASSUME NEW s \in Threads, NEW t \in Threads, ReceiveDatum(s, t) PROVE PortTypeOK'
  <2>1. link' \in [Threads -> [Threads -> Seq(Messages)]]
    BY <1>6, TailType DEF ReceiveDatum, Head2
  <2>2. Head(link[s][t])[2] \in 1 .. MaxData
    BY <1>6, HeadType DEF ReceiveDatum, Head2
  <2>3. Append(got[t][s], Head(link[s][t])[2]) \in Seq(1 .. MaxData)
    BY <2>2 DEF PortTypeOK
  <2>4. got' \in [Threads -> [Threads -> Seq(1 .. MaxData)]]
    BY <1>6, <2>3 DEF ReceiveDatum, PortTypeOK
  <2> QED
    BY <1>6, <2>1, <2>4 DEF ReceiveDatum, PortTypeOK
<1>7. ASSUME NEW s \in Threads, NEW t \in Threads, ReceiveClose(s, t) PROVE PortTypeOK'
  <2>0. link[s][t] # << >>
    BY <1>7 DEF ReceiveClose, Head2
  <2>1. WriteClose(t) \in [Threads -> [Threads -> Seq(Messages)]]
    BY WriteCloseType
  <2>3. Taken(s, t, link) \in [Threads -> [Threads -> Seq(Messages)]]
    BY <2>0, TailType
  <2>2. Tail(WriteClose(t)[s][t]) \in Seq(Messages)
    <3>1. WriteClose(t)[s][t] = IF s = t THEN link[s][t] \o Closes(t, t) ELSE link[s][t]
      BY DEF WriteClose, PortTypeOK
    <3>2. link[s][t] \in Seq(Messages) /\ Closes(t, t) \in Seq(Messages)
      BY ClosesType DEF PortTypeOK
    <3>3. WriteClose(t)[s][t] \in Seq(Messages) /\ WriteClose(t)[s][t] # << >>
      BY <2>0, <3>1, <3>2
    <3> QED
      BY <3>3
  <2>4. Taken(s, t, WriteClose(t)) \in [Threads -> [Threads -> Seq(Messages)]]
    BY <2>1, <2>2 DEF Taken
  <2>5. link' \in [Threads -> [Threads -> Seq(Messages)]]
    BY <1>7, <2>3, <2>4 DEF ReceiveClose
  <2>6. CASE Stored(t)
    <3>1. Delete(t)
      BY <1>7, <2>6 DEF ReceiveClose
    <3>3. << >> \in Seq(Threads) /\ 0 \in Nat
      OBVIOUS
    <3>4. writers' \in [Threads -> Seq(Threads)] /\ counter' \in [Threads -> Nat]
      BY <3>1, <3>3 DEF Delete, PortTypeOK
    <3>2. state' \in [Threads -> {"none", "open", "closed", "ended"}]
      BY <1>7, <2>6 DEF ReceiveClose, PortTypeOK
    <3> QED
      BY <1>7, <2>5, <3>4, <3>2 DEF ReceiveClose, PortTypeOK
  <2>7. CASE ~Stored(t)
    BY <1>7, <2>5, <2>7 DEF ReceiveClose, PortTypeOK
  <2> QED
    BY <2>6, <2>7
<1>8. CASE UNCHANGED portVars
  BY <1>8 DEF portVars, PortTypeOK
<1> QED
  BY <1>1, <1>2, <1>3, <1>4, <1>5, <1>6, <1>7, <1>8, MainApart DEF PortNext, ReceiveMessage

(***************************************************************************)
(* The data between two threads.                                             *)
(***************************************************************************)

LEMMA DataInIs ==
  ASSUME NEW q \in Seq(Messages), NEW n
  PROVE  n \in DataIn(q) <=> \E i \in 1 .. Len(q) : IsDatum(q[i]) /\ q[i][2] = n
<1>1. \A i \in 1 .. Len(q) : q[i] \in Messages
  OBVIOUS
<1>2. \A k \in 1 .. MaxData : IsDatum(<<"send", k>>) /\ <<"send", k>>[2] = k
  BY DEF IsDatum
<1>3. DOMAIN q = 1 .. Len(q)
  OBVIOUS
<1> QED
  BY <1>1, <1>2, <1>3, MessageKinds DEF DataIn, Of

\* Messages that are no data change nothing.
LEMMA OthersAdded ==
  ASSUME NEW q \in Seq(Messages), NEW c \in Seq(Messages), \A i \in 1 .. Len(c) : ~IsDatum(c[i])
  PROVE  DataIn(q \o c) = DataIn(q) /\ (DataRise(q) => DataRise(q \o c))
<1> DEFINE r == q \o c
<1>1. r \in Seq(Messages) /\ Len(r) = Len(q) + Len(c) /\ Len(q) \in Nat /\ Len(c) \in Nat
  OBVIOUS
<1>2. \A i \in 1 .. Len(q) : r[i] = q[i]
  OBVIOUS
<1>3. \A i \in 1 .. Len(r) : i > Len(q) => ~IsDatum(r[i])
  <2> SUFFICES ASSUME NEW i \in 1 .. Len(r), i > Len(q) PROVE ~IsDatum(r[i])
    OBVIOUS
  <2>1. i - Len(q) \in 1 .. Len(c) /\ r[i] = c[i - Len(q)]
    BY <1>1
  <2> QED
    BY <2>1
<1>4. DOMAIN r = 1 .. Len(r) /\ DOMAIN q = 1 .. Len(q)
  BY <1>1
<1> HIDE DEF r
<1>5. \A i \in 1 .. Len(r) : IsDatum(r[i]) => i \in 1 .. Len(q)
  BY <1>1, <1>3
<1>6. \A n : n \in DataIn(r) <=> n \in DataIn(q)
  <2>1. \A n : n \in DataIn(r) <=> \E i \in 1 .. Len(r) : IsDatum(r[i]) /\ r[i][2] = n
    BY <1>1, DataInIs
  <2>2. \A n : n \in DataIn(q) <=> \E i \in 1 .. Len(q) : IsDatum(q[i]) /\ q[i][2] = n
    BY DataInIs
  <2>3. 1 .. Len(q) \subseteq 1 .. Len(r)
    BY <1>1
  <2> QED
    BY <1>2, <1>5, <2>1, <2>2, <2>3
<1>7. DataRise(q) => DataRise(r)
  BY <1>1, <1>2, <1>4, <1>5 DEF DataRise
<1>8. DataIn(r) = DataIn(q)
  BY <1>6
<1> QED
  BY <1>7, <1>8 DEF r

LEMMA DatumAdded ==
  ASSUME NEW q \in Seq(Messages), NEW n \in 1 .. MaxData, \A m \in DataIn(q) : m < n
  PROVE  /\ DataIn(Append(q, <<"send", n>>)) = DataIn(q) \cup {n}
         /\ DataRise(q) => DataRise(Append(q, <<"send", n>>))
<1> DEFINE d == <<"send", n>>
           r == Append(q, d)
<1>1. d \in Messages /\ IsDatum(d) /\ d[2] = n
  BY DEF Messages, IsDatum
<1>2. /\ r \in Seq(Messages) /\ Len(r) = Len(q) + 1 /\ Len(q) \in Nat /\ r[Len(r)] = d
      /\ \A i \in 1 .. Len(q) : r[i] = q[i]
      /\ DOMAIN r = 1 .. Len(r) /\ DOMAIN q = 1 .. Len(q)
  BY <1>1
<1> HIDE DEF r, d
<1>3. \A m : m \in DataIn(r) <=> m \in DataIn(q) \/ m = n
  BY <1>1, <1>2, DataInIs
<1>4. \A i \in 1 .. Len(q) : IsDatum(q[i]) => q[i][2] < n
  BY DataInIs
<1>5. DataRise(q) => DataRise(r)
  BY <1>1, <1>2, <1>4 DEF DataRise
<1>6. DataIn(r) = DataIn(q) \cup {n}
  BY <1>3
<1> QED
  BY <1>5, <1>6 DEF r, d

LEMMA MessageTaken ==
  ASSUME NEW q \in Seq(Messages), q # << >>
  PROVE  /\ DataRise(q) => DataRise(Tail(q))
         /\ ~IsDatum(Head(q)) => DataIn(Tail(q)) = DataIn(q)
         /\ IsDatum(Head(q)) => DataIn(q) = DataIn(Tail(q)) \cup {Head(q)[2]}
         /\ IsDatum(Head(q)) /\ DataRise(q) => \A m \in DataIn(Tail(q)) : Head(q)[2] < m
<1> DEFINE r == Tail(q)
<1>1. /\ r \in Seq(Messages) /\ Len(q) = Len(r) + 1 /\ Len(r) \in Nat /\ Head(q) = q[1]
      /\ \A i \in 1 .. Len(r) : r[i] = q[i + 1]
      /\ DOMAIN r = 1 .. Len(r) /\ DOMAIN q = 1 .. Len(q)
  OBVIOUS
<1> HIDE DEF r
<1>2. \A i \in 1 .. Len(q) : i = 1 \/ (i - 1 \in 1 .. Len(r) /\ r[i - 1] = q[i])
  BY <1>1
<1>3. \A i \in 1 .. Len(r) : i + 1 \in 1 .. Len(q) /\ 1 \in 1 .. Len(q)
  BY <1>1
<1>4. \A n : n \in DataIn(q) <=> n \in DataIn(r) \/ (IsDatum(q[1]) /\ n = q[1][2])
  <2>1. 1 \in 1 .. Len(q)
    BY <1>1
  <2> QED
    BY <1>1, <1>2, <1>3, <2>1, DataInIs
<1>5. DataRise(q) => DataRise(r)
  BY <1>1, <1>3 DEF DataRise
<1>6. IsDatum(q[1]) /\ DataRise(q) => \A m \in DataIn(r) : q[1][2] < m
  <2> SUFFICES ASSUME IsDatum(q[1]), DataRise(q), NEW m \in DataIn(r) PROVE q[1][2] < m
    OBVIOUS
  <2>1. PICK i \in 1 .. Len(r) : IsDatum(r[i]) /\ r[i][2] = m
    BY <1>1, DataInIs
  <2> QED
    BY <1>1, <1>3, <2>1 DEF DataRise
<1>7. /\ ~IsDatum(q[1]) => DataIn(r) = DataIn(q)
      /\ IsDatum(q[1]) => DataIn(q) = DataIn(r) \cup {q[1][2]}
  BY <1>4
<1> QED
  BY <1>1, <1>5, <1>6, <1>7 DEF r

(***************************************************************************)
(* The main thread has the channel with workers, a worker with the main      *)
(* thread, and only the main thread passes it.                               *)
(***************************************************************************)
IsCall(m) == m[1] = "call"
IsClose(m) == m[1] = "close"

Between(s, t) == (s = Main /\ t \in WorkerThreads) \/ (s \in WorkerThreads /\ t = Main)
Sides ==
  /\ \A s \in Threads : \A i \in DOMAIN writers[s] : Between(s, writers[s][i])
  /\ \A s, t \in Threads : link[s][t] # << >> => Between(s, t)
  /\ \A w \in WorkerThreads, t \in Threads : \A i \in DOMAIN link[w][t] : ~IsCall(link[w][t][i])

LEMMA ClosesBetween ==
  ASSUME PortTypeOK, Sides, NEW s \in Threads, NEW t \in Threads
  PROVE  /\ link[s][t] \o Closes(s, t) \in Seq(Messages)
         /\ link[s][t] \o Closes(s, t) # << >> => Between(s, t)
         /\ \A i \in DOMAIN (link[s][t] \o Closes(s, t)) :
              (i \in DOMAIN link[s][t] /\ (link[s][t] \o Closes(s, t))[i] = link[s][t][i])
              \/ (i > Len(link[s][t]) /\ (link[s][t] \o Closes(s, t))[i] = <<"close">>)
<1> DEFINE q == link[s][t]
           c == Closes(s, t)
<1>1. q \in Seq(Messages) /\ c \in Seq(Messages)
  BY ClosesType DEF PortTypeOK
<1>2. c # << >> => Between(s, t)
  BY ClosesType, <1>1 DEF Sides, Of
<1>3. q # << >> => Between(s, t)
  BY DEF Sides
<1>4. \A i \in 1 .. Len(c) : c[i] = <<"close">>
  BY ClosesType
<1> HIDE DEF q, c
<1>5. q \o c # << >> => q # << >> \/ c # << >>
  BY <1>1
<1>6. \A i \in DOMAIN (q \o c) : (i \in DOMAIN q /\ (q \o c)[i] = q[i])
                               \/ (i > Len(q) /\ i - Len(q) \in 1 .. Len(c) /\ (q \o c)[i] = c[i - Len(q)])
  BY <1>1
<1>7. q \o c \in Seq(Messages)
  BY <1>1
<1> QED
  BY <1>2, <1>3, <1>4, <1>5, <1>6, <1>7 DEF q, c

LEMMA TailHas ==
  ASSUME PortTypeOK, NEW s \in Threads, NEW t \in Threads, link[s][t] # << >>
  PROVE  \A i \in DOMAIN Tail(link[s][t]) : i + 1 \in DOMAIN link[s][t] /\ Tail(link[s][t])[i] = link[s][t][i + 1]
  BY DEF PortTypeOK

LEMMA Appended ==
  ASSUME NEW S, NEW q \in Seq(S), NEW u \in S
  PROVE  \A i \in DOMAIN Append(q, u) : (i \in DOMAIN q /\ Append(q, u)[i] = q[i]) \/ Append(q, u)[i] = u
  OBVIOUS

LEMMA SidesInit == PortInit => Sides
  BY MainApart DEF PortInit, Sides

LEMMA SidesNext == PortTypeOK /\ Sides /\ [PortNext]_portVars => Sides'
<1> SUFFICES ASSUME PortTypeOK, Sides, [PortNext]_portVars PROVE Sides'
  OBVIOUS
<1> USE MainApart
<1>t. PortTypeOK'
  BY ThreadTypeNext
<1> DEFINE Writers == \A s \in Threads : \A i \in DOMAIN writers'[s] : Between(s, writers'[s][i])
           Links == /\ \A s, t \in Threads : link'[s][t] # << >> => Between(s, t)
                    /\ \A w \in WorkerThreads, t \in Threads : \A i \in DOMAIN link'[w][t] : ~IsCall(link'[w][t][i])
<1>a. Writers /\ Links => Sides'
  BY DEF Sides, Between, IsCall
<1> DEFINE Kept(s, t) ==
             /\ link'[s][t] # << >> => Between(s, t)
             /\ s \in WorkerThreads => \A i \in DOMAIN link'[s][t] : ~IsCall(link'[s][t][i])
<1>b. (\A s, t \in Threads : Kept(s, t)) => Links
  OBVIOUS
<1>c. \A s, t \in Threads : link'[s][t] = link[s][t] => Kept(s, t)
  BY DEF Sides
<1>d. \A s, t \in Threads : link'[s][t] = link[s][t] \o Closes(s, t) => Kept(s, t)
  <2> SUFFICES ASSUME NEW s \in Threads, NEW t \in Threads, link'[s][t] = link[s][t] \o Closes(s, t)
               PROVE  Kept(s, t)
    OBVIOUS
  <2>1. ~IsCall(<<"close">>)
    BY DEF IsCall
  <2>2. s \in WorkerThreads => \A i \in DOMAIN link[s][t] : ~IsCall(link[s][t][i])
    BY DEF Sides
  <2>3. \A i \in DOMAIN link'[s][t] :
          (i \in DOMAIN link[s][t] /\ link'[s][t][i] = link[s][t][i]) \/ link'[s][t][i] = <<"close">>
    BY ClosesBetween
  <2>4. link'[s][t] # << >> => Between(s, t)
    BY ClosesBetween
  <2> QED
    BY <2>1, <2>2, <2>3, <2>4
<1>e. \A s, t \in Threads : link[s][t] # << >> /\ link'[s][t] = Tail(link[s][t]) => Kept(s, t)
  BY TailHas DEF Sides
<1> HIDE DEF Kept
<1>1. ASSUME NEW w \in WorkerThreads, Pass(w) PROVE Sides'
  <2>1. Kept(Main, w)
    BY <1>1, PassLinks DEF Kept, Between
  <2>2. \A s, t \in Threads : Kept(s, t)
    BY <1>1, <2>1, <1>c, PassLinks
  <2>3. writers' = [writers EXCEPT ![Main] = Append(@, w)] /\ writers[Main] \in Seq(Threads)
    BY <1>1 DEF Pass, Wire, PortTypeOK
  <2>4. Writers
    <3>1. \A s \in Threads : writers'[s] = IF s = Main THEN Append(writers[s], w) ELSE writers[s]
      BY <2>3 DEF PortTypeOK
    <3>2. \A i \in DOMAIN Append(writers[Main], w) :
            (i \in DOMAIN writers[Main] /\ Append(writers[Main], w)[i] = writers[Main][i])
            \/ Append(writers[Main], w)[i] = w
      BY <2>3, Appended
    <3>3. Between(Main, w)
      BY DEF Between
    <3> QED
      BY <3>1, <3>2, <3>3 DEF Sides
  <2> QED
    BY <2>2, <2>4, <1>a, <1>b
<1>2. ASSUME NEW t \in Threads, Send(t) PROVE Sides'
  <2>1. NextWriter(t) \in Of(writers[t]) /\ NextWriter(t) \in Threads
    BY <1>2, NextWriterIn DEF Send
  <2>2. Between(t, NextWriter(t))
    BY <2>1 DEF Sides, Of
  <2>3. Kept(t, NextWriter(t))
    <3> DEFINE q == link[t][NextWriter(t)]
               d == <<"send", sent[t] + 1>>
    <3>1. q \in Seq(Messages) /\ ~IsCall(d) /\ link'[t][NextWriter(t)] = Append(q, d)
      BY <1>2, <2>1, SendLinks DEF PortTypeOK, IsCall
    <3>2. t \in WorkerThreads => \A i \in DOMAIN q : ~IsCall(q[i])
      BY <2>1 DEF Sides
    <3> HIDE DEF q, d
    <3>3. \A i \in DOMAIN Append(q, d) : (i \in DOMAIN q /\ Append(q, d)[i] = q[i]) \/ Append(q, d)[i] = d
      BY <3>1
    <3> QED
      BY <2>2, <3>1, <3>2, <3>3 DEF Kept
  <2>4. \A s, u \in Threads : Kept(s, u)
    <3> SUFFICES ASSUME NEW s \in Threads, NEW u \in Threads PROVE Kept(s, u)
      OBVIOUS
    <3>1. CASE s = t /\ u = NextWriter(t)
      BY <2>3, <3>1
    <3>2. CASE ~(s = t /\ u = NextWriter(t))
      <4>1. link'[s][u] = link[s][u]
        BY <1>2, <3>2, SendLinks
      <4> QED
        BY <4>1, <1>c
    <3> QED
      BY <3>1, <3>2
  <2> QED
    BY <1>2, <2>4, <1>a, <1>b DEF Send, Sides
<1>3. ASSUME NEW t \in Threads, SendNowhere(t) PROVE Sides'
  BY <1>3, <1>a, <1>b, <1>c DEF SendNowhere, Sides
<1>4. ASSUME NEW t \in Threads, Close(t) PROVE Sides'
  <2>1. \A s, u \in Threads : Kept(s, u)
    BY <1>4, <1>c, <1>d, CloseLinks
  <2>2. Writers
    BY <1>4 DEF Close, Delete, Sides, PortTypeOK
  <2> QED
    BY <2>1, <2>2, <1>a, <1>b
<1>5. ASSUME NEW w \in WorkerThreads, ReceiveCall(w) PROVE Sides'
  <2>1. \A s, u \in Threads : Kept(s, u)
    BY <1>5, <1>c, <1>e, TakenLinks DEF ReceiveCall, Head2
  <2>2. writers' = [writers EXCEPT ![w] = Append(@, Main)] /\ writers[w] \in Seq(Threads)
    BY <1>5 DEF ReceiveCall, Wire, PortTypeOK
  <2>3. Writers
    <3>1. \A s \in Threads : writers'[s] = IF s = w THEN Append(writers[s], Main) ELSE writers[s]
      BY <2>2 DEF PortTypeOK
    <3>2. \A i \in DOMAIN Append(writers[w], Main) :
            (i \in DOMAIN writers[w] /\ Append(writers[w], Main)[i] = writers[w][i])
            \/ Append(writers[w], Main)[i] = Main
      BY <2>2, Appended
    <3>3. Between(w, Main)
      BY DEF Between
    <3> QED
      BY <3>1, <3>2, <3>3 DEF Sides
  <2> QED
    BY <2>1, <2>3, <1>a, <1>b
<1>6. ASSUME NEW s \in Threads, NEW t \in Threads, ReceiveDatum(s, t) PROVE Sides'
  <2>1. \A r, u \in Threads : Kept(r, u)
    BY <1>6, <1>c, <1>e, TakenLinks DEF ReceiveDatum, Head2
  <2> QED
    BY <1>6, <2>1, <1>a, <1>b DEF ReceiveDatum, Sides
<1>7. ASSUME NEW s \in Threads, NEW t \in Threads, ReceiveClose(s, t) PROVE Sides'
  <2>1. link[s][t] # << >>
    BY <1>7 DEF ReceiveClose, Head2
  <2>2. s # t
    BY <2>1 DEF Sides, Between
  <2>3. \A r, u \in Threads : Kept(r, u)
    <3> SUFFICES ASSUME NEW r \in Threads, NEW u \in Threads PROVE Kept(r, u)
      OBVIOUS
    <3>1. \/ r = s /\ u = t /\ link'[r][u] = Tail(link[r][u])
          \/ link'[r][u] = link[r][u] \o Closes(r, u)
          \/ link'[r][u] = link[r][u]
      BY <1>7, <2>2, CloseHeardLinks
    <3> QED
      BY <2>1, <3>1, <1>c, <1>d, <1>e
  <2>4. CASE Stored(t)
    <3>1. Delete(t)
      BY <1>7, <2>4 DEF ReceiveClose
    <3>2. Writers
      BY <3>1 DEF Delete, Sides, PortTypeOK
    <3> QED
      BY <2>3, <3>2, <1>a, <1>b
  <2>5. CASE ~Stored(t)
    BY <1>7, <2>3, <2>5, <1>a, <1>b DEF ReceiveClose, Sides
  <2> QED
    BY <2>4, <2>5
<1>8. CASE UNCHANGED portVars
  BY <1>8 DEF portVars, Sides
<1> QED
  BY <1>1, <1>2, <1>3, <1>4, <1>5, <1>6, <1>7, <1>8 DEF PortNext, ReceiveMessage

(***************************************************************************)
(* The data from one thread to another: each once, in order.                 *)
(***************************************************************************)

\* What s has sent to t is in order, and s has sent no more.
PairInOrder(s, t) ==
  /\ \A i, j \in DOMAIN got[t][s] : i < j => got[t][s][i] < got[t][s][j]
  /\ DataRise(link[s][t])
  /\ \A n \in Of(got[t][s]), m \in DataIn(link[s][t]) : n < m
  /\ \A n \in Data(s, t) : n <= sent[s]

SentOnce(s) == \A t \in Threads :
  PairInOrder(s, t) /\ \A u \in Threads \ {t} : Data(s, t) \cap Data(s, u) = {}

\* What a step may do between two threads: add messages that are no data, add
\* the next datum, or let a message arrive, which may be dropped.
Extended(s, t) ==
  /\ \E c \in Seq(Messages) : (\A i \in 1 .. Len(c) : ~IsDatum(c[i])) /\ link'[s][t] = link[s][t] \o c
  /\ got'[t][s] = got[t][s]
DatumSent(s, t) ==
  /\ link'[s][t] = Append(link[s][t], <<"send", sent[s] + 1>>) /\ got'[t][s] = got[t][s]
  /\ sent[s] + 1 \in 1 .. MaxData /\ sent'[s] = sent[s] + 1
Arrived(s, t) ==
  /\ link[s][t] # << >> /\ link'[s][t] = Tail(link[s][t])
  /\ got'[t][s] = IF IsDatum(Head(link[s][t])) /\ Stored(t)
                   THEN Append(got[t][s], Head(link[s][t])[2]) ELSE got[t][s]

LEMMA SentType ==
  ASSUME PortTypeOK, NEW s \in Threads, NEW t \in Threads
  PROVE  /\ sent[s] \in 0 .. MaxData /\ MaxData \in Nat
         /\ link[s][t] \in Seq(Messages) /\ got[t][s] \in Seq(1 .. MaxData)
         /\ Of(got[t][s]) \subseteq 1 .. MaxData /\ DataIn(link[s][t]) \subseteq 1 .. MaxData
         /\ Data(s, t) \subseteq 1 .. MaxData
<1>1. sent[s] \in 0 .. MaxData /\ MaxData \in Nat /\ link[s][t] \in Seq(Messages) /\ got[t][s] \in Seq(1 .. MaxData)
  BY ThreadChannelAssumption DEF PortTypeOK
<1>2. Of(got[t][s]) \subseteq 1 .. MaxData
  BY <1>1 DEF Of
<1> QED
  BY <1>1, <1>2 DEF DataIn, Data

LEMMA ExtendedKeeps ==
  ASSUME PortTypeOK, PortTypeOK', NEW s \in Threads, NEW t \in Threads, PairInOrder(s, t), Extended(s, t), sent[s] <= sent'[s]
  PROVE  PairInOrder(s, t)' /\ Data(s, t)' = Data(s, t)
<1>1. DataIn(link'[s][t]) = DataIn(link[s][t]) /\ DataRise(link'[s][t])
  BY OthersAdded, SentType DEF Extended, PairInOrder
<1>2. Data(s, t)' = Data(s, t)
  BY <1>1 DEF Data, Extended
<1>3. \A n \in Data(s, t) : n <= sent'[s]
  <2>1. sent[s] \in Nat /\ sent'[s] \in Nat
    BY ThreadChannelAssumption DEF PortTypeOK
  <2>2. Data(s, t) \subseteq Nat
    BY SentType
  <2> QED
    BY <2>1, <2>2 DEF PairInOrder
<1> QED
  BY <1>1, <1>2, <1>3 DEF PairInOrder, Extended

LEMMA SentKeeps ==
  ASSUME PortTypeOK, PortTypeOK', NEW s \in Threads, NEW t \in Threads, PairInOrder(s, t), DatumSent(s, t)
  PROVE  PairInOrder(s, t)' /\ Data(s, t)' = Data(s, t) \cup {sent'[s]}
<1> DEFINE q == link[s][t]
           n == sent[s] + 1
<1>1. q \in Seq(Messages) /\ n \in 1 .. MaxData /\ \A m \in Data(s, t) : m < n
  BY SentType DEF PairInOrder, DatumSent
<1>2. \A m \in DataIn(q) : m < n
  BY <1>1 DEF Data
<1>3. DataIn(link'[s][t]) = DataIn(q) \cup {n} /\ DataRise(link'[s][t])
  <2> HIDE DEF q, n
  <2>1. DataIn(Append(q, <<"send", n>>)) = DataIn(q) \cup {n} /\ (DataRise(q) => DataRise(Append(q, <<"send", n>>)))
    BY <1>1, <1>2, DatumAdded
  <2> QED
    BY <2>1 DEF q, n, DatumSent, PairInOrder
<1>4. Data(s, t)' = Data(s, t) \cup {n}
  BY <1>3 DEF Data, DatumSent
<1>5. \A m \in Of(got[t][s]) : m < n
  BY <1>1 DEF Data
<1>6. \A m \in Data(s, t)' : m <= n
  BY <1>1, <1>4, SentType
<1> QED
  BY <1>3, <1>4, <1>5, <1>6 DEF PairInOrder, DatumSent

LEMMA ArrivedKeeps ==
  ASSUME PortTypeOK, PortTypeOK', NEW s \in Threads, NEW t \in Threads, PairInOrder(s, t), Arrived(s, t), sent[s] <= sent'[s]
  PROVE  /\ PairInOrder(s, t)' /\ Data(s, t)' \subseteq Data(s, t)
         /\ ~IsDatum(Head(link[s][t])) \/ got'[t][s] # got[t][s] => Data(s, t)' = Data(s, t)
         /\ IsDatum(Head(link[s][t])) => Data(s, t) \subseteq Data(s, t)' \cup {Head(link[s][t])[2]}
<1> DEFINE q == link[s][t]
           g == got[t][s]
           n == Head(link[s][t])[2]
<1>1. q \in Seq(Messages) /\ q # << >> /\ g \in Seq(1 .. MaxData) /\ DataRise(q)
  BY SentType DEF Arrived, PairInOrder
<1>2. /\ DataRise(Tail(q))
      /\ ~IsDatum(Head(q)) => DataIn(Tail(q)) = DataIn(q)
      /\ IsDatum(Head(q)) => DataIn(q) = DataIn(Tail(q)) \cup {n}
      /\ IsDatum(Head(q)) => \A m \in DataIn(Tail(q)) : n < m
  BY <1>1, MessageTaken
<1>3. DataIn(Tail(q)) \subseteq DataIn(q)
  BY <1>2
<1>4. \A m \in Data(s, t) : m <= sent'[s]
  <2>1. sent[s] \in Nat /\ sent'[s] \in Nat
    BY ThreadChannelAssumption DEF PortTypeOK
  <2>2. Data(s, t) \subseteq Nat
    BY SentType
  <2> QED
    BY <2>1, <2>2 DEF PairInOrder
<1>5. CASE got'[t][s] = g
  <2>1. Data(s, t)' \subseteq Data(s, t)
    BY <1>3, <1>5 DEF Data, Arrived
  <2>2. ~IsDatum(Head(q)) => Data(s, t)' = Data(s, t)
    BY <1>2, <1>5 DEF Data, Arrived
  <2>3. PairInOrder(s, t)'
    BY <1>2, <1>3, <1>4, <1>5, <2>1 DEF PairInOrder, Arrived
  <2>4. IsDatum(Head(q)) => Data(s, t) \subseteq Data(s, t)' \cup {n}
    BY <1>2, <1>5 DEF Data, Arrived
  <2> QED
    BY <1>5, <2>1, <2>2, <2>3, <2>4
<1>6. CASE IsDatum(Head(q)) /\ got'[t][s] = Append(g, n)
  <2>1. n \in DataIn(q) /\ n \in 1 .. MaxData
    BY <1>2, <1>6 DEF DataIn
  <2>2. Of(Append(g, n)) = Of(g) \cup {n}
    <3>1. \A i \in DOMAIN Append(g, n) : (i \in DOMAIN g /\ Append(g, n)[i] = g[i]) \/ Append(g, n)[i] = n
      BY <1>1, <2>1, Appended
    <3>2. \A i \in DOMAIN g : i \in DOMAIN Append(g, n) /\ Append(g, n)[i] = g[i]
      BY <1>1
    <3>3. Len(g) + 1 \in DOMAIN Append(g, n) /\ Append(g, n)[Len(g) + 1] = n
      BY <1>1, <2>1
    <3> HIDE DEF g, n
    <3> QED
      BY <3>1, <3>2, <3>3 DEF Of
  <2>3. Data(s, t)' = Data(s, t)
    BY <1>2, <1>6, <2>2 DEF Data, Arrived
  <2>4. \A m \in Of(g) : m < n
    BY <2>1 DEF PairInOrder
  <2>5. \A i, j \in DOMAIN Append(g, n) : i < j => Append(g, n)[i] < Append(g, n)[j]
    <3>1. \A i \in DOMAIN g : g[i] < n
      BY <2>4 DEF Of
    <3>2. \A i, j \in DOMAIN g : i < j => g[i] < g[j]
      BY DEF PairInOrder
    <3> HIDE DEF g, n
    <3> QED
      BY <1>1, <2>1, <3>1, <3>2
  <2>6. \A k \in Of(Append(g, n)), m \in DataIn(Tail(q)) : k < m
    BY <1>2, <1>3, <1>6, <2>2 DEF PairInOrder
  <2> QED
    BY <1>2, <1>4, <1>6, <2>3, <2>5, <2>6 DEF PairInOrder, Arrived
<1> QED
  BY <1>5, <1>6 DEF Arrived
LEMMA ClosesExtend ==
  ASSUME PortTypeOK, NEW s \in Threads, NEW t \in Threads, got'[t][s] = got[t][s],
         link'[s][t] = link[s][t] \o Closes(s, t)
  PROVE  Extended(s, t)
<1>1. ~IsDatum(<<"close">>)
  BY DEF IsDatum
<1> QED
  BY <1>1, ClosesType DEF Extended

LEMMA SameExtends ==
  ASSUME PortTypeOK, NEW s \in Threads, NEW t \in Threads, got'[t][s] = got[t][s], link'[s][t] = link[s][t]
  PROVE  Extended(s, t)
<1>1. << >> \in Seq(Messages) /\ link[s][t] \o << >> = link[s][t] /\ Len(<< >>) = 0
  BY DEF PortTypeOK
<1>2. \A i \in 1 .. 0 : FALSE
  OBVIOUS
<1> QED
  BY <1>1, <1>2 DEF Extended

LEMMA OneAppended ==
  ASSUME NEW S, NEW q \in Seq(S), NEW m \in S
  PROVE  Append(q, m) = q \o <<m>> /\ <<m>> \in Seq(S) /\ Len(<<m>>) = 1 /\ <<m>>[1] = m
  OBVIOUS

LEMMA CallExtends ==
  ASSUME PortTypeOK, NEW s \in Threads, NEW t \in Threads, got'[t][s] = got[t][s],
         link'[s][t] = Append(link[s][t], <<"call">>)
  PROVE  Extended(s, t)
<1> DEFINE m == <<"call">>
<1>1. link[s][t] \in Seq(Messages)
  BY DEF PortTypeOK
<1>2. ~IsDatum(m) /\ m \in Messages
  BY DEF IsDatum, Messages
<1>3. link'[s][t] = Append(link[s][t], m)
  OBVIOUS
<1> HIDE DEF m
<1>4. link'[s][t] = link[s][t] \o <<m>> /\ <<m>> \in Seq(Messages) /\ Len(<<m>>) = 1 /\ <<m>>[1] = m
  BY <1>1, <1>2, <1>3, OneAppended
<1>5. \A i \in 1 .. Len(<<m>>) : ~IsDatum(<<m>>[i])
  BY <1>2, <1>4
<1> QED
  BY <1>4, <1>5 DEF Extended

\* A close that arrives, and is passed on if its receiver is the main thread.
LEMMA CloseArrives ==
  ASSUME PortTypeOK, Sides, NEW s0 \in Threads, NEW t0 \in Threads, ReceiveClose(s0, t0),
         NEW s \in Threads, NEW t \in Threads
  PROVE  IF s = s0 /\ t = t0 THEN Arrived(s, t) /\ IsClose(Head(link[s][t])) ELSE Extended(s, t)
<1>1. link[s0][t0] # << >> /\ IsClose(Head(link[s0][t0])) /\ got' = got
  BY DEF ReceiveClose, Head2, IsClose
<1>2. s0 # t0
  BY <1>1, MainApart DEF Sides, Between
<1>3. CASE s = s0 /\ t = t0
  <2>1. ~IsDatum(Head(link[s][t]))
    BY <1>1, <1>3 DEF IsClose, IsDatum
  <2> QED
    BY <1>1, <1>2, <1>3, <2>1, CloseHeardLinks DEF Arrived
<1>4. CASE ~(s = s0 /\ t = t0)
  <2>1. link'[s][t] = link[s][t] \o Closes(s, t) \/ link'[s][t] = link[s][t]
    <3>1. link'[s][t] = IF s = s0 /\ t = t0 THEN Tail(link[s][t])
                        ELSE IF s = t0 /\ Distributes(t0) /\ Stored(t0) THEN link[s][t] \o Closes(s, t) ELSE link[s][t]
      BY <1>2, CloseHeardLinks
    <3> QED
      BY <1>4, <3>1
  <2> QED
    BY <1>1, <1>4, <2>1, ClosesExtend, SameExtends
<1> QED
  BY <1>3, <1>4

LEMMA PairSteps ==
  ASSUME PortTypeOK, Sides, [PortNext]_portVars, NEW s \in Threads
  PROVE  \/ (sent'[s] = sent[s] \/ SendNowhere(s)) /\ \A t \in Threads : Extended(s, t) \/ Arrived(s, t)
         \/ \E t \in Threads : DatumSent(s, t) /\ \A u \in Threads \ {t} : Extended(s, u)
<1> USE MainApart
<1>s. sent[s] \in Nat
  BY DEF PortTypeOK
<1>1. ASSUME NEW w \in WorkerThreads, Pass(w)
      PROVE  (sent'[s] = sent[s] \/ SendNowhere(s)) /\ \A t \in Threads : Extended(s, t) \/ Arrived(s, t)
  <2>1. sent' = sent /\ got' = got
    BY <1>1 DEF Pass
  <2>2. Extended(Main, w)
    <3>1. link'[Main][w] = Append(link[Main][w], <<"call">>)
      BY <1>1, PassLinks
    <3> QED
      BY <2>1, <3>1, CallExtends
  <2>3. ASSUME NEW t \in Threads PROVE Extended(s, t)
    <3>1. CASE s = Main /\ t = w
      BY <2>2, <3>1
    <3>2. CASE ~(s = Main /\ t = w)
      BY <1>1, <2>1, <3>2, PassLinks, SameExtends
    <3> QED
      BY <3>1, <3>2
  <2> QED
    BY <1>s, <2>1, <2>3
<1>2. ASSUME NEW r \in Threads, Send(r), s = r
      PROVE  \E t \in Threads : DatumSent(s, t) /\ \A u \in Threads \ {t} : Extended(s, u)
  <2>1. NextWriter(r) \in Threads
    BY <1>2, NextWriterIn DEF Send
  <2>2. DatumSent(s, NextWriter(r))
    <3>1. link'[s][NextWriter(r)] = Append(link[s][NextWriter(r)], <<"send", sent[s] + 1>>)
      BY <1>2, <2>1, SendLinks
    <3>2. sent'[s] = sent[s] + 1 /\ got' = got /\ sent[s] + 1 \in 1 .. MaxData
      BY <1>2, ThreadChannelAssumption DEF Send, PortTypeOK
    <3> QED
      BY <3>1, <3>2 DEF DatumSent
  <2>3. ASSUME NEW u \in Threads \ {NextWriter(r)} PROVE Extended(s, u)
    BY <1>2, SendLinks, SameExtends DEF Send
  <2> QED
    BY <2>1, <2>2, <2>3
<1>3. ASSUME NEW r \in Threads, Send(r), s # r
      PROVE  (sent'[s] = sent[s] \/ SendNowhere(s)) /\ \A t \in Threads : Extended(s, t) \/ Arrived(s, t)
  <2>1. ASSUME NEW t \in Threads PROVE Extended(s, t)
    <3>1. link'[s][t] = link[s][t] /\ got' = got
      BY <1>3, SendLinks DEF Send
    <3> QED
      BY <3>1, SameExtends
  <2>2. sent'[s] = sent[s]
    BY <1>3 DEF Send, PortTypeOK
  <2> QED
    BY <1>s, <2>1, <2>2
<1>4. ASSUME NEW r \in Threads, SendNowhere(r)
      PROVE  (sent'[s] = sent[s] \/ SendNowhere(s)) /\ \A t \in Threads : Extended(s, t) \/ Arrived(s, t)
  <2>1. link' = link /\ got' = got
    BY <1>4 DEF SendNowhere
  <2>3. sent'[s] = sent[s] \/ SendNowhere(s)
    BY <1>4 DEF SendNowhere, PortTypeOK
  <2> QED
    BY <2>1, <2>3, SameExtends
<1>5. ASSUME NEW r \in Threads, Close(r)
      PROVE  (sent'[s] = sent[s] \/ SendNowhere(s)) /\ \A t \in Threads : Extended(s, t) \/ Arrived(s, t)
  <2>1. sent' = sent /\ got' = got
    BY <1>5 DEF Close
  <2>2. ASSUME NEW t \in Threads PROVE Extended(s, t)
    <3>1. link'[s][t] = IF s = r THEN link[s][t] \o Closes(s, t) ELSE link[s][t]
      BY <1>5, CloseLinks
    <3> QED
      BY <2>1, <3>1, ClosesExtend, SameExtends
  <2> QED
    BY <1>s, <2>1, <2>2
<1>6. ASSUME NEW w \in WorkerThreads, ReceiveCall(w)
      PROVE  (sent'[s] = sent[s] \/ SendNowhere(s)) /\ \A t \in Threads : Extended(s, t) \/ Arrived(s, t)
  <2>1. /\ sent' = sent /\ got' = got /\ link' = Taken(Main, w, link)
        /\ link[Main][w] # << >> /\ ~IsDatum(Head(link[Main][w]))
    BY <1>6 DEF ReceiveCall, Head2, IsDatum
  <2> QED
    BY <2>1, TakenLinks, SameExtends DEF Arrived
<1>7. ASSUME NEW r \in Threads, NEW u \in Threads, ReceiveDatum(r, u)
      PROVE  (sent'[s] = sent[s] \/ SendNowhere(s)) /\ \A t \in Threads : Extended(s, t) \/ Arrived(s, t)
  <2>1. sent' = sent /\ link' = Taken(r, u, link) /\ link[r][u] # << >> /\ IsDatum(Head(link[r][u]))
    BY <1>7 DEF ReceiveDatum, Head2, IsDatum
  <2>2. \A t \in Threads : ~(s = r /\ t = u) => got'[t][s] = got[t][s]
    BY <1>7 DEF ReceiveDatum, PortTypeOK
  <2>3. got'[u][r] = IF Stored(u) THEN Append(got[u][r], Head(link[r][u])[2]) ELSE got[u][r]
    BY <1>7 DEF ReceiveDatum, PortTypeOK
  <2>4. ASSUME NEW t \in Threads PROVE Extended(s, t) \/ Arrived(s, t)
    <3>1. CASE s = r /\ t = u
      BY <2>1, <2>3, <3>1, TakenLinks DEF Arrived
    <3>2. CASE ~(s = r /\ t = u)
      BY <2>1, <2>2, <3>2, TakenLinks, SameExtends
    <3> QED
      BY <3>1, <3>2
  <2> QED
    BY <1>s, <2>1, <2>4
<1>8. ASSUME NEW r \in Threads, NEW u \in Threads, ReceiveClose(r, u)
      PROVE  (sent'[s] = sent[s] \/ SendNowhere(s)) /\ \A t \in Threads : Extended(s, t) \/ Arrived(s, t)
  BY <1>s, <1>8, CloseArrives DEF ReceiveClose
<1>9. CASE UNCHANGED portVars
  BY <1>s, <1>9, SameExtends DEF portVars
<1> QED
  BY <1>1, <1>2, <1>3, <1>4, <1>5, <1>6, <1>7, <1>8, <1>9 DEF PortNext, ReceiveMessage

LEMMA SentOnceInit == PortInit => \A s \in Threads : SentOnce(s)
  BY ThreadChannelAssumption DEF PortInit, SentOnce, PairInOrder, Data, DataIn, DataRise, Of

LEMMA SentOnceNext ==
  ASSUME PortTypeOK, Sides, [PortNext]_portVars, NEW s \in Threads, SentOnce(s)
  PROVE  SentOnce(s)'
<1>1. PortTypeOK'
  BY ThreadTypeNext
<1>2. CASE (sent'[s] = sent[s] \/ SendNowhere(s)) /\ \A t \in Threads : Extended(s, t) \/ Arrived(s, t)
  <2>1. sent[s] <= sent'[s]
    <3>1. sent[s] \in Nat /\ (SendNowhere(s) => sent'[s] = sent[s] + 1)
      BY DEF SendNowhere, PortTypeOK
    <3> QED
      BY <1>2, <3>1
  <2>2. \A t \in Threads : PairInOrder(s, t)' /\ Data(s, t)' \subseteq Data(s, t)
    BY <1>1, <1>2, <2>1, ExtendedKeeps, ArrivedKeeps DEF SentOnce
  <2> QED
    BY <2>2 DEF SentOnce
<1>3. ASSUME NEW t \in Threads, DatumSent(s, t), \A u \in Threads \ {t} : Extended(s, u)
      PROVE  SentOnce(s)'
  <2>1. sent[s] <= sent'[s] /\ sent'[s] = sent[s] + 1 /\ sent[s] \in Nat
    BY <1>3 DEF DatumSent, PortTypeOK
  <2>2. PairInOrder(s, t)' /\ Data(s, t)' = Data(s, t) \cup {sent'[s]}
    BY <1>1, <1>3, SentKeeps DEF SentOnce
  <2>3. \A u \in Threads \ {t} : PairInOrder(s, u)' /\ Data(s, u)' = Data(s, u)
    BY <1>1, <1>3, <2>1, ExtendedKeeps DEF SentOnce
  <2>4. \A u \in Threads : sent'[s] \notin Data(s, u)
    BY <2>1, SentType DEF SentOnce, PairInOrder
  <2> QED
    BY <2>2, <2>3, <2>4 DEF SentOnce
<1> QED
  BY <1>2, <1>3, PairSteps
(***************************************************************************)
(* What is sent before a close is given to a thread.                         *)
(***************************************************************************)
HasCall(q) == \E i \in DOMAIN q : IsCall(q[i])
HasClose(q) == \E i \in DOMAIN q : IsClose(q[i])

LEMMA HasAdded ==
  ASSUME NEW q \in Seq(Messages), NEW m \in Messages
  PROVE  /\ HasCall(Append(q, m)) <=> HasCall(q) \/ IsCall(m)
         /\ HasClose(Append(q, m)) <=> HasClose(q) \/ IsClose(m)
<1> DEFINE r == Append(q, m)
<1>1. /\ DOMAIN r = 1 .. Len(q) + 1 /\ DOMAIN q = 1 .. Len(q) /\ Len(q) \in Nat
      /\ r[Len(q) + 1] = m /\ \A i \in 1 .. Len(q) : r[i] = q[i]
  OBVIOUS
<1> HIDE DEF r
<1>2. \A i \in 1 .. Len(q) + 1 : i \in 1 .. Len(q) \/ i = Len(q) + 1
  BY <1>1
<1>3. Len(q) + 1 \in 1 .. Len(q) + 1 /\ \A i \in 1 .. Len(q) : i \in 1 .. Len(q) + 1
  BY <1>1
<1>4. HasCall(r) <=> HasCall(q) \/ IsCall(m)
  BY <1>1, <1>2, <1>3 DEF HasCall
<1>5. HasClose(r) <=> HasClose(q) \/ IsClose(m)
  BY <1>1, <1>2, <1>3 DEF HasClose
<1> QED
  BY <1>4, <1>5 DEF r

LEMMA HasTaken ==
  ASSUME NEW q \in Seq(Messages), q # << >>
  PROVE  /\ HasCall(Tail(q)) => HasCall(q)
         /\ HasCall(q) => IsCall(Head(q)) \/ HasCall(Tail(q))
         /\ HasClose(Tail(q)) => HasClose(q)
         /\ IsCall(Head(q)) => HasCall(q)
         /\ IsClose(Head(q)) => HasClose(q)
<1> DEFINE r == Tail(q)
<1>1. /\ DOMAIN r = 1 .. Len(r) /\ DOMAIN q = 1 .. Len(r) + 1 /\ Len(r) \in Nat
      /\ Head(q) = q[1] /\ \A i \in 1 .. Len(r) : r[i] = q[i + 1]
  OBVIOUS
<1> HIDE DEF r
<1>2. \A i \in 1 .. Len(r) + 1 : i = 1 \/ (i - 1 \in 1 .. Len(r) /\ r[i - 1] = q[i])
  BY <1>1
<1>3. \A i \in 1 .. Len(r) : i + 1 \in 1 .. Len(r) + 1
  BY <1>1
<1>4. 1 \in DOMAIN q
  BY <1>1
<1>5. (HasCall(r) => HasCall(q)) /\ (HasClose(r) => HasClose(q))
  BY <1>1, <1>3 DEF HasCall, HasClose
<1>6. HasCall(q) => IsCall(Head(q)) \/ HasCall(r)
  BY <1>1, <1>2 DEF HasCall
<1>7. (IsCall(Head(q)) => HasCall(q)) /\ (IsClose(Head(q)) => HasClose(q))
  BY <1>1, <1>4 DEF HasCall, HasClose
<1> QED
  BY <1>5, <1>6, <1>7 DEF r

\* The data up to k will be accepted when they arrive: no close comes before
\* them, and there is a record, or the channel itself comes before them.
Accepted(q, k, stored) == \A i \in DOMAIN q :
  IsDatum(q[i]) /\ q[i][2] <= k =>
    /\ \A j \in 1 .. i - 1 : ~IsClose(q[j])
    /\ stored \/ \E j \in 1 .. i - 1 : IsCall(q[j])

LEMMA AcceptedLess ==
  ASSUME NEW q \in Seq(Messages), NEW k \in Nat, NEW l \in Nat, l <= k \/ \A n \in DataIn(q) : n <= k,
         NEW old \in BOOLEAN, NEW new \in BOOLEAN, old => new, Accepted(q, k, old)
  PROVE  Accepted(q, l, new)
<1> SUFFICES ASSUME NEW i \in DOMAIN q, IsDatum(q[i]), q[i][2] <= l
             PROVE  /\ \A j \in 1 .. i - 1 : ~IsClose(q[j])
                    /\ new \/ \E j \in 1 .. i - 1 : IsCall(q[j])
  BY DEF Accepted
<1>1. q[i] \in Messages /\ q[i][2] \in DataIn(q)
  BY DataInIs
<1>2. q[i][2] \in Nat
  BY <1>1 DEF DataIn
<1>3. q[i][2] <= k
  BY <1>1, <1>2
<1> QED
  BY <1>3 DEF Accepted

LEMMA AcceptedExtended ==
  ASSUME NEW q \in Seq(Messages), NEW c \in Seq(Messages), \A i \in 1 .. Len(c) : ~IsDatum(c[i]),
         NEW k, NEW stored, Accepted(q, k, stored)
  PROVE  Accepted(q \o c, k, stored)
<1> DEFINE r == q \o c
<1>1. /\ Len(q) \in Nat /\ Len(c) \in Nat /\ Len(r) = Len(q) + Len(c)
      /\ DOMAIN r = 1 .. Len(r) /\ DOMAIN q = 1 .. Len(q)
  OBVIOUS
<1>2. \A i \in 1 .. Len(q) : r[i] = q[i]
  OBVIOUS
<1>3. \A i \in 1 .. Len(r) : i \in 1 .. Len(q) \/ (i - Len(q) \in 1 .. Len(c) /\ r[i] = c[i - Len(q)])
  OBVIOUS
<1> HIDE DEF r
<1> SUFFICES ASSUME NEW i \in DOMAIN r, IsDatum(r[i]), r[i][2] <= k
             PROVE  /\ \A j \in 1 .. i - 1 : ~IsClose(r[j])
                    /\ stored \/ \E j \in 1 .. i - 1 : IsCall(r[j])
  BY DEF Accepted, r
<1>4. i \in 1 .. Len(q)
  BY <1>1, <1>3
<1>5. \A j \in 1 .. i - 1 : r[j] = q[j]
  BY <1>1, <1>2, <1>4
<1> QED
  BY <1>1, <1>2, <1>4, <1>5 DEF Accepted

LEMMA AcceptedSent ==
  ASSUME NEW q \in Seq(Messages), NEW n \in 1 .. MaxData, NEW k, NEW stored, Accepted(q, k, stored),
         ~(n <= k) \/ (~HasClose(q) /\ (stored \/ HasCall(q)))
  PROVE  Accepted(Append(q, <<"send", n>>), k, stored)
<1> DEFINE d == <<"send", n>>
           r == Append(q, d)
<1>1. d \in Messages /\ d[2] = n
  BY DEF Messages
<1>2. /\ DOMAIN r = 1 .. Len(q) + 1 /\ DOMAIN q = 1 .. Len(q) /\ Len(q) \in Nat
      /\ r[Len(q) + 1] = d /\ \A i \in 1 .. Len(q) : r[i] = q[i]
  BY <1>1
<1> HIDE DEF r, d
<1> SUFFICES ASSUME NEW i \in DOMAIN r, IsDatum(r[i]), r[i][2] <= k
             PROVE  /\ \A j \in 1 .. i - 1 : ~IsClose(r[j])
                    /\ stored \/ \E j \in 1 .. i - 1 : IsCall(r[j])
  BY DEF Accepted, r, d
<1>3. \A j \in 1 .. i - 1 : j \in 1 .. Len(q) /\ r[j] = q[j]
  BY <1>2
<1>4. CASE i \in 1 .. Len(q)
  BY <1>2, <1>3, <1>4 DEF Accepted
<1>5. CASE i = Len(q) + 1
  <2>1. ~HasClose(q) /\ (stored \/ HasCall(q))
    BY <1>1, <1>2, <1>5
  <2>2. \A j \in 1 .. Len(q) : j \in 1 .. i - 1
    BY <1>2, <1>5
  <2> QED
    BY <1>2, <1>3, <2>1, <2>2 DEF HasClose, HasCall
<1> QED
  BY <1>2, <1>4, <1>5

LEMMA AcceptedTaken ==
  ASSUME NEW q \in Seq(Messages), q # << >>, NEW k, NEW old, NEW new \in BOOLEAN, Accepted(q, k, old),
         \/ IsClose(Head(q))
         \/ IsCall(Head(q)) /\ new
         \/ IsDatum(Head(q)) /\ (old <=> new)
  PROVE  Accepted(Tail(q), k, new)
<1> DEFINE r == Tail(q)
<1>1. /\ DOMAIN r = 1 .. Len(r) /\ DOMAIN q = 1 .. Len(r) + 1 /\ Len(r) \in Nat
      /\ Head(q) = q[1] /\ \A i \in 1 .. Len(r) : r[i] = q[i + 1]
  OBVIOUS
<1> HIDE DEF r
<1> SUFFICES ASSUME NEW i \in 1 .. Len(r), IsDatum(r[i]), r[i][2] <= k
             PROVE  /\ \A j \in 1 .. i - 1 : ~IsClose(r[j])
                    /\ new \/ \E j \in 1 .. i - 1 : IsCall(r[j])
  BY <1>1 DEF Accepted, r
<1>2. i + 1 \in DOMAIN q /\ r[i] = q[i + 1]
  BY <1>1
<1>3. /\ \A j \in 1 .. i : ~IsClose(q[j])
      /\ old \/ \E j \in 1 .. i : IsCall(q[j])
  <2>1. (i + 1) - 1 = i
    BY <1>1
  <2> QED
    BY <1>2, <2>1 DEF Accepted
<1>4. \A j \in 1 .. i - 1 : j + 1 \in 1 .. i /\ r[j] = q[j + 1]
  BY <1>1
<1>5. \A j \in 1 .. i - 1 : ~IsClose(r[j])
  BY <1>3, <1>4
<1>6. 1 \in 1 .. i /\ ~IsClose(Head(q))
  BY <1>1, <1>3
<1>7. CASE IsCall(Head(q)) /\ new
  BY <1>5, <1>7
<1>8. CASE IsDatum(Head(q)) /\ (old <=> new)
  <2>1. ~IsCall(q[1])
    BY <1>1, <1>8 DEF IsDatum, IsCall
  <2>2. \A j \in 1 .. i : IsCall(q[j]) => j - 1 \in 1 .. i - 1 /\ r[j - 1] = q[j]
    BY <1>1, <2>1
  <2> QED
    BY <1>3, <1>5, <1>8, <2>2
<1> QED
  BY <1>6, <1>7, <1>8
Quiet == \A t \in Threads : closed[t] = Never
OthersQuiet(s) == \A t \in Threads \ {s} : closed[t] = Never

ClosedAt == \A t \in Threads : closed[t] = Never \/ closed[t] <= sent[t]

\* A close on its way and a thread that was told of one come from a thread that closed.
ClosesKnown ==
  /\ \A w \in WorkerThreads : HasClose(link[w][Main]) => closed[w] # Never
  /\ Quiet => \A w \in WorkerThreads : ~HasClose(link[Main][w])
  /\ Quiet => \A t \in Threads : state[t] # "ended"

\* Until then whoever is written to has the channel, or it is on its way.
Expected ==
  Quiet =>
    /\ \A w \in WorkerThreads : Stored(w) \/ HasCall(link[Main][w]) => Stored(Main)
    /\ \A w \in WorkerThreads : w \in Of(writers[Main]) => Stored(w) \/ HasCall(link[Main][w])

AllAccepted == \A s, t \in Threads :
  OthersQuiet(s) => Accepted(link[s][t], closed[s], Stored(t))

Delivered == \A s \in Threads :
  OthersQuiet(s) => \A n \in 1 .. sent[s] : n <= closed[s] => \E t \in Threads : n \in Data(s, t)

LEMMA Counted ==
  ASSUME PortTypeOK, NEW t \in Threads
  PROVE  /\ sent[t] \in 0 .. MaxData /\ MaxData \in Nat /\ sent[t] \in Nat /\ sent[t] # Never
         /\ closed[t] \in Nat /\ Never \in Nat
  BY ThreadChannelAssumption DEF PortTypeOK, Never

LEMMA NextDatum ==
  ASSUME PortTypeOK, NEW t \in Threads, sent[t] < MaxData
  PROVE  /\ sent[t] + 1 \in 1 .. MaxData /\ <<"send", sent[t] + 1>> \in Messages
         /\ ~IsCall(<<"send", sent[t] + 1>>) /\ ~IsClose(<<"send", sent[t] + 1>>)
<1>1. sent[t] + 1 \in 1 .. MaxData
  BY Counted
<1> QED
  BY <1>1 DEF Messages, IsCall, IsClose

LEMMA Wired ==
  ASSUME PortTypeOK, NEW t \in Threads, NEW u \in Threads, Wire(t, u)
  PROVE  /\ Of(writers'[t]) = Of(writers[t]) \cup {u} /\ writers'[t] # << >>
         /\ \A v \in Threads \ {t} : writers'[v] = writers[v]
         /\ \A v \in Threads : writers[v] # << >> => writers'[v] # << >>
<1>1. writers'[t] = Append(writers[t], u) /\ writers[t] \in Seq(Threads)
  BY DEF Wire, PortTypeOK
<1>2. \A v \in Threads \ {t} : writers'[v] = writers[v]
  BY DEF Wire, PortTypeOK
<1>3. \A i \in DOMAIN Append(writers[t], u) :
        (i \in DOMAIN writers[t] /\ Append(writers[t], u)[i] = writers[t][i]) \/ Append(writers[t], u)[i] = u
  BY <1>1, Appended
<1>4. /\ \A i \in DOMAIN writers[t] : i \in DOMAIN Append(writers[t], u) /\ Append(writers[t], u)[i] = writers[t][i]
      /\ Len(writers[t]) + 1 \in DOMAIN Append(writers[t], u) /\ Append(writers[t], u)[Len(writers[t]) + 1] = u
      /\ Append(writers[t], u) # << >>
  BY <1>1
<1>5. Of(Append(writers[t], u)) = Of(writers[t]) \cup {u}
  BY <1>3, <1>4 DEF Of
<1> QED
  BY <1>1, <1>2, <1>4, <1>5

LEMMA ClosedSteps ==
  ASSUME PortTypeOK, [PortNext]_portVars, NEW s \in Threads
  PROVE  /\ closed'[s] = closed[s] \/ (closed[s] = Never /\ closed'[s] = sent[s] /\ sent'[s] = sent[s])
         /\ sent'[s] = sent[s] \/ (sent'[s] = sent[s] + 1 /\ sent[s] < MaxData)
         /\ closed'[s] = Never => closed[s] = Never
<1>0. /\ closed[s] \in 0 .. Never /\ sent[s] \in 0 .. MaxData /\ sent[s] # Never
      /\ closed \in [Threads -> 0 .. Never] /\ sent \in [Threads -> 0 .. MaxData]
  BY ThreadChannelAssumption DEF PortTypeOK, Never
<1>1. ASSUME NEW w \in WorkerThreads, Pass(w) PROVE closed' = closed /\ sent' = sent
  BY <1>1 DEF Pass
<1>2. ASSUME NEW t \in Threads, Send(t)
      PROVE  closed' = closed /\ (sent'[s] = sent[s] \/ (sent'[s] = sent[s] + 1 /\ sent[s] < MaxData))
  BY <1>0, <1>2 DEF Send
<1>3. ASSUME NEW t \in Threads, SendNowhere(t)
      PROVE  closed' = closed /\ (sent'[s] = sent[s] \/ (sent'[s] = sent[s] + 1 /\ sent[s] < MaxData))
  BY <1>0, <1>3 DEF SendNowhere
<1>4. ASSUME NEW t \in Threads, Close(t)
      PROVE  sent' = sent /\ (closed'[s] = closed[s] \/ (closed[s] = Never /\ closed'[s] = sent[s]))
  BY <1>0, <1>4 DEF Close
<1>5. ASSUME NEW w \in WorkerThreads, ReceiveCall(w) PROVE closed' = closed /\ sent' = sent
  BY <1>5 DEF ReceiveCall
<1>6. ASSUME NEW r \in Threads, NEW t \in Threads, ReceiveDatum(r, t) PROVE closed' = closed /\ sent' = sent
  BY <1>6 DEF ReceiveDatum
<1>7. ASSUME NEW r \in Threads, NEW t \in Threads, ReceiveClose(r, t) PROVE closed' = closed /\ sent' = sent
  BY <1>7 DEF ReceiveClose
<1>8. CASE UNCHANGED portVars
  BY <1>8 DEF portVars
<1> QED
  BY <1>0, <1>1, <1>2, <1>3, <1>4, <1>5, <1>6, <1>7, <1>8, MainApart DEF PortNext, ReceiveMessage

LEMMA ClosedAtNext == PortTypeOK /\ ClosedAt /\ [PortNext]_portVars => ClosedAt'
<1> SUFFICES ASSUME PortTypeOK, ClosedAt, [PortNext]_portVars, NEW t \in Threads
             PROVE  closed'[t] = Never \/ closed'[t] <= sent'[t]
  BY DEF ClosedAt, Never
<1>1. closed[t] \in Nat /\ sent[t] \in Nat /\ (closed[t] = Never \/ closed[t] <= sent[t])
  BY ThreadChannelAssumption DEF PortTypeOK, ClosedAt, Never
<1> QED
  BY <1>1, ClosedSteps

LEMMA QuietBefore ==
  ASSUME PortTypeOK, [PortNext]_portVars
  PROVE  /\ Quiet' => Quiet
         /\ \A s \in Threads : OthersQuiet(s)' => OthersQuiet(s)
  BY ClosedSteps DEF Quiet, OthersQuiet, Never

LEMMA CloseOnWay ==
  ASSUME PortTypeOK, Sides, ClosesKnown, NEW s \in Threads, NEW t \in Threads, HasClose(link[s][t])
  PROVE  ~Quiet /\ (s \in WorkerThreads => t = Main /\ closed[s] # Never)
<1>1. link[s][t] # << >>
  BY DEF HasClose
<1>2. Between(s, t)
  BY <1>1 DEF Sides
<1> QED
  BY <1>2, MainApart DEF ClosesKnown, Between, Quiet

LEMMA CloseReceived ==
  ASSUME PortTypeOK, Sides, ClosesKnown, NEW s \in Threads, NEW t \in Threads, ReceiveClose(s, t)
  PROVE  /\ link[s][t] # << >> /\ IsClose(Head(link[s][t])) /\ HasClose(link[s][t]) /\ Between(s, t) /\ s # t
         /\ ~Quiet /\ (s \in WorkerThreads => t = Main /\ closed[s] # Never)
<1>1. link[s][t] # << >> /\ IsClose(Head(link[s][t])) /\ link[s][t] \in Seq(Messages)
  BY DEF ReceiveClose, Head2, IsClose, PortTypeOK
<1>2. HasClose(link[s][t])
  BY <1>1, HasTaken
<1> QED
  BY <1>1, <1>2, CloseOnWay, MainApart DEF Sides, Between

LEMMA ClosesKnownNext == PortTypeOK /\ Sides /\ ClosesKnown /\ [PortNext]_portVars => ClosesKnown'
<1> SUFFICES ASSUME PortTypeOK, Sides, ClosesKnown, [PortNext]_portVars PROVE ClosesKnown'
  OBVIOUS
<1> USE MainApart
<1>1. ASSUME NEW s \in Threads, NEW t \in Threads, HasClose(link'[s][t])
      PROVE  HasClose(link[s][t]) \/ closed'[s] # Never \/ (s = Main /\ ~Quiet)
  <2>0. link[s][t] \in Seq(Messages)
    BY DEF PortTypeOK
  <2>1. ASSUME NEW w \in WorkerThreads, Pass(w) PROVE HasClose(link[s][t])
    <3>1. ~IsClose(<<"call">>) /\ <<"call">> \in Messages
      BY DEF IsClose, Messages
    <3> QED
      BY <1>1, <2>0, <2>1, <3>1, PassLinks, HasAdded
  <2>2. ASSUME NEW r \in Threads, Send(r) PROVE HasClose(link[s][t])
    <3>2. ~IsClose(<<"send", sent[r] + 1>>) /\ <<"send", sent[r] + 1>> \in Messages
      BY <2>2, NextDatum DEF Send
    <3>3. \/ link'[s][t] = link[s][t]
          \/ s = r /\ link'[s][t] = Append(link[s][t], <<"send", sent[r] + 1>>)
      BY <2>2, SendLinks
    <3>4. HasClose(Append(link[s][t], <<"send", sent[r] + 1>>)) => HasClose(link[s][t])
      BY <2>0, <3>2, HasAdded
    <3> QED
      BY <1>1, <3>3, <3>4
  <2>3. ASSUME NEW r \in Threads, SendNowhere(r) PROVE HasClose(link[s][t])
    BY <1>1, <2>3 DEF SendNowhere
  <2>4. ASSUME NEW r \in Threads, Close(r) PROVE HasClose(link[s][t]) \/ closed'[s] # Never
    <3>1. CASE r = s
      <4>1. closed[s] = Never => closed'[s] = sent[s]
        BY <2>4, <3>1 DEF Close, PortTypeOK
      <4>2. closed[s] # Never => closed'[s] = closed[s]
        BY <2>4, <3>1 DEF Close, PortTypeOK
      <4>3. sent[s] # Never
        BY ThreadChannelAssumption DEF PortTypeOK, Never
      <4> QED
        BY <4>1, <4>2, <4>3
    <3>2. CASE r # s
      BY <1>1, <2>4, <3>2, CloseLinks
    <3> QED
      BY <3>1, <3>2
  <2>5. ASSUME NEW w \in WorkerThreads, ReceiveCall(w) PROVE HasClose(link[s][t])
    BY <1>1, <2>0, <2>5, TakenLinks, HasTaken DEF ReceiveCall, Head2
  <2>6. ASSUME NEW r \in Threads, NEW u \in Threads, ReceiveDatum(r, u) PROVE HasClose(link[s][t])
    BY <1>1, <2>0, <2>6, TakenLinks, HasTaken DEF ReceiveDatum, Head2
  <2>7. ASSUME NEW r \in Threads, NEW u \in Threads, ReceiveClose(r, u)
        PROVE  HasClose(link[s][t]) \/ (s = Main /\ ~Quiet)
    <3>1. link'[s][t] = IF s = r /\ t = u THEN Tail(link[s][t])
                        ELSE IF s = u /\ Distributes(u) /\ Stored(u) THEN link[s][t] \o Closes(s, t) ELSE link[s][t]
      BY <2>7, CloseReceived, CloseHeardLinks
    <3> QED
      BY <1>1, <2>0, <2>7, <3>1, CloseReceived, HasTaken DEF Distributes
  <2>8. CASE UNCHANGED portVars
    BY <1>1, <2>8 DEF portVars
  <2> QED
    BY <2>1, <2>2, <2>3, <2>4, <2>5, <2>6, <2>7, <2>8 DEF PortNext, ReceiveMessage
<1>2. ASSUME NEW t \in Threads, state[t] # "ended", state'[t] = "ended" PROVE ~Quiet
  <2>1. ASSUME NEW w \in WorkerThreads, Pass(w) PROVE FALSE
    BY <1>2, <2>1 DEF Pass
  <2>2. ASSUME NEW r \in Threads, Send(r) PROVE FALSE
    BY <1>2, <2>2 DEF Send
  <2>3. ASSUME NEW r \in Threads, SendNowhere(r) PROVE FALSE
    BY <1>2, <2>3 DEF SendNowhere
  <2>4. ASSUME NEW r \in Threads, Close(r) PROVE FALSE
    BY <1>2, <2>4 DEF Close, PortTypeOK
  <2>5. ASSUME NEW w \in WorkerThreads, ReceiveCall(w) PROVE FALSE
    BY <1>2, <2>5 DEF ReceiveCall, PortTypeOK
  <2>6. ASSUME NEW r \in Threads, NEW u \in Threads, ReceiveDatum(r, u) PROVE FALSE
    BY <1>2, <2>6 DEF ReceiveDatum
  <2>7. ASSUME NEW r \in Threads, NEW u \in Threads, ReceiveClose(r, u) PROVE ~Quiet
    BY <2>7, CloseReceived
  <2>8. CASE UNCHANGED portVars
    BY <1>2, <2>8 DEF portVars
  <2> QED
    BY <2>1, <2>2, <2>3, <2>4, <2>5, <2>6, <2>7, <2>8 DEF PortNext, ReceiveMessage
<1>3. ASSUME NEW w \in WorkerThreads, HasClose(link'[w][Main]) PROVE closed'[w] # Never
  BY <1>1, <1>3, ClosedSteps DEF ClosesKnown
<1>4. ASSUME Quiet', NEW w \in WorkerThreads, HasClose(link'[Main][w]) PROVE FALSE
  <2>1. Quiet /\ closed'[Main] = Never
    BY <1>4, QuietBefore DEF Quiet, Never
  <2> QED
    BY <1>1, <1>4, <2>1 DEF ClosesKnown
<1>5. ASSUME Quiet', NEW t \in Threads PROVE state'[t] # "ended"
  BY <1>2, <1>5, QuietBefore DEF ClosesKnown
<1> QED
  BY <1>3, <1>4, <1>5 DEF ClosesKnown, HasClose, IsClose, Never
LEMMA ExpectedNext == PortTypeOK /\ Sides /\ ClosesKnown /\ Expected /\ [PortNext]_portVars => Expected'
<1> DEFINE Goal ==
      /\ \A w \in WorkerThreads : writers'[w] # << >> \/ HasCall(link'[Main][w]) => writers'[Main] # << >>
      /\ \A w \in WorkerThreads : w \in Of(writers'[Main]) => writers'[w] # << >> \/ HasCall(link'[Main][w])
<1> SUFFICES ASSUME PortTypeOK, Sides, ClosesKnown, Expected, [PortNext]_portVars, Quiet'
             PROVE  Goal
  BY DEF Expected, HasCall, IsCall, Stored, Of
<1> USE MainApart
<1>q. Quiet
  BY QuietBefore
<1>e. /\ \A w \in WorkerThreads : writers[w] # << >> \/ HasCall(link[Main][w]) => writers[Main] # << >>
      /\ \A w \in WorkerThreads : w \in Of(writers[Main]) => writers[w] # << >> \/ HasCall(link[Main][w])
  BY <1>q DEF Expected, Stored
<1>l. \A w \in WorkerThreads : link[Main][w] \in Seq(Messages)
  BY DEF PortTypeOK
<1>1. ASSUME NEW v \in WorkerThreads, Pass(v) PROVE Goal
  <2>1. Wire(Main, v)
    BY <1>1 DEF Pass
  <2>2. /\ Of(writers'[Main]) = Of(writers[Main]) \cup {v} /\ writers'[Main] # << >>
        /\ \A w \in WorkerThreads : writers'[w] = writers[w]
    BY <2>1, Wired
  <2>3. <<"call">> \in Messages /\ IsCall(<<"call">>)
    BY DEF Messages, IsCall
  <2>4. HasCall(link'[Main][v])
    BY <1>1, <1>l, <2>3, PassLinks, HasAdded
  <2>5. \A w \in WorkerThreads : HasCall(link[Main][w]) => HasCall(link'[Main][w])
    BY <1>1, <2>4, PassLinks
  <2> QED
    BY <1>e, <2>2, <2>4, <2>5
<1>2. ASSUME NEW t \in Threads, Send(t) PROVE Goal
  <2>2. <<"send", sent[t] + 1>> \in Messages /\ ~IsCall(<<"send", sent[t] + 1>>)
    BY <1>2, NextDatum DEF Send
  <2>3. ASSUME NEW w \in WorkerThreads PROVE HasCall(link'[Main][w]) <=> HasCall(link[Main][w])
    <3>1. \/ link'[Main][w] = link[Main][w]
          \/ t = Main /\ link'[Main][w] = Append(link[Main][w], <<"send", sent[t] + 1>>)
      BY <1>2, SendLinks
    <3>2. HasCall(Append(link[Main][w], <<"send", sent[t] + 1>>)) <=> HasCall(link[Main][w])
      BY <1>l, <2>2, HasAdded
    <3> QED
      BY <3>1, <3>2
  <2>4. writers' = writers
    BY <1>2 DEF Send
  <2> QED
    BY <1>e, <2>3, <2>4
<1>3. ASSUME NEW t \in Threads, SendNowhere(t) PROVE Goal
  BY <1>3, <1>e DEF SendNowhere
<1>4. ASSUME NEW t \in Threads, Close(t) PROVE FALSE
  <2>1. closed'[t] = sent[t] /\ closed'[t] = Never
    BY <1>4, <1>q DEF Close, PortTypeOK, Quiet, Never
  <2> QED
    BY <2>1, Counted
<1>5. ASSUME NEW v \in WorkerThreads, ReceiveCall(v) PROVE Goal
  <2>1. Wire(v, Main)
    BY <1>5 DEF ReceiveCall
  <2>2. writers'[v] # << >> /\ \A t \in Threads \ {v} : writers'[t] = writers[t]
    BY <2>1, Wired
  <2>4. link[Main][v] # << >> /\ IsCall(Head(link[Main][v])) /\ link' = Taken(Main, v, link)
    BY <1>5 DEF ReceiveCall, Head2, IsCall
  <2>5. writers[Main] # << >>
    BY <1>e, <1>l, <2>4, HasTaken
  <2>6. \A w \in WorkerThreads \ {v} : link'[Main][w] = link[Main][w]
    BY <2>4, TakenLinks
  <2> QED
    BY <1>e, <2>2, <2>5, <2>6
<1>6. ASSUME NEW s \in Threads, NEW t \in Threads, ReceiveDatum(s, t) PROVE Goal
  <2>1. writers' = writers /\ link' = Taken(s, t, link) /\ link[s][t] # << >> /\ ~IsCall(Head(link[s][t]))
    BY <1>6 DEF ReceiveDatum, Head2, IsCall
  <2>2. ASSUME NEW w \in WorkerThreads PROVE HasCall(link'[Main][w]) <=> HasCall(link[Main][w])
    <3>1. CASE s = Main /\ t = w
      BY <1>l, <2>1, <3>1, TakenLinks, HasTaken
    <3>2. CASE ~(s = Main /\ t = w)
      BY <2>1, <3>2, TakenLinks
    <3> QED
      BY <3>1, <3>2
  <2> QED
    BY <1>e, <2>1, <2>2
<1>7. ASSUME NEW s \in Threads, NEW t \in Threads, ReceiveClose(s, t) PROVE FALSE
  BY <1>7, <1>q, CloseReceived
<1>8. CASE UNCHANGED portVars
  BY <1>8, <1>e DEF portVars
<1> QED
  BY <1>1, <1>2, <1>3, <1>4, <1>5, <1>6, <1>7, <1>8 DEF PortNext, ReceiveMessage

LEMMA AcceptedNext ==
  PortTypeOK /\ Sides /\ (\A s \in Threads : SentOnce(s)) /\ ClosedAt /\ ClosesKnown /\ Expected /\ AllAccepted
  /\ [PortNext]_portVars => AllAccepted'
<1> SUFFICES ASSUME PortTypeOK, Sides, \A s \in Threads : SentOnce(s), ClosedAt, ClosesKnown, Expected, AllAccepted,
                    [PortNext]_portVars, NEW s \in Threads, NEW t \in Threads, OthersQuiet(s)'
             PROVE  Accepted(link'[s][t], closed'[s], Stored(t)')
  BY DEF AllAccepted, Accepted, IsDatum, IsCall, IsClose, Stored, OthersQuiet, Never
<1> USE MainApart
<1> DEFINE q == link[s][t]
           k == closed[s]
<1>1. q \in Seq(Messages) /\ k \in Nat /\ closed'[s] \in Nat
  <2>1. PortTypeOK'
    BY ThreadTypeNext
  <2>2. closed'[s] \in 0 .. Never
    BY <2>1 DEF PortTypeOK, Never
  <2> QED
    BY <2>2, SentType, Counted
<1>2. OthersQuiet(s)
  BY QuietBefore
<1>3. Accepted(q, k, Stored(t))
  BY <1>2 DEF AllAccepted
<1>4. closed'[s] <= k \/ \A n \in DataIn(q) : n <= k
  <2>1. CASE closed'[s] = k
    BY <1>1, <2>1
  <2>2. CASE k = Never
    <3>1. DataIn(q) \subseteq 1 .. MaxData /\ MaxData \in Nat
      BY SentType
    <3> HIDE DEF q
    <3> QED
      BY <2>2, <3>1 DEF Never
  <2> QED
    BY <2>1, <2>2, ClosedSteps
<1>5. ASSUME link'[s][t] = q, Stored(t) => Stored(t)' PROVE Accepted(link'[s][t], closed'[s], Stored(t)')
  BY <1>1, <1>3, <1>4, <1>5, AcceptedLess DEF Stored
<1>6. ASSUME Extended(s, t), Stored(t) => Stored(t)' PROVE Accepted(link'[s][t], closed'[s], Stored(t)')
  <2>1. PICK c \in Seq(Messages) : (\A i \in 1 .. Len(c) : ~IsDatum(c[i])) /\ link'[s][t] = q \o c
    BY <1>6 DEF Extended
  <2>2. Accepted(q, closed'[s], Stored(t)')
    BY <1>1, <1>3, <1>4, <1>6, AcceptedLess DEF Stored
  <2> HIDE DEF q
  <2> QED
    BY <1>1, <2>1, <2>2, AcceptedExtended
<1>7. CASE link'[s][t] = << >>
  BY <1>7 DEF Accepted
<1> HIDE DEF q, k
<1>8. ASSUME NEW w \in WorkerThreads, Pass(w) PROVE Accepted(link'[s][t], closed'[s], Stored(t)')
  <2>1. Stored(t) => Stored(t)'
    BY <1>8, Wired DEF Pass, Stored
  <2>2. Extended(s, t)
    <3>1. got' = got
      BY <1>8 DEF Pass
    <3>2. CASE s = Main /\ t = w
      BY <1>8, <3>1, <3>2, PassLinks, CallExtends
    <3>3. CASE ~(s = Main /\ t = w)
      BY <1>8, <3>1, <3>3, PassLinks, SameExtends
    <3> QED
      BY <3>2, <3>3
  <2> QED
    BY <1>6, <2>1, <2>2
<1>9. ASSUME NEW r \in Threads, Send(r) PROVE Accepted(link'[s][t], closed'[s], Stored(t)')
  <2>1. closed' = closed /\ (Stored(t)' <=> Stored(t))
    BY <1>9 DEF Send, Stored
  <2>2. CASE s = r /\ t = NextWriter(r)
    <3>1. sent[s] + 1 \in 1 .. MaxData /\ link'[s][t] = Append(q, <<"send", sent[s] + 1>>)
      BY <1>9, <2>2, SendLinks, NextDatum DEF Send, q
    <3>2. ~(sent[s] + 1 <= k) \/ (~HasClose(q) /\ (Stored(t) \/ HasCall(q)))
      <4>1. CASE k # Never
        BY <4>1, <1>1, SentType DEF ClosedAt, k
      <4>2. CASE k = Never
        <5>1. Quiet
          BY <1>2, <4>2 DEF Quiet, OthersQuiet, k
        <5>2. ~HasClose(q)
          BY <5>1, CloseOnWay DEF q
        <5>3. t \in Of(writers[s]) /\ Stored(s)
          BY <1>9, <2>2, NextWriterIn DEF Send
        <5>4. Stored(t) \/ HasCall(q)
          BY <5>1, <5>3 DEF Expected, Sides, Between, Of, q
        <5> QED
          BY <5>2, <5>4
      <4> QED
        BY <4>1, <4>2
    <3>3. Accepted(q, k, Stored(t)')
      BY <1>1, <1>3, <2>1, AcceptedLess DEF Stored
    <3>4. Accepted(Append(q, <<"send", sent[s] + 1>>), k, Stored(t)')
      BY <1>1, <2>1, <3>1, <3>2, <3>3, AcceptedSent
    <3> QED
      BY <2>1, <3>1, <3>4 DEF k
  <2>3. CASE ~(s = r /\ t = NextWriter(r))
    BY <1>5, <1>9, <2>1, <2>3, SendLinks DEF q
  <2> QED
    BY <2>2, <2>3
<1>10. ASSUME NEW r \in Threads, SendNowhere(r) PROVE Accepted(link'[s][t], closed'[s], Stored(t)')
  BY <1>5, <1>10 DEF SendNowhere, Stored, q
<1>11. ASSUME NEW r \in Threads, Close(r) PROVE Accepted(link'[s][t], closed'[s], Stored(t)')
  <2>1. r = s
    <3>1. closed'[r] # Never
      <4>1. closed'[r] = IF closed[r] = Never THEN sent[r] ELSE closed[r]
        BY <1>11 DEF Close, PortTypeOK
      <4> QED
        BY <4>1, SentType DEF Never
    <3> QED
      BY <3>1 DEF OthersQuiet, Never
  <2>2. CASE s = t
    <3>1. Sides'
      BY SidesNext
    <3>2. link'[s][t] = << >>
      BY <2>2, <3>1 DEF Sides, Between
    <3> QED
      BY <1>7, <3>2
  <2>3. CASE s # t
    <3>1. Stored(t) => Stored(t)'
      BY <1>11, <2>1, <2>3 DEF Close, Delete, Stored, PortTypeOK
    <3>2. link'[s][t] = link[s][t] \o Closes(s, t) /\ got' = got
      BY <1>11, <2>1, CloseLinks DEF Close
    <3> QED
      BY <1>6, <3>1, <3>2, ClosesExtend
  <2> QED
    BY <2>2, <2>3
<1>12. ASSUME NEW w \in WorkerThreads, ReceiveCall(w) PROVE Accepted(link'[s][t], closed'[s], Stored(t)')
  <2>1. (Stored(t) => Stored(t)') /\ Stored(w)' /\ closed' = closed
    BY <1>12, Wired DEF ReceiveCall, Stored
  <2>2. link[Main][w] # << >> /\ IsCall(Head(link[Main][w])) /\ link' = Taken(Main, w, link)
    BY <1>12 DEF ReceiveCall, Head2, IsCall
  <2>3. CASE s = Main /\ t = w
    <3>1. q # << >> /\ IsCall(Head(q)) /\ Stored(t)' /\ link'[s][t] = Tail(q)
      BY <2>1, <2>2, <2>3, TakenLinks DEF q
    <3>2. Stored(t)' \in BOOLEAN
      BY DEF Stored
    <3>3. Accepted(Tail(q), k, Stored(t)')
      BY <1>1, <1>3, <3>1, <3>2, AcceptedTaken
    <3> QED
      BY <2>1, <3>1, <3>3 DEF k
  <2>4. CASE ~(s = Main /\ t = w)
    BY <1>5, <2>1, <2>2, <2>4, TakenLinks DEF q
  <2> QED
    BY <2>3, <2>4
<1>13. ASSUME NEW r \in Threads, NEW u \in Threads, ReceiveDatum(r, u)
       PROVE  Accepted(link'[s][t], closed'[s], Stored(t)')
  <2>1. (Stored(t)' <=> Stored(t)) /\ closed' = closed
    BY <1>13 DEF ReceiveDatum, Stored
  <2>2. link[r][u] # << >> /\ IsDatum(Head(link[r][u])) /\ link' = Taken(r, u, link)
    BY <1>13 DEF ReceiveDatum, Head2, IsDatum
  <2>3. CASE s = r /\ t = u
    <3>1. q # << >> /\ IsDatum(Head(q)) /\ link'[s][t] = Tail(q)
      BY <2>2, <2>3, TakenLinks DEF q
    <3>2. Stored(t)' \in BOOLEAN
      BY DEF Stored
    <3>3. Accepted(Tail(q), k, Stored(t)')
      BY <1>1, <1>3, <2>1, <3>1, <3>2, AcceptedTaken
    <3> QED
      BY <2>1, <3>1, <3>3 DEF k
  <2>4. CASE ~(s = r /\ t = u)
    BY <1>5, <2>1, <2>2, <2>4, TakenLinks DEF q
  <2> QED
    BY <2>3, <2>4
<1>14. ASSUME NEW r \in Threads, NEW u \in Threads, ReceiveClose(r, u)
       PROVE  Accepted(link'[s][t], closed'[s], Stored(t)')
  <2>1. /\ link[r][u] # << >> /\ IsClose(Head(link[r][u])) /\ Between(r, u)
        /\ r \in WorkerThreads => closed[r] # Never
    BY <1>14, CloseReceived
  <2>2. closed' = closed
    BY <1>14 DEF ReceiveClose
  <2>3. CASE s = r /\ t = u
    <3>1. q # << >> /\ IsClose(Head(q)) /\ link'[s][t] = Tail(q)
      BY <1>14, <2>1, <2>3, CloseReceived, CloseHeardLinks DEF q
    <3>2. Stored(t)' \in BOOLEAN
      BY DEF Stored
    <3>3. Accepted(Tail(q), k, Stored(t)')
      BY <1>1, <1>3, <3>1, <3>2, AcceptedTaken
    <3> QED
      BY <2>2, <3>1, <3>3 DEF k
  <2>4. CASE t # u
    <3>1. Stored(t) => Stored(t)'
      BY <1>14, <2>4 DEF ReceiveClose, Delete, Stored, PortTypeOK
    <3>2. Extended(s, t)
      BY <1>14, <2>4, CloseArrives
    <3> QED
      BY <1>6, <3>1, <3>2
  <2>5. CASE t = u /\ s # r
    <3>1. Sides'
      BY SidesNext
    <3>2. ~Between(s, t)
      BY <1>2, <2>1, <2>5 DEF Between, OthersQuiet
    <3>3. link'[s][t] = << >>
      BY <3>1, <3>2 DEF Sides, Between
    <3> QED
      BY <1>7, <3>3
  <2> QED
    BY <2>3, <2>4, <2>5
<1>15. CASE UNCHANGED portVars
  BY <1>5, <1>15 DEF portVars, Stored, q
<1> QED
  BY <1>8, <1>9, <1>10, <1>11, <1>12, <1>13, <1>14, <1>15 DEF PortNext, ReceiveMessage
LEMMA DeliveredNext ==
  PortTypeOK /\ Sides /\ (\A s \in Threads : SentOnce(s)) /\ ClosedAt /\ ClosesKnown /\ AllAccepted /\ Delivered
  /\ [PortNext]_portVars => Delivered'
<1> SUFFICES ASSUME PortTypeOK, Sides, \A s \in Threads : SentOnce(s), ClosedAt, ClosesKnown, AllAccepted, Delivered,
                    [PortNext]_portVars, NEW s \in Threads, OthersQuiet(s)', NEW n \in 1 .. sent'[s], n <= closed'[s]
             PROVE  \E t \in Threads : n \in Data(s, t)'
  BY DEF Delivered, OthersQuiet, Never
<1> USE MainApart
<1>1. PortTypeOK' /\ OthersQuiet(s)
  BY ThreadTypeNext, QuietBefore
<1>2. n <= closed[s]
  BY Counted, ClosedSteps DEF Never
<1>3. sent[s] <= sent'[s] /\ sent[s] \in Nat /\ n \in Nat
  BY Counted, ClosedSteps
<1>4. \A t \in Threads : PairInOrder(s, t)
  BY DEF SentOnce
<1>5. ASSUME n <= sent[s] PROVE \E t \in Threads : n \in Data(s, t)'
  <2>1. PICK t \in Threads : n \in Data(s, t)
    BY <1>1, <1>2, <1>3, <1>5 DEF Delivered
  <2>2. CASE Extended(s, t)
    BY <1>1, <1>3, <1>4, <2>1, <2>2, ExtendedKeeps
  <2>3. CASE DatumSent(s, t)
    BY <1>1, <1>4, <2>1, <2>3, SentKeeps
  <2>4. CASE Arrived(s, t) /\ ~(IsDatum(Head(link[s][t])) /\ got'[t][s] = got[t][s])
    BY <1>1, <1>3, <1>4, <2>1, <2>4, ArrivedKeeps
  <2>5. CASE Arrived(s, t) /\ IsDatum(Head(link[s][t])) /\ got'[t][s] = got[t][s]
    <3>1. n \in Data(s, t)' \/ n = Head(link[s][t])[2]
      BY <1>1, <1>3, <1>4, <2>1, <2>5, ArrivedKeeps
    <3>2. CASE n = Head(link[s][t])[2]
      <4>1. Accepted(link[s][t], closed[s], Stored(t))
        BY <1>1 DEF AllAccepted
      <4>2. 1 \in DOMAIN link[s][t] /\ Head(link[s][t]) = link[s][t][1]
        BY <2>5, SentType DEF Arrived
      <4>3. Stored(t)
        BY <1>2, <2>5, <3>2, <4>1, <4>2 DEF Accepted
      <4>4. got'[t][s] = Append(got[t][s], n) /\ got[t][s] \in Seq(1 .. MaxData)
        BY <2>5, <3>2, <4>3, SentType DEF Arrived
      <4>5. Len(Append(got[t][s], n)) = Len(got[t][s]) + 1 /\ Len(got[t][s]) \in Nat
        BY <4>4
      <4> QED
        BY <4>4, <4>5, <2>5
    <3> QED
      BY <3>1, <3>2
  <2> QED
    BY <2>2, <2>3, <2>4, <2>5, PairSteps
<1>6. ASSUME ~(n <= sent[s]) PROVE \E t \in Threads : n \in Data(s, t)'
  <2>1. n = sent'[s] /\ sent'[s] = sent[s] + 1
    BY <1>3, <1>6, ClosedSteps
  <2>2. CASE \E t \in Threads : DatumSent(s, t)
    BY <1>1, <1>4, <2>1, <2>2, SentKeeps
  <2>3. CASE SendNowhere(s)
    <3>1. ~Quiet
      BY <2>3 DEF SendNowhere, ClosesKnown
    <3>2. closed[s] # Never
      BY <1>1, <3>1 DEF Quiet, OthersQuiet
    <3> QED
      BY <1>2, <1>3, <1>6, <3>2, Counted DEF ClosedAt
  <2>4. sent'[s] # sent[s]
    BY <1>3, <2>1
  <2> QED
    BY <2>2, <2>3, <2>4, PairSteps
<1> QED
  BY <1>5, <1>6

-----------------------------------------------------------------------------
ThreadInv == /\ PortTypeOK /\ Sides /\ \A s \in Threads : SentOnce(s)
             /\ ClosedAt /\ ClosesKnown /\ Expected /\ AllAccepted /\ Delivered

LEMMA ThreadInvInit == PortInit => ThreadInv
<1> SUFFICES ASSUME PortInit PROVE ThreadInv
  OBVIOUS
<1> USE MainApart
<1>1. PortTypeOK /\ Sides /\ \A s \in Threads : SentOnce(s)
  BY ThreadTypeInit, SidesInit, SentOnceInit
<1>2. \A s, t \in Threads : link[s][t] = << >> /\ closed[s] = Never /\ sent[s] = 0 /\ writers[s] = << >>
                            /\ state[s] # "ended"
  BY DEF PortInit
<1>3. ClosedAt /\ ClosesKnown /\ Expected
  BY <1>2 DEF ClosedAt, ClosesKnown, Expected, HasClose, HasCall, Stored, Of
<1>4. AllAccepted /\ Delivered
  BY <1>2 DEF AllAccepted, Accepted, Delivered
<1> QED
  BY <1>1, <1>3, <1>4 DEF ThreadInv

LEMMA ThreadInvNext == ThreadInv /\ [PortNext]_portVars => ThreadInv'
<1> SUFFICES ASSUME ThreadInv, [PortNext]_portVars PROVE ThreadInv'
  OBVIOUS
<1>1. PortTypeOK' /\ Sides' /\ ClosedAt' /\ ClosesKnown' /\ Expected'
  BY ThreadTypeNext, SidesNext, ClosedAtNext, ClosesKnownNext, ExpectedNext DEF ThreadInv
<1>2. \A s \in Threads : SentOnce(s)'
  BY SentOnceNext DEF ThreadInv
<1>3. AllAccepted' /\ Delivered'
  BY AcceptedNext, DeliveredNext DEF ThreadInv
<1> QED
  BY <1>1, <1>2, <1>3 DEF ThreadInv

LEMMA ThreadInvHolds == PortSpec => []ThreadInv
  BY ThreadInvInit, ThreadInvNext, PTL DEF PortSpec

\* Every variable of the threads stays within its type.
THEOREM PortTypeCorrect == PortSpec => []PortTypeOK
<1>1. ThreadInv => PortTypeOK
  BY DEF ThreadInv
<1> QED
  BY <1>1, ThreadInvHolds, PTL

\* A channel between threads gives every datum at most once and those of a sender
\* to a receiver in order; and what is sent before a close is not lost to it.
THEOREM SentBeforeClose == PortSpec => []CloserHeard
<1>1. ThreadInv => CloserHeard
  BY DEF ThreadInv, CloserHeard, Delivered, OthersQuiet, SentOnce, PairInOrder, InOrderOnce
<1> QED
  BY <1>1, ThreadInvHolds, PTL
================================================================================
