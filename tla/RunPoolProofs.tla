----------------------------- MODULE RunPoolProofs -----------------------------
(* Theorems about RunPool.                                                     *)
EXTENDS RunPool, FiniteSetTheorems, TLAPS

Phases == {"idle", "queued", "woken", "starting", "running", "over"}

\* A task ends once by itself and may be aborted once, so at most two
\* handleClose() wait for terminate(): the bound in TypeOK is not inductive
\* without who may still add one.
ClosingBounded ==
  \A t \in Tasks : /\ ~settled[t] => closing[t] = 0
                   /\ message[t] => closing[t] <= 1

LEMMA WakeHeadType ==
  ASSUME TypeOK, NEW over \in [Tasks -> Phases], WakeHead(over)
  PROVE  /\ consumers' \in Seq(Tasks)
         /\ phase' \in [Tasks -> Phases]
<1>1. CASE consumers = << >>
  BY <1>1 DEF WakeHead, TypeOK
<1>2. CASE consumers # << >>
  <2>1. Head(consumers) \in Tasks /\ Tail(consumers) \in Seq(Tasks)
    BY <1>2 DEF TypeOK
  <2> QED
    BY <1>2, <2>1 DEF WakeHead, Phases
<1> QED
  BY <1>1, <1>2

LEMMA CloseKeptType ==
  ASSUME TypeOK, NEW t \in Tasks, CloseKept(t)
  PROVE  /\ busy' \in [Workers -> BOOLEAN] /\ listening' \in [Tasks -> BOOLEAN]
         /\ consumers' \in Seq(Tasks) /\ phase' \in [Tasks -> Phases]
         /\ pool' = pool /\ worker' = worker /\ closing' = closing
<1>1. [phase EXCEPT ![t] = "over"] \in [Tasks -> Phases]
  BY DEF TypeOK, Phases
<1>2. consumers' \in Seq(Tasks) /\ phase' \in [Tasks -> Phases]
  BY <1>1, WakeHeadType DEF CloseKept
<1> QED
  BY <1>2 DEF CloseKept, Released, TypeOK

\* The end of a task, kept or terminated.
LEMMA FinishType ==
  ASSUME TypeOK, ClosingBounded, NEW t \in Tasks, Finish(t),
         UNCHANGED <<options, record, aborted>>, message' \in [Tasks -> BOOLEAN],
         settled[t] => message[t],
         ~message'[t] \/ closing[t] = 0,
         \A u \in Tasks \ {t} : message'[u] = message[u]
  PROVE  TypeOK' /\ ClosingBounded'
<1>1. closing[t] <= 1 /\ closing[t] \in 0 .. 2
  BY DEF TypeOK, ClosingBounded
<1>2. settled' = [settled EXCEPT ![t] = TRUE]
  BY DEF Finish
<1>3. CASE keepAlive[t]
  <2>1. CloseKept(t)
    BY <1>3 DEF Finish
  <2>2. /\ busy' \in [Workers -> BOOLEAN] /\ listening' \in [Tasks -> BOOLEAN]
        /\ consumers' \in Seq(Tasks) /\ phase' \in [Tasks -> Phases]
        /\ pool' = pool /\ worker' = worker /\ closing' = closing
    BY <2>1, CloseKeptType
  <2>3. TypeOK'
    BY <2>2, <1>2 DEF TypeOK, options, Phases
  <2>4. ClosingBounded'
    BY <1>1, <1>2, <2>2 DEF ClosingBounded, TypeOK
  <2> QED
    BY <2>3, <2>4
<1>4. CASE ~keepAlive[t]
  <2>1. Terminate(t) /\ UNCHANGED <<pool, busy, listening, phase, consumers>>
    BY <1>4 DEF Finish
  <2>2. closing[t] + 1 \in 0 .. 2
    BY <1>1
  <2>3. closing' \in [Tasks -> 0 .. 2] /\ worker' \in [Workers -> {"none", "starting", "ready", "failed", "stopped"}]
    BY <2>1, <2>2 DEF Terminate, TypeOK
  <2>4. TypeOK'
    BY <1>2, <2>1, <2>3 DEF TypeOK, options
  <2>5. ASSUME NEW u \in Tasks PROVE (~settled'[u] => closing'[u] = 0) /\ (message'[u] => closing'[u] <= 1)
    <3>1. closing'[u] = IF u = t THEN closing[u] + 1 ELSE closing[u]
      BY <2>1 DEF Terminate, TypeOK
    <3>2. CASE u = t
      BY <1>1, <1>2, <3>1, <3>2 DEF TypeOK
    <3>3. CASE u # t
      BY <1>2, <3>1, <3>3 DEF ClosingBounded, TypeOK
    <3> QED
      BY <3>2, <3>3
  <2> QED
    BY <2>4, <2>5 DEF ClosingBounded
<1> QED
  BY <1>3, <1>4

LEMMA RunType ==
  ASSUME TypeOK, ClosingBounded, NEW t \in Tasks, Run(t) PROVE TypeOK' /\ ClosingBounded'
<1>1. UNCHANGED <<options, settled, closing, message, aborted, listening>>
  BY DEF Run, RunAborted, RunOnIdle, RunOnNew, RunQueued, task
<1>2. CASE RunAborted(t)
  BY <1>2 DEF RunAborted, TypeOK, ClosingBounded, options, pools, task
<1>3. CASE RunOnIdle(t)
  <2>1. PICK w \in Idle(adapter[t]) : MarkBusy(w) /\ record' = [record EXCEPT ![t] = w]
    BY <1>3 DEF RunOnIdle
  <2>2. w \in Workers
    BY <2>1 DEF Idle, TypeOK
  <2>3. record' \in [Tasks -> Workers \cup {None}] /\ busy' \in [Workers -> BOOLEAN]
    BY <2>1, <2>2 DEF MarkBusy, TypeOK
  <2> QED
    BY <1>1, <1>3, <2>3 DEF RunOnIdle, TypeOK, ClosingBounded, options
<1>4. CASE RunOnNew(t)
  <2>1. PICK w \in Workers : /\ pool' = [pool EXCEPT ![adapter[t]] = @ \cup {w}]
                             /\ busy' = [busy EXCEPT ![w] = TRUE]
                             /\ worker' = [worker EXCEPT ![w] = "starting"]
                             /\ record' = [record EXCEPT ![t] = w]
    BY <1>4 DEF RunOnNew
  <2>2. /\ pool' \in [Adapters -> SUBSET Workers] /\ busy' \in [Workers -> BOOLEAN]
        /\ worker' \in [Workers -> {"none", "starting", "ready", "failed", "stopped"}]
        /\ record' \in [Tasks -> Workers \cup {None}]
    BY <2>1 DEF TypeOK
  <2> QED
    BY <1>1, <1>4, <2>2 DEF RunOnNew, TypeOK, ClosingBounded, options
<1>5. CASE RunQueued(t)
  <2>1. consumers' \in Seq(Tasks)
    BY <1>5 DEF RunQueued, TypeOK
  <2> QED
    BY <1>1, <1>5, <2>1 DEF RunQueued, TypeOK, ClosingBounded, options, pools, task
<1> QED
  BY <1>2, <1>3, <1>4, <1>5 DEF Run

\* Every variable stays within its type, the bound on the handleClose() that
\* wait for terminate() included.
LEMMA TypeInductive == Spec => [](TypeOK /\ ClosingBounded)
<1> DEFINE IInv == TypeOK /\ ClosingBounded
<1>1. Init => IInv
  BY DEF Init, TypeOK, ClosingBounded
<1>2. IInv /\ [Next]_vars => IInv'
  <2> SUFFICES ASSUME TypeOK, ClosingBounded, [Next]_vars PROVE IInv'
    OBVIOUS
  <2>1. ASSUME NEW t \in Tasks, Run(t) PROVE IInv'
    BY <2>1, RunType
  <2>2. ASSUME NEW t \in Tasks, Start(t) PROVE IInv'
    BY <2>2 DEF Start, TypeOK, ClosingBounded, options, pools
  <2>3. ASSUME NEW t \in Tasks, StartAborted(t) PROVE IInv'
    BY <2>3 DEF StartAborted, TypeOK, ClosingBounded, options, task
  <2>4. ASSUME NEW t \in Tasks, StartUnposted(t) PROVE IInv'
    <3>1. ~settled[t] /\ Finish(t) /\ UNCHANGED <<options, record, aborted>> /\ message' = message
      BY <2>4 DEF StartUnposted
    <3>2. message' \in [Tasks -> BOOLEAN] /\ closing[t] = 0
      BY <3>1 DEF TypeOK, ClosingBounded
    <3> QED
      BY <3>1, <3>2, FinishType
  <2>5. ASSUME NEW t \in Tasks, StartFailed(t) PROVE IInv'
    BY <2>5 DEF StartFailed, TypeOK, ClosingBounded, options, pools, task
  <2>6. ASSUME NEW t \in Tasks, Deliver(t) PROVE IInv'
    <3>1. message[t] /\ Finish(t) /\ UNCHANGED <<options, record, aborted>>
      BY <2>6 DEF Deliver
    <3>2. /\ message' \in [Tasks -> BOOLEAN] /\ ~message'[t]
          /\ \A u \in Tasks \ {t} : message'[u] = message[u]
      BY <2>6 DEF Deliver, TypeOK
    <3> QED
      BY <3>1, <3>2, FinishType
  <2>7. ASSUME NEW t \in Tasks, Close(t) PROVE IInv'
    <3>1. [phase EXCEPT ![t] = IF phase[t] = "starting" THEN phase[t] ELSE "over"] \in [Tasks -> Phases]
      BY DEF TypeOK, Phases
    <3>2. consumers' \in Seq(Tasks) /\ phase' \in [Tasks -> Phases]
      BY <2>7, <3>1, WakeHeadType DEF Close
    <3>3. pool' \in [Adapters -> SUBSET Workers]
      BY <2>7 DEF Close, WithoutRecord, TypeOK
    <3>4. /\ closing' \in [Tasks -> 0 .. 2]
          /\ \A u \in Tasks : closing'[u] <= closing[u] /\ (u # t => closing'[u] = closing[u])
          /\ closing[t] # 0
      BY <2>7 DEF Close, TypeOK
    <3>5. ClosingBounded'
      BY <2>7, <3>4 DEF Close, ClosingBounded, TypeOK
    <3> QED
      BY <2>7, <3>2, <3>3, <3>4, <3>5 DEF Close, TypeOK, options, Phases
  <2>8. ASSUME NEW t \in Tasks, Abort(t) PROVE IInv'
    <3>1. ~settled[t] /\ closing[t] = 0
      BY <2>8 DEF Abort, Abortable, ClosingBounded
    <3>2. closing' = [closing EXCEPT ![t] = closing[t] + 1] /\ settled' = [settled EXCEPT ![t] = TRUE]
      BY <2>8 DEF Abort, Terminate
    <3>3. closing' = [closing EXCEPT ![t] = 1]
      BY <3>1, <3>2
    <3>4. worker' \in [Workers -> {"none", "starting", "ready", "failed", "stopped"}]
      BY <2>8 DEF Abort, Terminate, TypeOK
    <3> QED
      BY <2>8, <3>2, <3>3, <3>4 DEF Abort, TypeOK, ClosingBounded, options
  <2>9. ASSUME NEW t \in Tasks, AbortWaiting(t) PROVE IInv'
    BY <2>9 DEF AbortWaiting, TypeOK, ClosingBounded, options, pools
  <2>10. ASSUME NEW t \in Tasks, Post(t) PROVE IInv'
    BY <2>10 DEF Post, TypeOK, ClosingBounded, options, pools
  <2>11. ASSUME NEW t \in Tasks, Die(t) PROVE IInv'
    <3>1. [phase EXCEPT ![t] = "over"] \in [Tasks -> Phases]
      BY DEF TypeOK, Phases
    <3>2. consumers' \in Seq(Tasks) /\ phase' \in [Tasks -> Phases]
      BY <2>11, <3>1, WakeHeadType DEF Die
    <3>3. pool' \in [Adapters -> SUBSET Workers]
      BY <2>11 DEF Die, WithoutRecord, TypeOK
    <3> QED
      BY <2>11, <3>2, <3>3 DEF Die, TypeOK, ClosingBounded, options, Phases
  <2>12. ASSUME NEW w \in Workers, Ready(w) \/ FailToStart(w) PROVE IInv'
    BY <2>12 DEF Ready, FailToStart, TypeOK, ClosingBounded, options, task
  <2>13. ASSUME NEW a \in Adapters, Collect(a) PROVE IInv'
    <3>1. PICK w \in Unused(a) : /\ pool' = [pool EXCEPT ![a] = @ \ {w}]
                                 /\ worker' = [worker EXCEPT ![w] = "stopped"]
      BY <2>13 DEF Collect
    <3>2. /\ pool' \in [Adapters -> SUBSET Workers]
          /\ worker' \in [Workers -> {"none", "starting", "ready", "failed", "stopped"}]
      BY <3>1 DEF TypeOK
    <3> QED
      BY <2>13, <3>2 DEF Collect, TypeOK, ClosingBounded, options, task
  <2>14. CASE UNCHANGED vars
    BY <2>14 DEF vars, options, pools, task, TypeOK, ClosingBounded
  <2> QED
    BY <2>1, <2>2, <2>3, <2>4, <2>5, <2>6, <2>7, <2>8, <2>9, <2>10, <2>11, <2>12, <2>13, <2>14
    DEF Next
<1> QED
  BY <1>1, <1>2, PTL DEF Spec

\* Every variable stays within its type, for any number of calls and workers.
THEOREM RunPoolTypeCorrect == Spec => []TypeOK
  BY TypeInductive, PTL

-----------------------------------------------------------------------------
(* The limit. *)

\* A step leaves a pool as it is, takes a record out of it, or puts one into a
\* pool that has room.
LEMMA PoolSteps ==
  ASSUME TypeOK, [Next]_vars, NEW a \in Adapters
  PROVE  /\ maxWorkers' = maxWorkers
         /\ \/ pool'[a] = pool[a]
            \/ \E w : pool'[a] = pool[a] \ {w}
            \/ HasPlace(a) /\ \E w \in Workers : pool'[a] = pool[a] \cup {w}
<1> DEFINE Shrinks == pool'[a] = pool[a] \/ \E w : pool'[a] = pool[a] \ {w}
           Kept == maxWorkers' = maxWorkers
<1>1. ASSUME NEW t \in Tasks, RunOnNew(t)
      PROVE  Kept /\ (\/ pool'[a] = pool[a]
                      \/ HasPlace(a) /\ \E w \in Workers : pool'[a] = pool[a] \cup {w})
  <2>1. PICK w \in Workers : pool' = [pool EXCEPT ![adapter[t]] = @ \cup {w}]
    BY <1>1 DEF RunOnNew
  <2>2. HasPlace(adapter[t]) /\ maxWorkers' = maxWorkers
    BY <1>1 DEF RunOnNew, options
  <2>3. CASE a = adapter[t]
    BY <2>1, <2>2, <2>3 DEF TypeOK
  <2>4. CASE a # adapter[t]
    BY <2>1, <2>2, <2>4 DEF TypeOK
  <2> QED
    BY <2>3, <2>4
<1>2. ASSUME NEW t \in Tasks, Close(t) \/ Die(t) PROVE Kept /\ Shrinks
  <2>1. pool' = [pool EXCEPT ![adapter[t]] = @ \ {record[t]}] /\ Kept
    BY <1>2 DEF Close, Die, WithoutRecord, options
  <2> QED
    BY <2>1 DEF TypeOK
<1>3. ASSUME NEW b \in Adapters, Collect(b) PROVE Kept /\ Shrinks
  <2>1. PICK w : pool' = [pool EXCEPT ![b] = @ \ {w}]
    BY <1>3 DEF Collect
  <2> QED
    BY <1>3, <2>1 DEF Collect, options, TypeOK
<1>4. ASSUME NEW t \in Tasks,
             RunAborted(t) \/ RunOnIdle(t) \/ RunQueued(t) \/ Start(t) \/ StartAborted(t)
               \/ StartUnposted(t) \/ StartFailed(t) \/ Deliver(t) \/ Abort(t) \/ AbortWaiting(t) \/ Post(t)
      PROVE  Kept /\ pool' = pool
  BY <1>4 DEF RunAborted, RunOnIdle, RunQueued, Start, StartAborted, StartUnposted, StartFailed,
     Deliver, Abort, AbortWaiting, Post, Finish, CloseKept, options, pools
<1>5. ASSUME NEW w \in Workers, Ready(w) \/ FailToStart(w) PROVE Kept /\ pool' = pool
  BY <1>5 DEF Ready, FailToStart, options
<1>6. CASE UNCHANGED vars
  BY <1>6 DEF vars, options, pools
<1> QED
  BY <1>1, <1>2, <1>3, <1>4, <1>5, <1>6 DEF Next, Run

\* What the cardinality of a pool means anything for.
PoolsCounted == \A a \in Adapters : IsFiniteSet(pool[a]) /\ Cardinality(pool[a]) <= maxWorkers

LEMMA PoolsInductive == Spec => []PoolsCounted
<1>1. Init => PoolsCounted
  <2> SUFFICES ASSUME Init, NEW a \in Adapters
               PROVE  IsFiniteSet(pool[a]) /\ Cardinality(pool[a]) <= maxWorkers
    BY DEF PoolsCounted
  <2>1. pool[a] = {} /\ maxWorkers \in Nat
    BY RunPoolAssumption DEF Init
  <2> QED
    BY <2>1, FS_EmptySet
<1>2. TypeOK /\ PoolsCounted /\ [Next]_vars => PoolsCounted'
  <2> SUFFICES ASSUME TypeOK, PoolsCounted, [Next]_vars, NEW a \in Adapters
               PROVE  IsFiniteSet(pool'[a]) /\ Cardinality(pool'[a]) <= maxWorkers'
    BY DEF PoolsCounted
  <2>1. maxWorkers \in Nat /\ maxWorkers' = maxWorkers
    BY RunPoolAssumption, PoolSteps DEF TypeOK
  <2>2. IsFiniteSet(pool[a]) /\ Cardinality(pool[a]) \in Nat /\ Cardinality(pool[a]) <= maxWorkers
    BY FS_CardinalityType DEF PoolsCounted
  <2>3. CASE pool'[a] = pool[a]
    BY <2>1, <2>2, <2>3
  <2>4. ASSUME NEW w, pool'[a] = pool[a] \ {w}
        PROVE  IsFiniteSet(pool'[a]) /\ Cardinality(pool'[a]) <= maxWorkers'
    <3>1. /\ IsFiniteSet(pool[a] \ {w})
          /\ Cardinality(pool[a] \ {w}) = IF w \in pool[a] THEN Cardinality(pool[a]) - 1
                                                         ELSE Cardinality(pool[a])
      BY <2>2, FS_RemoveElement
    <3> QED
      BY <2>1, <2>2, <2>4, <3>1
  <2>5. ASSUME HasPlace(a), NEW w \in Workers, pool'[a] = pool[a] \cup {w}
        PROVE  IsFiniteSet(pool'[a]) /\ Cardinality(pool'[a]) <= maxWorkers'
    BY <2>1, <2>2, <2>5, FS_AddElement DEF HasPlace
  <2> QED
    BY <2>3, <2>4, <2>5, PoolSteps
<1> QED
  BY <1>1, <1>2, RunPoolTypeCorrect, PTL DEF Spec

\* At no time does a pool hold more workers than run.maxWorkers.
THEOREM PoolWithinLimit == Spec => []PoolBounded
<1>1. PoolsCounted => PoolBounded
  BY DEF PoolsCounted, PoolBounded
<1> QED
  BY <1>1, PoolsInductive, PTL

-----------------------------------------------------------------------------
(* No place of the pool is lost. *)

\* A queued call is in the queue once, and the queue holds no other.
QueuedCalls ==
  /\ \A i \in DOMAIN consumers : phase[consumers[i]] = "queued"
  /\ \A i, j \in DOMAIN consumers : consumers[i] = consumers[j] => i = j

\* Only a call that has a worker is settled or listens.
BeforeRun ==
  \A t \in Tasks : /\ phase[t] \in {"idle", "queued", "woken"} => ~settled[t]
                   /\ listening[t] => phase[t] \in {"running", "over"}

\* A record is in the pool of its adapter alone, and once taken out of it never
\* comes back, for its worker is not a new one.
RecordsApart ==
  /\ \A a \in Adapters : \A w \in pool[a] : worker[w] # "none"
  /\ \A a, b \in Adapters : \A w \in pool[a] : w \in pool[b] => a = b
  /\ \A t \in Tasks : record[t] # None =>
       worker[record[t]] # "none" /\ \A a \in Adapters : record[t] \in pool[a] => a = adapter[t]
  /\ \A t \in Tasks : phase[t] \in {"starting", "running"} => record[t] # None

\* An abort that came while the worker was starting has a handleClose() on the
\* way, or its record has left the pool.
AbortedIsClosed ==
  \A t \in Tasks : phase[t] = "starting" /\ settled[t] =>
    closing[t] > 0 \/ record[t] \notin pool[adapter[t]]

NoneFailed == "start" \notin faults => \A w \in Workers : worker[w] # "failed"

Owns(t, w) == record[t] = w /\ (phase[t] \in {"starting", "running"} \/ closing[t] > 0)

BusyIsOwned ==
  "start" \notin faults =>
    \A a \in Adapters : \A w \in pool[a] : busy[w] => \E t \in Tasks : Owns(t, w)

PlaceInv == /\ QueuedCalls /\ BeforeRun /\ RecordsApart
            /\ AbortedIsClosed /\ NoneFailed /\ BusyIsOwned

\* Waking the head of the queue changes the phase of that call alone.
LEMMA WakeHeadEffect ==
  ASSUME TypeOK, QueuedCalls, NEW t \in Tasks, phase[t] # "queued",
         NEW p \in {"starting", "over"},
         WakeHead([phase EXCEPT ![t] = p])
  PROVE  /\ QueuedCalls'
         /\ phase'[t] = p
         /\ \A u \in Tasks \ {t} : \/ phase'[u] = phase[u]
                                   \/ phase[u] = "queued" /\ phase'[u] = "woken"
<1> DEFINE over == [phase EXCEPT ![t] = p]
<1>1. \A u \in Tasks : over[u] = IF u = t THEN p ELSE phase[u]
  BY DEF TypeOK
<1>2. \A i \in DOMAIN consumers : consumers[i] \in Tasks /\ consumers[i] # t
  BY DEF TypeOK, QueuedCalls
<1>3. CASE consumers = << >>
  <2>1. phase' = over /\ consumers' = consumers
    BY <1>3 DEF WakeHead
  <2> QED
    BY <1>1, <1>3, <2>1 DEF QueuedCalls
<1>4. CASE consumers # << >>
  <2> DEFINE h == Head(consumers)
  <2>1. /\ consumers \in Seq(Tasks) /\ h = consumers[1] /\ 1 \in DOMAIN consumers
        /\ DOMAIN consumers = 1 .. Len(consumers) /\ Len(consumers) \in Nat
    BY <1>4 DEF TypeOK
  <2>2. consumers' = Tail(consumers) /\ phase' = [over EXCEPT ![h] = "woken"]
    BY <1>4 DEF WakeHead
  <2>3. h \in Tasks /\ h # t /\ phase[h] = "queued"
    BY <1>2, <2>1 DEF QueuedCalls
  <2>4. \A u \in Tasks : phase'[u] = IF u = h THEN "woken" ELSE IF u = t THEN p ELSE phase[u]
    BY <1>1, <2>2, <2>3 DEF TypeOK
  <2>5. \A i \in DOMAIN consumers' :
          i \in Nat /\ i # 0 /\ i + 1 \in DOMAIN consumers /\ consumers'[i] = consumers[i + 1]
    BY <2>1, <2>2, <1>4
  <2>6. \A i \in DOMAIN consumers' : consumers'[i] \in Tasks /\ consumers'[i] # h /\ consumers'[i] # t
    BY <1>2, <2>1, <2>5 DEF QueuedCalls
  <2>7. \A i \in DOMAIN consumers' : phase'[consumers'[i]] = "queued"
    BY <2>4, <2>5, <2>6 DEF QueuedCalls
  <2>8. ASSUME NEW i \in DOMAIN consumers', NEW j \in DOMAIN consumers', consumers'[i] = consumers'[j]
        PROVE  i = j
    <3>1. consumers[i + 1] = consumers[j + 1] /\ i + 1 \in DOMAIN consumers /\ j + 1 \in DOMAIN consumers
      BY <2>5, <2>8
    <3>2. i + 1 = j + 1
      BY <3>1 DEF QueuedCalls
    <3> QED
      BY <2>5, <3>2
  <2>9. QueuedCalls'
    BY <2>7, <2>8 DEF QueuedCalls
  <2> QED
    BY <2>3, <2>4, <2>9
<1> QED
  BY <1>3, <1>4

LEMMA RunKeepsPlaces ==
  ASSUME TypeOK, ClosingBounded, PlaceInv, NEW t \in Tasks, Run(t) PROVE PlaceInv'
<1> USE DEF PlaceInv
<1>1. /\ MayRun(t) /\ ~settled[t] /\ ~listening[t] /\ phase[t] \notin {"queued", "starting", "running", "over"}
      /\ closing[t] = 0
  BY DEF Run, RunAborted, RunOnIdle, RunOnNew, RunQueued, MayRun, BeforeRun, ClosingBounded
<1>2. \A i \in DOMAIN consumers : consumers[i] \in Tasks /\ consumers[i] # t
  BY <1>1 DEF TypeOK, QueuedCalls
<1>3. CASE RunAborted(t)
  <2>1. /\ UNCHANGED <<options, pools, consumers, task>>
        /\ \A u \in Tasks : phase'[u] = IF u = t THEN "over" ELSE phase[u]
    BY <1>3 DEF RunAborted, TypeOK
  <2> QED
    BY <1>1, <1>2, <2>1
    DEF options, pools, task, QueuedCalls, BeforeRun, RecordsApart, AbortedIsClosed, NoneFailed, BusyIsOwned, Owns
<1>4. CASE RunQueued(t)
  <2>1. /\ UNCHANGED <<options, pools, task>>
        /\ \A u \in Tasks : phase'[u] = IF u = t THEN "queued" ELSE phase[u]
        /\ consumers' = Append(consumers, t)
    BY <1>4 DEF RunQueued, TypeOK
  <2>2. QueuedCalls'
    <3>1. consumers \in Seq(Tasks)
      BY DEF TypeOK
    <3>2. /\ DOMAIN consumers' = DOMAIN consumers \cup {Len(consumers) + 1}
          /\ \A i \in DOMAIN consumers : consumers'[i] = consumers[i]
          /\ consumers'[Len(consumers) + 1] = t
      BY <2>1, <3>1
    <3> QED
      BY <1>2, <2>1, <3>2 DEF QueuedCalls
  <2>3. BeforeRun' /\ RecordsApart' /\ AbortedIsClosed' /\ NoneFailed' /\ BusyIsOwned'
    BY <1>1, <2>1
    DEF options, pools, task, BeforeRun, RecordsApart, AbortedIsClosed, NoneFailed, BusyIsOwned, Owns
  <2> QED
    BY <2>2, <2>3
<1>5. CASE RunOnIdle(t)
  <2>1. PICK w \in Idle(adapter[t]) : MarkBusy(w) /\ record' = [record EXCEPT ![t] = w]
    BY <1>5 DEF RunOnIdle
  <2>2. w \in pool[adapter[t]] /\ w \in Workers /\ w # None /\ adapter[t] \in Adapters
    BY <2>1, RunPoolAssumption DEF Idle, TypeOK
  <2>3. /\ UNCHANGED <<options, pool, worker, consumers, aborted, settled, listening, message, closing>>
        /\ \A u \in Tasks : /\ phase'[u] = IF u = t THEN "starting" ELSE phase[u]
                            /\ record'[u] = IF u = t THEN w ELSE record[u]
        /\ \A v \in Workers : busy'[v] = IF v = w THEN TRUE ELSE busy[v]
    BY <1>5, <2>1 DEF RunOnIdle, MarkBusy, TypeOK
  <2>4. QueuedCalls' /\ BeforeRun' /\ NoneFailed'
    BY <1>1, <1>2, <2>3 DEF options, QueuedCalls, BeforeRun, NoneFailed
  <2>5. RecordsApart'
    BY <2>2, <2>3 DEF options, RecordsApart
  <2>6. AbortedIsClosed'
    BY <1>1, <2>3 DEF options, AbortedIsClosed
  <2>7. BusyIsOwned'
    <3> SUFFICES ASSUME "start" \notin faults', NEW a \in Adapters, NEW v \in pool'[a], busy'[v]
                 PROVE  \E u \in Tasks : Owns(u, v)'
      BY DEF BusyIsOwned
    <3>1. v \in Workers /\ v \in pool[a] /\ "start" \notin faults
      BY <2>3 DEF TypeOK, options
    <3>2. CASE v = w
      BY <3>2, <2>3 DEF Owns
    <3>3. CASE v # w
      <4>1. PICK u \in Tasks : Owns(u, v)
        BY <3>1, <3>3, <2>3 DEF BusyIsOwned
      <4>2. u # t
        BY <4>1, <1>1 DEF Owns
      <4> QED
        BY <4>1, <4>2, <2>3 DEF Owns
    <3> QED
      BY <3>2, <3>3
  <2> QED
    BY <2>4, <2>5, <2>6, <2>7
<1>6. CASE RunOnNew(t)
  <2>1. PICK w \in Workers : /\ worker[w] = "none"
                             /\ pool' = [pool EXCEPT ![adapter[t]] = @ \cup {w}]
                             /\ busy' = [busy EXCEPT ![w] = TRUE]
                             /\ worker' = [worker EXCEPT ![w] = "starting"]
                             /\ record' = [record EXCEPT ![t] = w]
    BY <1>6 DEF RunOnNew
  <2>2. w # None /\ adapter[t] \in Adapters
    BY RunPoolAssumption DEF TypeOK
  <2>3. /\ UNCHANGED <<options, consumers, aborted, settled, listening, message, closing>>
        /\ \A u \in Tasks : /\ phase'[u] = IF u = t THEN "starting" ELSE phase[u]
                            /\ record'[u] = IF u = t THEN w ELSE record[u]
        /\ \A v \in Workers : /\ busy'[v] = IF v = w THEN TRUE ELSE busy[v]
                              /\ worker'[v] = IF v = w THEN "starting" ELSE worker[v]
    BY <1>6, <2>1 DEF RunOnNew, TypeOK
  <2>10. \A a \in Adapters : \A v : v \in pool'[a] <=> v \in pool[a] \/ (a = adapter[t] /\ v = w)
    BY <2>1, <2>2 DEF TypeOK
  <2>4. /\ \A a \in Adapters : w \notin pool[a]
        /\ \A u \in Tasks : record[u] # w
    BY <2>1, <2>2 DEF RecordsApart
  <2>5. /\ \A a \in Adapters : pool[a] \subseteq Workers
        /\ \A u \in Tasks : record[u] \in Workers \cup {None} /\ adapter[u] \in Adapters
    BY DEF TypeOK
  <2>6. QueuedCalls' /\ BeforeRun' /\ NoneFailed'
    BY <1>1, <1>2, <2>3 DEF options, QueuedCalls, BeforeRun, NoneFailed
  <2>7. RecordsApart'
    <3>1. adapter' = adapter
      BY <2>3 DEF options
    <3>2. \A a \in Adapters : \A v \in pool'[a] : worker'[v] # "none"
      BY <2>3, <2>5, <2>10 DEF RecordsApart
    <3>3. \A a, b \in Adapters : \A v \in pool'[a] : v \in pool'[b] => a = b
      BY <2>10, <2>4 DEF RecordsApart
    <3>4. ASSUME NEW u \in Tasks
          PROVE  /\ record'[u] # None =>
                      /\ worker'[record'[u]] # "none"
                      /\ \A a \in Adapters : record'[u] \in pool'[a] => a = adapter'[u]
                 /\ phase'[u] \in {"starting", "running"} => record'[u] # None
      <4>1. CASE u = t
        BY <4>1, <2>2, <2>3, <2>4, <2>10, <3>1
      <4>2. CASE u # t
        <5>1. record'[u] = record[u] /\ phase'[u] = phase[u] /\ record[u] # w /\ adapter'[u] = adapter[u]
          BY <4>2, <2>3, <2>4, <3>1
        <5>2. record[u] # None => worker'[record[u]] = worker[record[u]]
          BY <2>3, <2>5, <5>1
        <5> QED
          BY <5>1, <5>2, <2>10 DEF RecordsApart
      <4> QED
        BY <4>1, <4>2
    <3> QED
      BY <3>2, <3>3, <3>4 DEF RecordsApart
  <2>8. AbortedIsClosed'
    BY <1>1, <2>3, <2>4, <2>5, <2>10 DEF options, AbortedIsClosed
  <2>9. BusyIsOwned'
    <3> SUFFICES ASSUME "start" \notin faults', NEW a \in Adapters, NEW v \in pool'[a], busy'[v]
                 PROVE  \E u \in Tasks : Owns(u, v)'
      BY DEF BusyIsOwned
    <3>1. CASE v = w
      BY <3>1, <2>3 DEF Owns
    <3>2. CASE v # w
      <4>1. v \in pool[a] /\ v \in Workers /\ busy[v] /\ "start" \notin faults
        BY <3>2, <2>3, <2>5, <2>10 DEF options
      <4>2. PICK u \in Tasks : Owns(u, v)
        BY <4>1 DEF BusyIsOwned
      <4>3. u # t
        BY <4>2, <1>1 DEF Owns
      <4> QED
        BY <4>2, <4>3, <2>3 DEF Owns
    <3> QED
      BY <3>1, <3>2
  <2> QED
    BY <2>6, <2>7, <2>8, <2>9
<1> QED
  BY <1>3, <1>4, <1>5, <1>6 DEF Run

\* A step that makes no record and no call start keeps the places, when what it
\* takes from the owner of a record it also takes from the pool, or marks idle.
LEMMA FramePlaces ==
  ASSUME TypeOK, PlaceInv, UNCHANGED <<options, record>>,
         \A a \in Adapters : \A v : v \in pool'[a] => v \in pool[a],
         \A v \in Workers : worker[v] # "none" => worker'[v] # "none",
         \A v \in Workers : busy'[v] => busy[v],
         \A u \in Tasks : phase'[u] \in {"starting", "running"} => phase[u] \in {"starting", "running"},
         QueuedCalls', BeforeRun', AbortedIsClosed', NoneFailed',
         \A u \in Tasks, a \in Adapters, v \in Workers :
           "start" \notin faults /\ Owns(u, v) /\ v \in pool'[a] /\ busy'[v] =>
             phase'[u] \in {"starting", "running"} \/ closing'[u] > 0
  PROVE  PlaceInv'
<1> USE DEF PlaceInv
<1>1. adapter' = adapter /\ faults' = faults /\ record' = record
  BY DEF options
<1>2. /\ \A a \in Adapters : pool[a] \subseteq Workers
      /\ \A u \in Tasks : record[u] # None => record[u] \in Workers
  BY DEF TypeOK
<1>3. RecordsApart'
  BY <1>1, <1>2 DEF RecordsApart
<1>4. BusyIsOwned'
  <2> SUFFICES ASSUME "start" \notin faults, NEW a \in Adapters, NEW v \in pool'[a], busy'[v]
               PROVE  \E u \in Tasks : Owns(u, v)'
    BY <1>1 DEF BusyIsOwned
  <2>1. v \in pool[a] /\ v \in Workers /\ busy[v]
    BY <1>2
  <2>2. PICK u \in Tasks : Owns(u, v)
    BY <2>1 DEF BusyIsOwned
  <2>3. phase'[u] \in {"starting", "running"} \/ closing'[u] > 0
    BY <2>1, <2>2
  <2>4. record'[u] = v
    BY <1>1, <2>2 DEF Owns
  <2> QED
    BY <2>3, <2>4 DEF Owns
<1> QED
  BY <1>3, <1>4

\* The end of a task marks its record idle, or has terminate() closed behind it.
LEMMA FinishKeepsPlaces ==
  ASSUME TypeOK, ClosingBounded, PlaceInv, NEW t \in Tasks, Finish(t),
         phase[t] \notin {"idle", "queued", "woken"}, UNCHANGED <<options, record>>
  PROVE  PlaceInv'
<1> USE DEF PlaceInv
<1>1. CASE keepAlive[t]
  <2>1. /\ settled' = [settled EXCEPT ![t] = TRUE] /\ busy' = Released(t)
        /\ listening' = [listening EXCEPT ![t] = FALSE]
        /\ UNCHANGED <<pool, worker, closing>>
        /\ WakeHead([phase EXCEPT ![t] = "over"])
    BY <1>1 DEF Finish, CloseKept
  <2>2. /\ QueuedCalls' /\ phase'[t] = "over"
        /\ \A u \in Tasks \ {t} : \/ phase'[u] = phase[u]
                                  \/ phase[u] = "queued" /\ phase'[u] = "woken"
    BY <2>1, WakeHeadEffect
  <2>3. \A u \in Tasks : /\ settled'[u] = IF u = t THEN TRUE ELSE settled[u]
                         /\ listening'[u] = IF u = t THEN FALSE ELSE listening[u]
    BY <2>1 DEF TypeOK
  <2>4. \A v \in Workers : busy'[v] = IF v = record[t] THEN FALSE ELSE busy[v]
    BY <2>1 DEF Released, TypeOK
  <2>5. BeforeRun'
    BY <2>2, <2>3 DEF BeforeRun
  <2>6. AbortedIsClosed'
    BY <2>1, <2>2, <2>3 DEF AbortedIsClosed, options
  <2>7. NoneFailed'
    BY <2>1 DEF NoneFailed, options
  <2>8. ASSUME NEW u \in Tasks, NEW v \in Workers, Owns(u, v), busy'[v]
        PROVE  phase'[u] \in {"starting", "running"} \/ closing'[u] > 0
    BY <2>1, <2>2, <2>4, <2>8 DEF Owns
  <2> QED
    BY <2>1, <2>2, <2>4, <2>5, <2>6, <2>7, <2>8, FramePlaces
<1>2. CASE ~keepAlive[t]
  <2>1. /\ settled' = [settled EXCEPT ![t] = TRUE]
        /\ worker' = [worker EXCEPT ![record[t]] = "stopped"]
        /\ closing' = [closing EXCEPT ![t] = @ + 1]
        /\ UNCHANGED <<pool, busy, listening, phase, consumers>>
    BY <1>2 DEF Finish, Terminate
  <2>2. \A u \in Tasks : /\ settled'[u] = IF u = t THEN TRUE ELSE settled[u]
                         /\ u # t => closing'[u] = closing[u]
    BY <2>1 DEF TypeOK
  <2>8. closing'[t] > 0
    <3>1. closing[t] \in 0 .. 2 /\ closing'[t] = closing[t] + 1
      BY <2>1 DEF TypeOK
    <3> QED
      BY <3>1
  <2>3. \A v \in Workers : worker'[v] = IF v = record[t] THEN "stopped" ELSE worker[v]
    BY <2>1 DEF TypeOK
  <2>4. QueuedCalls' /\ BeforeRun'
    BY <2>1, <2>2 DEF QueuedCalls, BeforeRun
  <2>5. AbortedIsClosed'
    BY <2>1, <2>2, <2>8 DEF AbortedIsClosed, options
  <2>6. NoneFailed'
    BY <2>3 DEF NoneFailed, options
  <2>7. ASSUME NEW u \in Tasks, NEW v \in Workers, Owns(u, v)
        PROVE  phase'[u] \in {"starting", "running"} \/ closing'[u] > 0
    BY <2>1, <2>2, <2>7, <2>8 DEF Owns
  <2> QED
    BY <2>1, <2>3, <2>4, <2>5, <2>6, <2>7, FramePlaces
<1> QED
  BY <1>1, <1>2

\* A call whose record leaves the pool, and that may wake the next one.
LEMMA LeaveKeepsPlaces ==
  ASSUME TypeOK, PlaceInv, NEW t \in Tasks, Close(t) \/ Die(t), settled'[t],
         phase[t] \notin {"idle", "queued", "woken"}
  PROVE  PlaceInv'
<1> USE DEF PlaceInv
<1>1. PICK p \in {"starting", "over"} :
        /\ WakeHead([phase EXCEPT ![t] = p])
        /\ p = "starting" => phase[t] = "starting"
  <2>1. CASE Die(t)
    BY <2>1 DEF Die
  <2>2. CASE Close(t)
    <3>1. CASE phase[t] = "starting"
      <4>1. WakeHead([phase EXCEPT ![t] = "starting"])
        BY <2>2, <3>1 DEF Close
      <4> QED
        BY <3>1, <4>1
    <3>2. CASE phase[t] # "starting"
      BY <2>2, <3>2 DEF Close
    <3> QED
      BY <3>1, <3>2
  <2> QED
    BY <2>1, <2>2
<1>2. /\ QueuedCalls' /\ phase'[t] = p
      /\ \A u \in Tasks \ {t} : \/ phase'[u] = phase[u]
                                \/ phase[u] = "queued" /\ phase'[u] = "woken"
  BY <1>1, WakeHeadEffect
<1>3. /\ pool' = WithoutRecord(t)
      /\ UNCHANGED <<options, busy, record, listening>>
      /\ \A u \in Tasks \ {t} : settled'[u] = settled[u] /\ closing'[u] = closing[u]
      /\ \A v \in Workers : worker'[v] = worker[v] \/ worker'[v] = "stopped"
  BY DEF Close, Die, TypeOK
<1>4. /\ adapter[t] \in Adapters
      /\ \A a \in Adapters : \A v : v \in pool'[a] <=> v \in pool[a] /\ ~(a = adapter[t] /\ v = record[t])
  BY <1>3 DEF WithoutRecord, TypeOK
<1>5. \A a \in Adapters : record[t] # None => record[t] \notin pool'[a]
  BY <1>4 DEF RecordsApart
<1>6. BeforeRun'
  BY <1>2, <1>3, <1>1 DEF BeforeRun
<1>7. AbortedIsClosed'
  BY <1>2, <1>3, <1>4 DEF AbortedIsClosed, options, TypeOK
<1>8. NoneFailed'
  BY <1>3 DEF NoneFailed, options
<1>9. ASSUME NEW u \in Tasks, NEW a \in Adapters, NEW v \in Workers, Owns(u, v), v \in pool'[a]
      PROVE  phase'[u] \in {"starting", "running"} \/ closing'[u] > 0
  <2>1. u # t
    BY <1>5, <1>9, RunPoolAssumption DEF Owns
  <2> QED
    BY <1>2, <1>3, <1>9, <2>1 DEF Owns
<1> QED
  BY <1>1, <1>2, <1>3, <1>4, <1>6, <1>7, <1>8, <1>9, FramePlaces

LEMMA PlaceInductive == Spec => []PlaceInv
<1>1. Init => PlaceInv
  <2> SUFFICES ASSUME Init PROVE PlaceInv
    OBVIOUS
  <2>1. DOMAIN consumers = {}
    BY DEF Init
  <2>2. /\ \A a \in Adapters : pool[a] = {}
        /\ \A w \in Workers : worker[w] = "none"
        /\ \A t \in Tasks : /\ phase[t] = "idle" /\ record[t] = None
                            /\ ~settled[t] /\ ~listening[t]
    BY DEF Init
  <2> QED
    BY <2>1, <2>2
    DEF PlaceInv, QueuedCalls, BeforeRun, RecordsApart, AbortedIsClosed, NoneFailed, BusyIsOwned
<1>2. TypeOK /\ ClosingBounded /\ TypeOK' /\ PlaceInv /\ [Next]_vars => PlaceInv'
  <2> SUFFICES ASSUME TypeOK, ClosingBounded, TypeOK', PlaceInv, [Next]_vars PROVE PlaceInv'
    OBVIOUS
  <2> USE DEF PlaceInv
  <2>1. ASSUME NEW t \in Tasks, Run(t) PROVE PlaceInv'
    BY <2>1, RunKeepsPlaces
  <2>2. ASSUME NEW t \in Tasks, Start(t) PROVE PlaceInv'
    <3>1. /\ phase[t] = "starting" /\ ~settled[t]
          /\ UNCHANGED <<options, pools, consumers, record, aborted, settled, message, closing>>
          /\ \A u \in Tasks : /\ phase'[u] = IF u = t THEN "running" ELSE phase[u]
                              /\ listening'[u] = IF u = t THEN TRUE ELSE listening[u]
      BY <2>2 DEF Start, Started, TypeOK
    <3>2. QueuedCalls'
      <4>1. \A i \in DOMAIN consumers : consumers[i] \in Tasks /\ consumers[i] # t
        BY <3>1 DEF QueuedCalls, TypeOK
      <4>2. consumers' = consumers
        BY <3>1
      <4> QED
        BY <3>1, <4>1, <4>2 DEF QueuedCalls
    <3>4. BeforeRun'
      BY <3>1 DEF BeforeRun
    <3>3. AbortedIsClosed' /\ NoneFailed'
      BY <3>1 DEF AbortedIsClosed, NoneFailed, options, pools
    <3> QED
      BY <3>1, <3>2, <3>3, <3>4, FramePlaces DEF pools, Owns
  <2>3. ASSUME NEW t \in Tasks, StartAborted(t) PROVE PlaceInv'
    <3>1. /\ phase[t] = "starting" /\ settled[t]
          /\ UNCHANGED <<options, pool, busy, consumers, task>>
          /\ \A u \in Tasks : phase'[u] = IF u = t THEN "over" ELSE phase[u]
          /\ \A v \in Workers : worker'[v] = worker[v] \/ worker'[v] = "stopped"
      BY <2>3 DEF StartAborted, Started, TypeOK
    <3>2. QueuedCalls' /\ BeforeRun'
      BY <3>1 DEF QueuedCalls, BeforeRun, task, TypeOK
    <3>3. AbortedIsClosed' /\ NoneFailed'
      BY <3>1 DEF AbortedIsClosed, NoneFailed, options, task
    <3>4. closing[t] > 0 \/ \A a \in Adapters : record[t] # None => record[t] \notin pool[a]
      BY <3>1 DEF AbortedIsClosed, RecordsApart
    <3> QED
      BY <3>1, <3>2, <3>3, <3>4, FramePlaces, RunPoolAssumption DEF task, Owns
  <2>4. ASSUME NEW t \in Tasks, StartUnposted(t) PROVE PlaceInv'
    BY <2>4, FinishKeepsPlaces DEF StartUnposted, Started
  <2>5. ASSUME NEW t \in Tasks, StartFailed(t) PROVE PlaceInv'
    <3>1. /\ phase[t] = "starting" /\ worker[record[t]] = "failed"
          /\ UNCHANGED <<options, pools, consumers, task>>
          /\ \A u \in Tasks : phase'[u] = IF u = t THEN "over" ELSE phase[u]
      BY <2>5 DEF StartFailed, TypeOK
    <3>2. "start" \in faults
      <4>1. record[t] \in Workers
        BY <3>1 DEF RecordsApart, TypeOK
      <4> QED
        BY <3>1, <4>1 DEF NoneFailed
    <3>3. QueuedCalls' /\ BeforeRun'
      BY <3>1 DEF QueuedCalls, BeforeRun, task, TypeOK
    <3>4. AbortedIsClosed' /\ NoneFailed'
      BY <3>1 DEF AbortedIsClosed, NoneFailed, options, pools, task
    <3> QED
      BY <3>1, <3>2, <3>3, <3>4, FramePlaces DEF pools, task
  <2>6. ASSUME NEW t \in Tasks, Deliver(t) PROVE PlaceInv'
    BY <2>6, FinishKeepsPlaces DEF Deliver, BeforeRun
  <2>7. ASSUME NEW t \in Tasks, Close(t) PROVE PlaceInv'
    <3>1. settled[t] /\ settled'[t] /\ phase[t] \notin {"idle", "queued", "woken"}
      BY <2>7 DEF Close, ClosingBounded, BeforeRun
    <3> QED
      BY <2>7, <3>1, LeaveKeepsPlaces
  <2>8. ASSUME NEW t \in Tasks, Abort(t) PROVE PlaceInv'
    <3>1. /\ phase[t] \in {"starting", "running"}
          /\ UNCHANGED <<options, pool, busy, consumers, phase, record, listening>>
          /\ \A u \in Tasks \ {t} : settled'[u] = settled[u] /\ closing'[u] = closing[u]
          /\ \A v \in Workers : worker'[v] = worker[v] \/ worker'[v] = "stopped"
      BY <2>8 DEF Abort, Abortable, Terminate, TypeOK
    <3>2. closing'[t] > 0
      <4>1. closing[t] \in 0 .. 2 /\ closing'[t] = closing[t] + 1
        BY <2>8 DEF Abort, Terminate, TypeOK
      <4> QED
        BY <4>1
    <3>3. QueuedCalls' /\ BeforeRun'
      BY <3>1 DEF QueuedCalls, BeforeRun
    <3>4. AbortedIsClosed' /\ NoneFailed'
      BY <3>1, <3>2 DEF AbortedIsClosed, NoneFailed, options
    <3> QED
      BY <3>1, <3>2, <3>3, <3>4, FramePlaces DEF Owns
  <2>9. ASSUME NEW t \in Tasks, Die(t) PROVE PlaceInv'
    <3>1. phase[t] = "running" /\ settled'[t]
      BY <2>9 DEF Die, TypeOK
    <3> QED
      BY <2>9, <3>1, LeaveKeepsPlaces
  <2>10. ASSUME NEW t \in Tasks, AbortWaiting(t) \/ Post(t) PROVE PlaceInv'
    <3>1. UNCHANGED <<options, pools, consumers, phase, record, settled, listening, closing>>
      BY <2>10 DEF AbortWaiting, Post
    <3> QED
      BY <3>1 DEF QueuedCalls, BeforeRun, RecordsApart, AbortedIsClosed, NoneFailed, BusyIsOwned,
         Owns, options, pools
  <2>11. ASSUME NEW w \in Workers, Ready(w) \/ FailToStart(w) PROVE PlaceInv'
    <3>1. /\ UNCHANGED <<options, pool, busy, consumers, phase, task>>
          /\ \A v \in Workers : worker'[v] = worker[v] \/ (v = w /\ worker'[v] \in {"ready", "failed"})
          /\ "start" \notin faults => worker'[w] = "ready"
      BY <2>11 DEF Ready, FailToStart, TypeOK
    <3>2. QueuedCalls' /\ BeforeRun' /\ AbortedIsClosed' /\ NoneFailed'
      BY <3>1 DEF QueuedCalls, BeforeRun, AbortedIsClosed, NoneFailed, options, task
    <3> QED
      BY <3>1, <3>2, FramePlaces DEF task, Owns
  <2>12. ASSUME NEW b \in Adapters, Collect(b) PROVE PlaceInv'
    <3>1. PICK w \in Idle(b) : /\ pool' = [pool EXCEPT ![b] = @ \ {w}]
                               /\ worker' = [worker EXCEPT ![w] = "stopped"]
      BY <2>12 DEF Collect, Unused
    <3>2. /\ \A a \in Adapters : \A v : v \in pool'[a] => v \in pool[a]
          /\ \A v \in Workers : worker'[v] = worker[v] \/ worker'[v] = "stopped"
      BY <3>1 DEF TypeOK
    <3>3. UNCHANGED <<options, busy, consumers, phase, task>>
      BY <2>12 DEF Collect
    <3>4. adapter \in [Tasks -> Adapters]
      BY DEF TypeOK
    <3>5. QueuedCalls' /\ BeforeRun' /\ AbortedIsClosed' /\ NoneFailed'
      BY <3>2, <3>3, <3>4 DEF QueuedCalls, BeforeRun, AbortedIsClosed, NoneFailed, options, task
    <3> QED
      BY <3>2, <3>3, <3>5, FramePlaces DEF task, Owns
  <2>13. CASE UNCHANGED vars
    BY <2>13 DEF QueuedCalls, BeforeRun, RecordsApart, AbortedIsClosed, NoneFailed, BusyIsOwned,
       Owns, vars, options, pools, task
  <2> QED
    BY <2>1, <2>2, <2>3, <2>4, <2>5, <2>6, <2>7, <2>8, <2>9, <2>10, <2>11, <2>12, <2>13 DEF Next
<1> QED
  BY <1>1, <1>2, TypeInductive, PTL DEF Spec

\* No place of the pool is lost: a busy record belongs to a call that is going
\* to give it back, or to take it out of the pool.
THEOREM NoPlaceKept == Spec => []NoPlaceLost
<1>1. PlaceInv => NoPlaceLost
  BY DEF PlaceInv, BusyIsOwned, NoPlaceLost, Owns
<1> QED
  BY <1>1, PlaceInductive, PTL

-----------------------------------------------------------------------------
(* Nobody is stuck. *)

Woken == {t \in Tasks : phase[t] = "woken"}
BusyIn(a) == {w \in pool[a] : busy[w]}

QueuedWait == \A t \in Tasks : phase[t] = "queued" => \E i \in DOMAIN consumers : consumers[i] = t

\* While calls are queued, each place of the pool is taken by a busy worker, or
\* is the one for which a call was woken.  That nobody is stuck is not inductive
\* without this count: several places may be given back before the first of the
\* woken calls runs, and a call that comes in between may take one.
PlacesTaken ==
  OneAdapter /\ "wait" \notin faults /\ consumers # << >> =>
    \A t \in Tasks : maxWorkers <= Cardinality(BusyIn(adapter[t])) + Cardinality(Woken)

SlotInv == /\ QueuedWait /\ PlacesTaken /\ IsFiniteSet(Woken)
           /\ "wait" \notin faults => \A t \in Tasks : ~aborted[t]

\* What two counts say of each other.
LEMMA OneMore ==
  ASSUME NEW B, NEW C, NEW x, IsFiniteSet(B), IsFiniteSet(C), x \notin B, B \cup {x} \subseteq C
  PROVE  Cardinality(B) \in Nat /\ Cardinality(C) \in Nat /\ Cardinality(B) + 1 <= Cardinality(C)
<1>1. IsFiniteSet(B \cup {x}) /\ Cardinality(B \cup {x}) = Cardinality(B) + 1
  BY FS_AddElement
<1>2. Cardinality(B \cup {x}) <= Cardinality(C)
  BY FS_Subset
<1> QED
  BY <1>1, <1>2, FS_CardinalityType

LEMMA OneLess ==
  ASSUME NEW B, NEW C, NEW x, IsFiniteSet(B), IsFiniteSet(C), B \subseteq C \cup {x}
  PROVE  Cardinality(B) \in Nat /\ Cardinality(C) \in Nat /\ Cardinality(B) <= Cardinality(C) + 1
<1>1. IsFiniteSet(C \cup {x}) /\ Cardinality(C \cup {x}) <= Cardinality(C) + 1
  <2>1. Cardinality(C) \in Nat
    BY FS_CardinalityType
  <2>2. IsFiniteSet(C \cup {x}) /\ (Cardinality(C \cup {x}) = Cardinality(C) \/ Cardinality(C \cup {x}) = Cardinality(C) + 1)
    BY FS_AddElement
  <2> QED
    BY <2>1, <2>2
<1>2. Cardinality(B) <= Cardinality(C \cup {x})
  BY <1>1, FS_Subset
<1> QED
  BY <1>1, <1>2, FS_CardinalityType

LEMMA BusyFinite ==
  ASSUME NEW P, NEW b, IsFiniteSet(P)
  PROVE  IsFiniteSet({w \in P : b[w]}) /\ Cardinality({w \in P : b[w]}) \in Nat
<1>1. {w \in P : b[w]} \subseteq P
  OBVIOUS
<1> QED
  BY <1>1, FS_Subset, FS_CardinalityType

\* Steps that leave the queue as it is, or shorten it, and take no place
\* without waking somebody for it.
LEMMA SlotFrame ==
  ASSUME SlotInv, UNCHANGED <<options, aborted>>, QueuedWait', IsFiniteSet(Woken'),
         TypeOK, PoolsCounted, TypeOK', PoolsCounted',
         consumers' # << >> => consumers # << >>,
         OneAdapter /\ consumers' # << >> =>
           \A t \in Tasks : Cardinality(BusyIn(adapter[t])) + Cardinality(Woken)
                              <= Cardinality(BusyIn(adapter[t])') + Cardinality(Woken')
  PROVE  SlotInv'
<1>1. /\ adapter' = adapter /\ faults' = faults /\ maxWorkers' = maxWorkers /\ aborted' = aborted
      /\ OneAdapter' <=> OneAdapter
  BY DEF options, OneAdapter
<1>2. PlacesTaken'
  <2> SUFFICES ASSUME OneAdapter, "wait" \notin faults, consumers' # << >>, NEW t \in Tasks
               PROVE  maxWorkers <= Cardinality(BusyIn(adapter[t])') + Cardinality(Woken')
    BY <1>1 DEF PlacesTaken, BusyIn
  <2>1. maxWorkers <= Cardinality(BusyIn(adapter[t])) + Cardinality(Woken)
    BY DEF SlotInv, PlacesTaken
  <2>2. /\ Cardinality(BusyIn(adapter[t])) + Cardinality(Woken)
             <= Cardinality(BusyIn(adapter[t])') + Cardinality(Woken')
    OBVIOUS
  <2>3. adapter[t] \in Adapters /\ maxWorkers \in Nat
    BY RunPoolAssumption DEF TypeOK
  <2>4. Cardinality(BusyIn(adapter[t])) \in Nat /\ Cardinality(BusyIn(adapter[t])') \in Nat
    BY <1>1, <2>3, BusyFinite DEF BusyIn, PoolsCounted
  <2>5. Cardinality(Woken) \in Nat /\ Cardinality(Woken') \in Nat
    BY FS_CardinalityType DEF SlotInv
  <2> QED
    BY <2>1, <2>2, <2>3, <2>4, <2>5
<1> QED
  BY <1>1, <1>2 DEF SlotInv

\* The head of the queue is woken.
LEMMA WakeHeadCounts ==
  ASSUME TypeOK, QueuedCalls, QueuedWait, IsFiniteSet(Woken),
         NEW t \in Tasks, phase[t] \notin {"queued", "woken"}, NEW p \in {"starting", "over"},
         WakeHead([phase EXCEPT ![t] = p])
  PROVE  /\ QueuedWait' /\ IsFiniteSet(Woken')
         /\ consumers' # << >> => consumers # << >>
         /\ consumers # << >> => Cardinality(Woken) + 1 <= Cardinality(Woken')
<1>1. phase'[t] = p /\ \A u \in Tasks \ {t} : phase'[u] = phase[u] \/ (phase[u] = "queued" /\ phase'[u] = "woken")
  BY WakeHeadEffect
<1>2. CASE consumers = << >>
  <2>1. consumers' = consumers /\ phase' = [phase EXCEPT ![t] = p]
    BY <1>2 DEF WakeHead
  <2>2. Woken' = Woken
    BY <2>1 DEF Woken, TypeOK
  <2>3. QueuedWait'
    BY <2>1 DEF QueuedWait, TypeOK
  <2> QED
    BY <1>2, <2>1, <2>2, <2>3
<1>3. CASE consumers # << >>
  <2> DEFINE h == Head(consumers)
  <2>1. /\ consumers \in Seq(Tasks) /\ h = consumers[1] /\ 1 \in DOMAIN consumers
        /\ DOMAIN consumers = 1 .. Len(consumers) /\ Len(consumers) \in Nat /\ h \in Tasks
    BY <1>3 DEF TypeOK
  <2>2. phase[h] = "queued" /\ h # t
    BY <2>1 DEF QueuedCalls
  <2>3. consumers' = Tail(consumers) /\ phase' = [[phase EXCEPT ![t] = p] EXCEPT ![h] = "woken"]
    BY <1>3 DEF WakeHead
  <2>4. phase'[h] = "woken" /\ \A u \in Tasks \ {t, h} : phase'[u] = phase[u]
    BY <2>1, <2>3 DEF TypeOK
  <2>5. /\ \A u : u \in Woken => u # t
        /\ \A u \in Tasks : phase'[u] = "woken" <=> phase[u] = "woken" \/ u = h
    BY <1>1, <2>2, <2>4 DEF Woken
  <2>6. Woken' = Woken \cup {h} /\ h \notin Woken
    BY <2>1, <2>2, <2>5 DEF Woken
  <2>7. IsFiniteSet(Woken') /\ Cardinality(Woken) + 1 <= Cardinality(Woken')
    BY <2>6, FS_AddElement, OneMore
  <2>8. QueuedWait'
    <3> SUFFICES ASSUME NEW u \in Tasks, phase'[u] = "queued"
                 PROVE  \E i \in DOMAIN consumers' : consumers'[i] = u
      BY DEF QueuedWait
    <3>1. phase[u] = "queued" /\ u # h
      BY <1>1, <2>4
    <3>2. PICK i \in DOMAIN consumers : consumers[i] = u
      BY <3>1 DEF QueuedWait
    <3>3. i \in 2 .. Len(consumers)
      BY <2>1, <3>1, <3>2
    <3>4. i - 1 \in DOMAIN consumers' /\ consumers'[i - 1] = consumers[i]
      BY <2>1, <2>3, <3>3, <1>3
    <3> QED
      BY <3>2, <3>4
  <2> QED
    BY <1>3, <2>7, <2>8
<1> QED
  BY <1>2, <1>3

\* A record is given back, or leaves the pool, and the head of the queue is woken for it.
LEMMA GiveBack ==
  ASSUME TypeOK, TypeOK', PoolsCounted, PoolsCounted', PlaceInv, SlotInv, UNCHANGED <<options, aborted>>,
         NEW t \in Tasks, phase[t] \notin {"queued", "woken"}, NEW p \in {"starting", "over"},
         WakeHead([phase EXCEPT ![t] = p]),
         NEW r, \A a \in Adapters : BusyIn(a) \subseteq BusyIn(a)' \cup {r}
  PROVE  SlotInv'
<1>1. /\ QueuedWait' /\ IsFiniteSet(Woken')
      /\ consumers' # << >> => consumers # << >>
      /\ consumers # << >> => Cardinality(Woken) + 1 <= Cardinality(Woken')
  BY WakeHeadCounts DEF PlaceInv, SlotInv
<1>2. ASSUME consumers # << >>, NEW u \in Tasks
      PROVE  Cardinality(BusyIn(adapter[u])) + Cardinality(Woken)
               <= Cardinality(BusyIn(adapter[u])') + Cardinality(Woken')
  <2>1. adapter[u] \in Adapters /\ adapter' = adapter
    BY DEF TypeOK, options
  <2>2. IsFiniteSet(BusyIn(adapter[u])) /\ IsFiniteSet(BusyIn(adapter[u])')
    BY <2>1, BusyFinite DEF BusyIn, PoolsCounted
  <2> DEFINE B == BusyIn(adapter[u])  C == BusyIn(adapter[u])'
  <2>3. B \subseteq C \cup {r}
    BY <2>1
  <2>4. Cardinality(B) \in Nat /\ Cardinality(C) \in Nat /\ Cardinality(B) <= Cardinality(C) + 1
    <3> HIDE DEF B, C
    <3>1. IsFiniteSet(B) /\ IsFiniteSet(C)
      BY <2>2 DEF B, C
    <3> QED
      BY <2>3, <3>1, OneLess
  <2>5. Cardinality(Woken) \in Nat /\ Cardinality(Woken') \in Nat
    BY <1>1, FS_CardinalityType DEF SlotInv
  <2> QED
    BY <1>1, <1>2, <2>4, <2>5
<1> QED
  BY <1>1, <1>2, SlotFrame

\* Steps that have nothing to do with the queue and the places.
LEMMA SlotsUntouched ==
  ASSUME TypeOK, TypeOK', PoolsCounted, PoolsCounted', SlotInv, UNCHANGED <<options, consumers>>,
         \A a \in Adapters : BusyIn(a)' = BusyIn(a),
         \A u \in Tasks : /\ phase'[u] = "queued" <=> phase[u] = "queued"
                          /\ phase'[u] = "woken" <=> phase[u] = "woken",
         "wait" \in faults \/ aborted' = aborted
  PROVE  SlotInv'
<1>1. Woken' = Woken
  BY DEF Woken
<1>2. adapter' = adapter /\ \A t \in Tasks : BusyIn(adapter[t])' = BusyIn(adapter[t])
  BY DEF options, TypeOK
<1>3. QueuedWait'
  BY DEF SlotInv, QueuedWait
<1>4. PlacesTaken'
  <2>1. faults' = faults /\ maxWorkers' = maxWorkers /\ OneAdapter' = OneAdapter
    BY DEF options, OneAdapter
  <2> QED
    BY <1>1, <1>2, <2>1 DEF SlotInv, PlacesTaken
<1>5. "wait" \notin faults' => \A t \in Tasks : ~aborted'[t]
  BY DEF SlotInv, options
<1> QED
  BY <1>1, <1>3, <1>4, <1>5 DEF SlotInv

LEMMA RunKeepsSlots ==
  ASSUME TypeOK, TypeOK', PoolsCounted, PoolsCounted', PlaceInv, SlotInv, NEW t \in Tasks, Run(t)
  PROVE  SlotInv'
<1>1. phase[t] \in {"idle", "woken"} /\ t \notin {u \in Tasks : phase[u] = "queued"} /\ adapter[t] \in Adapters
  BY DEF Run, RunAborted, RunOnIdle, RunOnNew, RunQueued, MayRun, TypeOK
<1>2. ASSUME \A u \in Tasks \ {t} : phase'[u] = phase[u], phase'[t] # "woken"
      PROVE  Woken' = Woken \ {t} /\ IsFiniteSet(Woken') /\ Cardinality(Woken) <= Cardinality(Woken') + 1
             /\ Cardinality(Woken) \in Nat /\ Cardinality(Woken') \in Nat
  <2>1. Woken' = Woken \ {t}
    BY <1>2 DEF Woken
  <2>2. IsFiniteSet(Woken) /\ IsFiniteSet(Woken')
    BY <2>1, FS_Subset DEF SlotInv
  <2>3. Woken \subseteq Woken' \cup {t}
    BY <2>1
  <2> QED
    BY <2>1, <2>2, <2>3, OneLess
<1>3. CASE RunAborted(t)
  <2>1. /\ UNCHANGED <<options, pools, consumers, task>> /\ aborted[t]
        /\ \A u \in Tasks : phase'[u] = IF u = t THEN "over" ELSE phase[u]
    BY <1>3 DEF RunAborted, TypeOK
  <2>2. "wait" \in faults /\ faults' = faults
    BY <2>1 DEF SlotInv, options
  <2>3. QueuedWait'
    BY <2>1 DEF SlotInv, QueuedWait
  <2> QED
    BY <1>2, <2>1, <2>2, <2>3 DEF SlotInv, PlacesTaken
\* The call takes a place, for which it may have been woken.
<1>4. ASSUME UNCHANGED <<options, consumers, aborted>>,
             \A u \in Tasks : phase'[u] = IF u = t THEN "starting" ELSE phase[u],
             NEW w, w \notin BusyIn(adapter[t]), BusyIn(adapter[t]) \cup {w} \subseteq BusyIn(adapter[t])'
      PROVE  SlotInv'
  <2>1. QueuedWait'
    BY <1>4 DEF SlotInv, QueuedWait
  <2>2. IsFiniteSet(Woken') /\ Cardinality(Woken) <= Cardinality(Woken') + 1
        /\ Cardinality(Woken) \in Nat /\ Cardinality(Woken') \in Nat
    BY <1>2, <1>4
  <2>3. IsFiniteSet(BusyIn(adapter[t])) /\ IsFiniteSet(BusyIn(adapter[t])')
    BY <1>1, <1>4, BusyFinite DEF BusyIn, PoolsCounted, options
  <2>4. /\ Cardinality(BusyIn(adapter[t])) \in Nat /\ Cardinality(BusyIn(adapter[t])') \in Nat
        /\ Cardinality(BusyIn(adapter[t])) + 1 <= Cardinality(BusyIn(adapter[t])')
    <3> DEFINE B == BusyIn(adapter[t])  C == BusyIn(adapter[t])'
    <3>1. IsFiniteSet(B) /\ IsFiniteSet(C) /\ w \notin B /\ B \cup {w} \subseteq C
      BY <1>4, <2>3
    <3> HIDE DEF B, C
    <3>2. Cardinality(B) \in Nat /\ Cardinality(C) \in Nat /\ Cardinality(B) + 1 <= Cardinality(C)
      BY <3>1, OneMore
    <3> QED
      BY <3>2 DEF B, C
  <2>5. ASSUME OneAdapter, NEW u \in Tasks
        PROVE  Cardinality(BusyIn(adapter[u])) + Cardinality(Woken)
                 <= Cardinality(BusyIn(adapter[u])') + Cardinality(Woken')
    <3>1. adapter[u] = adapter[t] /\ adapter'[u] = adapter'[t]
      BY <1>4, <2>5 DEF OneAdapter, options
    <3>2. BusyIn(adapter[u]) = BusyIn(adapter[t]) /\ BusyIn(adapter[u])' = BusyIn(adapter[t])'
      BY <3>1 DEF BusyIn
    <3> QED
      BY <2>2, <2>4, <3>2
  <2> QED
    BY <1>4, <2>1, <2>2, <2>5, SlotFrame
<1>5. CASE RunOnIdle(t)
  <2>1. PICK w \in Idle(adapter[t]) : busy' = [busy EXCEPT ![w] = TRUE]
    BY <1>5 DEF RunOnIdle, MarkBusy
  <2>2. w \in pool[adapter[t]] /\ ~busy[w] /\ w \in Workers /\ pool[adapter[t]] \subseteq Workers
    BY <1>1, <2>1 DEF Idle, TypeOK
  <2>3. UNCHANGED <<options, pool, consumers, aborted>> /\ adapter' = adapter
    BY <1>5 DEF RunOnIdle, options
  <2>4. w \notin BusyIn(adapter[t]) /\ BusyIn(adapter[t]) \cup {w} \subseteq BusyIn(adapter[t])'
    BY <2>1, <2>2, <2>3 DEF BusyIn, TypeOK
  <2>5. \A u \in Tasks : phase'[u] = IF u = t THEN "starting" ELSE phase[u]
    BY <1>5 DEF RunOnIdle, TypeOK
  <2> QED
    BY <1>4, <2>3, <2>4, <2>5
<1>6. CASE RunOnNew(t)
  <2>1. PICK w \in Workers : /\ worker[w] = "none"
                             /\ pool' = [pool EXCEPT ![adapter[t]] = @ \cup {w}]
                             /\ busy' = [busy EXCEPT ![w] = TRUE]
    BY <1>6 DEF RunOnNew
  <2>2. w \notin pool[adapter[t]] /\ pool[adapter[t]] \subseteq Workers
    BY <1>1, <2>1 DEF PlaceInv, RecordsApart, TypeOK
  <2>3. UNCHANGED <<options, consumers, aborted>> /\ adapter' = adapter
    BY <1>6 DEF RunOnNew, options
  <2>4. w \notin BusyIn(adapter[t]) /\ BusyIn(adapter[t]) \cup {w} \subseteq BusyIn(adapter[t])'
    BY <1>1, <2>1, <2>2, <2>3 DEF BusyIn, TypeOK
  <2>5. \A u \in Tasks : phase'[u] = IF u = t THEN "starting" ELSE phase[u]
    BY <1>6 DEF RunOnNew, TypeOK
  <2> QED
    BY <1>4, <2>3, <2>4, <2>5
<1>7. CASE RunQueued(t)
  <2>1. /\ UNCHANGED <<options, pools, task>> /\ consumers' = Append(consumers, t)
        /\ \A u \in Tasks : phase'[u] = IF u = t THEN "queued" ELSE phase[u]
        /\ Idle(adapter[t]) = {} /\ ~HasPlace(adapter[t])
    BY <1>7 DEF RunQueued, TypeOK
  <2>2. BusyIn(adapter[t]) = pool[adapter[t]]
    BY <2>1 DEF Idle, BusyIn
  <2>3. /\ maxWorkers <= Cardinality(BusyIn(adapter[t])) /\ maxWorkers \in Nat
        /\ Cardinality(BusyIn(adapter[t])) \in Nat
    <3>1. maxWorkers \in Nat /\ Cardinality(pool[adapter[t]]) \in Nat
      BY <1>1, RunPoolAssumption, FS_CardinalityType DEF TypeOK, PoolsCounted
    <3> QED
      BY <2>1, <2>2, <3>1 DEF HasPlace
  <2>4. IsFiniteSet(Woken') /\ Cardinality(Woken') \in Nat
    BY <1>2, <2>1
  <2>5. PlacesTaken'
    <3> SUFFICES ASSUME OneAdapter, NEW u \in Tasks
                 PROVE  maxWorkers <= Cardinality(BusyIn(adapter[u])) + Cardinality(Woken')
      BY <2>1 DEF PlacesTaken, OneAdapter, BusyIn, options, pools
    <3>1. adapter[u] = adapter[t]
      BY DEF OneAdapter
    <3> QED
      BY <2>3, <2>4, <3>1
  <2>6. QueuedWait'
    <3>1. consumers \in Seq(Tasks)
      BY DEF TypeOK
    <3>2. /\ DOMAIN consumers' = DOMAIN consumers \cup {Len(consumers) + 1}
          /\ \A i \in DOMAIN consumers : consumers'[i] = consumers[i]
          /\ consumers'[Len(consumers) + 1] = t
      BY <2>1, <3>1
    <3> QED
      BY <2>1, <3>2 DEF SlotInv, QueuedWait
  <2> QED
    BY <2>1, <2>4, <2>5, <2>6 DEF SlotInv, options, task
<1> QED
  BY <1>3, <1>5, <1>6, <1>7 DEF Run

\* The end of a task gives its record back, or leaves it to terminate().
LEMMA FinishKeepsSlots ==
  ASSUME TypeOK, TypeOK', PoolsCounted, PoolsCounted', PlaceInv, SlotInv, NEW t \in Tasks, Finish(t),
         phase[t] \notin {"queued", "woken"}, UNCHANGED <<options, aborted>>
  PROVE  SlotInv'
<1>1. CASE keepAlive[t]
  <2>1. busy' = Released(t) /\ pool' = pool /\ WakeHead([phase EXCEPT ![t] = "over"])
    BY <1>1 DEF Finish, CloseKept
  <2>2. \A a \in Adapters : BusyIn(a) \subseteq BusyIn(a)' \cup {record[t]}
    BY <2>1 DEF BusyIn, Released, TypeOK
  <2> QED
    BY <2>1, <2>2, GiveBack
<1>2. CASE ~keepAlive[t]
  <2>1. UNCHANGED <<pool, busy, phase, consumers>>
    BY <1>2 DEF Finish
  <2> QED
    BY <2>1, SlotsUntouched DEF BusyIn
<1> QED
  BY <1>1, <1>2

\* Every step keeps the account of the places.
LEMMA SlotInductive == Spec => []SlotInv
<1>1. Init => SlotInv
  <2> SUFFICES ASSUME Init PROVE SlotInv
    OBVIOUS
  <2>1. consumers = << >> /\ \A t \in Tasks : phase[t] = "idle" /\ ~aborted[t]
    BY DEF Init
  <2>2. Woken = {}
    BY <2>1 DEF Woken
  <2> QED
    BY <2>1, <2>2, FS_EmptySet DEF SlotInv, QueuedWait, PlacesTaken
<1>2. /\ TypeOK /\ TypeOK' /\ PoolsCounted /\ PoolsCounted' /\ ClosingBounded /\ PlaceInv
      /\ SlotInv /\ [Next]_vars
      => SlotInv'
  <2> SUFFICES ASSUME TypeOK, TypeOK', PoolsCounted, PoolsCounted', ClosingBounded, PlaceInv,
                      SlotInv, [Next]_vars
               PROVE  SlotInv'
    OBVIOUS
  <2>1. ASSUME NEW t \in Tasks, Run(t) PROVE SlotInv'
    BY <2>1, RunKeepsSlots
  <2>2. ASSUME NEW t \in Tasks, Start(t) \/ StartAborted(t) \/ StartFailed(t) PROVE SlotInv'
    <3>1. /\ UNCHANGED <<options, pool, busy, consumers, aborted>>
          /\ phase[t] = "starting" /\ phase'[t] \in {"running", "over"}
          /\ \A u \in Tasks \ {t} : phase'[u] = phase[u]
      BY <2>2 DEF Start, StartAborted, StartFailed, Started, pools, task, TypeOK
    <3> QED
      BY <3>1, SlotsUntouched DEF BusyIn
  <2>3. ASSUME NEW t \in Tasks, StartUnposted(t) \/ Deliver(t) PROVE SlotInv'
    <3>1. /\ Finish(t) /\ UNCHANGED <<options, aborted>> /\ phase[t] \notin {"queued", "woken"}
      BY <2>3 DEF StartUnposted, Started, Deliver, PlaceInv, BeforeRun
    <3> QED
      BY <3>1, FinishKeepsSlots
  <2>4. ASSUME NEW t \in Tasks, Close(t) \/ Die(t) PROVE SlotInv'
    <3>1. /\ UNCHANGED <<options, aborted>> /\ busy' = busy /\ pool' = WithoutRecord(t)
          /\ phase[t] \notin {"idle", "queued", "woken"}
      BY <2>4 DEF Close, Die, PlaceInv, BeforeRun, ClosingBounded
    <3>2. PICK p \in {"starting", "over"} : WakeHead([phase EXCEPT ![t] = p])
      <4>1. CASE phase[t] = "starting"
        <5>1. WakeHead([phase EXCEPT ![t] = "starting"])
          BY <2>4, <4>1 DEF Close, Die
        <5> QED
          BY <5>1
      <4>2. CASE phase[t] # "starting"
        BY <2>4, <4>2 DEF Close, Die
      <4> QED
        BY <4>1, <4>2
    <3>3. \A a \in Adapters : BusyIn(a) \subseteq BusyIn(a)' \cup {record[t]}
      BY <3>1 DEF BusyIn, WithoutRecord, TypeOK
    <3> QED
      BY <3>1, <3>2, <3>3, GiveBack
  <2>5. ASSUME NEW t \in Tasks, Abort(t) \/ AbortWaiting(t) \/ Post(t) PROVE SlotInv'
    <3>1. /\ UNCHANGED <<options, pool, busy, consumers, phase>>
          /\ "wait" \in faults \/ aborted' = aborted
      BY <2>5 DEF Abort, AbortWaiting, Post, pools
    <3> QED
      BY <3>1, SlotsUntouched DEF BusyIn
  <2>6. ASSUME NEW w \in Workers, Ready(w) \/ FailToStart(w) PROVE SlotInv'
    <3>1. UNCHANGED <<options, pool, busy, consumers, phase, aborted>>
      BY <2>6 DEF Ready, FailToStart, task
    <3> QED
      BY <3>1, SlotsUntouched DEF BusyIn
  <2>7. ASSUME NEW b \in Adapters, Collect(b) PROVE SlotInv'
    <3>1. PICK w \in Idle(b) : pool' = [pool EXCEPT ![b] = @ \ {w}]
      BY <2>7 DEF Collect, Unused
    <3>2. UNCHANGED <<options, busy, consumers, phase, aborted>>
      BY <2>7 DEF Collect, task
    <3>3. \A a \in Adapters : BusyIn(a)' = BusyIn(a)
      BY <3>1, <3>2 DEF BusyIn, Idle, TypeOK
    <3> QED
      BY <3>2, <3>3, SlotsUntouched
  <2>8. CASE UNCHANGED vars
    <3>1. UNCHANGED <<options, pool, busy, consumers, phase, aborted>>
      BY <2>8 DEF vars, pools, task
    <3> QED
      BY <3>1, SlotsUntouched DEF BusyIn
  <2> QED
    BY <2>1, <2>2, <2>3, <2>4, <2>5, <2>6, <2>7, <2>8 DEF Next
<1> QED
  BY <1>1, <1>2, TypeInductive, PoolsInductive, PlaceInductive, PTL DEF Spec

\* When no call is woken, none is queued beside a place it could have.
THEOREM NobodyStaysStuck == Spec => []NobodyStuck
<1>1. TypeOK /\ PoolsCounted /\ SlotInv => NobodyStuck
  <2> SUFFICES ASSUME TypeOK, PoolsCounted, SlotInv, OneAdapter, "wait" \notin faults,
                      NEW t \in Tasks, phase[t] = "queued", \A u \in Tasks : phase[u] # "woken"
               PROVE  Idle(adapter[t]) = {} /\ ~HasPlace(adapter[t])
    BY DEF NobodyStuck, Stuck
  <2> DEFINE P == pool[adapter[t]]  B == BusyIn(adapter[t])
  <2>1. consumers # << >>
    BY DEF SlotInv, QueuedWait, TypeOK
  <2>2. Cardinality(Woken) = 0
    <3>1. Woken = {}
      BY DEF Woken
    <3> QED
      BY <3>1, FS_EmptySet
  <2>3. /\ adapter[t] \in Adapters /\ maxWorkers \in Nat /\ IsFiniteSet(P)
        /\ Cardinality(P) \in Nat /\ Cardinality(P) <= maxWorkers
    BY RunPoolAssumption, FS_CardinalityType DEF TypeOK, PoolsCounted
  <2>4. B \subseteq P /\ IsFiniteSet(B) /\ Cardinality(B) \in Nat
    BY <2>3, BusyFinite DEF BusyIn
  <2>5. maxWorkers <= Cardinality(B)
    BY <2>1, <2>2, <2>4 DEF SlotInv, PlacesTaken
  <2>6. Cardinality(B) = Cardinality(P)
    BY <2>3, <2>4, <2>5, FS_Subset
  <2>7. B = P
    BY <2>3, <2>4, <2>6, FS_Subset
  <2> QED
    BY <2>3, <2>5, <2>6, <2>7 DEF Idle, HasPlace, BusyIn
<1> QED
  BY <1>1, RunPoolTypeCorrect, PoolsInductive, SlotInductive, PTL

-----------------------------------------------------------------------------
(* One task for a worker.  A task that is over may still reach its worker: by  *)
(* a handleClose() that waits for terminate(), or by a message that is on the  *)
(* way.  So that no two tasks use a worker is not inductive: no two may hold it. *)

Holds(t, w) == record[t] = w /\ (phase[t] \in {"starting", "running"} \/ closing[t] > 0 \/ message[t])

HoldersApart == \A t, u \in Tasks, w \in Workers : Holds(t, w) /\ Holds(u, w) => t = u

\* A worker that is held is not given to another task, and one that was
\* terminated but is still in its pool is held by the task that has ended.
HeldIsBusy == \A t \in Tasks, a \in Adapters, w \in Workers : w \in pool[a] /\ Holds(t, w) => busy[w]
StoppedIsHeld == \A a \in Adapters, w \in Workers :
  w \in pool[a] /\ worker[w] = "stopped" => \E t \in Tasks : Holds(t, w) /\ settled[t]

UserHasWorker == \A t \in Tasks, w \in Workers :
  Uses(t, w) => w \in pool[adapter[t]] /\ worker[w] # "stopped"

\* Without an abort no terminate() comes before the last message, and a message
\* of a worker that has died comes after its record has left the pool.
LastMessage == \A t \in Tasks :
  /\ keepAlive[t] => closing[t] = 0
  /\ message[t] => phase[t] \in {"running", "over"} /\ closing[t] = 0
  /\ message[t] /\ phase[t] = "over" => \A a \in Adapters : record[t] \notin pool[a]
  /\ phase[t] = "running" /\ settled[t] => closing[t] > 0
  /\ closing[t] > 0 \/ message[t] => record[t] \in Workers

HoldInv == HoldersApart /\ HeldIsBusy /\ StoppedIsHeld /\ UserHasWorker /\ LastMessage

\* A step of a task that holds its worker, and may give it back, terminate it
\* or take its record out of the pool.
LEMMA HolderFrame ==
  ASSUME HoldInv, TypeOK, NEW t \in Tasks, Holds(t, record[t]), record[t] \in Workers,
         UNCHANGED <<options, record>>, LastMessage',
         \A u \in Tasks \ {t}, v \in Workers :
           /\ Holds(u, v)' <=> Holds(u, v)
           /\ Uses(u, v)' <=> Uses(u, v),
         \A u \in Tasks \ {t} : settled'[u] = settled[u],
         \A v \in Workers : Holds(t, v)' => v = record[t],
         \A v \in Workers \ {record[t]} :
           /\ worker'[v] = "stopped" => worker[v] = "stopped"
           /\ busy'[v] = busy[v]
           /\ \A a \in Adapters : v \in pool'[a] <=> v \in pool[a],
         \A a \in Adapters : record[t] \in pool'[a] =>
           /\ Holds(t, record[t])' => busy'[record[t]]
           /\ worker'[record[t]] = "stopped" => Holds(t, record[t])' /\ settled'[t],
         Uses(t, record[t])' => record[t] \in pool'[adapter[t]] /\ worker'[record[t]] # "stopped"
  PROVE  HoldInv'
<1> USE DEF HoldInv
<1> DEFINE r == record[t]
<1>1. adapter' = adapter /\ adapter \in [Tasks -> Adapters]
  BY DEF options, TypeOK
<1>2. \A u \in Tasks \ {t} : ~Holds(u, r)
  BY DEF HoldersApart
<1>3. \A v \in Workers : Uses(t, v)' => v = r
  BY DEF Uses
<1>4. HoldersApart'
  <2> SUFFICES ASSUME NEW u1 \in Tasks, NEW u2 \in Tasks, NEW w \in Workers, Holds(u1, w)', Holds(u2, w)'
               PROVE  u1 = u2
    BY DEF HoldersApart
  <2> QED
    BY <1>2 DEF HoldersApart
<1>5. HeldIsBusy'
  <2> SUFFICES ASSUME NEW u \in Tasks, NEW a \in Adapters, NEW w \in Workers, w \in pool'[a], Holds(u, w)'
               PROVE  busy'[w]
    BY DEF HeldIsBusy
  <2>1. CASE u = t
    BY <2>1
  <2>2. CASE u # t
    <3>1. Holds(u, w) /\ w # r
      BY <1>2, <2>2
    <3> QED
      BY <3>1 DEF HeldIsBusy
  <2> QED
    BY <2>1, <2>2
<1>6. StoppedIsHeld'
  <2> SUFFICES ASSUME NEW a \in Adapters, NEW w \in Workers, w \in pool'[a], worker'[w] = "stopped"
               PROVE  \E u \in Tasks : Holds(u, w)' /\ settled'[u]
    BY DEF StoppedIsHeld
  <2>1. CASE w = r
    BY <2>1
  <2>2. CASE w # r
    <3>1. PICK u \in Tasks : Holds(u, w) /\ settled[u]
      BY <2>2 DEF StoppedIsHeld
    <3>2. u # t
      BY <2>2, <3>1 DEF Holds
    <3> QED
      BY <3>1, <3>2
  <2> QED
    BY <2>1, <2>2
<1>7. UserHasWorker'
  <2> SUFFICES ASSUME NEW u \in Tasks, NEW w \in Workers, Uses(u, w)'
               PROVE  w \in pool'[adapter[u]] /\ worker'[w] # "stopped"
    BY <1>1 DEF UserHasWorker
  <2>1. CASE u = t
    BY <1>3, <2>1
  <2>2. CASE u # t
    <3>1. Uses(u, w) /\ w # r
      BY <1>2, <2>2 DEF Uses, Holds
    <3> QED
      BY <1>1, <3>1 DEF UserHasWorker
  <2> QED
    BY <2>1, <2>2
<1> QED
  BY <1>4, <1>5, <1>6, <1>7

\* A call takes a worker nobody holds.
LEMMA HolderGain ==
  ASSUME HoldInv, TypeOK, NEW t \in Tasks, NEW w \in Workers, \A u \in Tasks : ~Holds(u, w),
         ~settled[t], closing[t] = 0, ~message[t], phase[t] \notin {"starting", "running"},
         UNCHANGED <<options, settled, closing, message>>,
         \A u \in Tasks : /\ phase'[u] = IF u = t THEN "starting" ELSE phase[u]
                          /\ record'[u] = IF u = t THEN w ELSE record[u],
         w \in pool'[adapter[t]], busy'[w], worker'[w] # "stopped",
         \A v \in Workers \ {w} :
           /\ worker'[v] = worker[v] /\ busy'[v] = busy[v]
           /\ \A a \in Adapters : v \in pool'[a] <=> v \in pool[a],
         \A u \in Tasks \ {t}, a \in Adapters : record[u] \in pool'[a] => record[u] \in pool[a]
  PROVE  HoldInv'
<1> USE DEF HoldInv
<1>1. adapter' = adapter /\ adapter \in [Tasks -> Adapters] /\ keepAlive' = keepAlive
  BY DEF options, TypeOK
<1>2. \A u \in Tasks \ {t}, v \in Workers :
        /\ Holds(u, v)' <=> Holds(u, v)
        /\ Uses(u, v)' <=> Uses(u, v)
  BY DEF Holds, Uses
<1>3. \A v \in Workers :
        /\ Holds(t, v)' <=> v = w
        /\ Uses(t, v)' <=> v = w
        /\ ~Holds(t, v)
  BY DEF Holds, Uses, TypeOK
<1>4. HoldersApart'
  <2> SUFFICES ASSUME NEW u1 \in Tasks, NEW u2 \in Tasks, NEW v \in Workers, Holds(u1, v)', Holds(u2, v)'
               PROVE  u1 = u2
    BY DEF HoldersApart
  <2>1. CASE v = w
    BY <1>2, <2>1
  <2>2. CASE v # w
    <3>1. Holds(u1, v) /\ Holds(u2, v)
      BY <1>2, <1>3, <2>2
    <3> QED
      BY <3>1 DEF HoldersApart
  <2> QED
    BY <2>1, <2>2
<1>5. HeldIsBusy'
  <2> SUFFICES ASSUME NEW u \in Tasks, NEW a \in Adapters, NEW v \in Workers, v \in pool'[a], Holds(u, v)'
               PROVE  busy'[v]
    BY DEF HeldIsBusy
  <2>1. CASE v = w
    BY <2>1
  <2>2. CASE v # w
    <3>1. Holds(u, v)
      BY <1>2, <1>3, <2>2
    <3> QED
      BY <2>2, <3>1 DEF HeldIsBusy
  <2> QED
    BY <2>1, <2>2
<1>6. StoppedIsHeld'
  <2> SUFFICES ASSUME NEW a \in Adapters, NEW v \in Workers, v \in pool'[a], worker'[v] = "stopped"
               PROVE  \E u \in Tasks : Holds(u, v)' /\ settled'[u]
    BY DEF StoppedIsHeld
  <2>1. v # w
    OBVIOUS
  <2>2. PICK u \in Tasks : Holds(u, v) /\ settled[u]
    BY <2>1 DEF StoppedIsHeld
  <2>3. u # t
    BY <1>3, <2>2
  <2>4. Holds(u, v)' /\ settled'[u]
    BY <1>2, <2>2, <2>3
  <2> QED
    BY <2>4
<1>7. UserHasWorker'
  <2> SUFFICES ASSUME NEW u \in Tasks, NEW v \in Workers, Uses(u, v)'
               PROVE  v \in pool'[adapter[u]] /\ worker'[v] # "stopped"
    BY <1>1 DEF UserHasWorker
  <2>1. CASE u = t
    BY <1>3, <2>1
  <2>2. CASE u # t
    <3>1. Uses(u, v) /\ v # w
      BY <1>2, <2>2 DEF Uses, Holds
    <3> QED
      BY <1>1, <3>1 DEF UserHasWorker
  <2> QED
    BY <2>1, <2>2
<1>8. LastMessage'
  BY <1>1 DEF LastMessage
<1> QED
  BY <1>4, <1>5, <1>6, <1>7, <1>8

\* Steps that concern no worker that is held.
LEMMA HolderUntouched ==
  ASSUME HoldInv, TypeOK, UNCHANGED <<options, pool, busy, record, settled, closing, message>>,
         \A v \in Workers : worker'[v] = "stopped" <=> worker[v] = "stopped",
         \A u \in Tasks : phase'[u] = phase[u] \/
           (/\ phase[u] \notin {"starting", "running"} /\ phase'[u] \notin {"starting", "running"}
            /\ ~message[u])
  PROVE  HoldInv'
<1> USE DEF HoldInv
<1>1. adapter' = adapter /\ adapter \in [Tasks -> Adapters] /\ keepAlive' = keepAlive
  BY DEF options, TypeOK
<1>2. \A u \in Tasks, v \in Workers :
        /\ Holds(u, v)' <=> Holds(u, v)
        /\ Uses(u, v)' <=> Uses(u, v)
  BY DEF Holds, Uses
<1>3. HoldersApart'
  <2> SUFFICES ASSUME NEW u1 \in Tasks, NEW u2 \in Tasks, NEW v \in Workers, Holds(u1, v)', Holds(u2, v)'
               PROVE  u1 = u2
    BY DEF HoldersApart
  <2> QED
    BY <1>2 DEF HoldersApart
<1>4. HeldIsBusy'
  <2> SUFFICES ASSUME NEW u \in Tasks, NEW a \in Adapters, NEW v \in Workers, v \in pool'[a], Holds(u, v)'
               PROVE  busy'[v]
    BY DEF HeldIsBusy
  <2> QED
    BY <1>2 DEF HeldIsBusy
<1>5. StoppedIsHeld'
  <2> SUFFICES ASSUME NEW a \in Adapters, NEW v \in Workers, v \in pool'[a], worker'[v] = "stopped"
               PROVE  \E u \in Tasks : Holds(u, v)' /\ settled'[u]
    BY DEF StoppedIsHeld
  <2>1. PICK u \in Tasks : Holds(u, v) /\ settled[u]
    BY DEF StoppedIsHeld
  <2> QED
    BY <1>2, <2>1
<1>6. UserHasWorker'
  <2> SUFFICES ASSUME NEW u \in Tasks, NEW v \in Workers, Uses(u, v)'
               PROVE  v \in pool'[adapter[u]] /\ worker'[v] # "stopped"
    BY <1>1 DEF UserHasWorker
  <2>1. Uses(u, v)
    BY <1>2
  <2> QED
    BY <1>1, <2>1 DEF UserHasWorker
<1>7. LastMessage'
  BY <1>1 DEF LastMessage
<1> QED
  BY <1>3, <1>4, <1>5, <1>6, <1>7

LEMMA RunKeepsHolders ==
  ASSUME TypeOK, ClosingBounded, PlaceInv, HoldInv, NEW t \in Tasks, Run(t)
  PROVE  HoldInv'
<1>1. /\ phase[t] \in {"idle", "woken"} /\ ~settled[t] /\ closing[t] = 0 /\ ~message[t]
      /\ adapter[t] \in Adapters
  <2>1. phase[t] \in {"idle", "woken"}
    BY DEF Run, RunAborted, RunOnIdle, RunOnNew, RunQueued, MayRun
  <2> QED
    BY <2>1 DEF PlaceInv, BeforeRun, ClosingBounded, HoldInv, LastMessage, TypeOK
<1>2. CASE RunAborted(t) \/ RunQueued(t)
  <2>1. /\ UNCHANGED <<options, pool, busy, worker, record, settled, closing, message>>
        /\ \A u \in Tasks \ {t} : phase'[u] = phase[u]
        /\ phase'[t] \notin {"starting", "running"}
    BY <1>2 DEF RunAborted, RunQueued, pools, task, TypeOK
  <2> QED
    BY <1>1, <2>1, HolderUntouched
<1>3. CASE RunOnIdle(t)
  <2>1. PICK w \in Idle(adapter[t]) : MarkBusy(w) /\ record' = [record EXCEPT ![t] = w]
    BY <1>3 DEF RunOnIdle
  <2>2. w \in pool[adapter[t]] /\ ~busy[w] /\ w \in Workers
    BY <1>1, <2>1 DEF Idle, TypeOK
  <2>3. \A u \in Tasks : ~Holds(u, w)
    BY <1>1, <2>2 DEF HoldInv, HeldIsBusy
  <2>4. worker[w] # "stopped"
    BY <1>1, <2>2, <2>3 DEF HoldInv, StoppedIsHeld
  <2>5. /\ UNCHANGED <<options, pool, worker, settled, closing, message>>
        /\ \A u \in Tasks : /\ phase'[u] = IF u = t THEN "starting" ELSE phase[u]
                            /\ record'[u] = IF u = t THEN w ELSE record[u]
    BY <1>3, <2>1 DEF RunOnIdle, TypeOK
  <2>6. \A v \in Workers : busy'[v] = IF v = w THEN TRUE ELSE busy[v]
    BY <2>1 DEF MarkBusy, TypeOK
  <2>7. adapter' = adapter
    BY <2>5 DEF options
  <2> QED
    BY <1>1, <2>2, <2>3, <2>4, <2>5, <2>6, <2>7, HolderGain
<1>4. CASE RunOnNew(t)
  <2>1. PICK w \in Workers : /\ worker[w] = "none"
                             /\ pool' = [pool EXCEPT ![adapter[t]] = @ \cup {w}]
                             /\ busy' = [busy EXCEPT ![w] = TRUE]
                             /\ worker' = [worker EXCEPT ![w] = "starting"]
                             /\ record' = [record EXCEPT ![t] = w]
    BY <1>4 DEF RunOnNew
  <2>2. \A u \in Tasks : record[u] # w
    BY <2>1, RunPoolAssumption DEF PlaceInv, RecordsApart
  <2>3. \A u \in Tasks : ~Holds(u, w)
    BY <2>2 DEF Holds
  <2>4. /\ UNCHANGED <<options, settled, closing, message>>
        /\ \A u \in Tasks : /\ phase'[u] = IF u = t THEN "starting" ELSE phase[u]
                            /\ record'[u] = IF u = t THEN w ELSE record[u]
    BY <1>4, <2>1 DEF RunOnNew, TypeOK
  <2>5. /\ busy'[w] /\ worker'[w] = "starting"
        /\ \A v \in Workers \ {w} : busy'[v] = busy[v] /\ worker'[v] = worker[v]
    BY <2>1 DEF TypeOK
  <2>6. \A a \in Adapters : \A v : v \in pool'[a] <=> v \in pool[a] \/ (a = adapter[t] /\ v = w)
    BY <1>1, <2>1 DEF TypeOK
  <2>7. adapter' = adapter
    BY <2>4 DEF options
  <2>8. \A u \in Tasks \ {t}, a \in Adapters : record[u] \in pool'[a] => record[u] \in pool[a]
    BY <2>2, <2>6
  <2>9. w \in pool'[adapter[t]] /\ \A v \in Workers \ {w}, a \in Adapters : v \in pool'[a] <=> v \in pool[a]
    BY <1>1, <2>6
  <2> QED
    BY <1>1, <2>3, <2>4, <2>5, <2>7, <2>8, <2>9, HolderGain
<1> QED
  BY <1>2, <1>3, <1>4 DEF Run

\* A task that has started, or whose message is on the way, has a worker.
LEMMA HolderHasRecord ==
  ASSUME TypeOK, PlaceInv, NEW t \in Tasks, phase[t] \in {"starting", "running"}
  PROVE  record[t] \in Workers /\ Holds(t, record[t])
BY DEF TypeOK, PlaceInv, RecordsApart, Holds

LEMMA FinishKeepsHolders ==
  ASSUME TypeOK, ClosingBounded, PlaceInv, HoldInv, NEW t \in Tasks, Finish(t),
         Holds(t, record[t]), record[t] \in Workers, closing[t] = 0, ~message'[t],
         message[t] \/ phase[t] = "starting",
         \A u \in Tasks \ {t} : message'[u] = message[u],
         UNCHANGED <<options, record, aborted>>
  PROVE  HoldInv'
<1>1. /\ adapter' = adapter /\ keepAlive' = keepAlive
      /\ settled'[t] /\ \A u \in Tasks \ {t} : settled'[u] = settled[u]
  BY DEF Finish, options, TypeOK
<1>2. CASE keepAlive[t]
  <2>1. /\ busy' = Released(t) /\ UNCHANGED <<pool, worker, closing>>
        /\ WakeHead([phase EXCEPT ![t] = "over"])
    BY <1>2 DEF Finish, CloseKept
  <2>2. phase[t] # "queued"
    BY DEF HoldInv, LastMessage
  <2>3. /\ phase'[t] = "over"
        /\ \A u \in Tasks \ {t} : phase'[u] = phase[u] \/ (phase[u] = "queued" /\ phase'[u] = "woken")
    BY <2>1, <2>2, WakeHeadEffect DEF PlaceInv
  <2>4. \A v \in Workers \ {record[t]} : busy'[v] = busy[v]
    BY <2>1 DEF Released, TypeOK
  <2>5. \A u \in Tasks \ {t}, v \in Workers :
          /\ Holds(u, v)' <=> Holds(u, v)
          /\ Uses(u, v)' <=> Uses(u, v)
    BY <1>1, <2>1, <2>3 DEF Holds, Uses
  <2>6. \A v \in Workers : ~Holds(t, v)' /\ ~Uses(t, v)'
    BY <2>1, <2>3 DEF Holds, Uses
  <2>7. LastMessage'
    BY <1>1, <2>1, <2>3 DEF HoldInv, LastMessage
  <2>8. \A a \in Adapters : record[t] \in pool[a] => worker[record[t]] # "stopped"
    <3> SUFFICES ASSUME NEW a \in Adapters, record[t] \in pool[a], worker[record[t]] = "stopped" PROVE FALSE
      OBVIOUS
    <3>1. PICK u \in Tasks : Holds(u, record[t]) /\ settled[u]
      BY DEF HoldInv, StoppedIsHeld
    <3>2. u = t
      BY <3>1 DEF HoldInv, HoldersApart
    <3>3. phase[t] = "starting" => closing[t] > 0
      BY <3>1, <3>2 DEF PlaceInv, RecordsApart, AbortedIsClosed, TypeOK
    <3>4. message[t] /\ phase[t] = "running"
      BY <3>3 DEF HoldInv, LastMessage
    <3> QED
      BY <3>1, <3>2, <3>4 DEF HoldInv, LastMessage
  <2> QED
    BY <1>1, <2>1, <2>4, <2>5, <2>6, <2>7, <2>8, HolderFrame
<1>3. CASE ~keepAlive[t]
  <2>1. /\ worker' = [worker EXCEPT ![record[t]] = "stopped"]
        /\ closing' = [closing EXCEPT ![t] = @ + 1]
        /\ UNCHANGED <<pool, busy, phase>>
    BY <1>3 DEF Finish, Terminate
  <2>2. closing'[t] = 1 /\ \A u \in Tasks \ {t} : closing'[u] = closing[u]
    BY <2>1 DEF TypeOK
  <2>3. \A v \in Workers \ {record[t]} : worker'[v] = worker[v]
    BY <2>1 DEF TypeOK
  <2>5. \A u \in Tasks \ {t}, v \in Workers :
          /\ Holds(u, v)' <=> Holds(u, v)
          /\ Uses(u, v)' <=> Uses(u, v)
    BY <1>1, <2>1, <2>2 DEF Holds, Uses
  <2>6. Holds(t, record[t])' /\ \A v \in Workers : ~Uses(t, v)' /\ (Holds(t, v)' => v = record[t])
    BY <1>1, <2>2 DEF Holds, Uses
  <2>7. LastMessage'
    BY <1>1, <1>3, <2>1, <2>2 DEF HoldInv, LastMessage
  <2>8. \A a \in Adapters : record[t] \in pool[a] => busy[record[t]]
    BY DEF HoldInv, HeldIsBusy
  <2> QED
    BY <1>1, <2>1, <2>3, <2>5, <2>6, <2>7, <2>8, HolderFrame
<1> QED
  BY <1>2, <1>3

\* The record leaves the pool: after terminate(), or with the error event.
LEMMA LeaveKeepsHolders ==
  ASSUME TypeOK, ClosingBounded, PlaceInv, HoldInv, NEW t \in Tasks, Close(t) \/ Die(t)
  PROVE  HoldInv'
<1>1. /\ Holds(t, record[t]) /\ phase[t] \notin {"idle", "queued", "woken"}
      /\ closing[t] > 0 => settled[t]
  BY HolderHasRecord DEF Close, Die, Holds, PlaceInv, BeforeRun, ClosingBounded, TypeOK
<1>2. PICK p \in {"starting", "over"} :
        /\ WakeHead([phase EXCEPT ![t] = p])
        /\ p = "starting" => Close(t)
  <2>1. CASE Die(t)
    BY <2>1 DEF Die
  <2>2. CASE Close(t)
    <3>1. CASE phase[t] = "starting"
      <4>1. WakeHead([phase EXCEPT ![t] = "starting"])
        BY <2>2, <3>1 DEF Close
      <4> QED
        BY <2>2, <4>1
    <3>2. CASE phase[t] # "starting"
      BY <2>2, <3>2 DEF Close
    <3> QED
      BY <3>1, <3>2
  <2> QED
    BY <2>1, <2>2
<1>3. /\ phase'[t] = p
      /\ \A u \in Tasks \ {t} : phase'[u] = phase[u] \/ (phase[u] = "queued" /\ phase'[u] = "woken")
  BY <1>1, <1>2, WakeHeadEffect DEF PlaceInv
<1>4. /\ pool' = WithoutRecord(t) /\ UNCHANGED <<options, busy, record, message>> /\ settled'[t]
      /\ \A u \in Tasks \ {t} : settled'[u] = settled[u] /\ closing'[u] = closing[u]
      /\ \A v \in Workers \ {record[t]} : worker'[v] = worker[v]
      /\ closing[t] = 0 => closing'[t] = 0
      /\ keepAlive' = keepAlive /\ adapter' = adapter
  <2>1. CASE Die(t)
    BY <2>1 DEF Die, TypeOK, options
  <2>2. CASE Close(t)
    BY <1>1, <2>2 DEF Close, TypeOK, options
  <2> QED
    BY <2>1, <2>2
<1>5. \A a \in Adapters : \A v : v \in pool'[a] <=> v \in pool[a] /\ ~(a = adapter[t] /\ v = record[t])
  BY <1>4 DEF WithoutRecord, TypeOK
<1>6. \A a \in Adapters : record[t] # None => record[t] \notin pool'[a]
  BY <1>5 DEF PlaceInv, RecordsApart
<1>7. \A u \in Tasks \ {t}, v \in Workers :
        /\ Holds(u, v)' <=> Holds(u, v)
        /\ Uses(u, v)' <=> Uses(u, v)
  BY <1>3, <1>4 DEF Holds, Uses
<1>8. \A v \in Workers : ~Uses(t, v)' /\ (Holds(t, v)' => v = record[t])
  BY <1>4 DEF Holds, Uses
<1>9. LastMessage'
  <2> SUFFICES ASSUME NEW u \in Tasks
               PROVE  /\ keepAlive[u] => closing'[u] = 0
                      /\ message[u] => phase'[u] \in {"running", "over"} /\ closing'[u] = 0
                      /\ message[u] /\ phase'[u] = "over" => \A a \in Adapters : record[u] \notin pool'[a]
                      /\ phase'[u] = "running" /\ settled'[u] => closing'[u] > 0
                      /\ closing'[u] > 0 \/ message[u] => record[u] \in Workers
    BY <1>4 DEF LastMessage
  <2>1. CASE u = t
    <3>1. CASE Close(t)
      BY <1>3, <2>1, <3>1 DEF HoldInv, LastMessage, Close
    <3>2. CASE Die(t)
      <4>1. closing[t] = 0 /\ p = "over" /\ record[t] # None /\ record[t] \in Workers
        BY <1>2, <3>2, HolderHasRecord, RunPoolAssumption DEF Die, ClosingBounded, Close
      <4> QED
        BY <1>3, <1>4, <1>6, <2>1, <4>1
    <3> QED
      BY <3>1, <3>2
  <2>2. CASE u # t
    <3>1. /\ closing'[u] = closing[u] /\ settled'[u] = settled[u]
          /\ phase'[u] = phase[u] \/ (phase[u] = "queued" /\ phase'[u] = "woken")
          /\ \A a \in Adapters : record[u] \in pool'[a] => record[u] \in pool[a]
      BY <1>3, <1>4, <1>5, <2>2
    <3> QED
      BY <3>1 DEF HoldInv, LastMessage
  <2> QED
    BY <2>1, <2>2
<1>10. record[t] \in Workers
  BY HolderHasRecord DEF Close, Die, HoldInv, LastMessage
<1>11. record[t] # None
  BY <1>10, RunPoolAssumption
<1>12. \A v \in Workers \ {record[t]}, a \in Adapters : v \in pool'[a] <=> v \in pool[a]
  BY <1>5
<1> QED
  BY <1>1, <1>4, <1>6, <1>7, <1>8, <1>9, <1>10, <1>11, <1>12, HolderFrame

\* While there are no aborts, every step keeps the holders apart.
LEMMA StepKeepsHolders ==
  ASSUME TypeOK, ClosingBounded, PlaceInv, HoldInv, "abort" \notin faults, [Next]_vars
  PROVE  HoldInv'
<1>1. ASSUME NEW t \in Tasks, Run(t) PROVE HoldInv'
  BY <1>1, RunKeepsHolders
<1>2. ASSUME NEW t \in Tasks, Start(t) \/ StartAborted(t) \/ StartFailed(t) PROVE HoldInv'
  <2>1. /\ UNCHANGED <<options, pool, busy, record, settled, message, closing>>
        /\ phase[t] = "starting" /\ phase'[t] \in {"running", "over"}
        /\ phase'[t] = "running" => ~settled[t]
        /\ \A u \in Tasks \ {t} : phase'[u] = phase[u]
        /\ keepAlive' = keepAlive
    BY <1>2 DEF Start, StartAborted, StartFailed, Started, options, pools, task, TypeOK
  <2>2. record[t] \in Workers /\ Holds(t, record[t])
    BY <2>1, HolderHasRecord
  <2>3. /\ \A v \in Workers \ {record[t]} : worker'[v] = worker[v]
        /\ worker'[record[t]] = "stopped" /\ worker[record[t]] # "stopped" =>
             settled[t] /\ (closing[t] > 0 \/ \A a \in Adapters : record[t] \notin pool[a])
        /\ phase'[t] = "running" => worker' = worker
    <3>1. CASE StartAborted(t)
      <4>1. settled[t] /\ worker' = [worker EXCEPT ![record[t]] = "stopped"] /\ phase'[t] = "over"
        BY <3>1 DEF StartAborted, Started, TypeOK
      <4>2. closing[t] > 0 \/ \A a \in Adapters : record[t] \notin pool[a]
        BY <2>1, <2>2, <4>1, RunPoolAssumption DEF PlaceInv, AbortedIsClosed, RecordsApart
      <4> QED
        BY <4>1, <4>2 DEF TypeOK
    <3>2. CASE Start(t) \/ StartFailed(t)
      BY <3>2 DEF Start, StartFailed, pools
    <3> QED
      BY <1>2, <3>1, <3>2
  <2>4. \A u \in Tasks \ {t}, v \in Workers :
          /\ Holds(u, v)' <=> Holds(u, v)
          /\ Uses(u, v)' <=> Uses(u, v)
    BY <2>1 DEF Holds, Uses
  <2>5. ~message[t]
    BY <2>1 DEF HoldInv, LastMessage
  <2>6. LastMessage'
    BY <2>1, <2>5 DEF HoldInv, LastMessage
  <2>7. \A v \in Workers : Holds(t, v)' => v = record[t]
    BY <2>1 DEF Holds
  <2>8. \A a \in Adapters : record[t] \in pool[a] /\ worker'[record[t]] = "stopped" =>
           Holds(t, record[t])' /\ settled[t]
    <3> SUFFICES ASSUME NEW a \in Adapters, record[t] \in pool[a], worker'[record[t]] = "stopped"
                 PROVE  Holds(t, record[t])' /\ settled[t]
      OBVIOUS
    <3>1. settled[t]
      <4>1. CASE worker[record[t]] = "stopped"
        <5>1. PICK u \in Tasks : Holds(u, record[t]) /\ settled[u]
          BY <2>2, <4>1 DEF HoldInv, StoppedIsHeld
        <5> QED
          BY <2>2, <5>1 DEF HoldInv, HoldersApart
      <4>2. CASE worker[record[t]] # "stopped"
        BY <2>3, <4>2
      <4> QED
        BY <4>1, <4>2
    <3>2. closing[t] > 0
      BY <2>1, <2>2, <3>1, RunPoolAssumption DEF PlaceInv, AbortedIsClosed, RecordsApart
    <3> QED
      BY <2>1, <3>1, <3>2 DEF Holds
  <2>9. \A a \in Adapters : record[t] \in pool[a] => busy[record[t]]
    BY <2>2 DEF HoldInv, HeldIsBusy
  <2>10. Uses(t, record[t])' => record[t] \in pool'[adapter[t]] /\ worker'[record[t]] # "stopped"
    <3> SUFFICES ASSUME Uses(t, record[t])' PROVE record[t] \in pool[adapter[t]] /\ worker'[record[t]] # "stopped"
      BY <2>1
    <3>1. Uses(t, record[t]) /\ phase'[t] = "running"
      BY <2>1 DEF Uses
    <3> QED
      BY <2>2, <2>3, <3>1 DEF HoldInv, UserHasWorker
  <2> QED
    BY <2>1, <2>2, <2>3, <2>4, <2>6, <2>7, <2>8, <2>9, <2>10, HolderFrame
<1>3. ASSUME NEW t \in Tasks, StartUnposted(t) \/ Deliver(t) PROVE HoldInv'
  <2>1. /\ Finish(t) /\ UNCHANGED <<options, record, aborted>>
        /\ ~message'[t] /\ (message[t] \/ phase[t] = "starting")
        /\ \A u \in Tasks \ {t} : message'[u] = message[u]
        /\ closing[t] = 0
    BY <1>3 DEF StartUnposted, Started, Deliver, TypeOK, HoldInv, LastMessage, ClosingBounded
  <2>2. record[t] \in Workers /\ Holds(t, record[t])
    BY <2>1, HolderHasRecord DEF HoldInv, LastMessage, Holds
  <2> QED
    BY <2>1, <2>2, FinishKeepsHolders
<1>4. ASSUME NEW t \in Tasks, Close(t) \/ Die(t) PROVE HoldInv'
  BY <1>4, LeaveKeepsHolders
<1>5. ASSUME NEW t \in Tasks, Abort(t) PROVE HoldInv'
  BY <1>5 DEF Abort
<1>6. ASSUME NEW t \in Tasks, AbortWaiting(t) PROVE HoldInv'
  BY <1>6, HolderUntouched DEF AbortWaiting, pools
<1>7. ASSUME NEW t \in Tasks, Post(t) PROVE HoldInv'
  <2>1. /\ UNCHANGED <<options, pool, busy, worker, record, settled, closing, phase>> /\ phase[t] = "running"
        /\ ~settled[t] /\ worker[record[t]] = "ready" /\ keepAlive' = keepAlive
        /\ \A u \in Tasks \ {t} : message'[u] = message[u]
    BY <1>7 DEF Post, pools, options, TypeOK
  <2>2. record[t] \in Workers /\ Holds(t, record[t]) /\ Holds(t, record[t])' /\ closing[t] = 0
    BY <2>1, HolderHasRecord DEF Holds, ClosingBounded
  <2>3. \A u \in Tasks \ {t}, v \in Workers :
          /\ Holds(u, v)' <=> Holds(u, v)
          /\ Uses(u, v)' <=> Uses(u, v)
    BY <2>1 DEF Holds, Uses
  <2>4. LastMessage'
    BY <2>1, <2>2 DEF HoldInv, LastMessage
  <2>5. \A v \in Workers : Holds(t, v)' => v = record[t]
    BY <2>1 DEF Holds
  <2>6. \A a \in Adapters : record[t] \in pool[a] => busy[record[t]]
    BY <2>2 DEF HoldInv, HeldIsBusy
  <2>7. record[t] \in pool[adapter[t]]
    BY <2>1, <2>2 DEF HoldInv, UserHasWorker, Uses
  <2> QED
    BY <2>1, <2>2, <2>3, <2>4, <2>5, <2>6, <2>7, HolderFrame
<1>8. ASSUME NEW w \in Workers, Ready(w) \/ FailToStart(w) PROVE HoldInv'
  <2>1. /\ UNCHANGED <<options, pool, busy, record, settled, closing, message, phase>>
        /\ \A v \in Workers : worker'[v] = "stopped" <=> worker[v] = "stopped"
    BY <1>8 DEF Ready, FailToStart, task, TypeOK
  <2> QED
    BY <2>1, HolderUntouched
<1>9. ASSUME NEW b \in Adapters, Collect(b) PROVE HoldInv'
  <2>1. PICK w \in Idle(b) : /\ pool' = [pool EXCEPT ![b] = @ \ {w}]
                             /\ worker' = [worker EXCEPT ![w] = "stopped"]
    BY <1>9 DEF Collect, Unused
  <2>2. w \in Workers /\ w \in pool[b] /\ \A u \in Tasks : ~Holds(u, w)
    BY <2>1 DEF Idle, TypeOK, HoldInv, HeldIsBusy
  <2>3. /\ UNCHANGED <<options, busy, record, settled, closing, message, phase>>
        /\ adapter' = adapter /\ keepAlive' = keepAlive
    BY <1>9 DEF Collect, task, options
  <2>4. /\ \A a \in Adapters : \A v : v \in pool'[a] <=> v \in pool[a] /\ ~(a = b /\ v = w)
        /\ \A v \in Workers \ {w} : worker'[v] = worker[v]
    BY <2>1 DEF TypeOK
  <2>5. \A a \in Adapters : w \notin pool'[a]
    BY <2>2, <2>4 DEF PlaceInv, RecordsApart
  <2>6. \A u \in Tasks, v \in Workers :
          /\ Holds(u, v)' <=> Holds(u, v)
          /\ Uses(u, v)' <=> Uses(u, v)
          /\ Uses(u, v) => Holds(u, v)
    BY <2>3 DEF Holds, Uses
  <2>7. HoldersApart'
    <3> SUFFICES ASSUME NEW u1 \in Tasks, NEW u2 \in Tasks, NEW v \in Workers, Holds(u1, v)', Holds(u2, v)'
                 PROVE  u1 = u2
      BY DEF HoldersApart
    <3> QED
      BY <2>6 DEF HoldInv, HoldersApart
  <2>8. HeldIsBusy'
    <3> SUFFICES ASSUME NEW u \in Tasks, NEW a \in Adapters, NEW v \in Workers, v \in pool'[a], Holds(u, v)'
                 PROVE  busy'[v]
      BY DEF HeldIsBusy
    <3> QED
      BY <2>3, <2>4, <2>6 DEF HoldInv, HeldIsBusy
  <2>9. StoppedIsHeld'
    <3> SUFFICES ASSUME NEW a \in Adapters, NEW v \in Workers, v \in pool'[a], worker'[v] = "stopped"
                 PROVE  \E u \in Tasks : Holds(u, v)' /\ settled'[u]
      BY DEF StoppedIsHeld
    <3>1. PICK u \in Tasks : Holds(u, v) /\ settled[u]
      BY <2>4, <2>5 DEF HoldInv, StoppedIsHeld
    <3>2. Holds(u, v)' /\ settled'[u]
      BY <2>3, <2>6, <3>1
    <3> QED
      BY <3>2
  <2>10. UserHasWorker'
    <3> SUFFICES ASSUME NEW u \in Tasks, NEW v \in Workers, Uses(u, v)'
                 PROVE  v \in pool'[adapter[u]] /\ worker'[v] # "stopped"
      BY <2>3 DEF UserHasWorker
    <3>1. Uses(u, v) /\ Holds(u, v) /\ adapter[u] \in Adapters
      BY <2>6 DEF TypeOK
    <3>2. v # w
      BY <2>2, <3>1
    <3> QED
      BY <2>4, <3>1, <3>2 DEF HoldInv, UserHasWorker
  <2>11. LastMessage'
    BY <2>3, <2>4 DEF HoldInv, LastMessage
  <2> QED
    BY <2>7, <2>8, <2>9, <2>10, <2>11 DEF HoldInv
<1>10. CASE UNCHANGED vars
  BY <1>10, HolderUntouched DEF vars, pools, task
<1> QED
  BY <1>1, <1>2, <1>3, <1>4, <1>5, <1>6, <1>7, <1>8, <1>9, <1>10 DEF Next

-----------------------------------------------------------------------------
(* When no task keeps its worker, no worker is used twice, whatever is aborted. *)

NeverKept == \A t \in Tasks : ~keepAlive[t]

UsedOnce ==
  /\ \A a \in Adapters, w \in Workers : w \in pool[a] => busy[w]
  /\ \A t, u \in Tasks : record[t] = record[u] /\ record[t] # None => t = u
  /\ \A t \in Tasks, w \in Workers : Uses(t, w) => worker[w] # "stopped"

\* Steps in which nobody is given a worker, and those that are terminated are
\* the ones of a task that is settled.
LEMMA UsedOnceFrame ==
  ASSUME TypeOK, UsedOnce, NEW t \in Tasks, UNCHANGED record, busy' = busy,
         \A a \in Adapters : \A v : v \in pool'[a] => v \in pool[a],
         \A u \in Tasks : settled[u] => settled'[u],
         \A u \in Tasks : phase'[u] \in {"starting", "running"} => phase[u] \in {"starting", "running"},
         \A v \in Workers : worker'[v] = "stopped" =>
           worker[v] = "stopped" \/ (v = record[t] /\ settled'[t])
  PROVE  UsedOnce'
<1>1. \A a \in Adapters, w \in Workers : w \in pool'[a] => busy'[w]
  BY DEF UsedOnce
<1>2. \A u1, u2 \in Tasks : record'[u1] = record'[u2] /\ record'[u1] # None => u1 = u2
  BY DEF UsedOnce
<1>3. ASSUME NEW u \in Tasks, NEW w \in Workers, Uses(u, w)' PROVE worker'[w] # "stopped"
  <2>1. record[u] = w /\ ~settled'[u] /\ ~settled[u] /\ w # None /\ Uses(u, w)
    BY <1>3, RunPoolAssumption DEF Uses
  <2>2. worker[w] # "stopped"
    BY <2>1 DEF UsedOnce
  <2>3. w = record[t] => u = t
    BY <2>1 DEF UsedOnce
  <2> QED
    BY <2>1, <2>2, <2>3
<1> QED
  BY <1>1, <1>2, <1>3 DEF UsedOnce

LEMMA StepKeepsUsedOnce ==
  ASSUME TypeOK, TypeOK', ClosingBounded, PlaceInv, UsedOnce, NeverKept, [Next]_vars
  PROVE  UsedOnce'
<1>1. ASSUME NEW t \in Tasks, RunAborted(t) \/ RunQueued(t) PROVE UsedOnce'
  <2>1. /\ UNCHANGED <<pool, busy, worker, record, settled>>
        /\ \A u \in Tasks : phase'[u] \in {"starting", "running"} => phase[u] \in {"starting", "running"}
    BY <1>1 DEF RunAborted, RunQueued, pools, task, TypeOK
  <2> QED
    BY <2>1, UsedOnceFrame
<1>2. ASSUME NEW t \in Tasks, RunOnIdle(t) PROVE UsedOnce'
  BY <1>2 DEF RunOnIdle, Idle, UsedOnce, TypeOK
<1>3. ASSUME NEW t \in Tasks, RunOnNew(t) PROVE UsedOnce'
  <2>1. PICK w \in Workers : /\ worker[w] = "none"
                             /\ pool' = [pool EXCEPT ![adapter[t]] = @ \cup {w}]
                             /\ busy' = [busy EXCEPT ![w] = TRUE]
                             /\ worker' = [worker EXCEPT ![w] = "starting"]
                             /\ record' = [record EXCEPT ![t] = w]
    BY <1>3 DEF RunOnNew
  <2>2. /\ \A u \in Tasks : record[u] # w
        /\ \A u \in Tasks : record'[u] = IF u = t THEN w ELSE record[u]
    BY <2>1, RunPoolAssumption DEF PlaceInv, RecordsApart, TypeOK
  <2>3. /\ \A v \in Workers : worker'[v] = IF v = w THEN "starting" ELSE worker[v]
        /\ \A v \in Workers : busy'[v] = IF v = w THEN TRUE ELSE busy[v]
        /\ \A a \in Adapters : \A v : v \in pool'[a] => v \in pool[a] \/ v = w
    BY <2>1 DEF TypeOK
  <2>4. settled' = settled /\ \A u \in Tasks \ {t} : phase'[u] = phase[u]
    BY <1>3 DEF RunOnNew, TypeOK
  <2>5. \A a \in Adapters, v \in Workers : v \in pool'[a] => busy'[v]
    BY <2>3 DEF UsedOnce
  <2>6. \A u1, u2 \in Tasks : record'[u1] = record'[u2] /\ record'[u1] # None => u1 = u2
    BY <2>2 DEF UsedOnce
  <2>7. ASSUME NEW u \in Tasks, NEW v \in Workers, Uses(u, v)' PROVE worker'[v] # "stopped"
    <3>1. CASE u = t
      BY <2>2, <2>3, <2>7, <3>1 DEF Uses
    <3>2. CASE u # t
      <4>1. Uses(u, v)
        BY <2>2, <2>4, <2>7, <3>2 DEF Uses
      <4> QED
        BY <2>3, <4>1 DEF UsedOnce
    <3> QED
      BY <3>1, <3>2
  <2> QED
    BY <2>5, <2>6, <2>7 DEF UsedOnce
<1>4. ASSUME NEW t \in Tasks, Start(t) \/ StartAborted(t) \/ StartFailed(t) PROVE UsedOnce'
  <2>1. /\ UNCHANGED <<pool, busy, record, settled>> /\ phase[t] = "starting"
        /\ \A u \in Tasks \ {t} : phase'[u] = phase[u]
    BY <1>4 DEF Start, StartAborted, StartFailed, Started, pools, task, TypeOK
  <2>2. \A v \in Workers : worker'[v] = "stopped" =>
          worker[v] = "stopped" \/ (v = record[t] /\ settled[t])
    BY <1>4 DEF Start, StartAborted, StartFailed, Started, pools, TypeOK
  <2> QED
    BY <2>1, <2>2, UsedOnceFrame
<1>5. ASSUME NEW t \in Tasks, StartUnposted(t) \/ Deliver(t) PROVE UsedOnce'
  <2>1. Finish(t) /\ record' = record /\ ~keepAlive[t]
    BY <1>5 DEF StartUnposted, Deliver, NeverKept
  <2>2. /\ UNCHANGED <<pool, busy, phase>>
        /\ settled' = [settled EXCEPT ![t] = TRUE] /\ worker' = [worker EXCEPT ![record[t]] = "stopped"]
    BY <2>1 DEF Finish, Terminate
  <2>3. /\ \A u \in Tasks : settled[u] => settled'[u]
        /\ \A v \in Workers : worker'[v] = "stopped" => worker[v] = "stopped" \/ (v = record[t] /\ settled'[t])
    BY <2>2 DEF TypeOK
  <2> QED
    BY <2>1, <2>2, <2>3, UsedOnceFrame
<1>6. ASSUME NEW t \in Tasks, Close(t) \/ Die(t) PROVE UsedOnce'
  <2>1. PICK p \in {"starting", "over"} :
          /\ WakeHead([phase EXCEPT ![t] = p])
          /\ p = "starting" => phase[t] = "starting"
    <3>1. CASE phase[t] = "starting"
      <4>1. WakeHead([phase EXCEPT ![t] = "starting"])
        BY <1>6, <3>1 DEF Close, Die
      <4> QED
        BY <3>1, <4>1
    <3>2. CASE phase[t] # "starting"
      BY <1>6, <3>2 DEF Close, Die
    <3> QED
      BY <3>1, <3>2
  <2>2. phase[t] # "queued"
    BY <1>6 DEF Close, Die, PlaceInv, BeforeRun, ClosingBounded
  <2>3. \A u \in Tasks : phase'[u] \in {"starting", "running"} => phase[u] \in {"starting", "running"}
    BY <2>1, <2>2, WakeHeadEffect DEF PlaceInv
  <2>4. /\ UNCHANGED <<busy, record>> /\ pool' = WithoutRecord(t)
        /\ \A u \in Tasks : settled[u] => settled'[u]
        /\ \A v \in Workers : worker'[v] = "stopped" => worker[v] = "stopped" \/ (v = record[t] /\ settled'[t])
    BY <1>6 DEF Close, Die, TypeOK
  <2>5. \A a \in Adapters : \A v : v \in pool'[a] => v \in pool[a]
    BY <2>4 DEF WithoutRecord, TypeOK
  <2> QED
    BY <2>3, <2>4, <2>5, UsedOnceFrame
<1>7. ASSUME NEW t \in Tasks, Abort(t) \/ AbortWaiting(t) \/ Post(t) PROVE UsedOnce'
  <2>1. /\ UNCHANGED <<pool, busy, record, phase>>
        /\ \A u \in Tasks : settled[u] => settled'[u]
        /\ \A v \in Workers : worker'[v] = "stopped" => worker[v] = "stopped" \/ (v = record[t] /\ settled'[t])
    BY <1>7 DEF Abort, AbortWaiting, Post, Terminate, pools, TypeOK
  <2> QED
    BY <2>1, UsedOnceFrame
<1>8. ASSUME UNCHANGED <<pool, busy, record, phase, settled>>,
             \A v \in Workers : worker'[v] = "stopped" => worker[v] = "stopped"
      PROVE  UsedOnce'
  BY <1>8 DEF UsedOnce, Uses
<1>9. ASSUME NEW w \in Workers, Ready(w) \/ FailToStart(w) PROVE UsedOnce'
  BY <1>8, <1>9 DEF Ready, FailToStart, task, TypeOK
<1>10. ASSUME NEW b \in Adapters, Collect(b) PROVE UsedOnce'
  BY <1>10 DEF Collect, Unused, Idle, UsedOnce, TypeOK
<1>11. CASE UNCHANGED vars
  BY <1>8, <1>11 DEF vars, pools, task
<1> QED
  BY <1>1, <1>2, <1>3, <1>4, <1>5, <1>6, <1>7, <1>9, <1>10, <1>11 DEF Next, Run

\* At no time do two tasks use the same worker, nor one that was terminated.
THEOREM WorkerServesOne == Spec => []OneTaskPerWorker
<1> DEFINE Served == /\ "abort" \notin faults => HoldInv
                     /\ NeverKept => UsedOnce
<1>1. Init => Served
  <2> SUFFICES ASSUME Init PROVE Served
    OBVIOUS
  <2>1. \A t \in Tasks : /\ phase[t] = "idle" /\ record[t] = None /\ closing[t] = 0
                          /\ ~message[t] /\ ~settled[t]
    BY DEF Init
  <2>2. /\ \A a \in Adapters : pool[a] = {}
        /\ \A t \in Tasks, w \in Workers : ~Holds(t, w) /\ ~Uses(t, w)
    BY <2>1 DEF Init, Holds, Uses
  <2>3. HoldersApart /\ HeldIsBusy /\ StoppedIsHeld /\ UserHasWorker /\ LastMessage
    BY <2>1, <2>2 DEF HoldersApart, HeldIsBusy, StoppedIsHeld, UserHasWorker, LastMessage
  <2>4. UsedOnce
    BY <2>1, <2>2 DEF UsedOnce
  <2> QED
    BY <2>3, <2>4 DEF HoldInv
<1>2. TypeOK /\ TypeOK' /\ ClosingBounded /\ PlaceInv /\ Served /\ [Next]_vars => Served'
  <2> SUFFICES ASSUME TypeOK, TypeOK', ClosingBounded, PlaceInv, Served, [Next]_vars PROVE Served'
    OBVIOUS
  <2>1. faults' = faults /\ keepAlive' = keepAlive
    BY DEF Next, vars, options, Run, RunAborted, RunOnIdle, RunOnNew, RunQueued, Start, StartAborted,
       StartUnposted, StartFailed, Deliver, Close, Abort, AbortWaiting, Post, Die, Ready, FailToStart, Collect
  <2>2. "abort" \notin faults => HoldInv'
    BY StepKeepsHolders
  <2>3. NeverKept => UsedOnce'
    BY StepKeepsUsedOnce
  <2> QED
    BY <2>1, <2>2, <2>3 DEF NeverKept
<1>3. TypeOK /\ Served => OneTaskPerWorker
  <2> SUFFICES ASSUME Served, "abort" \notin faults \/ NeverKept,
                      NEW t \in Tasks, NEW u \in Tasks, NEW w \in Workers, Uses(t, w)
               PROVE  worker[w] # "stopped" /\ (Uses(u, w) => t = u)
    BY DEF OneTaskPerWorker, NeverKept
  <2>1. CASE "abort" \notin faults
    BY <2>1 DEF HoldInv, UserHasWorker, HoldersApart, Holds, Uses
  <2>2. CASE NeverKept
    BY <2>2, RunPoolAssumption DEF UsedOnce, Uses
  <2> QED
    BY <2>1, <2>2
<1> QED
  BY <1>1, <1>2, <1>3, TypeInductive, PlaceInductive, PTL DEF Spec
================================================================================
