----------------------------- MODULE DebounceProofs -----------------------------
(* Theorems about Debounce.                                                      *)
EXTENDS Debounce, TLAPS

\* A call is pending while it is collected or its handler runs.
PromiseKnown ==
  \A x \in Calls : promise[x] = "pending" <=>
    \/ \E c \in Caches : x \in CallsOf(tasks[c])
    \/ \E b \in batches : x \in CallsOf(b.tasks)

\* No call is in two batches.
BatchesApart ==
  \A x \in Calls :
    /\ \A c, d \in Caches : x \in CallsOf(tasks[c]) /\ x \in CallsOf(tasks[d]) => c = d
    /\ \A b, e \in batches : x \in CallsOf(b.tasks) /\ x \in CallsOf(e.tasks) => b = e
    /\ \A c \in Caches, b \in batches : ~(x \in CallsOf(tasks[c]) /\ x \in CallsOf(b.tasks))

TimerArmed == \A c \in Caches : tasks[c] # << >> <=> timer[c] # None

\* What a context has collected came from functions that have this context.  So
\* the abort of a function, which empties its context, leaves nothing of it.
OwnContext == \A c \in Caches : \A i \in DOMAIN tasks[c] : cache[tasks[c][i].by] = c

DebounceInv == /\ TypeOK /\ PromiseKnown /\ BatchesApart /\ TimerArmed
               /\ OwnContext /\ DataOfTheBatch /\ AbortCancels

Task == [call : Calls, by : Wrappers]

-----------------------------------------------------------------------------
(* The operators on batches. *)

LEMMA EmptyBatch ==
  << >> \in Tasks /\ DOMAIN << >> = {} /\ CallsOf(<< >>) = {} /\ Surviving(<< >>) = {}
BY DEF Tasks, CallsOf, Surviving

LEMMA BatchType ==
  ASSUME NEW s \in Tasks
  PROVE  /\ CallsOf(s) \subseteq Calls /\ Surviving(s) \subseteq CallsOf(s)
         /\ DOMAIN s = 1 .. Len(s) /\ Len(s) \in Nat
         /\ \A i \in DOMAIN s : s[i] \in Task
<1>1. /\ DOMAIN s = 1 .. Len(s) /\ Len(s) \in Nat
      /\ \A i \in DOMAIN s : s[i] \in Task
  <2>1. s \in Seq(Task)
    BY DEF Tasks, Task
  <2>2. DOMAIN s = 1 .. Len(s) /\ Len(s) \in Nat
    BY <2>1
  <2>3. \A i \in 1 .. Len(s) : s[i] \in Task
    BY <2>1
  <2> QED
    BY <2>2, <2>3
<1>2. CallsOf(s) \subseteq Calls
  BY <1>1 DEF CallsOf, Task
<1>3. Surviving(s) \subseteq CallsOf(s)
  BY DEF Surviving, CallsOf
<1> QED
  BY <1>1, <1>2, <1>3

\* One more call.
LEMMA AppendedBatch ==
  ASSUME NEW s \in Tasks, NEW x \in Calls, NEW w \in Wrappers,
         NEW a, a = Append(s, [call |-> x, by |-> w])
  PROVE  /\ a \in Tasks /\ a # << >>
         /\ DOMAIN a = DOMAIN s \cup {Len(s) + 1} /\ Len(s) + 1 \notin DOMAIN s
         /\ a[Len(s) + 1] = [call |-> x, by |-> w]
         /\ \A i \in DOMAIN s : a[i] = s[i]
         /\ CallsOf(a) = CallsOf(s) \cup {x}
<1>1. /\ a \in Tasks /\ a # << >> /\ Len(a) = Len(s) + 1 /\ Len(s) \in Nat
      /\ DOMAIN a = 1 .. Len(s) + 1 /\ DOMAIN s = 1 .. Len(s)
      /\ a[Len(s) + 1] = [call |-> x, by |-> w]
      /\ \A i \in 1 .. Len(s) : a[i] = s[i]
  BY DEF Tasks
<1>2. DOMAIN a = DOMAIN s \cup {Len(s) + 1} /\ Len(s) + 1 \notin DOMAIN s
  BY <1>1
<1>3. CallsOf(a) = CallsOf(s) \cup {x}
  <2>1. \A i \in DOMAIN s : a[i].call = s[i].call
    BY <1>1
  <2>2. a[Len(s) + 1].call = x
    BY <1>1
  <2> QED
    BY <1>2, <2>1, <2>2 DEF CallsOf
<1> QED
  BY <1>1, <1>2, <1>3

\* It is merged with what survives, or replaces it.
LEMMA AppendedSurvives ==
  ASSUME NEW s \in Tasks, NEW x \in Calls, NEW w \in Wrappers
  PROVE  Surviving(Append(s, [call |-> x, by |-> w])) =
           IF reducer[w] THEN Surviving(s) \cup {x} ELSE {x}
<1> DEFINE a == Append(s, [call |-> x, by |-> w])
           n == Len(s) + 1
           Alive(t, j) == \A l \in DOMAIN t : l > j => reducer[t[l].by]
<1>1. /\ DOMAIN a = DOMAIN s \cup {n} /\ n \notin DOMAIN s /\ n \in Nat
      /\ a[n].call = x /\ a[n].by = w
      /\ \A i \in DOMAIN s : a[i] = s[i] /\ i < n /\ i \in Nat
  BY AppendedBatch, BatchType
<1>2. Alive(a, n)
  BY <1>1
<1>3. \A j \in DOMAIN s : Alive(a, j) <=> Alive(s, j) /\ reducer[w]
  <2> SUFFICES ASSUME NEW j \in DOMAIN s PROVE Alive(a, j) <=> Alive(s, j) /\ reducer[w]
    OBVIOUS
  <2>1. ASSUME Alive(a, j) PROVE Alive(s, j) /\ reducer[w]
    BY <1>1, <2>1
  <2>2. ASSUME Alive(s, j), reducer[w] PROVE Alive(a, j)
    BY <1>1, <2>2
  <2> QED
    BY <2>1, <2>2
<1>4. Surviving(a) = {a[i].call : i \in {j \in DOMAIN a : Alive(a, j)}}
  BY DEF Surviving
<1>5. Surviving(s) = {s[i].call : i \in {j \in DOMAIN s : Alive(s, j)}}
  BY DEF Surviving
<1> HIDE DEF a, n, Alive
<1>6. CASE reducer[w]
  <2>1. {j \in DOMAIN a : Alive(a, j)} = {j \in DOMAIN s : Alive(s, j)} \cup {n}
    BY <1>1, <1>2, <1>3, <1>6
  <2> QED
    BY <1>1, <1>4, <1>5, <1>6, <2>1 DEF a
<1>7. CASE ~reducer[w]
  <2>1. {j \in DOMAIN a : Alive(a, j)} = {n}
    BY <1>1, <1>2, <1>3, <1>7
  <2> QED
    BY <1>1, <1>4, <1>7, <2>1 DEF a
<1> QED
  BY <1>6, <1>7

-----------------------------------------------------------------------------
LEMMA InitInv == Init => DebounceInv
<1> SUFFICES ASSUME Init PROVE DebounceInv
  OBVIOUS
<1>1. /\ \A c \in Caches : tasks[c] = << >> /\ data[c] = {} /\ timer[c] = None
      /\ batches = {} /\ \A x \in Calls : promise[x] = "idle"
  BY DEF Init
<1>2. TypeOK
  BY EmptyBatch DEF Init, TypeOK
<1>3. PromiseKnown /\ BatchesApart /\ TimerArmed
  BY <1>1, EmptyBatch DEF PromiseKnown, BatchesApart, TimerArmed
<1>4. OwnContext /\ AbortCancels /\ DataOfTheBatch
  BY <1>1, EmptyBatch DEF OwnContext, AbortCancels, DataOfTheBatch
<1> QED
  BY <1>2, <1>3, <1>4 DEF DebounceInv

\* debounce() is called: what the contexts have collected stays.
LEMMA MakeInv == ASSUME DebounceInv, NEW w \in Wrappers, Make(w) PROVE DebounceInv'
<1> USE DEF DebounceInv
<1>1. /\ UNCHANGED <<key, reducer, aborted, tasks, data, timer, batches, promise>> /\ cache[w] = None
      /\ \E c \in Caches : cache' = [cache EXCEPT ![w] = c]
      /\ registry' \in [Keys -> Caches \cup {None}]
  <2>1. CASE Share(w)
    BY <2>1 DEF Make, Share, Registered, TypeOK
  <2>2. CASE MakeContext(w)
    BY <2>2 DEF Make, MakeContext, TypeOK
  <2> QED
    BY <2>1, <2>2 DEF Make
<1>2. TypeOK'
  BY <1>1 DEF TypeOK
<1>3. PromiseKnown' /\ BatchesApart' /\ TimerArmed' /\ DataOfTheBatch' /\ AbortCancels'
  BY <1>1 DEF PromiseKnown, BatchesApart, TimerArmed, DataOfTheBatch, AbortCancels, Surviving
<1>4. OwnContext'
  <2> SUFFICES ASSUME NEW c \in Caches, NEW i \in DOMAIN tasks[c] PROVE cache'[tasks[c][i].by] = c
    BY <1>1 DEF OwnContext
  <2>1. cache[tasks[c][i].by] = c /\ c # None
    BY DebounceAssumption DEF OwnContext
  <2> QED
    BY <1>1, <2>1 DEF TypeOK
<1> QED
  BY <1>2, <1>3, <1>4

\* A call that is not collected is none of those that are.
LEMMA EndsAtOnce ==
  ASSUME DebounceInv, NEW x \in Calls, promise[x] = "idle", promise' = [promise EXCEPT ![x] = "settled"],
         UNCHANGED <<key, reducer, aborted, cache, contexts, batches>>
  PROVE  DebounceInv'
<1> USE DEF DebounceInv
<1>1. /\ UNCHANGED <<key, reducer, aborted, cache, registry, tasks, data, timer, batches>>
      /\ \A y \in Calls : promise'[y] = "pending" <=> promise[y] = "pending"
      /\ promise' \in [Calls -> {"idle", "pending", "settled"}]
  BY DEF contexts, TypeOK
<1>2. TypeOK'
  BY <1>1 DEF TypeOK
<1>3. PromiseKnown' /\ BatchesApart'
  BY <1>1 DEF PromiseKnown, BatchesApart
<1>4. TimerArmed' /\ DataOfTheBatch' /\ AbortCancels' /\ OwnContext'
  BY <1>1 DEF TimerArmed, DataOfTheBatch, AbortCancels, Surviving, OwnContext
<1> QED
  BY <1>2, <1>3, <1>4

LEMMA CallInv == ASSUME DebounceInv, NEW x \in Calls, NEW w \in Wrappers, Call(x, w) PROVE DebounceInv'
<1> USE DEF DebounceInv
<1> DEFINE c == cache[w]
<1>1. /\ promise[x] = "idle" /\ c \in Caches /\ ~aborted[w]
      /\ tasks[c] \in Tasks /\ data[c] \subseteq Calls
  BY DEF Call, Refuses, TypeOK
<1>2. /\ UNCHANGED <<key, reducer, aborted, cache, registry, batches>>
      /\ tasks' = [tasks EXCEPT ![c] = Append(tasks[c], [call |-> x, by |-> w])]
      /\ data' = [data EXCEPT ![c] = Merged(w, c, x)]
      /\ timer' = [timer EXCEPT ![c] = w]
      /\ promise' = [promise EXCEPT ![x] = "pending"]
  BY DEF Call
<1>3. /\ tasks'[c] = Append(tasks[c], [call |-> x, by |-> w])
      /\ data'[c] = Merged(w, c, x) /\ timer'[c] = w
      /\ \A d \in Caches \ {c} : tasks'[d] = tasks[d] /\ data'[d] = data[d] /\ timer'[d] = timer[d]
      /\ \A y \in Calls : promise'[y] = IF y = x THEN "pending" ELSE promise[y]
  BY <1>1, <1>2 DEF TypeOK
<1>4. /\ tasks'[c] \in Tasks /\ tasks'[c] # << >> /\ CallsOf(tasks'[c]) = CallsOf(tasks[c]) \cup {x}
      /\ DOMAIN tasks'[c] = DOMAIN tasks[c] \cup {Len(tasks[c]) + 1}
      /\ tasks'[c][Len(tasks[c]) + 1] = [call |-> x, by |-> w]
      /\ \A i \in DOMAIN tasks[c] : tasks'[c][i] = tasks[c][i]
  <2> DEFINE s == tasks[c]  a == tasks'[c]
  <2>1. s \in Tasks /\ a = Append(s, [call |-> x, by |-> w])
    BY <1>1, <1>3
  <2> HIDE DEF s, a
  <2>2. x \in Calls /\ w \in Wrappers
    OBVIOUS
  <2>3. /\ a \in Tasks /\ a # << >>
        /\ DOMAIN a = DOMAIN s \cup {Len(s) + 1} /\ Len(s) + 1 \notin DOMAIN s
        /\ a[Len(s) + 1] = [call |-> x, by |-> w]
        /\ \A i \in DOMAIN s : a[i] = s[i]
        /\ CallsOf(a) = CallsOf(s) \cup {x}
    <3> HIDE DEF DebounceInv, c
    <3>1. \A t \in Tasks, y \in Calls, v \in Wrappers : \A e :
            e = Append(t, [call |-> y, by |-> v]) =>
              /\ e \in Tasks /\ e # << >>
              /\ DOMAIN e = DOMAIN t \cup {Len(t) + 1} /\ Len(t) + 1 \notin DOMAIN t
              /\ e[Len(t) + 1] = [call |-> y, by |-> v]
              /\ \A i \in DOMAIN t : e[i] = t[i]
              /\ CallsOf(e) = CallsOf(t) \cup {y}
      BY AppendedBatch
    <3>2. \A e : e = Append(s, [call |-> x, by |-> w]) =>
              /\ e \in Tasks /\ e # << >>
              /\ DOMAIN e = DOMAIN s \cup {Len(s) + 1} /\ Len(s) + 1 \notin DOMAIN s
              /\ e[Len(s) + 1] = [call |-> x, by |-> w]
              /\ \A i \in DOMAIN s : e[i] = s[i]
              /\ CallsOf(e) = CallsOf(s) \cup {x}
      BY <2>1, <2>2, <3>1, Zenon
    <3> QED
      BY <2>1, <3>2
  <2> QED
    BY <2>3 DEF s, a
<1>5. TypeOK'
  <2>1. Merged(w, c, x) \subseteq Calls
    BY <1>1 DEF Merged
  <2> QED
    BY <1>1, <1>2, <1>4, <2>1 DEF TypeOK
<1>6. /\ \A d \in Caches : x \notin CallsOf(tasks[d])
      /\ \A b \in batches : x \notin CallsOf(b.tasks)
  BY <1>1 DEF PromiseKnown
<1>7. \A d \in Caches, y \in Calls : y \in CallsOf(tasks'[d]) <=> y \in CallsOf(tasks[d]) \/ (y = x /\ d = c)
  BY <1>3, <1>4
<1>8. PromiseKnown'
  <2> SUFFICES ASSUME NEW y \in Calls
               PROVE  promise'[y] = "pending" <=> \/ \E d \in Caches : y \in CallsOf(tasks'[d])
                                                  \/ \E b \in batches : y \in CallsOf(b.tasks)
    BY <1>2 DEF PromiseKnown
  <2>1. CASE y = x
    BY <1>1, <1>3, <1>7, <2>1
  <2>2. CASE y # x
    BY <1>3, <1>7, <2>2 DEF PromiseKnown
  <2> QED
    BY <2>1, <2>2
<1>9. BatchesApart'
  BY <1>2, <1>6, <1>7 DEF BatchesApart
<1>10. TimerArmed'
  BY <1>3, <1>4, DebounceAssumption DEF TimerArmed
<1>11. OwnContext' /\ AbortCancels'
  <2> SUFFICES ASSUME NEW d \in Caches, NEW i \in DOMAIN tasks'[d]
               PROVE  cache[tasks'[d][i].by] = d /\ ~aborted[tasks'[d][i].by]
    BY <1>2 DEF OwnContext, AbortCancels
  <2>1. CASE d = c /\ i = Len(tasks[c]) + 1
    BY <1>1, <1>4, <2>1
  <2>2. CASE ~(d = c /\ i = Len(tasks[c]) + 1)
    <3>1. i \in DOMAIN tasks[d] /\ tasks'[d][i] = tasks[d][i]
      BY <1>3, <1>4, <2>2
    <3> QED
      BY <3>1 DEF OwnContext, AbortCancels
  <2> QED
    BY <2>1, <2>2
<1>12. DataOfTheBatch'
  <2>1. \A s : Surviving(s)' = Surviving(s)
    BY <1>2 DEF Surviving
  <2>2. data'[c] = Surviving(tasks'[c])
    <3>1. data[c] = Surviving(tasks[c])
      BY <1>1 DEF DataOfTheBatch
    <3>2. Surviving(tasks'[c]) = IF reducer[w] THEN data[c] \cup {x} ELSE {x}
      BY <1>1, <1>3, <3>1, AppendedSurvives
    <3> QED
      BY <1>3, <3>2 DEF Merged
  <2>3. \A d \in Caches : data'[d] = Surviving(tasks'[d])
    BY <1>3, <2>2 DEF DataOfTheBatch
  <2>4. \A b \in batches : b.data = Surviving(b.tasks)
    BY DEF DataOfTheBatch
  <2> QED
    BY <1>2, <2>3, <2>4 DEF DataOfTheBatch, Surviving
<1> QED
  BY <1>5, <1>8, <1>9, <1>10, <1>11, <1>12

\* A batch leaves its context, by the timer or by an abort.
LEMMA TakenBatch ==
  ASSUME TypeOK, NEW c \in Caches, NEW w, TakeBatch(c, w)
  PROVE  /\ tasks'[c] = << >> /\ data'[c] = {}
         /\ \A d \in Caches \ {c} : tasks'[d] = tasks[d] /\ data'[d] = data[d]
         /\ tasks' \in [Caches -> Tasks] /\ data' \in [Caches -> SUBSET Calls]
         /\ registry' \in [Keys -> Caches \cup {None}]
         /\ \A d \in Caches, x \in Calls : x \in CallsOf(tasks'[d]) <=> x \in CallsOf(tasks[d]) /\ d # c
<1>1. /\ tasks'[c] = << >> /\ data'[c] = {}
      /\ \A d \in Caches \ {c} : tasks'[d] = tasks[d] /\ data'[d] = data[d]
      /\ tasks' \in [Caches -> Tasks] /\ data' \in [Caches -> SUBSET Calls]
  BY EmptyBatch DEF TakeBatch, DataTaken, TypeOK
<1>2. registry' \in [Keys -> Caches \cup {None}]
  BY DEF TakeBatch, TypeOK
<1>3. \A d \in Caches, x \in Calls : x \in CallsOf(tasks'[d]) <=> x \in CallsOf(tasks[d]) /\ d # c
  BY <1>1, EmptyBatch
<1> QED
  BY <1>1, <1>2, <1>3

LEMMA FireInv == ASSUME DebounceInv, NEW c \in Caches, Fire(c) PROVE DebounceInv'
<1> USE DEF DebounceInv
<1> DEFINE n == [tasks |-> tasks[c], data |-> data[c]]
<1>1. /\ timer[c] # None /\ batches' = batches \cup {n} /\ TakeBatch(c, timer[c])
      /\ timer' = [timer EXCEPT ![c] = None]
      /\ UNCHANGED <<key, reducer, aborted, cache, promise>>
  BY DEF Fire
<1>2. /\ tasks'[c] = << >> /\ data'[c] = {}
      /\ \A d \in Caches \ {c} : tasks'[d] = tasks[d] /\ data'[d] = data[d]
      /\ tasks' \in [Caches -> Tasks] /\ data' \in [Caches -> SUBSET Calls]
      /\ registry' \in [Keys -> Caches \cup {None}]
      /\ \A d \in Caches, x \in Calls : x \in CallsOf(tasks'[d]) <=> x \in CallsOf(tasks[d]) /\ d # c
  BY <1>1, TakenBatch
<1>3. n.tasks = tasks[c] /\ n.data = data[c] /\ n \in [tasks : Tasks, data : SUBSET Calls]
  BY DEF TypeOK
<1> HIDE DEF n
<1>4. TypeOK'
  BY <1>1, <1>2, <1>3 DEF TypeOK
<1>5. PromiseKnown'
  <2> SUFFICES ASSUME NEW x \in Calls
               PROVE  promise[x] = "pending" <=> \/ \E d \in Caches : x \in CallsOf(tasks'[d])
                                                \/ \E b \in batches' : x \in CallsOf(b.tasks)
    BY <1>1 DEF PromiseKnown
  <2>1. (\E b \in batches' : x \in CallsOf(b.tasks)) <=>
          (\E b \in batches : x \in CallsOf(b.tasks)) \/ x \in CallsOf(tasks[c])
    BY <1>1, <1>3
  <2>2. (\E d \in Caches : x \in CallsOf(tasks'[d])) <=>
          (\E d \in Caches : x \in CallsOf(tasks[d]) /\ d # c)
    BY <1>2
  <2> QED
    BY <2>1, <2>2 DEF PromiseKnown
<1>6. BatchesApart'
  <2> SUFFICES ASSUME NEW x \in Calls
               PROVE  /\ \A d, e \in Caches : x \in CallsOf(tasks'[d]) /\ x \in CallsOf(tasks'[e]) => d = e
                      /\ \A b, e \in batches' : x \in CallsOf(b.tasks) /\ x \in CallsOf(e.tasks) => b = e
                      /\ \A d \in Caches, b \in batches' : ~(x \in CallsOf(tasks'[d]) /\ x \in CallsOf(b.tasks))
    BY DEF BatchesApart
  <2>1. \A d, e \in Caches : x \in CallsOf(tasks[d]) /\ x \in CallsOf(tasks[e]) => d = e
    BY DEF BatchesApart
  <2>2. \A b, e \in batches : x \in CallsOf(b.tasks) /\ x \in CallsOf(e.tasks) => b = e
    BY DEF BatchesApart
  <2>3. \A d \in Caches, b \in batches : ~(x \in CallsOf(tasks[d]) /\ x \in CallsOf(b.tasks))
    BY DEF BatchesApart
  <2>4. \A b \in batches' : b = n \/ b \in batches
    BY <1>1
  <2> QED
    BY <1>2, <1>3, <2>1, <2>2, <2>3, <2>4
<1>7. TimerArmed'
  BY <1>1, <1>2 DEF TimerArmed, TypeOK
<1>8. OwnContext' /\ AbortCancels'
  BY <1>1, <1>2, EmptyBatch DEF OwnContext, AbortCancels
<1>9. DataOfTheBatch'
  <2>1. \A b \in batches' : b.data = Surviving(b.tasks)
    BY <1>1, <1>3 DEF DataOfTheBatch
  <2>2. \A d \in Caches : data'[d] = Surviving(tasks'[d])
    BY <1>2, EmptyBatch DEF DataOfTheBatch
  <2> QED
    BY <1>1, <2>1, <2>2 DEF DataOfTheBatch, Surviving
<1> QED
  BY <1>4, <1>5, <1>6, <1>7, <1>8, <1>9

LEMMA SettledCalls ==
  ASSUME TypeOK, NEW s \in Tasks, Settle(s)
  PROVE  /\ promise' \in [Calls -> {"idle", "pending", "settled"}]
         /\ \A x \in Calls : promise'[x] = "pending" <=> promise[x] = "pending" /\ x \notin CallsOf(s)
BY DEF Settle, TypeOK

LEMMA FinishInv == ASSUME DebounceInv, NEW b \in batches, Finish(b) PROVE DebounceInv'
<1> USE DEF DebounceInv
<1>1. /\ batches' = batches \ {b} /\ Settle(b.tasks)
      /\ UNCHANGED <<key, reducer, aborted, cache, registry, tasks, data, timer>>
  BY DEF Finish, SettleAll, contexts
<1>2. b.tasks \in Tasks
  BY DEF TypeOK
<1>3. /\ promise' \in [Calls -> {"idle", "pending", "settled"}]
      /\ \A x \in Calls : promise'[x] = "pending" <=> promise[x] = "pending" /\ x \notin CallsOf(b.tasks)
  BY <1>1, <1>2, SettledCalls
<1>4. TypeOK'
  BY <1>1, <1>3 DEF TypeOK
<1>5. PromiseKnown'
  BY <1>1, <1>3 DEF PromiseKnown, BatchesApart
<1>6. BatchesApart'
  BY <1>1 DEF BatchesApart
<1>7. TimerArmed' /\ OwnContext' /\ AbortCancels' /\ DataOfTheBatch'
  BY <1>1 DEF TimerArmed, OwnContext, AbortCancels, DataOfTheBatch, Surviving
<1> QED
  BY <1>4, <1>5, <1>6, <1>7

LEMMA AbortInv == ASSUME DebounceInv, NEW w \in Wrappers, Abort(w) PROVE DebounceInv'
<1> USE DEF DebounceInv
<1>1. /\ aborted' = [aborted EXCEPT ![w] = TRUE]
      /\ UNCHANGED <<key, reducer, cache, batches>>
  BY DEF Abort
<1>2. aborted' \in [Wrappers -> BOOLEAN]
      /\ \A v \in Wrappers : aborted'[v] => aborted[v] \/ v = w
  BY <1>1 DEF TypeOK
<1>3. \A c \in Caches : \A i \in DOMAIN tasks[c] : tasks[c][i].by \in Wrappers
  BY BatchType DEF TypeOK, Task
<1>4. CASE cache[w] = None
  <2>1. UNCHANGED <<registry, tasks, data, timer, promise>>
    BY <1>4 DEF Abort, contexts
  <2>2. TypeOK'
    BY <1>1, <1>2, <2>1 DEF TypeOK
  <2>3. PromiseKnown' /\ BatchesApart' /\ TimerArmed' /\ OwnContext' /\ DataOfTheBatch'
    BY <1>1, <2>1 DEF PromiseKnown, BatchesApart, TimerArmed, OwnContext, DataOfTheBatch, Surviving
  <2>4. AbortCancels'
    <3> SUFFICES ASSUME NEW c \in Caches, NEW i \in DOMAIN tasks[c] PROVE ~aborted'[tasks[c][i].by]
      BY <2>1 DEF AbortCancels
    <3>1. tasks[c][i].by # w
      BY <1>4, DebounceAssumption DEF OwnContext
    <3> QED
      BY <1>2, <1>3, <3>1 DEF AbortCancels
  <2> QED
    BY <2>2, <2>3, <2>4
<1>5. CASE cache[w] # None
  <2> DEFINE c == cache[w]
  <2>1. /\ c \in Caches /\ timer' = [timer EXCEPT ![c] = None]
        /\ TakeBatch(c, w) /\ Settle(tasks[c]) /\ tasks[c] \in Tasks
    BY <1>5 DEF Abort, ClearTimeout, TypeOK
  <2>2. /\ tasks'[c] = << >> /\ data'[c] = {}
        /\ \A d \in Caches \ {c} : tasks'[d] = tasks[d] /\ data'[d] = data[d]
        /\ tasks' \in [Caches -> Tasks] /\ data' \in [Caches -> SUBSET Calls]
        /\ registry' \in [Keys -> Caches \cup {None}]
        /\ \A d \in Caches, x \in Calls : x \in CallsOf(tasks'[d]) <=> x \in CallsOf(tasks[d]) /\ d # c
    BY <2>1, TakenBatch
  <2>3. /\ promise' \in [Calls -> {"idle", "pending", "settled"}]
        /\ \A x \in Calls : promise'[x] = "pending" <=> promise[x] = "pending" /\ x \notin CallsOf(tasks[c])
    BY <2>1, SettledCalls
  <2>4. TypeOK'
    BY <1>1, <1>2, <2>1, <2>2, <2>3 DEF TypeOK
  <2>5. PromiseKnown'
    BY <1>1, <2>1, <2>2, <2>3 DEF PromiseKnown, BatchesApart
  <2>6. BatchesApart'
    BY <1>1, <2>2 DEF BatchesApart
  <2>7. TimerArmed'
    BY <2>1, <2>2 DEF TimerArmed, TypeOK
  <2>8. OwnContext'
    BY <1>1, <2>2, EmptyBatch DEF OwnContext
  <2>9. AbortCancels'
    <3> SUFFICES ASSUME NEW d \in Caches, NEW i \in DOMAIN tasks'[d] PROVE ~aborted'[tasks'[d][i].by]
      BY DEF AbortCancels
    <3>1. d # c
      BY <2>2, EmptyBatch
    <3>2. i \in DOMAIN tasks[d] /\ tasks'[d] = tasks[d]
      BY <2>2, <3>1
    <3>3. tasks[d][i].by # w
      BY <3>1, <3>2 DEF OwnContext
    <3> QED
      BY <1>2, <1>3, <3>2, <3>3 DEF AbortCancels
  <2>10. DataOfTheBatch'
    <3>1. \A d \in Caches : data'[d] = Surviving(tasks'[d])
      BY <2>2, EmptyBatch DEF DataOfTheBatch
    <3> QED
      BY <1>1, <3>1 DEF DataOfTheBatch, Surviving
  <2> QED
    BY <2>4, <2>5, <2>6, <2>7, <2>8, <2>9, <2>10
<1> QED
  BY <1>4, <1>5

LEMMA DebounceInductive == Spec => []DebounceInv
<1>1. DebounceInv /\ [Next]_vars => DebounceInv'
  <2> SUFFICES ASSUME DebounceInv, [Next]_vars PROVE DebounceInv'
    OBVIOUS
  <2>1. ASSUME NEW w \in Wrappers, NEW x \in Calls, CallRefused(x, w) \/ ReducerThrows(x, w)
        PROVE  DebounceInv'
    BY <2>1, EndsAtOnce DEF CallRefused, ReducerThrows
  <2>2. CASE UNCHANGED vars
    BY <2>2 DEF vars, contexts, DebounceInv, TypeOK, PromiseKnown, BatchesApart, TimerArmed, OwnContext,
       DataOfTheBatch, AbortCancels, Surviving
  <2> QED
    BY <2>1, <2>2, MakeInv, AbortInv, CallInv, FireInv, FinishInv DEF Next
<1> QED
  BY <1>1, InitInv, PTL DEF Spec

\* Every variable of the contexts and of the promises stays within its type.
THEOREM DebounceTypeCorrect == Spec => []TypeOK
BY DebounceInductive, PTL DEF DebounceInv

\* A pending call is in one batch, which is going to settle it.
THEOREM OneBatchEach == Spec => []PendingInOneBatch
<1>1. DebounceInv => PendingInOneBatch
  <2> SUFFICES ASSUME DebounceInv, NEW x \in Calls
               PROVE  /\ promise[x] = "pending" <=> Collected(x) \cup Running(x) # {}
                      /\ \A p, q \in Collected(x) \cup Running(x) : p = q
    BY DEF PendingInOneBatch, DebounceInv, TimerArmed
  <2>1. /\ \A p : p \in Collected(x) <=> p \in Caches /\ x \in CallsOf(tasks[p])
        /\ \A p : p \in Running(x) <=> p \in batches /\ x \in CallsOf(p.tasks)
    BY DEF Collected, Running
  <2>2. promise[x] = "pending" <=> Collected(x) \cup Running(x) # {}
    BY <2>1 DEF DebounceInv, PromiseKnown
  <2>3. \A p, q \in Collected(x) \cup Running(x) : p = q
    BY <2>1 DEF DebounceInv, BatchesApart
  <2> QED
    BY <2>2, <2>3
<1> QED
  BY <1>1, DebounceInductive, PTL

\* The handler is given the data of its own batch, merged as the reducers say.
THEOREM BatchHasItsData == Spec => []DataOfTheBatch
BY DebounceInductive, PTL DEF DebounceInv

\* No handler is going to run for a call of a function that was aborted.
THEOREM AbortEndsCalls == Spec => []AbortCancels
BY DebounceInductive, PTL DEF DebounceInv
================================================================================
