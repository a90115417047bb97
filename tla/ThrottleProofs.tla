----------------------------- MODULE ThrottleProofs -----------------------------
(* Theorems about Throttle.                                                      *)
EXTENDS Throttle, TLAPS

\* The durations and the times are numbers.
LEMMA Numbers ==
  ASSUME TypeOK
  PROVE  /\ \A w \in Wrappers : duration[w] \in Nat
         /\ \A r \in Runs : /\ ended[r] = None \/ ended[r] \in Nat
                            /\ begun[r] = None \/ begun[r] \in Nat
         /\ now \in Nat /\ runs \in Nat /\ expires \in Nat
<1>1. \A w \in Wrappers : duration[w] \in Durations
  BY DEF TypeOK
<1>2. \A n \in 0 .. MaxTime : n \in Nat
  BY ThrottleAssumption
<1>3. \A n \in 0 .. MaxRuns : n \in Nat
  BY ThrottleAssumption
<1>4. \A r \in Runs : /\ ended[r] = None \/ ended[r] \in 0 .. MaxTime
                      /\ begun[r] = None \/ begun[r] \in 0 .. MaxTime
  BY DEF TypeOK
<1>5. now \in 0 .. MaxTime /\ runs \in 0 .. MaxRuns /\ expires \in Nat
  BY DEF TypeOK
<1> QED
  BY <1>1, <1>2, <1>3, <1>4, <1>5, ThrottleAssumption

LEMMA ResultType ==
  ASSUME TypeOK, HasResult PROVE result.run \in Runs /\ result.kind \in {"value", "error"}
BY DEF TypeOK, HasResult, Results

\* Only the last run may be pending, every run was started by a function, and
\* the result is that of the last run that has ended.
RunsInOrder ==
  /\ \A r \in Runs : r <= runs =>
       /\ begun[r] # None /\ begun[r] <= now /\ runBy[r] # None
       /\ ended[r] # None => ended[r] <= now /\ HasResult /\ r <= result.run
       /\ ended[r] = None => r = pending
  /\ \A r \in Runs : r > runs => ended[r] = None
  /\ pending # None => pending = runs /\ ended[pending] = None

\* No run that has ended outlives the expiry of the cache.
ExpiryCovers ==
  \A r \in 1 .. runs : ended[r] # None => ended[r] + duration[runBy[r]] <= expires

ThrottleInv == TypeOK /\ RunsInOrder /\ ExpiryCovers /\ RunsApart

LEMMA TickInv == ASSUME ThrottleInv, Tick PROVE ThrottleInv'
<1> USE ThrottleAssumption DEF ThrottleInv, Tick, options, cache, history
<1>1. /\ now' = now + 1 /\ now \in 0 .. MaxTime /\ now' \in 0 .. MaxTime
      /\ UNCHANGED <<duration, noWait, result, pending, expires, runs, runBy, begun, ended, reply>>
  BY DEF TypeOK
<1>2. \A r \in Runs : begun[r] \in 0 .. MaxTime \cup {None} /\ ended[r] \in 0 .. MaxTime \cup {None}
  BY DEF TypeOK
<1>3. TypeOK'
  BY <1>1 DEF TypeOK
<1>4. RunsInOrder'
  BY <1>1, <1>2 DEF RunsInOrder, HasResult
<1>5. ExpiryCovers' /\ RunsApart'
  BY <1>1 DEF ExpiryCovers, RunsApart
<1> QED
  BY <1>3, <1>4, <1>5

\* A call that is given what is there changes only the reply.
LEMMA ReplyInv ==
  ASSUME ThrottleInv, NEW w \in Wrappers, CallCached(w) \/ CallJoins(w) PROVE ThrottleInv'
<1> USE DEF ThrottleInv
<1>1. UNCHANGED <<options, now, cache, history>>
  BY DEF CallCached, CallJoins
<1>2. reply' \in Replies
  BY ResultType DEF CallCached, CallJoins, Cached, Reply, Replies, TypeOK
<1>3. TypeOK'
  BY <1>1, <1>2 DEF TypeOK, options, cache, history
<1>4. RunsInOrder' /\ ExpiryCovers' /\ RunsApart'
  BY <1>1 DEF options, cache, history, RunsInOrder, HasResult, ExpiryCovers, RunsApart
<1> QED
  BY <1>3, <1>4

\* When a function may run the handler, the last run is over long enough.
LEMMA MayRunFacts ==
  ASSUME ThrottleInv, NEW w \in Wrappers, MayRun(w)
  PROVE  /\ runs + 1 \in Runs /\ pending = None
         /\ \A q \in 1 .. runs : /\ q \in Runs /\ q # runs + 1
                                 /\ ended[q] # None
                                 /\ ended[q] + duration[runBy[q]] <= now
<1> USE ThrottleAssumption DEF ThrottleInv
<1>1. /\ runs \in Nat /\ runs < MaxRuns /\ pending = None /\ ~Cached(w)
      /\ now \in Nat /\ expires \in Nat
  BY DEF MayRun, NothingPending, TypeOK
<1>2. \A q \in 1 .. runs : q \in Runs /\ q # runs + 1 /\ q <= runs
  BY <1>1 DEF Runs
<1>3. \A q \in 1 .. runs : q # pending
  BY <1>1
<1>4. \A q \in 1 .. runs : ended[q] # None /\ HasResult
  BY <1>2, <1>3 DEF RunsInOrder
<1>5. \A q \in 1 .. runs : expires <= now
  BY <1>1, <1>4 DEF Cached
<1>6. ASSUME NEW q \in 1 .. runs PROVE ended[q] + duration[runBy[q]] <= now
  <2>1. ended[q] + duration[runBy[q]] <= expires
    BY <1>4 DEF ExpiryCovers
  <2>2. ended[q] \in Nat
    BY <1>2, <1>4 DEF TypeOK
  <2>3. runBy[q] \in Wrappers
    BY <1>2 DEF TypeOK, RunsInOrder
  <2>4. duration[runBy[q]] \in Nat
    BY <2>3 DEF TypeOK
  <2> QED
    BY <1>1, <1>5, <2>1, <2>2, <2>4
<1> QED
  BY <1>1, <1>2, <1>4, <1>6 DEF Runs

\* A run that begins: `end` is now, or None if its promise is pending.
LEMMA BeginInv ==
  ASSUME ThrottleInv, NEW w \in Wrappers, MayRun(w), NEW end \in {now, None}, Begin(w, end),
         UNCHANGED <<options, now>>,
         end = now => 
           ExpiresAfter(w) /\ pending' = pending /\ HasResult' /\ result'.run = runs + 1,
         end = None => pending' = runs + 1 /\ result' = result /\ (ExpiresAfter(w) \/ expires' = expires),
         TypeOK'
  PROVE  ThrottleInv'
<1> USE ThrottleAssumption DEF ThrottleInv
<1> DEFINE n == runs + 1
<1>1. /\ n \in Runs /\ n \in Nat /\ runs \in Nat /\ pending = None /\ runs' = n /\ n # None
      /\ now \in Nat /\ now # None /\ expires \in Nat /\ now' = now
      /\ duration' = duration /\ duration[w] \in Nat /\ w # None
  <2>1. duration' = duration /\ now' = now /\ runs' = n
    BY DEF options, Begin
  <2>2. now \in Nat /\ runs \in Nat /\ expires \in Nat /\ duration[w] \in Nat
    BY Numbers
  <2>3. n \in Runs /\ pending = None
    BY MayRunFacts
  <2> QED
    BY <2>1, <2>2, <2>3 DEF Runs
<1>2. \A r \in Runs : /\ runBy'[r] = IF r = n THEN w ELSE runBy[r]
                      /\ begun'[r] = IF r = n THEN now ELSE begun[r]
                      /\ ended'[r] = IF r = n THEN end ELSE ended[r]
  BY DEF Begin, TypeOK
<1>3. \A r \in Runs : r <= n => r = n \/ (r \in 1 .. runs /\ r # n)
  BY <1>1 DEF Runs
<1>4. \A q \in 1 .. runs : /\ q \in Runs /\ q # n /\ q <= runs
                           /\ ended[q] # None /\ ended[q] + duration[runBy[q]] <= now
                           /\ ended'[q] = ended[q] /\ begun'[q] = begun[q] /\ runBy'[q] = runBy[q]
  BY <1>1, <1>2, MayRunFacts DEF Runs
<1>5. \A q \in 1 .. runs : ended[q] \in Nat /\ duration[runBy[q]] \in Nat /\ HasResult
  <2>1. \A q \in 1 .. runs : runBy[q] \in Wrappers
    BY <1>4 DEF TypeOK, RunsInOrder
  <2>2. /\ \A v \in Wrappers : duration[v] \in Nat
        /\ \A r \in Runs : ended[r] = None \/ ended[r] \in Nat
    BY Numbers
  <2>3. \A q \in 1 .. runs : HasResult
    BY <1>4 DEF RunsInOrder
  <2> QED
    BY <1>4, <2>1, <2>2, <2>3
<1>6. RunsInOrder'
  <2>1. ASSUME NEW r \in Runs, r <= n
        PROVE  /\ begun'[r] # None /\ begun'[r] <= now /\ runBy'[r] # None
               /\ ended'[r] # None => ended'[r] <= now /\ HasResult' /\ r <= result'.run
               /\ ended'[r] = None => r = pending'
    <3>1. CASE r = n
      BY <1>1, <1>2, <3>1
    <3>2. CASE r \in 1 .. runs
      <4>1. begun[r] # None /\ begun[r] <= now /\ runBy[r] # None /\ ended[r] <= now /\ HasResult /\ r <= result.run
        BY <1>4, <3>2 DEF RunsInOrder
      <4>2. result' = result \/ (HasResult' /\ result'.run = n)
        BY <1>1
      <4>4. HasResult'
        BY <4>1, <4>2 DEF HasResult
      <4>3. r <= n
        BY <1>1, <3>2
      <4> QED
        BY <1>4, <3>2, <4>1, <4>2, <4>3, <4>4
    <3> QED
      BY <1>3, <2>1, <3>1, <3>2
  <2>2. pending' # None => pending' = n /\ ended'[pending'] = None
    BY <1>1, <1>2
  <2>3. \A r \in Runs : r > n => ended'[r] = None
    BY <1>1, <1>2 DEF RunsInOrder, Runs
  <2> QED
    BY <1>1, <2>1, <2>2, <2>3 DEF RunsInOrder
<1>7. ExpiryCovers'
  <2> SUFFICES ASSUME NEW r \in 1 .. n, ended'[r] # None
               PROVE  ended'[r] + duration[runBy'[r]] <= expires'
    BY <1>1 DEF ExpiryCovers
  <2>1. CASE r = n
    BY <1>1, <1>2, <2>1 DEF ExpiresAfter
  <2>2. CASE r # n
    <3>1. r \in 1 .. runs
      BY <1>1, <2>2
    <3>2. ended[r] + duration[runBy[r]] <= expires
      BY <1>4, <3>1 DEF ExpiryCovers
    <3>3. expires' = expires \/ expires' = now + duration[w]
      BY DEF ExpiresAfter
    <3>4. ended[r] + duration[runBy[r]] <= expires'
      BY <1>1, <1>4, <1>5, <3>1, <3>2, <3>3
    <3> QED
      BY <1>4, <3>1, <3>4
  <2> QED
    BY <2>1, <2>2
<1>8. RunsApart'
  <2> SUFFICES ASSUME NEW q \in 1 .. n, NEW r \in 1 .. n, q < r
               PROVE  ended'[q] # None /\ begun'[r] >= ended'[q] + duration[runBy'[q]]
    BY <1>1 DEF RunsApart
  <2>1. q \in 1 .. runs
    BY <1>1
  <2>2. CASE r = n
    BY <1>1, <1>2, <1>4, <2>1, <2>2
  <2>3. CASE r # n
    <3>1. r \in 1 .. runs
      BY <1>1, <2>3
    <3> QED
      BY <1>4, <2>1, <3>1 DEF RunsApart
  <2> QED
    BY <2>2, <2>3
<1> QED
  BY <1>6, <1>7, <1>8

LEMMA SyncInv == ASSUME ThrottleInv, NEW w \in Wrappers, RunsSync(w) PROVE ThrottleInv'
<1>1. runs + 1 \in Runs /\ now \in Nat /\ now # None /\ duration[w] \in Nat
  BY MayRunFacts, Numbers, ThrottleAssumption DEF RunsSync, ThrottleInv
<1>2. PICK kind \in {"value", "error"} : /\ result' = [kind |-> kind, run |-> runs + 1]
                                         /\ Reply(w, runs + 1, kind)
  BY DEF RunsSync
<1>3. /\ MayRun(w) /\ Begin(w, now) /\ ExpiresAfter(w)
      /\ UNCHANGED <<options, now>> /\ pending' = pending
  BY DEF RunsSync
<1>4. TypeOK'
  <2>1. runs' \in 0 .. MaxRuns /\ now \in 0 .. MaxTime
    BY <1>1, <1>3 DEF Begin, Runs, ThrottleInv, TypeOK
  <2>2. expires' \in Nat
    BY <1>1, <1>3 DEF ExpiresAfter
  <2>3. result' \in Results /\ reply' \in Replies
    BY <1>1, <1>2, <2>1 DEF Reply, Results, Replies
  <2> QED
    BY <1>3, <2>1, <2>2, <2>3 DEF Begin, options, ThrottleInv, TypeOK
<1>5. HasResult' /\ result'.run = runs + 1
  BY <1>2 DEF HasResult
<1> QED
  BY <1>1, <1>3, <1>4, <1>5, BeginInv

LEMMA AsyncInv == ASSUME ThrottleInv, NEW w \in Wrappers, RunsAsync(w) PROVE ThrottleInv'
<1>1. runs + 1 \in Runs /\ now \in Nat /\ now # None /\ duration[w] \in Nat
  BY MayRunFacts, Numbers, ThrottleAssumption DEF RunsAsync, ThrottleInv
<1>2. /\ MayRun(w) /\ Begin(w, None) /\ (ExpiresAfter(w) \/ expires' = expires)
      /\ UNCHANGED <<options, now, result>> /\ pending' = runs + 1
  BY DEF RunsAsync
<1>3. TypeOK'
  <2>1. runs' \in 0 .. MaxRuns /\ now \in 0 .. MaxTime
    BY <1>1, <1>2 DEF Begin, Runs, ThrottleInv, TypeOK
  <2>2. expires' \in Nat
    BY <1>1, <1>2 DEF ExpiresAfter, ThrottleInv, TypeOK
  <2>3. reply' \in Replies
    BY <1>1, <2>1, ResultType DEF RunsAsync, Reply, Replies, ThrottleInv, TypeOK
  <2> QED
    BY <1>1, <1>2, <2>1, <2>2, <2>3 DEF Begin, options, ThrottleInv, TypeOK
<1> QED
  BY <1>1, <1>2, <1>3, BeginInv

LEMMA SettleInv == ASSUME ThrottleInv, Settle PROVE ThrottleInv'
<1> USE DEF ThrottleInv
<1>1. /\ pending # None /\ pending = runs /\ pending' = None
      /\ ended' = [ended EXCEPT ![pending] = now]
      /\ result' = [kind |-> "value", run |-> pending]
      /\ expires' = now + duration[runBy[pending]]
      /\ UNCHANGED <<options, now, runs, runBy, begun, reply>>
  BY DEF Settle, ResultKept, ExpiresAfter, RunsInOrder
<1>2. pending \in Runs /\ now \in Nat /\ now # None /\ now \in 0 .. MaxTime /\ runs \in Nat
  BY <1>1, Numbers, ThrottleAssumption DEF TypeOK
<1>3. runBy[pending] \in Wrappers /\ duration[runBy[pending]] \in Nat
  BY <1>1, <1>2, Numbers DEF RunsInOrder, TypeOK
<1>4. \A r \in Runs : ended'[r] = IF r = pending THEN now ELSE ended[r]
  BY <1>1 DEF TypeOK
<1>5. TypeOK'
  <2>1. expires' \in Nat /\ result' \in Results
    BY <1>1, <1>2, <1>3 DEF Results
  <2> QED
    BY <1>1, <1>2, <2>1 DEF TypeOK, options
<1>6. RunsInOrder'
  <2>1. HasResult' /\ result'.run = pending
    BY <1>1 DEF HasResult
  <2>2. \A r \in Runs : r > runs => r # pending
    BY <1>1, <1>2 DEF Runs
  <2> QED
    BY <1>1, <1>2, <1>4, <2>1, <2>2 DEF RunsInOrder
<1>7. \A q \in 1 .. runs : q \in Runs /\ (q # pending => q < pending /\ ended[q] # None)
  <2>1. \A q \in 1 .. runs : q \in Runs /\ q <= runs /\ q <= pending
    BY <1>1, <1>2, ThrottleAssumption DEF Runs
  <2> QED
    BY <2>1, <1>2, ThrottleAssumption DEF RunsInOrder, Runs
<1>8. ExpiryCovers'
  <2> SUFFICES ASSUME NEW q \in 1 .. runs
               PROVE  ended'[q] + duration[runBy[q]] <= now + duration[runBy[pending]]
    BY <1>1 DEF ExpiryCovers, options
  <2>1. CASE q = pending
    BY <1>2, <1>3, <1>4, <2>1
  <2>2. CASE q # pending
    <3>1. ended[q] + duration[runBy[q]] <= begun[pending] /\ begun[pending] <= now
      BY <1>1, <1>2, <1>7, <2>2 DEF RunsApart, RunsInOrder, Runs
    <3>2. ended[q] \in Nat /\ begun[pending] \in Nat
      BY <1>1, <1>2, <1>7, <2>2, Numbers DEF RunsInOrder
    <3>3. duration[runBy[q]] \in Nat
      BY <1>7, Numbers DEF RunsInOrder, TypeOK
    <3> QED
      BY <1>2, <1>3, <1>4, <1>7, <2>2, <3>1, <3>2, <3>3
  <2> QED
    BY <2>1, <2>2
<1>9. RunsApart'
  <2> SUFFICES ASSUME NEW q \in 1 .. runs, NEW r \in 1 .. runs, q < r
               PROVE  ended'[q] # None /\ begun[r] >= ended'[q] + duration[runBy[q]]
    BY <1>1 DEF RunsApart, options
  <2>1. q # pending
    BY <1>1, <1>2
  <2> QED
    BY <1>4, <1>7, <2>1 DEF RunsApart
<1> QED
  BY <1>5, <1>6, <1>8, <1>9

LEMMA ThrottleInductive == Spec => []ThrottleInv
<1>1. Init => ThrottleInv
  <2> SUFFICES ASSUME Init PROVE ThrottleInv
    OBVIOUS
  <2>1. TypeOK
    BY ThrottleAssumption DEF Init, TypeOK, Results
  <2>2. runs = 0 /\ pending = None /\ \A r \in Runs : ended[r] = None
    BY DEF Init
  <2>3. RunsInOrder
    BY <2>2 DEF RunsInOrder, Runs
  <2>4. 1 .. runs = {}
    BY <2>2
  <2> QED
    BY <2>1, <2>3, <2>4 DEF ThrottleInv, ExpiryCovers, RunsApart
<1>2. ThrottleInv /\ [Next]_vars => ThrottleInv'
  <2> SUFFICES ASSUME ThrottleInv, [Next]_vars PROVE ThrottleInv'
    OBVIOUS
  <2>1. CASE Next
    BY <2>1, TickInv, SettleInv, ReplyInv, SyncInv, AsyncInv DEF Next, Call
  <2>2. CASE UNCHANGED vars
    BY <2>2 DEF vars, options, cache, history, ThrottleInv, TypeOK, RunsInOrder, HasResult,
       ExpiryCovers, RunsApart
  <2> QED
    BY <2>1, <2>2
<1> QED
  BY <1>1, <1>2, PTL DEF Spec

\* Every variable of the cache and of its history stays within its type.
THEOREM ThrottleTypeCorrect == Spec => []TypeOK
BY ThrottleInductive, PTL DEF ThrottleInv

\* Two runs of the handler are at least the duration of the first one's function
\* apart, whatever functions share the cache.
THEOREM RunsKeptApart == Spec => []RunsApart
BY ThrottleInductive, PTL DEF ThrottleInv

\* A call is given the last run that has ended, or the pending one after it.
THEOREM LatestIsGiven == Spec => LatestGiven
<1>1. ASSUME ThrottleInv, [Next]_vars, reply' # reply, NEW r \in Runs, ended'[r] # None
      PROVE  r <= reply'.run
  <2>1. runs \in Nat /\ r \in Nat
    BY <1>1, Numbers, ThrottleAssumption DEF ThrottleInv, Runs
  <2>2. ended[r] # None => r <= runs /\ HasResult /\ r <= result.run
    <3>1. ended[r] # None => r <= runs
      BY <1>1, <2>1 DEF ThrottleInv, RunsInOrder
    <3> QED
      BY <1>1, <3>1 DEF ThrottleInv, RunsInOrder
  <2>3. PICK w \in Wrappers : Call(w)
    BY <1>1 DEF Next, Tick, Settle, vars
  <2>4. CASE CallCached(w)
    BY <1>1, <2>2, <2>4 DEF CallCached, Reply, history
  <2>5. CASE CallJoins(w)
    BY <1>1, <2>1, <2>2, <2>5 DEF CallJoins, Reply, history, ThrottleInv, RunsInOrder
  <2>6. CASE RunsSync(w)
    <3>1. reply'.run = runs + 1 /\ (ended[r] # None \/ r = runs + 1)
      BY <1>1, <2>6 DEF RunsSync, Reply, Begin, ThrottleInv, TypeOK
    <3> QED
      BY <2>1, <2>2, <3>1
  <2>7. CASE RunsAsync(w)
    <3>1. ended[r] # None
      BY <1>1, <2>7 DEF RunsAsync, Begin, ThrottleInv, TypeOK
    <3>2. reply'.run = runs + 1 \/ reply'.run = result.run
      BY <2>7 DEF RunsAsync, Reply
    <3> QED
      BY <2>1, <2>2, <3>1, <3>2
  <2> QED
    BY <2>3, <2>4, <2>5, <2>6, <2>7 DEF Call
<1>2. ThrottleInv /\ [Next]_vars =>
        [reply' # reply => \A r \in Runs : ended'[r] # None => r <= reply'.run]_vars
  BY <1>1
<1> QED
  BY <1>2, ThrottleInductive, PTL DEF Spec, LatestGiven

\* With noWait nobody waits for a run once another has ended.
THEOREM NobodyWaits == Spec => NoWaitNeverWaits
<1>1. ASSUME ThrottleInv, [Next]_vars, reply' # reply, reply'.kind = "promise", noWait[reply'.to],
             NEW r \in Runs
      PROVE  ended[r] = None
  <2>1. PICK w \in Wrappers : Call(w)
    BY <1>1 DEF Next, Tick, Settle, vars
  <2>2. reply'.to = w /\ ~HasResult
    BY <1>1, <2>1, ResultType
    DEF Call, CallCached, CallJoins, RunsSync, RunsAsync, Reply, Cached, ThrottleInv
  <2> QED
    <3>1. r <= runs \/ r > runs
      BY <1>1, Numbers, ThrottleAssumption DEF ThrottleInv, Runs
    <3> QED
      BY <1>1, <2>2, <3>1 DEF ThrottleInv, RunsInOrder
<1>2. ThrottleInv /\ [Next]_vars =>
        [reply' # reply /\ reply'.kind = "promise" /\ noWait[reply'.to] =>
           \A r \in Runs : ended[r] = None]_vars
  BY <1>1
<1> QED
  BY <1>2, ThrottleInductive, PTL DEF Spec, NoWaitNeverWaits

-----------------------------------------------------------------------------
(* What a call is given is not over. *)

SomeNoWait == \E w \in Wrappers : noWait[w]

\* The cache expires with its result, unless that is an error cached again.
ResultFresh ==
  HasResult =>
    /\ result.run <= runs /\ ended[result.run] # None
    /\ \/ expires <= ended[result.run] + duration[runBy[result.run]]
       \/ result.kind = "error" /\ SomeNoWait

\* The last reply came before now, from a run that had begun: when that run ends
\* later, what was given does not become stale by it.
ReplyFresh ==
  reply # None =>
    /\ reply.at <= now /\ reply.run <= runs
    /\ ~noWait[reply.to] => ~Over(reply.run, reply.at) \/ (reply.kind = "error" /\ SomeNoWait)

LEMMA ReplyType ==
  ASSUME TypeOK, reply # None
  PROVE  reply.to \in Wrappers /\ reply.run \in Runs /\ reply.run \in Nat /\ reply.at \in Nat
<1>1. reply.to \in Wrappers /\ reply.run \in Runs /\ reply.at \in 0 .. MaxTime
  BY DEF TypeOK, Replies
<1> QED
  BY <1>1, ThrottleAssumption DEF Runs

\* A run that begins is none of those there were.
LEMMA BegunRuns ==
  ASSUME ThrottleInv, NEW w \in Wrappers, MayRun(w), NEW end, Begin(w, end)
  PROVE  /\ runs' = runs + 1 /\ runs + 1 \in Runs /\ runs \in Nat
         /\ ended'[runs + 1] = end /\ runBy'[runs + 1] = w
         /\ \A r \in Runs : r <= runs => ended'[r] = ended[r] /\ runBy'[r] = runBy[r]
<1>1. runs + 1 \in Runs /\ runs \in Nat
  BY MayRunFacts, Numbers DEF ThrottleInv
<1>2. \A r \in Runs : r <= runs => r # runs + 1
  BY <1>1, ThrottleAssumption DEF Runs
<1> QED
  BY <1>1, <1>2 DEF Begin, ThrottleInv, TypeOK

LEMMA StepKeepsFresh ==
  ASSUME ThrottleInv, ThrottleInv', ResultFresh, ReplyFresh, [Next]_vars
  PROVE  ResultFresh' /\ ReplyFresh'
<1> USE DEF ThrottleInv
<1>1. now \in Nat /\ runs \in Nat /\ expires \in Nat
  BY Numbers
<1>2. SomeNoWait' = SomeNoWait /\ UNCHANGED options
  BY DEF SomeNoWait, Next, Tick, Settle, Call, CallCached, CallJoins, RunsSync, RunsAsync, vars, options
<1>3. CASE Tick \/ UNCHANGED vars
  <2>1. UNCHANGED <<options, cache, history, reply>> /\ (now' = now \/ now' = now + 1)
    BY <1>3 DEF Tick, vars
  <2>2. ResultFresh'
    BY <1>2, <2>1 DEF ResultFresh, HasResult, options, cache, history
  <2>3. reply # None => reply.at <= now'
    BY <1>1, <2>1, ReplyType DEF ReplyFresh
  <2> QED
    BY <1>2, <2>1, <2>2, <2>3 DEF ReplyFresh, Over, options, cache, history
<1>4. CASE Settle
  <2>1. /\ pending \in Runs /\ pending = runs /\ ended[pending] = None
        /\ ended' = [ended EXCEPT ![pending] = now]
        /\ result' = [kind |-> "value", run |-> pending]
        /\ expires' = now + duration[runBy[pending]]
        /\ UNCHANGED <<options, now, runs, runBy, begun, reply>>
    BY <1>4 DEF Settle, ResultKept, ExpiresAfter, RunsInOrder, TypeOK
  <2>2. \A r \in Runs : ended'[r] = IF r = pending THEN now ELSE ended[r]
    BY <2>1 DEF TypeOK
  <2>3. now # None
    BY <1>1, ThrottleAssumption
  <2>4. duration[runBy[pending]] \in Nat
    BY <2>1, Numbers DEF RunsInOrder, TypeOK
  <2>5. ResultFresh'
    BY <1>1, <2>1, <2>2, <2>3, <2>4 DEF ResultFresh, options
  <2>6. ASSUME reply # None, ~noWait[reply.to]
        PROVE  ~Over(reply.run, reply.at)' \/ (reply.kind = "error" /\ SomeNoWait)
    <3>1. reply.at \in Nat /\ reply.run \in Runs /\ reply.at <= now
      BY <2>6, ReplyType DEF ReplyFresh
    <3>2. CASE reply.run = pending
      BY <1>1, <2>1, <2>2, <3>1, <3>2 DEF Over
    <3>3. CASE reply.run # pending
      <4>1. ended'[reply.run] = ended[reply.run] /\ runBy' = runBy /\ duration' = duration /\ reply' = reply
        BY <2>1, <2>2, <3>1, <3>3 DEF options
      <4> QED
        BY <2>6, <4>1 DEF ReplyFresh, Over
    <3> QED
      BY <3>2, <3>3
  <2> QED
    BY <1>2, <2>1, <2>5, <2>6 DEF ReplyFresh, options
<1>5. ASSUME NEW w \in Wrappers, CallCached(w) \/ CallJoins(w) PROVE ResultFresh' /\ ReplyFresh'
  <2>1. UNCHANGED <<options, now, cache, history>>
    BY <1>5 DEF CallCached, CallJoins
  <2>2. ResultFresh'
    BY <1>2, <2>1 DEF ResultFresh, HasResult, options, cache, history
  <2>3. CASE CallJoins(w)
    <3>1. reply' = [to |-> w, run |-> pending, kind |-> "promise", at |-> now] /\ pending # None
      BY <2>3 DEF CallJoins, Reply
    <3>2. pending = runs /\ ended[pending] = None
      BY <3>1 DEF RunsInOrder
    <3> QED
      BY <1>1, <2>1, <2>2, <3>1, <3>2 DEF ReplyFresh, Over, options, history
  <2>4. CASE CallCached(w)
    <3>1. /\ reply' = [to |-> w, run |-> result.run, kind |-> result.kind, at |-> now]
          /\ HasResult /\ (noWait[w] \/ now < expires)
      BY <2>4 DEF CallCached, Reply, Cached
    <3>2. /\ result.run <= runs /\ ended[result.run] # None /\ result.run \in Runs
          /\ \/ expires <= ended[result.run] + duration[runBy[result.run]]
             \/ result.kind = "error" /\ SomeNoWait
      BY <3>1, ResultType DEF ResultFresh
    <3>3. /\ ended[result.run] \in Nat /\ duration[runBy[result.run]] \in Nat
      BY <3>2, Numbers DEF RunsInOrder, TypeOK
    <3>4. ~noWait[w] => ~Over(result.run, now) \/ (result.kind = "error" /\ SomeNoWait)
      BY <1>1, <3>1, <3>2, <3>3 DEF Over
    <3> QED
      BY <1>1, <1>2, <2>1, <2>2, <3>1, <3>2, <3>4 DEF ReplyFresh, Over, options, history
  <2> QED
    BY <1>5, <2>3, <2>4
<1>6. ASSUME NEW w \in Wrappers, RunsSync(w) PROVE ResultFresh' /\ ReplyFresh'
  <2>1. PICK kind \in {"value", "error"} :
          /\ result' = [kind |-> kind, run |-> runs + 1]
          /\ reply' = [to |-> w, run |-> runs + 1, kind |-> kind, at |-> now]
    BY <1>6 DEF RunsSync, Reply
  <2>2. MayRun(w) /\ Begin(w, now) /\ expires' = now + duration[w] /\ UNCHANGED <<options, now>>
    BY <1>6 DEF RunsSync, ExpiresAfter
  <2>3. /\ runs' = runs + 1 /\ runs + 1 \in Runs /\ ended'[runs + 1] = now /\ runBy'[runs + 1] = w
        /\ duration[w] \in Nat /\ now # None
    BY <1>1, <2>2, BegunRuns, Numbers, ThrottleAssumption
  <2>4. ResultFresh'
    BY <1>1, <2>1, <2>2, <2>3 DEF ResultFresh, options
  <2> QED
    BY <1>1, <2>1, <2>2, <2>3, <2>4 DEF ReplyFresh, Over
<1>7. ASSUME NEW w \in Wrappers, RunsAsync(w) PROVE ResultFresh' /\ ReplyFresh'
  <2>1. /\ MayRun(w) /\ Begin(w, None) /\ UNCHANGED <<options, now, result>>
        /\ \/ expires' = expires
           \/ result.kind = "error" /\ noWait[w]
        /\ \/ reply' = [to |-> w, run |-> runs + 1, kind |-> "promise", at |-> now]
           \/ noWait[w] /\ HasResult /\ reply' = [to |-> w, run |-> result.run, kind |-> result.kind, at |-> now]
    BY <1>7 DEF RunsAsync, Reply
  <2>2. /\ runs' = runs + 1 /\ runs + 1 \in Runs /\ ended'[runs + 1] = None
        /\ \A r \in Runs : r <= runs => ended'[r] = ended[r] /\ runBy'[r] = runBy[r]
    BY <2>1, BegunRuns
  <2>3. result.kind = "error" /\ noWait[w] => SomeNoWait
    BY DEF SomeNoWait
  <2>4. ASSUME HasResult
        PROVE  /\ result.run \in Runs /\ result.run \in Nat /\ result.run <= runs
               /\ ended'[result.run] = ended[result.run] /\ runBy'[result.run] = runBy[result.run]
    BY <2>2, <2>4, ResultType, ThrottleAssumption DEF ResultFresh, Runs
  <2>5. ResultFresh'
    <3> SUFFICES ASSUME HasResult'
                 PROVE  /\ result.run <= runs' /\ ended'[result.run] # None
                        /\ \/ expires' <= ended'[result.run] + duration[runBy'[result.run]]
                           \/ result.kind = "error" /\ SomeNoWait
      BY <1>2, <2>1 DEF ResultFresh, options
    <3>1. HasResult
      BY <2>1 DEF HasResult
    <3> QED
      BY <1>1, <2>1, <2>2, <2>3, <2>4, <3>1 DEF ResultFresh
  <2>6. reply'.at = now /\ now' = now /\ reply'.to = w /\ noWait' = noWait
    BY <2>1 DEF options
  <2>7. reply'.run <= runs'
    BY <1>1, <2>1, <2>2, <2>4
  <2>8. ~noWait[w] => ~Over(reply.run, reply.at)'
    BY <2>1, <2>2 DEF Over
  <2> QED
    BY <1>1, <2>5, <2>6, <2>7, <2>8 DEF ReplyFresh
<1> QED
  BY <1>3, <1>4, <1>5, <1>6, <1>7 DEF Next, Call

\* A function that waits is never given a result whose duration has passed, but
\* an error that a function with noWait has cached again.
THEOREM NothingGivenStale == Spec => []NothingStale
<1>1. Init => ResultFresh /\ ReplyFresh
  BY DEF Init, ResultFresh, HasResult, ReplyFresh
<1>2. ReplyFresh => NothingStale
  BY DEF ReplyFresh, NothingStale, SomeNoWait
<1> QED
  BY <1>1, <1>2, StepKeepsFresh, ThrottleInductive, PTL DEF Spec
================================================================================
