------------------------------- MODULE Throttle -------------------------------
(***************************************************************************)
(* throttle.ts: the functions made for one key share a cache with the last  *)
(* result and the run that is pending; a call is given one or the other, or *)
(* it runs the handler.  A call ends in the step in which it is made: what  *)
(* it returns is a result, an error it throws, or the promise of a run.     *)
(*                                                                          *)
(* Time passes in ticks, and a run of the handler is known by its number.   *)
(***************************************************************************)
EXTENDS Naturals, FiniteSets

CONSTANTS
  Wrappers,   \* the functions that throttle() makes, all for one key
  Durations,  \* the values of options.duration
  MaxRuns,    \* how often the handler runs
  MaxTime,    \* when the clock stops
  None

ASSUME ThrottleAssumption ==
  Durations \subseteq Nat /\ MaxRuns \in Nat /\ MaxTime \in Nat /\ None \notin Nat \cup Wrappers

VARIABLES
  duration, noWait,  \* the options of each function
  now,               \* Date.now()
  result,            \* cache.result: which run it comes from, and its kind: "value",
                     \* "error" or, while it is undefined, "none"
  pending,           \* cache.pending: the run it is the promise of, or None
  expires,           \* cache.expires
  runs,              \* how often the handler has run
  runBy,             \* which function has started each run
  begun, ended,      \* history: when each run began, and ended (None: it has not)
  reply              \* history: what the last call was given

options == <<duration, noWait>>
cache   == <<result, pending, expires>>
history == <<runs, runBy, begun, ended>>
vars    == <<options, now, cache, history, reply>>

Runs == 1 .. MaxRuns

Init ==
  /\ duration \in [Wrappers -> Durations] /\ noWait \in [Wrappers -> BOOLEAN]
  /\ now = 0
  /\ result = [kind |-> "none", run |-> 0] /\ pending = None /\ expires = 0
  /\ runs = 0
  /\ runBy = [r \in Runs |-> None]
  /\ begun = [r \in Runs |-> None] /\ ended = [r \in Runs |-> None]
  /\ reply = None

Tick == /\ now < MaxTime
        /\ now' = now + 1
        /\ UNCHANGED <<options, cache, history, reply>>

-----------------------------------------------------------------------------
(* handleCall() *)

Reply(w, run, kind) == reply' = [to |-> w, run |-> run, kind |-> kind, at |-> now]

HasResult == result.kind # "none"

ServedToAll(w) == HasResult /\ (pending # None \/ now < expires) \* mutant
Cached(w) == HasResult /\ ((pending # None /\ noWait[w]) \/ now < expires)

CallCached(w) ==
  /\ Cached(w)
  /\ Reply(w, result.run, result.kind)
  /\ UNCHANGED <<options, now, cache, history>>

PendingIgnored == TRUE                                              \* mutant
NothingPending == pending = None

CallJoins(w) ==
  /\ ~Cached(w) /\ pending # None
  /\ Reply(w, pending, "promise")
  /\ UNCHANGED <<options, now, cache, history>>

MayRun(w) == ~Cached(w) /\ NothingPending /\ runs < MaxRuns

\* The handler is called by `w` and, unless it returns a promise, has ended.
Begin(w, end) ==
  /\ runs' = runs + 1
  /\ runBy' = [runBy EXCEPT ![runs + 1] = w]
  /\ begun' = [begun EXCEPT ![runs + 1] = now]
  /\ ended' = [ended EXCEPT ![runs + 1] = end]

ExpiredAtOnce(w) == expires' = now                                  \* mutant
ExpiresAfter(w) == expires' = now + duration[w]

\* It returns a value or throws.
RunsSync(w) ==
  /\ MayRun(w)
  /\ Begin(w, now)
  /\ \E kind \in {"value", "error"} :
       /\ result' = [kind |-> kind, run |-> runs + 1]
       /\ Reply(w, runs + 1, kind)
  /\ ExpiresAfter(w)
  /\ UNCHANGED <<options, now, pending>>

\* It returns a promise.  With noWait the last result is given; if that is an
\* error it is thrown, and the `catch` around the handler caches it again.
RunsAsync(w) ==
  /\ MayRun(w)
  /\ Begin(w, None)
  /\ pending' = runs + 1
  /\ IF noWait[w] /\ HasResult
       THEN /\ Reply(w, result.run, result.kind)
            /\ IF result.kind = "error" THEN ExpiresAfter(w) ELSE UNCHANGED expires
       ELSE Reply(w, runs + 1, "promise") /\ UNCHANGED expires
  /\ UNCHANGED <<options, now, result>>

Call(w) == CallCached(w) \/ CallJoins(w) \/ RunsSync(w) \/ RunsAsync(w)

ResultForgotten == UNCHANGED result                                 \* mutant
\* The promise itself is the value, whether it is fulfilled or rejected.
ResultKept == result' = [kind |-> "value", run |-> pending]

\* `finally`, when the promise of the handler is settled.
Settle ==
  /\ pending # None
  /\ ended' = [ended EXCEPT ![pending] = now]
  /\ ResultKept
  /\ pending' = None
  /\ ExpiresAfter(runBy[pending])
  /\ UNCHANGED <<options, now, runs, runBy, begun, reply>>

Next == Tick \/ Settle \/ \E w \in Wrappers : Call(w)

Spec == Init /\ [][Next]_vars

-----------------------------------------------------------------------------
Results == [kind : {"value", "error"}, run : Runs] \cup [kind : {"none"}, run : {0}]
Replies == [to : Wrappers, run : Runs, kind : {"value", "error", "promise"}, at : 0 .. MaxTime]

TypeOK ==
  /\ duration \in [Wrappers -> Durations] /\ noWait \in [Wrappers -> BOOLEAN]
  /\ now \in 0 .. MaxTime /\ expires \in Nat
  /\ result \in Results
  /\ pending \in Runs \cup {None}
  /\ runs \in 0 .. MaxRuns
  /\ runBy \in [Runs -> Wrappers \cup {None}]
  /\ begun \in [Runs -> 0 .. MaxTime \cup {None}] /\ ended \in [Runs -> 0 .. MaxTime \cup {None}]
  /\ reply = None \/ reply \in Replies

\* However many functions share the cache, the handler does not run while a run
\* of it is pending, nor sooner after the last one than the duration which that
\* one's function asked for: throttle.ts:37, "a throttled function that will
\* only be run once in a certain amount of time".
RunsApart ==
  \A q, r \in 1 .. runs : q < r =>
    ended[q] # None /\ begun[r] >= ended[q] + duration[runBy[q]]

Over(run, time) ==
  ended[run] # None /\ time > ended[run] /\ time >= ended[run] + duration[runBy[run]]

\* throttle.ts:22: the result is the previous one, "unless the duration has
\* passed": a function without noWait is not given an older one.  Unless it is
\* an error that a function with noWait has cached again.
NothingStale ==
  reply # None /\ ~noWait[reply.to] =>
    \/ ~Over(reply.run, reply.at)
    \/ reply.kind = "error" /\ \E w \in Wrappers : noWait[w]

\* No call is given the result of a run when a later one has ended.
LatestGiven ==
  [][reply' # reply => \A r \in Runs : ended'[r] # None => r <= reply'.run]_vars

\* throttle.ts:29: with noWait a call is answered at once, from the cache, once
\* there is something in it: never with a promise still pending.
NoWaitNeverWaits ==
  [][reply' # reply /\ reply'.kind = "promise" /\ noWait[reply'.to] =>
       \A r \in Runs : ended[r] = None]_vars
=============================================================================
