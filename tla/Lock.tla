--------------------------------- MODULE Lock ---------------------------------
(***************************************************************************)
(* The mutexes of lock.ts: those a program makes itself to guard a value    *)
(* (`new Mutex(value)`), and those lock(key) makes and keeps in a registry  *)
(* while the key is locked.                                                 *)
(*                                                                          *)
(* A mutex keeps a queue of resolvers; its head belongs to the coroutine    *)
(* that has the lock.  Resolving the promise of a waiting lock() does not   *)
(* run its caller: that takes a microtask, so a coroutine is "granted" the  *)
(* lock before it is "holding" it.                                          *)
(***************************************************************************)
EXTENDS Naturals, Sequences

CONSTANTS
  Tasks,       \* the coroutines
  Keys,        \* what is passed to lock(key)
  Mutexes,     \* the identities of the Mutex objects
  Standalone,  \* the ones made with `new Mutex(value)`; lock(key) makes the others
  Disposers,   \* the sets of coroutines that may dispose what they unlocked
  None,
  ValueBound   \* a guarded counter wraps there, to keep the model finite

ASSUME LockAssumption ==
  /\ Standalone \subseteq Mutexes
  /\ Disposers \subseteq SUBSET Tasks
  /\ None \notin Mutexes \cup Keys \cup Tasks
  /\ ValueBound \in Nat \ {0}

VARIABLES
  map, inverse,  \* the registry, a BiMap
  queue,         \* the _queue of each mutex: whose resolvers, oldest first
  value,         \* the _value of each mutex
  phase,         \* where each coroutine is
  mutexOf,       \* the mutex whose lock it has asked for
  keyOf,         \* the key it passed to lock(key), if it did
  seen,          \* the value it has read and bases its write on
  twice          \* who calls unlock() and lets `using` dispose the lock as well

registry == <<map, inverse>>
vars == <<registry, queue, value, phase, mutexOf, keyOf, seen, twice>>

Registry == INSTANCE BiMap WITH Values <- Mutexes

Members(s) == {s[i] : i \in DOMAIN s}
Distinct(s) == \A i, j \in DOMAIN s : s[i] = s[j] => i = j

Init == /\ Registry!Init
        /\ queue = [m \in Mutexes |-> << >>]
        /\ value = [m \in Mutexes |-> 0]
        /\ phase = [t \in Tasks |-> "idle"]
        /\ mutexOf = [t \in Tasks |-> None]
        /\ keyOf = [t \in Tasks |-> None]
        /\ seen = [t \in Tasks |-> 0]
        /\ twice \in Disposers

-----------------------------------------------------------------------------
(* Mutex.lock() *)

Enqueue(q, t) == Append(q, t)

EveryoneWaits(m) == FALSE                                           \* mutant
\* `if (this[_queue].length) { push } else { push; resolve() }`
Free(m) == queue[m] = << >>

MutexLock(t, m) ==
  /\ phase[t] = "idle"
  /\ queue' = [queue EXCEPT ![m] = Enqueue(@, t)]
  /\ phase' = [phase EXCEPT ![t] = IF Free(m) THEN "granted" ELSE "waiting"]
  /\ mutexOf' = [mutexOf EXCEPT ![t] = m]
  /\ UNCHANGED <<value, seen, twice>>

LockStandalone(t) == /\ \E m \in Standalone : MutexLock(t, m)
                     /\ UNCHANGED <<registry, keyOf>>

\* A Mutex object nothing refers to any more stands for a new one.
New(m) == /\ m \notin Standalone /\ queue[m] = << >> /\ ~Registry!HasValue(m)
          /\ \A t \in Tasks : mutexOf[t] # m

\* lock(key): `registry.get(key)`, or a new Mutex that is registered.
LockKnownKey(t, k) ==
  /\ k \in DOMAIN map
  /\ MutexLock(t, map[k])
  /\ keyOf' = [keyOf EXCEPT ![t] = k]
  /\ UNCHANGED registry

LockNewKey(t, k) ==
  /\ k \notin DOMAIN map
  /\ \E m \in Mutexes :
       /\ New(m) /\ m = CHOOSE n \in Mutexes : New(n)
       /\ MutexLock(t, m)
       /\ Registry!Set(k, m)
  /\ keyOf' = [keyOf EXCEPT ![t] = k]

\* The microtask that continues lock() and hands its caller the Lock object.
Resume(t) == /\ phase[t] = "granted"
             /\ phase' = [phase EXCEPT ![t] = "holding"]
             /\ UNCHANGED <<registry, queue, value, mutexOf, keyOf, seen, twice>>

-----------------------------------------------------------------------------
(* Lock.value, of a mutex that guards one *)

Read(t) == /\ phase[t] = "holding" /\ mutexOf[t] \in Standalone
           /\ seen' = [seen EXCEPT ![t] = value[mutexOf[t]]]
           /\ phase' = [phase EXCEPT ![t] = "read"]
           /\ UNCHANGED <<registry, queue, value, mutexOf, keyOf, twice>>

\* `shared.value += 1` after the read was followed by an await.
Write(t) == /\ phase[t] = "read"
            /\ value' = [value EXCEPT ![mutexOf[t]] = (seen[t] + 1) % ValueBound]
            /\ phase' = [phase EXCEPT ![t] = "written"]
            /\ UNCHANGED <<registry, queue, mutexOf, keyOf, seen, twice>>

-----------------------------------------------------------------------------
(* Lock.unlock() *)

\* `queue.shift()`, which leaves an empty array empty.
Shift(q) == IF q = << >> THEN q ELSE Tail(q)

NextNotCalled(q) == phase                                           \* mutant
\* `next?.()`: a resolver that was called before does nothing.
GrantHead(q) ==
  [u \in Tasks |-> IF q # << >> /\ u = Head(q) /\ phase[u] = "waiting"
                     THEN "granted" ELSE phase[u]]

DroppedAlways(m, q) ==                                              \* mutant
  IF Registry!HasValue(m) THEN Registry!Unlink(m) ELSE UNCHANGED registry
DroppedNever(m, q) == UNCHANGED registry                            \* mutant
\* `else if (registry.hasValue(mutex)) registry.deleteValue(mutex)`
Drop(m, q) ==
  IF q = << >> /\ Registry!HasValue(m) THEN Registry!Unlink(m) ELSE UNCHANGED registry

\* unlock() shifts whatever is at the head of the queue; afterwards the
\* coroutine is in `phaseAfter`, idle if it is done with the Lock object.
Release(t, phaseAfter) ==
  LET m == mutexOf[t]
      q == Shift(queue[m]) IN
  /\ queue' = [queue EXCEPT ![m] = q]
  /\ Drop(m, q)
  /\ phase' = [GrantHead(q) EXCEPT ![t] = phaseAfter]
  /\ IF phaseAfter = "idle"
       THEN /\ mutexOf' = [mutexOf EXCEPT ![t] = None]
            /\ keyOf' = [keyOf EXCEPT ![t] = None]
            /\ seen' = [seen EXCEPT ![t] = 0]
       ELSE UNCHANGED <<mutexOf, keyOf, seen>>
  /\ UNCHANGED <<value, twice>>

InSection == {"holding", "read", "written"}

Unlock(t) == /\ phase[t] \in InSection
             /\ Release(t, IF t \in twice THEN "unlocked" ELSE "idle")

\* `[Symbol.dispose]` at the end of the scope of a lock already unlocked.
Dispose(t) == phase[t] = "unlocked" /\ Release(t, "idle")

Next == \E t \in Tasks :
  \/ LockStandalone(t)
  \/ \E k \in Keys : LockKnownKey(t, k) \/ LockNewKey(t, k)
  \/ Resume(t) \/ Read(t) \/ Write(t) \/ Unlock(t) \/ Dispose(t)

\* Microtasks run, and a coroutine that has a lock gives it up.
Spec == /\ Init /\ [][Next]_vars
        /\ \A t \in Tasks : WF_vars(Resume(t)) /\ WF_vars(Unlock(t) \/ Dispose(t))

-----------------------------------------------------------------------------
TypeOK ==
  /\ Registry!TypeOK
  /\ queue \in [Mutexes -> Seq(Tasks)]
  /\ value \in [Mutexes -> 0 .. ValueBound - 1]
  /\ phase \in [Tasks -> {"idle", "waiting", "granted", "unlocked"} \cup InSection]
  /\ mutexOf \in [Tasks -> Mutexes \cup {None}]
  /\ keyOf \in [Tasks -> Keys \cup {None}]
  /\ seen \in [Tasks -> 0 .. ValueBound - 1]
  /\ twice \in SUBSET Tasks

Has(t) == phase[t] \in {"granted"} \cup InSection
Asks(t) == Has(t) \/ phase[t] = "waiting"

\* Every lock is given up once: the caller uses `using` or unlock(), not both.
UnlockedOnce == twice = {}

\* lock.ts:19: "Mutual Exclusion prevents multiple coroutines from accessing
\* the same shared resource simultaneously": no two have the same mutex, nor
\* two mutexes of the same key.
Contend(t, u) == \/ mutexOf[t] = mutexOf[u]
                 \/ keyOf[t] = keyOf[u] /\ keyOf[t] # None

MutualExclusion == \A t, u \in Tasks : Has(t) /\ Has(u) /\ Contend(t, u) => t = u
ExclusionIfUnlockedOnce == UnlockedOnce => MutualExclusion

\* The value a coroutine has read is still there when it writes: nobody's
\* update is overwritten.
NoLostUpdate ==
  UnlockedOnce => \A t \in Tasks : phase[t] = "read" => seen[t] = value[mutexOf[t]]

\* The queue of a mutex is in step with the coroutines: those that ask for it
\* are in it once, and the head and nobody else has it.
QueueMatches ==
  UnlockedOnce => \A m \in Mutexes :
    /\ \A t \in Tasks : t \in Members(queue[m]) <=> Asks(t) /\ mutexOf[t] = m
    /\ Distinct(queue[m])
    /\ \A i \in DOMAIN queue[m] : Has(queue[m][i]) <=> i = 1

\* The registry holds a mutex for exactly the keys somebody has locked or
\* waits for, the one they all ask for: no entry leaks, and none is dropped
\* while it is needed.
RegistryExact ==
  UnlockedOnce =>
    /\ Registry!Inverse
    /\ \A m \in Mutexes \ Standalone : Registry!HasValue(m) <=> queue[m] # << >>
    /\ \A t \in Tasks : Asks(t) /\ keyOf[t] # None =>
         keyOf[t] \in DOMAIN map /\ mutexOf[t] = map[keyOf[t]]

\* Whoever waits gets the lock, also when others give theirs up twice.
NoStarvation == \A t \in Tasks : phase[t] = "waiting" ~> phase[t] = "holding"

-----------------------------------------------------------------------------
(* The lock each mutex implements. *)

Abstract(m) == INSTANCE AbstractLock WITH
  Nobody  <- None,
  owner   <- IF queue[m] = << >> THEN None ELSE Head(queue[m]),
  waiting <- {t \in Tasks : phase[t] = "waiting" /\ mutexOf[t] = m}

\* Each mutex is a lock with direct handover, when locks are given up once.
ImplementsLock ==
  [][UnlockedOnce => \A m \in Mutexes :
       Abstract(m)!Next \/ UNCHANGED Abstract(m)!vars]_vars
=============================================================================
