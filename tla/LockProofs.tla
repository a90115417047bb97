------------------------------ MODULE LockProofs ------------------------------
(* Theorems about Lock.                                                      *)
EXTENDS Lock, TLAPS

Phases == {"idle", "waiting", "granted", "unlocked"} \cup InSection

LEMMA Remainder == ASSUME NEW n \in Nat, NEW b \in Nat \ {0} PROVE n % b \in 0 .. b - 1
  OBVIOUS

\* What lock() does to the variables, whichever mutex it is called on.
LEMMA MutexLockType ==
  ASSUME TypeOK, NEW t \in Tasks, NEW m \in Mutexes, MutexLock(t, m)
  PROVE  /\ queue' \in [Mutexes -> Seq(Tasks)]
         /\ phase' \in [Tasks -> Phases]
         /\ mutexOf' \in [Tasks -> Mutexes \cup {None}]
         /\ value' = value /\ seen' = seen /\ twice' = twice
<1>1. Append(queue[m], t) \in Seq(Tasks)
  BY DEF TypeOK
<1>2. queue' \in [Mutexes -> Seq(Tasks)]
  BY <1>1 DEF TypeOK, MutexLock, Enqueue
<1> QED
  BY <1>2 DEF TypeOK, MutexLock, Phases, InSection

LEMMA UnlinkType ==
  ASSUME TypeOK, NEW m, Registry!Unlink(m) PROVE Registry!TypeOK'
  BY DEF TypeOK, Registry!TypeOK, Registry!Unlink, Registry!Without

LEMMA ReleaseType ==
  ASSUME TypeOK, NEW t \in Tasks, NEW p \in Phases, Release(t, p) PROVE TypeOK'
<1> DEFINE m == mutexOf[t]
           q == Shift(queue[m])
<1>1. queue' \in [Mutexes -> Seq(Tasks)]
  <2>1. m \in Mutexes => q \in Seq(Tasks)
    BY DEF TypeOK, Shift
  <2> QED
    BY <2>1 DEF TypeOK, Release
<1>2. Registry!TypeOK'
  <2>1. Drop(m, q)
    BY DEF Release
  <2>2. CASE Registry!Unlink(m)
    BY <2>2, UnlinkType
  <2>3. CASE UNCHANGED registry
    BY <2>3 DEF TypeOK, registry, Registry!TypeOK
  <2> QED
    BY <2>1, <2>2, <2>3 DEF Drop
<1>3. phase' \in [Tasks -> Phases]
  <2>1. GrantHead(q) \in [Tasks -> Phases]
    BY DEF TypeOK, GrantHead, Phases
  <2> QED
    BY <2>1 DEF Release
<1>4. /\ mutexOf' \in [Tasks -> Mutexes \cup {None}]
      /\ keyOf' \in [Tasks -> Keys \cup {None}]
  BY DEF TypeOK, Release
<1>5. seen' \in [Tasks -> 0 .. ValueBound - 1]
  <2>1. 0 \in 0 .. ValueBound - 1
    BY LockAssumption
  <2> QED
    BY <2>1 DEF TypeOK, Release
<1>6. value' = value /\ twice' = twice
  BY DEF Release
<1> QED
  BY <1>1, <1>2, <1>3, <1>4, <1>5, <1>6 DEF TypeOK, Phases

\* Every variable stays within its type.
THEOREM LockTypeCorrect == Spec => []TypeOK
<1>1. Init => TypeOK
  <2>1. 0 \in 0 .. ValueBound - 1
    BY LockAssumption
  <2>2. Init => Registry!TypeOK
    BY DEF Init, Registry!Init, Registry!Empty, Registry!TypeOK
  <2>3. << >> \in Seq(Tasks)
    OBVIOUS
  <2> QED
    BY <2>1, <2>2, <2>3, LockAssumption DEF Init, TypeOK
<1>2. TypeOK /\ [Next]_vars => TypeOK'
  <2> SUFFICES ASSUME TypeOK, [Next]_vars PROVE TypeOK'
    OBVIOUS
  <2>1. ASSUME NEW t \in Tasks, LockStandalone(t) PROVE TypeOK'
    <3>1. PICK m \in Standalone : MutexLock(t, m)
      BY <2>1 DEF LockStandalone
    <3>2. m \in Mutexes /\ UNCHANGED <<registry, keyOf>>
      BY <2>1, LockAssumption DEF LockStandalone
    <3>3. Registry!TypeOK'
      BY <3>2 DEF TypeOK, Registry!TypeOK, registry
    <3> QED
      BY <3>1, <3>2, <3>3, MutexLockType DEF TypeOK, Phases
  <2>2. ASSUME NEW t \in Tasks, NEW k \in Keys, LockKnownKey(t, k) PROVE TypeOK'
    <3>1. map[k] \in Mutexes /\ MutexLock(t, map[k])
      BY <2>2 DEF LockKnownKey, TypeOK, Registry!TypeOK
    <3>2. Registry!TypeOK'
      BY <2>2 DEF LockKnownKey, TypeOK, Registry!TypeOK, registry
    <3>3. keyOf' \in [Tasks -> Keys \cup {None}]
      BY <2>2 DEF LockKnownKey, TypeOK
    <3> QED
      BY <3>1, <3>2, <3>3, MutexLockType DEF TypeOK, Phases
  <2>3. ASSUME NEW t \in Tasks, NEW k \in Keys, LockNewKey(t, k) PROVE TypeOK'
    <3>1. PICK m \in Mutexes : MutexLock(t, m) /\ Registry!Set(k, m)
      BY <2>3 DEF LockNewKey
    <3>2. Registry!TypeOK'
      BY <3>1 DEF TypeOK, Registry!TypeOK, Registry!Set, Registry!Put
    <3>3. keyOf' \in [Tasks -> Keys \cup {None}]
      BY <2>3 DEF LockNewKey, TypeOK
    <3> QED
      BY <3>1, <3>2, <3>3, MutexLockType DEF TypeOK, Phases
  <2>4. ASSUME NEW t \in Tasks, Resume(t) PROVE TypeOK'
    BY <2>4 DEF Resume, TypeOK, registry, Registry!TypeOK, InSection
  <2>5. ASSUME NEW t \in Tasks, Read(t) PROVE TypeOK'
    <3>1. value[mutexOf[t]] \in 0 .. ValueBound - 1
      BY <2>5, LockAssumption DEF Read, TypeOK
    <3> QED
      BY <2>5, <3>1 DEF Read, TypeOK, registry, Registry!TypeOK, InSection
  <2>6. ASSUME NEW t \in Tasks, Write(t) PROVE TypeOK'
    <3>1. seen[t] + 1 \in Nat /\ ValueBound \in Nat \ {0}
      BY LockAssumption DEF TypeOK
    <3>2. (seen[t] + 1) % ValueBound \in 0 .. ValueBound - 1
      BY <3>1, Remainder
    <3> QED
      BY <2>6, <3>2 DEF Write, TypeOK, registry, Registry!TypeOK, InSection
  <2>7. ASSUME NEW t \in Tasks, Unlock(t) \/ Dispose(t) PROVE TypeOK'
    BY <2>7, ReleaseType DEF Unlock, Dispose, Phases
  <2>8. CASE UNCHANGED vars
    BY <2>8 DEF vars, registry, TypeOK, Registry!TypeOK
  <2> QED
    BY <2>1, <2>2, <2>3, <2>4, <2>5, <2>6, <2>7, <2>8 DEF Next
<1> QED
  BY <1>1, <1>2, PTL DEF Spec

-----------------------------------------------------------------------------
(* The invariant, when every lock is given up once. *)

\* A coroutine that asks for nothing remembers no key, no Lock object is left
\* unlocked, one that asks has asked a mutex, and lock(key) never registers a
\* mutex the program made itself.  QueueMatches and RegistryExact need it: they
\* say nothing of the coroutines that ask for no lock.
Consistent ==
  UnlockedOnce =>
    /\ \A t \in Tasks : /\ phase[t] # "unlocked"
                        /\ phase[t] = "idle" => keyOf[t] = None
                        /\ Asks(t) => mutexOf[t] \in Mutexes
    /\ \A m \in Standalone : ~Registry!HasValue(m)

LockInv == QueueMatches /\ RegistryExact /\ Consistent

Having == {"granted"} \cup InSection

LEMMA AppendLast ==
  ASSUME NEW S, NEW s \in Seq(S), NEW x \in S, x \notin Members(s), Distinct(s)
  PROVE  /\ Members(Append(s, x)) = Members(s) \cup {x}
         /\ Distinct(Append(s, x))
         /\ DOMAIN Append(s, x) = DOMAIN s \cup {Len(s) + 1}
         /\ \A i \in DOMAIN s : Append(s, x)[i] = s[i]
         /\ Append(s, x)[Len(s) + 1] = x
         /\ Len(s) + 1 \notin DOMAIN s /\ Len(s) \in Nat
         /\ DOMAIN s = 1 .. Len(s)
<1>1. DOMAIN Append(s, x) = DOMAIN s \cup {Len(s) + 1} /\ Len(s) \in Nat
  OBVIOUS
<1>2. \A i \in DOMAIN s : Append(s, x)[i] = s[i] /\ i # Len(s) + 1
  OBVIOUS
<1>3. Append(s, x)[Len(s) + 1] = x
  OBVIOUS
<1>4. DOMAIN s = 1 .. Len(s)
  OBVIOUS
<1> QED
  BY <1>1, <1>2, <1>3, <1>4 DEF Members, Distinct

LEMMA TailShifts ==
  ASSUME NEW S, NEW s \in Seq(S), s # << >>, Distinct(s)
  PROVE  /\ Members(Tail(s)) = Members(s) \ {s[1]}
         /\ Distinct(Tail(s))
         /\ 1 \in DOMAIN s
         /\ \A i \in DOMAIN Tail(s) : i + 1 \in DOMAIN s /\ Tail(s)[i] = s[i + 1]
                                       /\ i \in Nat \ {0}
<1>1. DOMAIN Tail(s) = 1 .. Len(s) - 1 /\ DOMAIN s = 1 .. Len(s) /\ Len(s) \in Nat \ {0}
  OBVIOUS
<1>2. \A i \in DOMAIN Tail(s) : Tail(s)[i] = s[i + 1]
  OBVIOUS
<1>3. Distinct(Tail(s))
  <2> SUFFICES ASSUME NEW i \in DOMAIN Tail(s), NEW j \in DOMAIN Tail(s), Tail(s)[i] = Tail(s)[j]
               PROVE  i = j
    BY DEF Distinct
  <2>1. i + 1 \in DOMAIN s /\ j + 1 \in DOMAIN s /\ s[i + 1] = s[j + 1]
    BY <1>1, <1>2
  <2>2. i + 1 = j + 1
    BY <2>1 DEF Distinct
  <2> QED
    BY <2>2, <1>1
<1>4. Members(Tail(s)) = Members(s) \ {s[1]}
  <2>1. ASSUME NEW i \in DOMAIN Tail(s) PROVE Tail(s)[i] \in Members(s) \ {s[1]}
    <3>1. i + 1 \in DOMAIN s /\ 1 \in DOMAIN s /\ i + 1 # 1
      BY <1>1
    <3>2. s[i + 1] # s[1]
      BY <3>1 DEF Distinct
    <3> QED
      BY <1>2, <3>1, <3>2 DEF Members
  <2>2. ASSUME NEW i \in DOMAIN s, s[i] # s[1] PROVE s[i] \in Members(Tail(s))
    <3>1. i - 1 \in DOMAIN Tail(s) /\ (i - 1) + 1 = i
      BY <1>1, <2>2
    <3> QED
      BY <1>2, <3>1 DEF Members
  <2> QED
    BY <2>1, <2>2 DEF Members
<1> QED
  BY <1>1, <1>2, <1>3, <1>4

\* lock() puts the caller, who is in no queue, at the end of the mutex's queue,
\* and gives it the lock exactly when that is also the front.
LEMMA MutexLockMatches ==
  ASSUME TypeOK, QueueMatches, UnlockedOnce, NEW t \in Tasks, NEW m \in Mutexes, MutexLock(t, m)
  PROVE  QueueMatches'
<1> DEFINE q == queue[m]
<1>1. /\ \A n \in Mutexes : queue'[n] = IF n = m THEN Append(q, t) ELSE queue[n]
      /\ \A u \in Tasks :
           /\ phase'[u] = IF u = t THEN IF q = << >> THEN "granted" ELSE "waiting" ELSE phase[u]
           /\ mutexOf'[u] = IF u = t THEN m ELSE mutexOf[u]
      /\ phase[t] = "idle"
  BY DEF TypeOK, MutexLock, Enqueue, Free
<1>2. /\ ~Asks(t) /\ Asks(t)' /\ mutexOf'[t] = m
      /\ phase'[t] \in Having <=> q = << >>
      /\ \A u \in Tasks \ {t} : /\ Asks(u)' <=> Asks(u)
                                /\ phase'[u] = phase[u]
                                /\ mutexOf'[u] = mutexOf[u]
  BY <1>1 DEF Asks, Has, Having, InSection
<1>3. \A n \in Mutexes : t \notin Members(queue[n])
  BY <1>2 DEF QueueMatches
<1>4. \A n \in Mutexes : \A i \in DOMAIN queue[n] : queue[n][i] \in Tasks /\ queue[n][i] # t
  BY <1>3 DEF TypeOK, Members
<1>5. q \in Seq(Tasks) /\ Distinct(q)
  BY DEF TypeOK, QueueMatches
<1>6. \A n \in Mutexes : \A i \in DOMAIN queue[n] : phase'[queue[n][i]] \in Having <=> i = 1
  BY <1>2, <1>4 DEF QueueMatches, Has, Having
<1>7. ASSUME NEW n \in Mutexes
      PROVE  /\ \A u \in Tasks : u \in Members(queue'[n]) <=> Asks(u)' /\ mutexOf'[u] = n
             /\ Distinct(queue'[n])
             /\ \A i \in DOMAIN queue'[n] : phase'[queue'[n][i]] \in Having <=> i = 1
  <2>1. CASE n # m
    <3>1. queue'[n] = queue[n]
      BY <2>1, <1>1
    <3>2. \A u \in Tasks : u \in Members(queue[n]) <=> Asks(u)' /\ mutexOf'[u] = n
      BY <2>1, <1>2, <1>3 DEF QueueMatches
    <3> QED
      BY <3>1, <3>2, <1>6 DEF QueueMatches
  <2>2. CASE n = m
    <3>1. /\ Members(Append(q, t)) = Members(q) \cup {t}
          /\ Distinct(Append(q, t))
          /\ DOMAIN Append(q, t) = DOMAIN q \cup {Len(q) + 1}
          /\ \A i \in DOMAIN q : Append(q, t)[i] = q[i]
          /\ Append(q, t)[Len(q) + 1] = t
      BY <1>3, <1>5, AppendLast
    <3>2. queue'[n] = Append(q, t)
      BY <2>2, <1>1
    <3>3. \A u \in Tasks : u \in Members(q) \cup {t} <=> Asks(u)' /\ mutexOf'[u] = m
      BY <1>2 DEF QueueMatches
    <3>4. phase'[t] \in Having <=> Len(q) + 1 = 1
      BY <1>2, <1>5
    <3>5. \A i \in DOMAIN Append(q, t) : phase'[Append(q, t)[i]] \in Having <=> i = 1
      BY <3>1, <3>4, <1>6
    <3> QED
      BY <3>1, <3>2, <3>3, <3>5, <2>2
  <2> QED
    BY <2>1, <2>2
<1> QED
  BY <1>7 DEF QueueMatches, Has, Having

\* The one that unlocks is at the front of its mutex's queue; the second, if
\* there is one, waits.
LEMMA FrontUnlocks ==
  ASSUME TypeOK, QueueMatches, UnlockedOnce,
         NEW t \in Tasks, phase[t] \in InSection, mutexOf[t] \in Mutexes
  PROVE  LET s == queue[mutexOf[t]] IN
         /\ s \in Seq(Tasks) /\ s # << >> /\ Distinct(s)
         /\ s[1] = t
         /\ Shift(s) = Tail(s)
         /\ Tail(s) # << >> => /\ Head(Tail(s)) = Tail(s)[1]
                               /\ phase[Head(Tail(s))] = "waiting"
                               /\ mutexOf[Head(Tail(s))] = mutexOf[t]
<1> DEFINE m == mutexOf[t]
           s == queue[m]
<1>1. s \in Seq(Tasks) /\ Distinct(s)
  BY DEF TypeOK, QueueMatches
<1>2. t \in Members(s)
  BY DEF QueueMatches, Asks, Has
<1>3. s # << >>
  BY <1>2 DEF Members
<1>4. s[1] = t
  BY <1>2 DEF QueueMatches, Has, Members
<1>5. ASSUME Tail(s) # << >>
      PROVE  /\ Head(Tail(s)) = Tail(s)[1]
             /\ phase[Head(Tail(s))] = "waiting"
             /\ mutexOf[Head(Tail(s))] = m
  <2>1. Head(Tail(s)) = Tail(s)[1] /\ 2 \in DOMAIN s /\ Tail(s)[1] = s[2] /\ s[2] \in Tasks
    BY <1>1, <1>3, <1>5
  <2>2. s[2] \in Members(s) /\ ~Has(s[2])
    BY <2>1 DEF QueueMatches, Members
  <2>3. phase[s[2]] = "waiting" /\ mutexOf[s[2]] = m
    BY <2>1, <2>2 DEF QueueMatches, Asks
  <2> QED
    BY <2>1, <2>3
<1> HIDE DEF s
<1> QED
  BY <1>1, <1>3, <1>4, <1>5 DEF Shift, s

\* unlock() takes the caller off the front and lets the next one have the lock.
LEMMA ReleaseMatches ==
  ASSUME TypeOK, QueueMatches, UnlockedOnce,
         NEW t \in Tasks, phase[t] \in InSection, mutexOf[t] \in Mutexes, Release(t, "idle")
  PROVE  /\ QueueMatches'
         /\ \A u \in Tasks \ {t} : /\ Asks(u)' <=> Asks(u)
                                   /\ mutexOf'[u] = mutexOf[u] /\ keyOf'[u] = keyOf[u]
                                   /\ phase'[u] = phase[u]
                                      \/ (phase[u] = "waiting" /\ phase'[u] = "granted")
         /\ LET q == Tail(queue[mutexOf[t]]) IN
            \A u \in Tasks \ {t} :
              phase'[u] = IF q # << >> /\ u = Head(q) THEN "granted" ELSE phase[u]
         /\ phase'[t] = "idle" /\ keyOf'[t] = None
         /\ \A n \in Mutexes : queue'[n] = IF n = mutexOf[t] THEN Tail(queue[n]) ELSE queue[n]
<1> DEFINE m == mutexOf[t]
           s == queue[m]
           q == Tail(s)
<1>1. /\ s \in Seq(Tasks) /\ s # << >> /\ Distinct(s) /\ s[1] = t /\ Shift(s) = q
      /\ q # << >> => Head(q) = q[1] /\ phase[Head(q)] = "waiting"
  BY FrontUnlocks
<1>2. /\ \A n \in Mutexes : queue'[n] = IF n = m THEN q ELSE queue[n]
      /\ \A u \in Tasks : phase'[u] = IF u = t THEN "idle"
                                       ELSE IF q # << >> /\ u = Head(q) THEN "granted" ELSE phase[u]
      /\ \A u \in Tasks \ {t} : mutexOf'[u] = mutexOf[u] /\ keyOf'[u] = keyOf[u]
      /\ keyOf'[t] = None
  <2>1. \A u \in Tasks : GrantHead(q)[u] = IF q # << >> /\ u = Head(q) THEN "granted" ELSE phase[u]
    BY <1>1 DEF GrantHead
  <2>2. /\ queue' = [queue EXCEPT ![m] = q]
        /\ phase' = [GrantHead(q) EXCEPT ![t] = "idle"]
        /\ mutexOf' = [mutexOf EXCEPT ![t] = None]
        /\ keyOf' = [keyOf EXCEPT ![t] = None]
    BY <1>1 DEF Release
  <2>3. DOMAIN GrantHead(q) = Tasks
    BY DEF GrantHead
  <2> QED
    BY <2>1, <2>2, <2>3 DEF TypeOK
<1>3. /\ Members(q) = Members(s) \ {t}
      /\ Distinct(q)
      /\ \A i \in DOMAIN q : i + 1 \in DOMAIN s /\ q[i] = s[i + 1] /\ i \in Nat \ {0}
  BY <1>1, TailShifts
<1>4. \A n \in Mutexes : \A i \in DOMAIN queue[n] :
        queue[n][i] \in Tasks /\ mutexOf[queue[n][i]] = n /\ (phase[queue[n][i]] \in Having <=> i = 1)
  BY DEF TypeOK, QueueMatches, Members, Has, Having
<1>5. q # << >> => Head(q) \in Members(s) /\ 1 \in DOMAIN q /\ Head(q) = q[1] /\ Head(q) # t
  <2> SUFFICES ASSUME q # << >> PROVE Head(q) \in Members(s) /\ 1 \in DOMAIN q /\ Head(q) # t
    BY <1>1
  <2>1. 1 \in DOMAIN q
    BY <1>1
  <2>2. Head(q) \in Members(q)
    BY <1>1, <2>1 DEF Members
  <2> QED
    BY <1>3, <2>1, <2>2
<1>6. q # << >> => mutexOf[Head(q)] = m
  BY <1>4, <1>5 DEF Members
<1>7. \A u \in Tasks \ {t} : /\ Asks(u)' <=> Asks(u)
                             /\ phase'[u] = phase[u]
                                \/ (phase[u] = "waiting" /\ phase'[u] = "granted")
  BY <1>1, <1>2 DEF Asks, Has
<1>8. phase'[t] = "idle" /\ ~Asks(t)'
  BY <1>2 DEF Asks, Has, InSection
<1>9. ASSUME NEW n \in Mutexes
      PROVE  /\ \A u \in Tasks : u \in Members(queue'[n]) <=> Asks(u)' /\ mutexOf'[u] = n
             /\ Distinct(queue'[n])
             /\ \A i \in DOMAIN queue'[n] : phase'[queue'[n][i]] \in Having <=> i = 1
  <2>1. CASE n # m
    <3>1. queue'[n] = queue[n]
      BY <2>1, <1>2
    <3>2. \A i \in DOMAIN queue[n] : /\ queue[n][i] # t
                                     /\ q # << >> => queue[n][i] # Head(q)
      BY <2>1, <1>4, <1>6
    <3>3. \A i \in DOMAIN queue[n] : phase'[queue[n][i]] = phase[queue[n][i]]
      BY <3>2, <1>2, <1>4
    <3>4. \A u \in Tasks : u \in Members(queue[n]) <=> Asks(u)' /\ mutexOf'[u] = n
      BY <2>1, <1>2, <1>7, <1>8 DEF QueueMatches
    <3> QED
      BY <3>1, <3>3, <3>4, <1>4 DEF QueueMatches
  <2>2. CASE n = m
    <3>1. queue'[n] = q
      BY <2>2, <1>2
    <3>2. \A u \in Tasks : u \in Members(q) <=> Asks(u)' /\ mutexOf'[u] = m
      BY <1>2, <1>3, <1>7, <1>8 DEF QueueMatches
    <3>3. ASSUME NEW i \in DOMAIN q PROVE phase'[q[i]] \in Having <=> i = 1
      <4>1. q[i] = s[i + 1] /\ i + 1 \in DOMAIN s /\ i + 1 # 1 /\ q # << >>
        BY <1>3
      <4>2. q[i] \in Tasks /\ phase[q[i]] \notin Having /\ q[i] # t
        BY <4>1, <1>1, <1>4 DEF Distinct
      <4>3. q[i] = Head(q) <=> i = 1
        BY <4>1, <1>3, <1>5 DEF Distinct
      <4> QED
        BY <4>1, <4>2, <4>3, <1>2 DEF Having
    <3> QED
      BY <3>1, <3>2, <3>3, <1>3, <2>2
  <2> QED
    BY <2>1, <2>2
<1>10. QueueMatches'
  BY <1>9 DEF QueueMatches, Has, Having
<1> QED
  BY <1>2, <1>7, <1>8, <1>10

\* lock() leaves the other coroutines and mutexes as they are.
LEMMA MutexLockSteps ==
  ASSUME TypeOK, UnlockedOnce, NEW t \in Tasks, NEW m \in Mutexes, MutexLock(t, m)
  PROVE  /\ UnlockedOnce' /\ phase[t] = "idle" /\ mutexOf'[t] = m
         /\ phase'[t] \in {"waiting", "granted"}
         /\ \A u \in Tasks \ {t} : phase'[u] = phase[u] /\ mutexOf'[u] = mutexOf[u]
         /\ queue'[m] # << >>
         /\ \A n \in Mutexes : n # m => queue'[n] = queue[n]
<1>1. \A s \in Seq(Tasks) : Len(Append(s, t)) = Len(s) + 1 /\ Len(s) \in Nat
  OBVIOUS
<1>2. Append(queue[m], t) # << >>
  <2>1. Len(Append(queue[m], t)) # Len(<< >>)
    BY <1>1 DEF TypeOK
  <2> QED
    BY <2>1
<1> QED
  BY <1>2 DEF TypeOK, MutexLock, Enqueue, UnlockedOnce

LEMMA LockInvStandalone ==
  ASSUME TypeOK, LockInv, UnlockedOnce, NEW t \in Tasks, LockStandalone(t) PROVE LockInv'
<1>1. PICK m \in Standalone : MutexLock(t, m)
  BY DEF LockStandalone
<1>2. m \in Mutexes /\ map' = map /\ inverse' = inverse /\ keyOf' = keyOf
  BY LockAssumption DEF LockStandalone, registry
<1>3. QueueMatches'
  BY <1>1, <1>2, MutexLockMatches DEF LockInv
<1>4. /\ UnlockedOnce' /\ phase[t] = "idle" /\ mutexOf'[t] = m
      /\ phase'[t] \in {"waiting", "granted"}
      /\ \A u \in Tasks \ {t} : phase'[u] = phase[u] /\ mutexOf'[u] = mutexOf[u]
      /\ \A n \in Mutexes : n # m => queue'[n] = queue[n]
  BY <1>1, <1>2, MutexLockSteps
<1>5. keyOf[t] = None
  BY <1>4 DEF LockInv, Consistent
<1>6. RegistryExact'
  BY <1>1, <1>2, <1>4, <1>5
  DEF LockInv, RegistryExact, Asks, Has, Registry!Inverse, Registry!HasValue
<1>7. Consistent'
  BY <1>1, <1>2, <1>4 DEF LockInv, Consistent, Asks, Has, Registry!HasValue
<1> QED
  BY <1>3, <1>6, <1>7 DEF LockInv

LEMMA LockInvKnownKey ==
  ASSUME TypeOK, LockInv, UnlockedOnce, NEW t \in Tasks, NEW k \in Keys, LockKnownKey(t, k)
  PROVE  LockInv'
<1> DEFINE m == map[k]
<1>1. MutexLock(t, m) /\ k \in DOMAIN map /\ map' = map /\ inverse' = inverse
  BY DEF LockKnownKey, registry
<1>2. m \in Mutexes
  BY <1>1 DEF TypeOK, Registry!TypeOK
<1>3. QueueMatches'
  BY <1>1, <1>2, MutexLockMatches DEF LockInv
<1>4. /\ UnlockedOnce' /\ phase[t] = "idle" /\ mutexOf'[t] = m
      /\ phase'[t] \in {"waiting", "granted"}
      /\ \A u \in Tasks \ {t} : phase'[u] = phase[u] /\ mutexOf'[u] = mutexOf[u]
      /\ queue'[m] # << >>
      /\ \A n \in Mutexes : n # m => queue'[n] = queue[n]
  BY <1>1, <1>2, MutexLockSteps
<1>5. keyOf'[t] = k /\ \A u \in Tasks \ {t} : keyOf'[u] = keyOf[u]
  BY DEF LockKnownKey, TypeOK
<1>6. Registry!HasValue(m)
  BY <1>1 DEF LockInv, RegistryExact, Registry!Inverse, Registry!HasValue
<1>7. RegistryExact'
  <2>1. Registry!Inverse'
    BY <1>1 DEF LockInv, RegistryExact, Registry!Inverse
  <2>2. \A n \in Mutexes \ Standalone : Registry!HasValue(n)' <=> queue'[n] # << >>
    BY <1>1, <1>4, <1>6 DEF LockInv, RegistryExact, Registry!HasValue
  <2>3. \A u \in Tasks : Asks(u)' /\ keyOf'[u] # None =>
          keyOf'[u] \in DOMAIN map' /\ mutexOf'[u] = map'[keyOf'[u]]
    BY <1>1, <1>4, <1>5 DEF LockInv, RegistryExact, Asks, Has
  <2> QED
    BY <2>1, <2>2, <2>3 DEF RegistryExact
<1>8. Consistent'
  BY <1>1, <1>2, <1>4, <1>5 DEF LockInv, Consistent, Asks, Has, Registry!HasValue
<1> QED
  BY <1>3, <1>7, <1>8 DEF LockInv

LEMMA LockInvNewKey ==
  ASSUME TypeOK, LockInv, UnlockedOnce, NEW t \in Tasks, NEW k \in Keys, LockNewKey(t, k)
  PROVE  LockInv'
<1>1. PICK m \in Mutexes : New(m) /\ MutexLock(t, m) /\ Registry!Set(k, m)
  BY DEF LockNewKey
<1>2. /\ k \notin DOMAIN map /\ m \notin Standalone /\ m \notin DOMAIN inverse
      /\ map' = Registry!Put(map, k, m) /\ inverse' = Registry!Put(inverse, m, k)
  BY <1>1 DEF LockNewKey, New, Registry!HasValue, Registry!Set
<1>3. QueueMatches'
  BY <1>1, MutexLockMatches DEF LockInv
<1>4. /\ UnlockedOnce' /\ phase[t] = "idle" /\ mutexOf'[t] = m
      /\ phase'[t] \in {"waiting", "granted"}
      /\ \A u \in Tasks \ {t} : phase'[u] = phase[u] /\ mutexOf'[u] = mutexOf[u]
      /\ queue'[m] # << >>
      /\ \A n \in Mutexes : n # m => queue'[n] = queue[n]
  BY <1>1, MutexLockSteps
<1>5. keyOf'[t] = k /\ \A u \in Tasks \ {t} : keyOf'[u] = keyOf[u]
  BY DEF LockNewKey, TypeOK
<1>6. /\ DOMAIN map' = DOMAIN map \cup {k} /\ map'[k] = m
      /\ \A l \in DOMAIN map : l # k /\ map'[l] = map[l]
      /\ DOMAIN inverse' = DOMAIN inverse \cup {m} /\ inverse'[m] = k
      /\ \A n \in DOMAIN inverse : n # m /\ inverse'[n] = inverse[n]
  BY <1>2 DEF Registry!Put
<1>7. RegistryExact'
  <2>1. Registry!Inverse'
    BY <1>6 DEF LockInv, RegistryExact, Registry!Inverse
  <2>2. \A n \in Mutexes \ Standalone : Registry!HasValue(n)' <=> queue'[n] # << >>
    BY <1>4, <1>6 DEF LockInv, RegistryExact, Registry!HasValue
  <2>3. \A u \in Tasks : Asks(u)' /\ keyOf'[u] # None =>
          keyOf'[u] \in DOMAIN map' /\ mutexOf'[u] = map'[keyOf'[u]]
    BY <1>4, <1>5, <1>6 DEF LockInv, RegistryExact, Asks, Has
  <2> QED
    BY <2>1, <2>2, <2>3 DEF RegistryExact
<1>8. Consistent'
  BY <1>2, <1>4, <1>5, <1>6 DEF LockInv, Consistent, Asks, Has, Registry!HasValue
<1> QED
  BY <1>3, <1>7, <1>8 DEF LockInv

\* When the queue gets empty nobody with its key is left: dropping the registry
\* entry takes nobody's mutex away.
LEMMA LockInvUnlock ==
  ASSUME TypeOK, LockInv, UnlockedOnce, NEW t \in Tasks, Unlock(t) PROVE LockInv'
<1> DEFINE m == mutexOf[t]
           q == Tail(queue[m])
<1>1. phase[t] \in InSection /\ Release(t, "idle") /\ UnlockedOnce'
  BY DEF Unlock, UnlockedOnce, Release
<1>2. m \in Mutexes
  BY <1>1 DEF LockInv, Consistent, Asks, Has
<1>3. /\ QueueMatches'
      /\ \A u \in Tasks \ {t} : /\ Asks(u)' <=> Asks(u)
                                /\ mutexOf'[u] = mutexOf[u] /\ keyOf'[u] = keyOf[u]
                                /\ phase'[u] = phase[u]
                                   \/ (phase[u] = "waiting" /\ phase'[u] = "granted")
      /\ phase'[t] = "idle" /\ keyOf'[t] = None
      /\ \A n \in Mutexes : queue'[n] = IF n = m THEN q ELSE queue[n]
  BY <1>1, <1>2, ReleaseMatches DEF LockInv
<1>4. /\ queue[m] \in Seq(Tasks) /\ queue[m] # << >> /\ Distinct(queue[m]) /\ queue[m][1] = t
      /\ Shift(queue[m]) = q
  BY <1>1, <1>2, FrontUnlocks DEF LockInv
<1>5. Drop(m, q)
  BY <1>1, <1>4 DEF Release
<1>6. ASSUME q = << >> PROVE \A u \in Tasks \ {t} : ~(Asks(u) /\ mutexOf[u] = m)
  <2>1. Members(q) = Members(queue[m]) \ {t}
    BY <1>4, TailShifts
  <2>2. Members(queue[m]) \subseteq {t}
    <3>1. Members(<< >>) = {}
      BY DEF Members
    <3> QED
      BY <3>1, <2>1, <1>6
  <2> QED
    BY <2>2, <1>2 DEF LockInv, QueueMatches
<1>7. m \notin Standalone => Registry!HasValue(m)
  BY <1>2, <1>4 DEF LockInv, RegistryExact
<1>8. CASE UNCHANGED registry /\ (q # << >> \/ m \in Standalone)
  <2>1. map' = map /\ inverse' = inverse
    BY <1>8 DEF registry
  <2>2. RegistryExact'
    <3>1. \A n \in Mutexes \ Standalone : Registry!HasValue(n)' <=> queue'[n] # << >>
      BY <2>1, <1>3, <1>4, <1>7, <1>8 DEF LockInv, RegistryExact, Registry!HasValue
    <3>2. \A u \in Tasks : Asks(u)' /\ keyOf'[u] # None =>
            keyOf'[u] \in DOMAIN map' /\ mutexOf'[u] = map'[keyOf'[u]]
      BY <2>1, <1>3 DEF LockInv, RegistryExact
    <3>3. Registry!Inverse'
      BY <2>1 DEF LockInv, RegistryExact, Registry!Inverse
    <3> QED
      BY <3>1, <3>2, <3>3 DEF RegistryExact
  <2>3. Consistent'
    BY <2>1, <1>3 DEF LockInv, Consistent, Asks, Has, InSection, Registry!HasValue
  <2> QED
    BY <2>2, <2>3, <1>3 DEF LockInv
<1>9. CASE q = << >> /\ Registry!HasValue(m) /\ Registry!Unlink(m)
  <2> DEFINE k == inverse[m]
  <2>1. m \in DOMAIN inverse /\ k \in DOMAIN map /\ map[k] = m /\ m \notin Standalone
    BY <1>9 DEF LockInv, RegistryExact, Consistent, Registry!Inverse, Registry!HasValue
  <2>2. /\ DOMAIN map' = DOMAIN map \ {k} /\ DOMAIN inverse' = DOMAIN inverse \ {m}
        /\ \A l \in DOMAIN map \ {k} : map'[l] = map[l]
        /\ \A n \in DOMAIN inverse \ {m} : inverse'[n] = inverse[n]
    BY <1>9 DEF Registry!Unlink, Registry!Without
  <2>3. RegistryExact'
    <3>1. \A n \in Mutexes \ Standalone : Registry!HasValue(n)' <=> queue'[n] # << >>
      BY <2>2, <1>3, <1>9 DEF LockInv, RegistryExact, Registry!HasValue
    <3>2. \A u \in Tasks : Asks(u)' /\ keyOf'[u] # None =>
            keyOf'[u] \in DOMAIN map' /\ mutexOf'[u] = map'[keyOf'[u]]
      BY <2>1, <2>2, <1>3, <1>6, <1>9 DEF LockInv, RegistryExact
    <3>3. Registry!Inverse'
      BY <2>1, <2>2 DEF LockInv, RegistryExact, Registry!Inverse
    <3> QED
      BY <3>1, <3>2, <3>3 DEF RegistryExact
  <2>4. Consistent'
    BY <2>2, <1>3 DEF LockInv, Consistent, Asks, Has, InSection, Registry!HasValue
  <2> QED
    BY <2>3, <2>4, <1>3 DEF LockInv
<1> QED
  BY <1>5, <1>7, <1>8, <1>9 DEF Drop

LEMMA LockInvInductive == Spec => []LockInv
<1>1. Init => LockInv
  <2> SUFFICES ASSUME Init PROVE LockInv
    OBVIOUS
  <2>1. \A t \in Tasks : phase[t] = "idle" /\ mutexOf[t] = None /\ keyOf[t] = None
    BY DEF Init
  <2>2. \A m \in Mutexes : queue[m] = << >>
    BY DEF Init
  <2>3. QueueMatches
    BY <2>1, <2>2 DEF QueueMatches, Asks, Has, InSection, Members, Distinct
  <2>4. RegistryExact /\ Consistent
    BY <2>1, <2>2 DEF Init, RegistryExact, Consistent, Asks, Has, InSection,
                      Registry!Init, Registry!Empty, Registry!Inverse, Registry!HasValue
  <2> QED
    BY <2>3, <2>4 DEF LockInv
<1>2. TypeOK /\ LockInv /\ [Next]_vars => LockInv'
  <2> SUFFICES ASSUME TypeOK, LockInv, [Next]_vars PROVE LockInv'
    OBVIOUS
  <2>1. CASE ~UnlockedOnce
    <3>1. twice' = twice
      BY DEF Next, vars, LockStandalone, LockKnownKey, LockNewKey, MutexLock, Resume, Read,
             Write, Unlock, Dispose, Release
    <3> QED
      BY <2>1, <3>1 DEF LockInv, QueueMatches, RegistryExact, Consistent, UnlockedOnce
  <2>2. CASE UnlockedOnce
    <3>1. ASSUME NEW t \in Tasks, LockStandalone(t) PROVE LockInv'
      BY <2>2, <3>1, LockInvStandalone
    <3>2. ASSUME NEW t \in Tasks, NEW k \in Keys, LockKnownKey(t, k) \/ LockNewKey(t, k)
          PROVE  LockInv'
      BY <2>2, <3>2, LockInvKnownKey, LockInvNewKey
    <3>3. ASSUME NEW t \in Tasks, Unlock(t) PROVE LockInv'
      BY <2>2, <3>3, LockInvUnlock
    <3>4. ASSUME NEW t \in Tasks, Dispose(t) PROVE LockInv'
      BY <2>2, <3>4 DEF Dispose, LockInv, Consistent
    <3>5. ASSUME UNCHANGED <<registry, queue, mutexOf, keyOf, twice>>,
                 \A u \in Tasks : /\ Asks(u)' <=> Asks(u)
                                  /\ Has(u)' <=> Has(u)
                                  /\ phase'[u] = phase[u] \/ phase'[u] \in InSection
          PROVE  LockInv'
      <4>1. map' = map /\ inverse' = inverse /\ queue' = queue /\ mutexOf' = mutexOf
            /\ keyOf' = keyOf /\ twice' = twice
        BY <3>5 DEF registry
      <4>2. \A m \in Mutexes : \A i \in DOMAIN queue[m] : queue[m][i] \in Tasks
        BY DEF TypeOK
      <4>3. \A u \in Tasks : phase'[u] \in Having <=> phase[u] \in Having
        BY <3>5 DEF Has, Having
      <4>4. QueueMatches'
        <5> SUFFICES ASSUME UnlockedOnce, NEW m \in Mutexes
                     PROVE  /\ \A t \in Tasks : t \in Members(queue[m]) <=> Asks(t)' /\ mutexOf[t] = m
                            /\ Distinct(queue[m])
                            /\ \A i \in DOMAIN queue[m] : phase'[queue[m][i]] \in Having <=> i = 1
          BY <2>2, <4>1 DEF QueueMatches, Has, Having
        <5> QED
          BY <3>5, <4>2, <4>3 DEF LockInv, QueueMatches, Has, Having
      <4>5. RegistryExact'
        BY <2>2, <3>5, <4>1 DEF LockInv, RegistryExact, Registry!Inverse, Registry!HasValue, UnlockedOnce
      <4>6. Consistent'
        BY <2>2, <3>5, <4>1 DEF LockInv, Consistent, UnlockedOnce, Registry!HasValue, InSection
      <4> QED
        BY <4>4, <4>5, <4>6 DEF LockInv
    <3>6. ASSUME NEW t \in Tasks, Resume(t) \/ Read(t) \/ Write(t) PROVE LockInv'
      <4>1. UNCHANGED <<registry, queue, mutexOf, keyOf, twice>>
        BY <3>6 DEF Resume, Read, Write
      <4>2. /\ phase[t] \in Having /\ phase'[t] \in InSection
            /\ \A u \in Tasks \ {t} : phase'[u] = phase[u]
        BY <3>6 DEF Resume, Read, Write, TypeOK, Having, InSection
      <4>3. \A u \in Tasks : /\ Asks(u)' <=> Asks(u)
                             /\ Has(u)' <=> Has(u)
                             /\ phase'[u] = phase[u] \/ phase'[u] \in InSection
        BY <4>2 DEF Asks, Has, Having
      <4> QED
        BY <3>5, <4>1, <4>3
    <3>7. CASE UNCHANGED vars
      BY <3>5, <3>7 DEF vars, Asks, Has
    <3> QED
      BY <3>1, <3>2, <3>3, <3>4, <3>6, <3>7 DEF Next
  <2> QED
    BY <2>1, <2>2
<1> QED
  BY <1>1, <1>2, LockTypeCorrect, PTL DEF Spec

-----------------------------------------------------------------------------
\* The queue of a mutex holds those that ask for it, once each, and only the
\* one at the front has the lock: for any number of coroutines and mutexes.
THEOREM QueueInStep == Spec => []QueueMatches
<1>1. LockInv => QueueMatches
  BY DEF LockInv
<1> QED
  BY <1>1, LockInvInductive, PTL

\* The registry of lock(key) neither leaks nor loses an entry.
THEOREM RegistryCorrect == Spec => []RegistryExact
<1>1. LockInv => RegistryExact
  BY DEF LockInv
<1> QED
  BY <1>1, LockInvInductive, PTL

LEMMA OneHasIt ==
  ASSUME TypeOK, LockInv, UnlockedOnce, NEW t \in Tasks, NEW u \in Tasks,
         Has(t), Has(u), mutexOf[t] = mutexOf[u]
  PROVE  t = u
<1> DEFINE m == mutexOf[t]
<1>1. m \in Mutexes
  BY DEF LockInv, Consistent, Asks
<1>2. t \in Members(queue[m]) /\ u \in Members(queue[m])
  BY <1>1 DEF LockInv, QueueMatches, Asks
<1>3. PICK i \in DOMAIN queue[m], j \in DOMAIN queue[m] : queue[m][i] = t /\ queue[m][j] = u
  BY <1>2 DEF Members
<1>4. i = 1 /\ j = 1
  BY <1>1, <1>3 DEF LockInv, QueueMatches
<1> QED
  BY <1>3, <1>4

\* No two coroutines have the same mutex, nor two mutexes of the same key, if
\* every lock is given up once.
THEOREM Exclusion == Spec => []ExclusionIfUnlockedOnce
<1>1. TypeOK /\ LockInv => ExclusionIfUnlockedOnce
  <2> SUFFICES ASSUME TypeOK, LockInv, UnlockedOnce, NEW t \in Tasks, NEW u \in Tasks,
                      Has(t), Has(u), Contend(t, u)
               PROVE  t = u
    BY DEF ExclusionIfUnlockedOnce, MutualExclusion
  <2>1. mutexOf[t] = mutexOf[u]
    BY DEF Contend, LockInv, RegistryExact, Asks
  <2> QED
    BY <2>1, OneHasIt
<1> QED
  BY <1>1, LockTypeCorrect, LockInvInductive, PTL

\* Nobody writes a guarded value between another's read and write of it.
THEOREM NoUpdateLost == Spec => []NoLostUpdate
<1>1. Init => NoLostUpdate
  BY DEF Init, NoLostUpdate
<1>2. TypeOK /\ LockInv /\ NoLostUpdate /\ [Next]_vars => NoLostUpdate'
  <2> SUFFICES ASSUME TypeOK, LockInv, NoLostUpdate, [Next]_vars, UnlockedOnce',
                      NEW u \in Tasks, phase'[u] = "read"
               PROVE  seen'[u] = value'[mutexOf'[u]]
    BY DEF NoLostUpdate
  <2>1. UnlockedOnce
    BY DEF Next, vars, LockStandalone, LockKnownKey, LockNewKey, MutexLock, Resume, Read,
           Write, Unlock, Dispose, Release, UnlockedOnce
  <2>2. phase[u] = "read" => seen[u] = value[mutexOf[u]]
    BY <2>1 DEF NoLostUpdate
  <2>3. ASSUME NEW t \in Tasks, NEW m \in Mutexes, MutexLock(t, m)
        PROVE  seen'[u] = value'[mutexOf'[u]]
    BY <2>2, <2>3 DEF MutexLock, TypeOK
  <2>4. ASSUME NEW t \in Tasks,
               LockStandalone(t) \/ \E k \in Keys : LockKnownKey(t, k) \/ LockNewKey(t, k)
        PROVE  seen'[u] = value'[mutexOf'[u]]
    <3>1. \E m \in Mutexes : MutexLock(t, m)
      BY <2>4, LockAssumption
      DEF LockStandalone, LockKnownKey, LockNewKey, TypeOK, Registry!TypeOK
    <3> QED
      BY <2>3, <3>1
  <2>5. ASSUME NEW t \in Tasks, Resume(t) \/ Read(t) PROVE seen'[u] = value'[mutexOf'[u]]
    BY <2>2, <2>5 DEF Resume, Read, TypeOK
  <2>6. ASSUME NEW t \in Tasks, Write(t) PROVE seen'[u] = value'[mutexOf'[u]]
    <3>1. u # t /\ phase[u] = "read" /\ phase[t] = "read"
      BY <2>6 DEF Write, TypeOK
    <3>2. mutexOf[u] # mutexOf[t]
      BY <2>1, <3>1, OneHasIt DEF Has, InSection
    <3> QED
      BY <2>2, <2>6, <3>1, <3>2 DEF Write, TypeOK
  <2>7. ASSUME NEW t \in Tasks, Unlock(t) PROVE seen'[u] = value'[mutexOf'[u]]
    <3>1. Release(t, "idle")
      BY <2>1, <2>7 DEF Unlock, UnlockedOnce
    <3>2. u # t /\ phase[u] = "read"
      BY <3>1 DEF Release, GrantHead, TypeOK
    <3> QED
      BY <2>2, <3>1, <3>2 DEF Release, TypeOK
  <2>8. ASSUME NEW t \in Tasks, Dispose(t) PROVE seen'[u] = value'[mutexOf'[u]]
    BY <2>1, <2>8 DEF Dispose, LockInv, Consistent
  <2>9. CASE UNCHANGED vars
    BY <2>2, <2>9 DEF vars
  <2> QED
    BY <2>4, <2>5, <2>6, <2>7, <2>8, <2>9 DEF Next
<1> QED
  BY <1>1, <1>2, LockTypeCorrect, LockInvInductive, PTL DEF Spec

-----------------------------------------------------------------------------
(* Each mutex implements AbstractLock. *)

Owner(m) == IF queue[m] = << >> THEN None ELSE Head(queue[m])
Waiters(m) == {t \in Tasks : phase[t] = "waiting" /\ mutexOf[t] = m}

\* A mutex that a step leaves alone stutters.
LEMMA OtherMutexStutters ==
  ASSUME NEW n \in Mutexes, queue'[n] = queue[n],
         \A u \in Tasks : (phase'[u] = "waiting" /\ mutexOf'[u] = n)
                            <=> (phase[u] = "waiting" /\ mutexOf[u] = n)
  PROVE  UNCHANGED Abstract(n)!vars
<1>1. Owner(n)' = Owner(n) /\ Waiters(n)' = Waiters(n)
  BY DEF Owner, Waiters
<1> QED
  BY <1>1 DEF Abstract!vars, Owner, Waiters

\* lock() takes a free mutex, or asks for one somebody has.
LEMMA MutexLockRefines ==
  ASSUME TypeOK, LockInv, UnlockedOnce, NEW t \in Tasks, NEW m \in Mutexes, MutexLock(t, m),
         NEW n \in Mutexes
  PROVE  Abstract(n)!Next \/ UNCHANGED Abstract(n)!vars
<1> DEFINE q == queue[m]
<1>1. /\ phase[t] = "idle" /\ mutexOf'[t] = m
      /\ \A u \in Tasks \ {t} : phase'[u] = phase[u] /\ mutexOf'[u] = mutexOf[u]
      /\ \A l \in Mutexes : l # m => queue'[l] = queue[l]
  BY MutexLockSteps
<1>2. /\ queue'[m] = Append(q, t)
      /\ phase'[t] = IF q = << >> THEN "granted" ELSE "waiting"
  BY DEF MutexLock, Enqueue, Free, TypeOK
<1>3. t \notin Members(q)
  BY <1>1 DEF LockInv, QueueMatches, Asks, Has, InSection
<1>4. CASE n # m
  BY <1>1, <1>4, OtherMutexStutters
<1>5. CASE n = m /\ q = << >>
  <2>1. Waiters(m) = {}
    <3>1. Members(q) = {}
      BY <1>5 DEF Members
    <3> QED
      BY <3>1 DEF Waiters, LockInv, QueueMatches, Asks
  <2>2. Waiters(m)' = {}
    BY <1>1, <1>2, <1>5, <2>1 DEF Waiters
  <2>3. Append(<< >>, t) = <<t>> /\ <<t>> # << >> /\ Head(<<t>>) = t
    OBVIOUS
  <2>4. Owner(m) = None /\ Owner(m)' = t
    BY <1>2, <1>5, <2>3 DEF Owner
  <2>5. Abstract(n)!TakeFree(t)
    BY <1>5, <2>1, <2>2, <2>4 DEF Abstract!TakeFree, Owner, Waiters
  <2> QED
    BY <2>5 DEF Abstract!Next
<1>6. CASE n = m /\ q # << >>
  <2>1. q \in Seq(Tasks)
    BY DEF TypeOK
  <2>2. Append(q, t) # << >> /\ Head(Append(q, t)) = Head(q) /\ Head(q) = q[1] /\ 1 \in DOMAIN q
    <3>1. \A s \in Seq(Tasks) : s # << >> =>
            /\ Len(Append(s, t)) \in Nat \ {0} /\ Append(s, t)[1] = s[1]
            /\ Head(Append(s, t)) = Append(s, t)[1] /\ Head(s) = s[1] /\ 1 \in DOMAIN s
      OBVIOUS
    <3>2. Len(Append(q, t)) # Len(<< >>)
      BY <2>1, <1>6, <3>1
    <3> QED
      BY <2>1, <1>6, <3>1, <3>2
  <2>3. Head(q) \in Tasks /\ Head(q) # t /\ Head(q) # None
    BY <2>1, <2>2, <1>3, LockAssumption DEF Members
  <2>4. Owner(m) = Head(q) /\ Owner(m)' = Head(q)
    BY <1>2, <1>6, <2>2 DEF Owner
  <2>5. t \notin Waiters(m) /\ Waiters(m)' = Waiters(m) \cup {t}
    BY <1>1, <1>2, <1>6 DEF Waiters
  <2>6. Abstract(n)!Ask(t)
    BY <1>6, <2>3, <2>4, <2>5 DEF Abstract!Ask, Owner, Waiters
  <2> QED
    BY <2>6 DEF Abstract!Next
<1> QED
  BY <1>4, <1>5, <1>6

\* unlock() frees the mutex, or hands it to the one that waited the longest.
LEMMA UnlockRefines ==
  ASSUME TypeOK, LockInv, UnlockedOnce, NEW t \in Tasks, Unlock(t), NEW n \in Mutexes
  PROVE  Abstract(n)!Next \/ UNCHANGED Abstract(n)!vars
<1> DEFINE m == mutexOf[t]
           s == queue[m]
           q == Tail(s)
<1>1. phase[t] \in InSection /\ Release(t, "idle")
  BY DEF Unlock, UnlockedOnce
<1>2. m \in Mutexes
  BY <1>1 DEF LockInv, Consistent, Asks, Has
<1>3. /\ s \in Seq(Tasks) /\ s # << >> /\ s[1] = t
      /\ q # << >> => /\ Head(q) = q[1] /\ phase[Head(q)] = "waiting" /\ mutexOf[Head(q)] = m
  BY <1>1, <1>2, FrontUnlocks DEF LockInv
<1>4. /\ \A u \in Tasks \ {t} :
           /\ mutexOf'[u] = mutexOf[u]
           /\ phase'[u] = IF q # << >> /\ u = Head(q) THEN "granted" ELSE phase[u]
      /\ phase'[t] = "idle" /\ phase[t] # "waiting"
      /\ \A l \in Mutexes : queue'[l] = IF l = m THEN Tail(queue[l]) ELSE queue[l]
  BY <1>1, <1>2, ReleaseMatches DEF LockInv, InSection
<1>5. CASE n # m
  <2>1. \A u \in Tasks : (phase'[u] = "waiting" /\ mutexOf'[u] = n)
                           <=> (phase[u] = "waiting" /\ mutexOf[u] = n)
    BY <1>3, <1>4, <1>5
  <2> QED
    BY <1>4, <1>5, <2>1, OtherMutexStutters
<1>6. n = m => Owner(n) = t /\ t # None
  BY <1>3, LockAssumption DEF Owner
<1>7. CASE n = m /\ q = << >>
  <2>1. Waiters(n) = {}
    <3>1. Distinct(s) /\ Members(<< >>) = {}
      BY <1>2 DEF LockInv, QueueMatches, Members
    <3>2. Members(q) = Members(s) \ {t}
      BY <1>3, <3>1, TailShifts
    <3>3. \A u \in Members(s) : u = t
      BY <1>7, <3>1, <3>2
    <3> QED
      BY <3>3, <1>2, <1>4, <1>7 DEF Waiters, LockInv, QueueMatches, Asks
  <2>2. Waiters(n)' = {}
    BY <1>4, <1>7, <2>1 DEF Waiters
  <2>3. Owner(n)' = None
    BY <1>2, <1>4, <1>7 DEF Owner
  <2>4. Abstract(n)!Leave
    BY <1>6, <1>7, <2>1, <2>2, <2>3 DEF Abstract!Leave, Owner, Waiters
  <2> QED
    BY <2>4 DEF Abstract!Next
<1>8. CASE n = m /\ q # << >>
  <2>1. Head(q) \in Tasks
    BY <1>3, <1>8
  <2>2. Owner(n)' = Head(q)
    BY <1>2, <1>4, <1>8 DEF Owner
  <2>3. Head(q) \in Waiters(n) /\ Waiters(n)' = Waiters(n) \ {Head(q)}
    BY <1>3, <1>4, <1>8, <2>1 DEF Waiters
  <2>4. PICK h \in Tasks : h = Head(q)
    BY <2>1
  <2>5. Abstract(n)!HandOver(h)
    BY <1>6, <1>8, <2>2, <2>3, <2>4 DEF Abstract!HandOver, Owner, Waiters
  <2> QED
    BY <2>5 DEF Abstract!Next
<1> QED
  BY <1>5, <1>7, <1>8

\* When locks are given up once, every mutex hands its lock from one owner to
\* the next as AbstractLock says, for any number of coroutines and mutexes.
THEOREM MutexImplementsLock == Spec => ImplementsLock
<1> DEFINE Refines == UnlockedOnce => \A m \in Mutexes :
                        Abstract(m)!Next \/ UNCHANGED Abstract(m)!vars
<1>1. TypeOK /\ LockInv /\ [Next]_vars => [Refines]_vars
  <2> SUFFICES ASSUME TypeOK, LockInv, [Next]_vars, UnlockedOnce, vars' # vars, NEW n \in Mutexes
               PROVE  Abstract(n)!Next \/ UNCHANGED Abstract(n)!vars
    OBVIOUS
  <2>1. ASSUME NEW t \in Tasks, NEW m \in Mutexes, MutexLock(t, m)
        PROVE  Abstract(n)!Next
               \/ UNCHANGED Abstract(n)!vars
    BY <2>1, MutexLockRefines
  <2>2. ASSUME NEW t \in Tasks,
               LockStandalone(t) \/ \E k \in Keys : LockKnownKey(t, k) \/ LockNewKey(t, k)
        PROVE  \E m \in Mutexes : MutexLock(t, m)
    BY <2>2, LockAssumption DEF LockStandalone, LockKnownKey, LockNewKey, TypeOK, Registry!TypeOK
  <2>3. ASSUME NEW t \in Tasks, Unlock(t) PROVE Abstract(n)!Next \/ UNCHANGED Abstract(n)!vars
    BY <2>3, UnlockRefines
  <2>4. ASSUME NEW t \in Tasks, Dispose(t) PROVE FALSE
    BY <2>4 DEF Dispose, LockInv, Consistent
  <2>5. ASSUME NEW t \in Tasks, Resume(t) \/ Read(t) \/ Write(t)
        PROVE  UNCHANGED Abstract(n)!vars
    <3>1. queue' = queue /\ mutexOf' = mutexOf
      BY <2>5 DEF Resume, Read, Write
    <3>2. \A u \in Tasks : phase'[u] = "waiting" <=> phase[u] = "waiting"
      BY <2>5 DEF Resume, Read, Write, TypeOK
    <3> QED
      BY <3>1, <3>2, OtherMutexStutters
  <2> QED
    BY <2>1, <2>2, <2>3, <2>4, <2>5 DEF Next
<1> QED
  BY <1>1, LockTypeCorrect, LockInvInductive, PTL DEF Spec, ImplementsLock

-----------------------------------------------------------------------------
(* The registry. *)

\* lock() pairs only new keys with new mutexes and unlock() deletes by value,
\* also when a lock is given up twice: it uses its BiMap as PairSpec asks.
THEOREM RegistryUsesPairs == Spec => Registry!PairSpec
<1>1. Init => Registry!Init
  BY DEF Init
<1>2. TypeOK /\ [Next]_vars => [Registry!PairNext]_(Registry!vars)
  <2> SUFFICES ASSUME TypeOK, [Next]_vars
               PROVE  Registry!PairNext \/ UNCHANGED Registry!vars
    OBVIOUS
  <2>1. ASSUME NEW t \in Tasks, NEW p, Release(t, p)
        PROVE  Registry!PairNext \/ UNCHANGED Registry!vars
    <3>1. CASE UNCHANGED registry
      BY <3>1 DEF registry, Registry!vars
    <3>2. CASE ~UNCHANGED registry
      <4>1. Registry!HasValue(mutexOf[t]) /\ Registry!Unlink(mutexOf[t])
        BY <2>1, <3>2 DEF Release, Drop
      <4>2. mutexOf[t] \in Mutexes
        BY <4>1 DEF TypeOK, Registry!TypeOK, Registry!HasValue
      <4> QED
        BY <4>1, <4>2 DEF Registry!PairNext, Registry!DeleteValue
    <3> QED
      BY <3>1, <3>2
  <2>2. ASSUME NEW t \in Tasks, NEW k \in Keys, LockNewKey(t, k)
        PROVE  Registry!PairNext
    BY <2>2 DEF LockNewKey, New, Registry!HasValue, Registry!PairNext
  <2>3. ASSUME NEW t \in Tasks, NEW k \in Keys, LockKnownKey(t, k)
        PROVE  UNCHANGED Registry!vars
    BY <2>3 DEF LockKnownKey, registry, Registry!vars
  <2>4. ASSUME NEW t \in Tasks, LockStandalone(t) \/ Resume(t) \/ Read(t) \/ Write(t)
        PROVE  UNCHANGED Registry!vars
    BY <2>4 DEF LockStandalone, Resume, Read, Write, registry, Registry!vars
  <2>5. CASE UNCHANGED vars
    BY <2>5 DEF vars, registry, Registry!vars
  <2> QED
    BY <2>1, <2>2, <2>3, <2>4, <2>5 DEF Next, Unlock, Dispose
<1> QED
  BY <1>1, <1>2, LockTypeCorrect, PTL DEF Spec, Registry!PairSpec

\* A caller that uses a BiMap so never sees its two maps disagree: every value
\* has one key and every key one value.
THEOREM PairsAgree ==
  Registry!PairSpec => [](Registry!Inverse /\ Registry!ValuesUnique /\ Registry!ValueHasItsKey)
<1>1. Registry!Init => Registry!Inverse
  BY DEF Registry!Init, Registry!Empty, Registry!Inverse
<1>2. Registry!Inverse /\ [Registry!PairNext]_(Registry!vars) => Registry!Inverse'
  <2> SUFFICES ASSUME Registry!Inverse, [Registry!PairNext]_(Registry!vars) PROVE Registry!Inverse'
    OBVIOUS
  <2>1. ASSUME NEW k \in Keys \ DOMAIN map, NEW m \in Mutexes \ DOMAIN inverse, Registry!Set(k, m)
        PROVE  Registry!Inverse'
    <3>1. DOMAIN map' = DOMAIN map \cup {k} /\ DOMAIN inverse' = DOMAIN inverse \cup {m}
      BY <2>1 DEF Registry!Set, Registry!Put
    <3>2. /\ map'[k] = m /\ inverse'[m] = k
          /\ \A l \in DOMAIN map : map'[l] = map[l]
          /\ \A n \in DOMAIN inverse : inverse'[n] = inverse[n]
      BY <2>1 DEF Registry!Set, Registry!Put
    <3> QED
      BY <3>1, <3>2 DEF Registry!Inverse
  <2>2. ASSUME NEW m \in Mutexes, Registry!DeleteValue(m) PROVE Registry!Inverse'
    <3>1. /\ DOMAIN map' = DOMAIN map \ {inverse[m]} /\ DOMAIN inverse' = DOMAIN inverse \ {m}
          /\ \A l \in DOMAIN map' : map'[l] = map[l]
          /\ \A n \in DOMAIN inverse' : inverse'[n] = inverse[n]
          /\ m \in DOMAIN inverse
      BY <2>2 DEF Registry!DeleteValue, Registry!HasValue, Registry!Unlink, Registry!Without
    <3> QED
      BY <3>1 DEF Registry!Inverse
  <2>3. CASE Registry!Clear
    BY <2>3 DEF Registry!Clear, Registry!Empty, Registry!Inverse
  <2>4. CASE UNCHANGED Registry!vars
    BY <2>4 DEF Registry!vars, Registry!Inverse
  <2> QED
    BY <2>1, <2>2, <2>3, <2>4 DEF Registry!PairNext
<1>3. Registry!Inverse => Registry!ValuesUnique /\ Registry!ValueHasItsKey
  BY DEF Registry!Inverse, Registry!ValuesUnique, Registry!ValueHasItsKey
<1> QED
  BY <1>1, <1>2, <1>3, PTL DEF Registry!PairSpec

\* So the registry of lock() is a BiMap whose maps agree, whatever callers do.
THEOREM RegistryAgrees == Spec => []Registry!Inverse
BY RegistryUsesPairs, PairsAgree, PTL
===============================================================================
