---------------------------- MODULE ChannelProofs ----------------------------
(* Theorems about the channel of chan.ts, its iterator and the queue built on *)
(* it, for every set of calls.                                               *)
EXTENDS Queue, SequenceTheorems, TLAPS

LEMMA MembersType == ASSUME NEW S, NEW s \in Seq(S) PROVE Members(s) \subseteq S
  BY DEF Members

\* Settling a receiver keeps the types of what it writes.
LEMMA FulfilType ==
  ASSUME TypeOK, NEW r \in Recvs, NEW v \in Sends \cup {Undef}, Fulfil(r, v)
  PROVE  /\ recvPromise' \in [Recvs -> {"idle", "pending", "fulfilled", "rejected"}]
         /\ value' \in [Recvs -> Sends \cup {Undef}]
  BY DEF TypeOK, Fulfil

LEMMA InitTypes == Init => TypeOK
<1> SUFFICES ASSUME Init PROVE TypeOK
  OBVIOUS
<1>1. << >> \in Seq(Sends) /\ << >> \in Seq(Recvs)
  OBVIOUS
<1>2. value \in [Recvs -> Sends \cup {Undef}]
  BY DEF Init
<1>3. sendPromise \in [Sends -> {"idle", "pending", "resolved", "refused"}]
  BY DEF Init
<1>4. recvPromise \in [Recvs -> {"idle", "pending", "fulfilled", "rejected"}]
  BY DEF Init
<1>5. error \in BOOLEAN /\ state \in {0, 1, 2}
  BY DEF Init
<1> QED
  BY <1>1, <1>2, <1>3, <1>4, <1>5 DEF Init, TypeOK

\* Every variable stays within its type, for every capacity.
THEOREM TypeCorrect == Spec => []TypeOK
<1>1. Init => TypeOK
  BY InitTypes
<1>2. TypeOK /\ [Next]_vars => TypeOK'
  <2> SUFFICES ASSUME TypeOK, [Next]_vars PROVE TypeOK'
    OBVIOUS
  <2> USE DEF TypeOK
  <2>1. ASSUME NEW s \in Sends, SendRefused(s) PROVE TypeOK'
    BY <2>1 DEF SendRefused, queues
  <2>2. ASSUME NEW s \in Sends, SendToConsumer(s) PROVE TypeOK'
    BY <2>2, FulfilType DEF SendToConsumer, MaySend, SendReturns
  <2>3. ASSUME NEW s \in Sends, SendToBuffer(s) PROVE TypeOK'
    BY <2>3 DEF SendToBuffer, MaySend, SendReturns
  <2>4. ASSUME NEW s \in Sends, SendBlocks(s) PROVE TypeOK'
    BY <2>4 DEF SendBlocks, MaySend, SendReturns
  <2>5. ASSUME NEW r \in Recvs, RecvBuffered(r) PROVE TypeOK'
    <3>1. Head(buffer) \in Sends /\ buffer' \in Seq(Sends)
      BY <2>5 DEF RecvBuffered
    <3>2. state' \in {0, 1, 2}
      BY <2>5 DEF RecvBuffered, Drained
    <3> QED
      BY <2>5, <3>1, <3>2, FulfilType DEF RecvBuffered
  <2>6. ASSUME NEW r \in Recvs, RecvFromProducer(r) PROVE TypeOK'
    <3> DEFINE s == NextProducer
    <3>1. s \in Sends /\ producers' \in Seq(Sends)
      BY <2>6 DEF RecvFromProducer, NextProducer
    <3>2. state' \in {0, 1, 2}
      BY <2>6 DEF RecvFromProducer, Drained
    <3>3. PICK v \in Sends \cup {Undef} : Fulfil(r, v)
      BY <2>6, <3>1 DEF RecvFromProducer, Produce
    <3>4. buffer' \in Seq(Sends)
      <4>1. <<s>> \in Seq(Sends)
        BY <3>1
      <4>2. buffer' = buffer \/ buffer' = <<s>>
        BY <2>6 DEF RecvFromProducer, Produce
      <4> QED
        BY <4>1, <4>2
    <3>5. sendPromise' \in [Sends -> {"idle", "pending", "resolved", "refused"}]
      BY <2>6, <3>1 DEF RecvFromProducer, Released
    <3> QED
      BY <2>6, <3>1, <3>2, <3>3, <3>4, <3>5, FulfilType DEF RecvFromProducer
  <2>7. ASSUME NEW r \in Recvs, RecvFinished(r) PROVE TypeOK'
    BY <2>7, FulfilType DEF RecvFinished, queues
  <2>8. ASSUME NEW r \in Recvs, RecvError(r) PROVE TypeOK'
    BY <2>8 DEF RecvError, queues
  <2>9. ASSUME NEW r \in Recvs, RecvClosing(r) PROVE TypeOK'
    BY <2>9, FulfilType DEF RecvClosing, queues
  <2>10. ASSUME NEW r \in Recvs, RecvBlocks(r) PROVE TypeOK'
    BY <2>10 DEF RecvBlocks
  <2>11. ASSUME NEW err \in BOOLEAN, Close(err) PROVE TypeOK'
    BY <2>11 DEF Close, Broadcast
  <2>12. CASE UNCHANGED vars
    BY <2>12 DEF vars, queues, promises
  <2> QED
    BY <2>1, <2>2, <2>3, <2>4, <2>5, <2>6, <2>7, <2>8, <2>9, <2>10, <2>11, <2>12
    DEF Next, Send, Recv
<1> QED
  BY <1>1, <1>2, PTL DEF Spec

-----------------------------------------------------------------------------
(* The queues as sets of calls. *)

LEMMA AppendMembers ==
  ASSUME NEW S, NEW s \in Seq(S), NEW x \in S
  PROVE  /\ Members(Append(s, x)) = Members(s) \cup {x}
         /\ Distinct(s) /\ x \notin Members(s) => Distinct(Append(s, x))
<1>1. DOMAIN Append(s, x) = DOMAIN s \cup {Len(s) + 1} /\ Len(s) \in Nat
  OBVIOUS
<1>2. \A i \in DOMAIN s : Append(s, x)[i] = s[i] /\ i # Len(s) + 1
  OBVIOUS
<1>3. Append(s, x)[Len(s) + 1] = x
  OBVIOUS
<1> QED
  BY <1>1, <1>2, <1>3 DEF Members, Distinct

LEMMA TailMembers ==
  ASSUME NEW S, NEW s \in Seq(S), s # << >>, Distinct(s)
  PROVE  /\ Head(s) \in Members(s)
         /\ Members(Tail(s)) = Members(s) \ {Head(s)}
         /\ Distinct(Tail(s))
<1>1. DOMAIN Tail(s) = 1 .. Len(s) - 1 /\ DOMAIN s = 1 .. Len(s) /\ Len(s) \in Nat \ {0}
  OBVIOUS
<1>2. \A i \in DOMAIN Tail(s) : Tail(s)[i] = s[i + 1]
  OBVIOUS
<1>3. Head(s) = s[1]
  OBVIOUS
<1>4. Head(s) \in Members(s)
  BY <1>1, <1>3 DEF Members
<1>5. Members(Tail(s)) = Members(s) \ {Head(s)}
  <2>1. ASSUME NEW x \in Members(Tail(s)) PROVE x \in Members(s) \ {Head(s)}
    BY <1>1, <1>2, <1>3 DEF Members, Distinct
  <2>2. ASSUME NEW x \in Members(s) \ {Head(s)} PROVE x \in Members(Tail(s))
    <3>1. PICK i \in 1 .. Len(s) : s[i] = x
      BY <1>1 DEF Members
    <3>2. i - 1 \in DOMAIN Tail(s) /\ (i - 1) + 1 = i
      BY <3>1, <1>1, <1>3
    <3> QED
      BY <3>1, <3>2, <1>2 DEF Members
  <2> QED
    BY <2>1, <2>2
<1>6. Distinct(Tail(s))
  BY <1>1, <1>2 DEF Distinct
<1> QED
  BY <1>4, <1>5, <1>6

LEMMA EmptyMembers == Members(<< >>) = {} /\ Distinct(<< >>)
  BY DEF Members, Distinct

LEMMA SingletonMembers == ASSUME NEW x PROVE Members(<<x>>) = {x} /\ Distinct(<<x>>)
<1>1. DOMAIN <<x>> = {1} /\ <<x>>[1] = x
  OBVIOUS
<1> QED
  BY <1>1 DEF Members, Distinct

-----------------------------------------------------------------------------
\* An error is there only once the channel is closed.  NoReceiverMissed is not
\* inductive without it: the recv() that throws the error finishes the channel.
ErrorMeansClosed == error => state # 1

LEMMA NobodyMissedInductive == Spec => [](NoReceiverMissed /\ ErrorMeansClosed)
<1> DEFINE IInv == NoReceiverMissed /\ ErrorMeansClosed
<1>1. Init => IInv
  BY DEF Init, NoReceiverMissed, ErrorMeansClosed
<1>2. TypeOK /\ IInv /\ [Next]_vars => IInv'
  <2> SUFFICES ASSUME TypeOK, IInv, [Next]_vars PROVE IInv'
    OBVIOUS
  <2> USE DEF NoReceiverMissed, ErrorMeansClosed, NothingQueued
  <2>1. ASSUME NEW s \in Sends, Send(s) PROVE IInv'
    BY <2>1 DEF Send, SendRefused, SendToConsumer, SendToBuffer, SendBlocks, NoReceiver, queues, MaySend
  <2>2. ASSUME NEW r \in Recvs, Recv(r) PROVE IInv'
    <3>1. CASE RecvBuffered(r) \/ RecvFromProducer(r)
      BY <3>1 DEF RecvBuffered, RecvFromProducer, Drained
    <3>2. CASE RecvFinished(r) \/ RecvError(r) \/ RecvClosing(r)
      BY <3>2 DEF RecvFinished, RecvError, RecvClosing, queues
    <3>3. CASE RecvBlocks(r)
      BY <3>3 DEF RecvBlocks
    <3> QED
      BY <2>2, <3>1, <3>2, <3>3 DEF Recv
  <2>3. ASSUME NEW err \in BOOLEAN, Close(err) PROVE IInv'
    BY <2>3 DEF Close, Broadcast
  <2>4. CASE UNCHANGED vars
    BY <2>4 DEF vars, queues
  <2> QED
    BY <2>1, <2>2, <2>3, <2>4 DEF Next
<1> QED
  BY <1>1, <1>2, TypeCorrect, PTL DEF Spec

\* No receiver waits beside something it could have: a queued datum, or the end
\* of the stream.
THEOREM NobodyMissed == Spec => []NoReceiverMissed
BY NobodyMissedInductive, PTL

-----------------------------------------------------------------------------
\* A promise is pending exactly while its call is in the queue from which it
\* will be settled, in which it is once.
THEOREM NobodyForgotten == Spec => []PendingCallsQueued
<1>1. Init => PendingCallsQueued
  BY EmptyMembers DEF Init, PendingCallsQueued
<1>2. TypeOK /\ PendingCallsQueued /\ [Next]_vars => PendingCallsQueued'
  <2> SUFFICES ASSUME TypeOK, PendingCallsQueued, [Next]_vars PROVE PendingCallsQueued'
    OBVIOUS
  <2> USE DEF PendingCallsQueued
  <2>t. /\ producers \in Seq(Sends) /\ consumers \in Seq(Recvs)
        /\ sendPromise \in [Sends -> {"idle", "pending", "resolved", "refused"}]
        /\ recvPromise \in [Recvs -> {"idle", "pending", "fulfilled", "rejected"}]
    BY DEF TypeOK
  <2>1. ASSUME NEW s \in Sends, SendRefused(s) PROVE PendingCallsQueued'
    BY <2>1, <2>t DEF SendRefused, queues
  <2>2. ASSUME NEW s \in Sends, SendToConsumer(s) PROVE PendingCallsQueued'
    <3>1. /\ Members(consumers') = Members(consumers) \ {Head(consumers)}
          /\ Distinct(consumers')
      BY <2>2, <2>t, TailMembers DEF SendToConsumer
    <3>2. \A r \in Recvs : recvPromise'[r] = IF r = Head(consumers) THEN "fulfilled" ELSE recvPromise[r]
      BY <2>2, <2>t DEF SendToConsumer, Fulfil
    <3>3. \A q \in Sends : sendPromise'[q] = IF q = s THEN "resolved" ELSE sendPromise[q]
      BY <2>2, <2>t DEF SendToConsumer, SendReturns
    <3>4. sendPromise[s] = "idle" /\ producers' = producers
      BY <2>2 DEF SendToConsumer, MaySend
    <3> QED
      BY <3>1, <3>2, <3>3, <3>4
  <2>3. ASSUME NEW s \in Sends, SendToBuffer(s) PROVE PendingCallsQueued'
    BY <2>3, <2>t DEF SendToBuffer, MaySend, SendReturns
  <2>4. ASSUME NEW s \in Sends, SendBlocks(s) PROVE PendingCallsQueued'
    <3>1. sendPromise[s] = "idle" /\ s \notin Members(producers)
      BY <2>4 DEF SendBlocks, MaySend
    <3>2. Members(producers') = Members(producers) \cup {s} /\ Distinct(producers')
      BY <2>4, <2>t, <3>1, AppendMembers DEF SendBlocks
    <3>3. \A q \in Sends : sendPromise'[q] = IF q = s THEN "pending" ELSE sendPromise[q]
      BY <2>4, <2>t DEF SendBlocks, SendReturns
    <3>4. consumers' = consumers /\ recvPromise' = recvPromise
      BY <2>4 DEF SendBlocks
    <3> QED
      BY <3>1, <3>2, <3>3, <3>4
  <2>5. ASSUME NEW r \in Recvs, RecvBuffered(r) PROVE PendingCallsQueued'
    BY <2>5, <2>t DEF RecvBuffered, Fulfil
  <2>6. ASSUME NEW r \in Recvs, RecvFromProducer(r) PROVE PendingCallsQueued'
    <3>1. /\ Members(producers') = Members(producers) \ {NextProducer}
          /\ Distinct(producers')
      BY <2>6, <2>t, TailMembers DEF RecvFromProducer, NextProducer
    <3>2. \A q \in Sends : sendPromise'[q] = IF q = NextProducer THEN "resolved" ELSE sendPromise[q]
      BY <2>6, <2>t DEF RecvFromProducer, Released
    <3>3. \A q \in Recvs : recvPromise'[q] = IF q = r THEN "fulfilled" ELSE recvPromise[q]
      BY <2>6, <2>t DEF RecvFromProducer, Produce, Fulfil
    <3>4. recvPromise[r] = "idle" /\ consumers' = consumers
      BY <2>6 DEF RecvFromProducer
    <3> QED
      BY <3>1, <3>2, <3>3, <3>4
  <2>7. ASSUME NEW r \in Recvs, RecvFinished(r) \/ RecvClosing(r) PROVE PendingCallsQueued'
    BY <2>7, <2>t DEF RecvFinished, RecvClosing, Fulfil, queues
  <2>8. ASSUME NEW r \in Recvs, RecvError(r) PROVE PendingCallsQueued'
    BY <2>8, <2>t DEF RecvError, queues
  <2>9. ASSUME NEW r \in Recvs, RecvBlocks(r) PROVE PendingCallsQueued'
    <3>1. recvPromise[r] = "idle" /\ r \notin Members(consumers)
      BY <2>9 DEF RecvBlocks
    <3>2. Members(consumers') = Members(consumers) \cup {r} /\ Distinct(consumers')
      BY <2>9, <2>t, <3>1, AppendMembers DEF RecvBlocks
    <3>3. \A q \in Recvs : recvPromise'[q] = IF q = r THEN "pending" ELSE recvPromise[q]
      BY <2>9, <2>t DEF RecvBlocks
    <3>4. producers' = producers /\ sendPromise' = sendPromise
      BY <2>9 DEF RecvBlocks
    <3> QED
      BY <3>1, <3>2, <3>3, <3>4
  <2>10. ASSUME NEW err \in BOOLEAN, Close(err) PROVE PendingCallsQueued'
    <3>1. Members(consumers') = {} /\ Distinct(consumers')
      BY <2>10, EmptyMembers DEF Close, Broadcast
    <3>2. \A r \in Recvs : recvPromise'[r] # "pending"
      BY <2>10, <2>t DEF Close, Broadcast
    <3>3. producers' = producers /\ sendPromise' = sendPromise
      BY <2>10 DEF Close
    <3> QED
      BY <3>1, <3>2, <3>3
  <2>11. CASE UNCHANGED vars
    BY <2>11 DEF vars, queues, promises
  <2> QED
    BY <2>1, <2>2, <2>3, <2>4, <2>5, <2>6, <2>7, <2>8, <2>9, <2>10, <2>11 DEF Next, Send, Recv
<1> QED
  BY <1>1, <1>2, TypeCorrect, PTL DEF Spec

-----------------------------------------------------------------------------
(* The strengthening of ExactlyOnce: only a fulfilled recv() has a value.     *)
ValuesGiven == \A r \in Recvs : value[r] # Undef => recvPromise[r] = "fulfilled"
ValuesDistinct == \A q, r \in Recvs : value[q] = value[r] /\ value[q] # Undef => q = r

\* A recv() that is given a datum nobody has been given.
LEMMA FulfilDelivers ==
  ASSUME TypeOK, ValuesGiven, ValuesDistinct,
         NEW r \in Recvs, recvPromise[r] # "fulfilled",
         NEW v \in Sends \cup {Undef}, v # Undef => ~Delivered(v), Fulfil(r, v)
  PROVE  /\ \A s \in Sends : Delivered(s)' <=> Delivered(s) \/ s = v
         /\ ValuesGiven' /\ ValuesDistinct'
<1>1. \A q \in Recvs : /\ recvPromise'[q] = IF q = r THEN "fulfilled" ELSE recvPromise[q]
                       /\ value'[q] = IF q = r THEN v ELSE value[q]
  BY DEF TypeOK, Fulfil
<1>2. \A s \in Sends : Delivered(s)' <=> Delivered(s) \/ s = v
  BY <1>1 DEF Delivered
<1>3. ValuesGiven'
  BY <1>1 DEF ValuesGiven
<1>4. ValuesDistinct'
  BY <1>1 DEF ValuesDistinct, ValuesGiven, Delivered
<1> QED
  BY <1>2, <1>3, <1>4

\* A step that gives nobody a value.
LEMMA NothingDelivered ==
  ASSUME TypeOK, ValuesGiven, ValuesDistinct, value' = value,
         \A r \in Recvs : recvPromise'[r] = recvPromise[r] \/ recvPromise[r] # "fulfilled"
  PROVE  /\ \A s \in Sends : Delivered(s)' <=> Delivered(s)
         /\ ValuesGiven' /\ ValuesDistinct'
<1>1. ValuesGiven' /\ ValuesDistinct'
  BY DEF ValuesGiven, ValuesDistinct
<1>2. \A s \in Sends : s # Undef
  BY UndefAssumption
<1>3. \A s \in Sends : Delivered(s)' <=> Delivered(s)
  BY <1>1, <1>2 DEF Delivered, ValuesGiven
<1> QED
  BY <1>1, <1>3

LEMMA ExactlyOnceInductive == Spec => [](ExactlyOnce /\ ValuesGiven)
<1> DEFINE IInv == ExactlyOnce /\ ValuesGiven
<1>1. Init => IInv
  BY EmptyMembers, UndefAssumption
  DEF Init, ExactlyOnce, ValuesGiven, Accepted, Delivered
<1>2. TypeOK /\ PendingCallsQueued /\ IInv /\ [Next]_vars => IInv'
  <2> SUFFICES ASSUME TypeOK, PendingCallsQueued, IInv, [Next]_vars PROVE IInv'
    OBVIOUS
  <2>t. /\ buffer \in Seq(Sends) /\ producers \in Seq(Sends) /\ consumers \in Seq(Recvs)
        /\ sendPromise \in [Sends -> {"idle", "pending", "resolved", "refused"}]
        /\ recvPromise \in [Recvs -> {"idle", "pending", "fulfilled", "rejected"}]
        /\ Undef \notin Sends
    BY UndefAssumption DEF TypeOK
  <2>q. ValuesDistinct /\ ValuesGiven /\ Distinct(buffer) /\ Distinct(producers)
    BY DEF ExactlyOnce, ValuesDistinct, PendingCallsQueued
  <2>1. ASSUME NEW s \in Sends, SendRefused(s) PROVE IInv'
    <3>1. \A q \in Sends : Accepted(q)' <=> Accepted(q)
      BY <2>1, <2>t DEF SendRefused, Accepted
    <3>2. (\A q \in Sends : Delivered(q)' <=> Delivered(q)) /\ ValuesGiven' /\ ValuesDistinct'
      BY <2>1, <2>q, NothingDelivered DEF SendRefused
    <3>3. buffer' = buffer /\ producers' = producers
      BY <2>1 DEF SendRefused, queues
    <3> QED
      BY <2>t, <3>1, <3>2, <3>3, MembersType DEF ExactlyOnce, ValuesDistinct
  <2>2. ASSUME NEW s \in Sends, SendToConsumer(s) PROVE IInv'
    <3>1. \A q \in Sends : Accepted(q)' <=> Accepted(q) \/ q = s
      BY <2>2, <2>t DEF SendToConsumer, SendReturns, Accepted
    <3>2. ~Accepted(s)
      BY <2>2 DEF SendToConsumer, MaySend, Accepted
    <3>3. Head(consumers) \in Recvs /\ recvPromise[Head(consumers)] = "pending"
      BY <2>2, <2>t, TailMembers DEF SendToConsumer, PendingCallsQueued
    <3>4. ~Delivered(s)
      BY <3>2 DEF ExactlyOnce
    <3>5. (\A q \in Sends : Delivered(q)' <=> Delivered(q) \/ q = s) /\ ValuesGiven' /\ ValuesDistinct'
      BY <2>2, <2>q, <3>3, <3>4, FulfilDelivers DEF SendToConsumer
    <3>6. buffer' = buffer /\ producers' = producers
      BY <2>2 DEF SendToConsumer
    <3> QED
      BY <3>1, <3>2, <3>5, <3>6, MembersType, <2>t DEF ExactlyOnce, ValuesDistinct
  <2>3. ASSUME NEW s \in Sends, SendToBuffer(s) PROVE IInv'
    <3>1. \A q \in Sends : Accepted(q)' <=> Accepted(q) \/ q = s
      BY <2>3, <2>t DEF SendToBuffer, SendReturns, Accepted
    <3>2. ~Accepted(s)
      BY <2>3 DEF SendToBuffer, MaySend, Accepted
    <3>3. s \notin Members(buffer) /\ s \notin Members(producers)
      BY <3>2 DEF ExactlyOnce
    <3>4. Members(buffer') = Members(buffer) \cup {s} /\ Distinct(buffer') /\ producers' = producers
      BY <2>3, <2>t, <2>q, <3>3, AppendMembers DEF SendToBuffer
    <3>5. (\A q \in Sends : Delivered(q)' <=> Delivered(q)) /\ ValuesGiven' /\ ValuesDistinct'
      BY <2>3, <2>q, NothingDelivered DEF SendToBuffer
    <3> QED
      BY <2>t, <3>1, <3>2, <3>3, <3>4, <3>5, MembersType DEF ExactlyOnce, ValuesDistinct
  <2>4. ASSUME NEW s \in Sends, SendBlocks(s) PROVE IInv'
    <3>1. \A q \in Sends : Accepted(q)' <=> Accepted(q) \/ q = s
      BY <2>4, <2>t DEF SendBlocks, SendReturns, Accepted
    <3>2. ~Accepted(s)
      BY <2>4 DEF SendBlocks, MaySend, Accepted
    <3>3. s \notin Members(buffer) /\ s \notin Members(producers)
      BY <3>2 DEF ExactlyOnce
    <3>4. Members(producers') = Members(producers) \cup {s} /\ buffer' = buffer
      BY <2>4, <2>t, AppendMembers DEF SendBlocks
    <3>5. (\A q \in Sends : Delivered(q)' <=> Delivered(q)) /\ ValuesGiven' /\ ValuesDistinct'
      BY <2>4, <2>q, NothingDelivered DEF SendBlocks
    <3> QED
      BY <2>t, <3>1, <3>2, <3>3, <3>4, <3>5, MembersType DEF ExactlyOnce, ValuesDistinct
  <2>5. ASSUME NEW r \in Recvs, RecvBuffered(r) PROVE IInv'
    <3> DEFINE s == Head(buffer)
    <3>1. /\ s \in Sends /\ s \in Members(buffer)
          /\ Members(buffer') = Members(buffer) \ {s} /\ Distinct(buffer')
      BY <2>5, <2>t, <2>q, TailMembers DEF RecvBuffered
    <3>2. producers' = producers /\ sendPromise' = sendPromise
      BY <2>5 DEF RecvBuffered
    <3>3. ~Delivered(s) /\ s \notin Members(producers)
      BY <3>1 DEF ExactlyOnce
    <3>4. (\A q \in Sends : Delivered(q)' <=> Delivered(q) \/ q = s) /\ ValuesGiven' /\ ValuesDistinct'
      BY <2>5, <2>q, <3>1, <3>3, FulfilDelivers DEF RecvBuffered
    <3>5. \A q \in Sends : Accepted(q)' <=> Accepted(q)
      BY <3>2 DEF Accepted
    <3> HIDE DEF s
    <3> QED
      BY <2>t, <3>1, <3>2, <3>3, <3>4, <3>5, MembersType DEF ExactlyOnce, ValuesDistinct
  <2>6. ASSUME NEW r \in Recvs, RecvFromProducer(r) PROVE IInv'
    <3> DEFINE s == NextProducer
    <3>1. /\ s \in Sends /\ s \in Members(producers)
          /\ Members(producers') = Members(producers) \ {s}
      BY <2>6, <2>t, <2>q, TailMembers DEF RecvFromProducer, NextProducer
    <3>2. Accepted(s) /\ ~Delivered(s) /\ Members(buffer) = {} /\ Distinct(buffer)
      BY <2>6, <3>1, EmptyMembers DEF ExactlyOnce, RecvFromProducer
    <3>3. \A q \in Sends : Accepted(q)' <=> Accepted(q)
      BY <2>6, <2>t, <3>1, <3>2 DEF RecvFromProducer, Released, Accepted
    <3>4. recvPromise[r] # "fulfilled"
      BY <2>6 DEF RecvFromProducer
    <3>5. CASE capacity = 0
      <4>1. Fulfil(r, s) /\ buffer' = buffer
        BY <2>6, <3>5 DEF RecvFromProducer, Produce
      <4>2. (\A q \in Sends : Delivered(q)' <=> Delivered(q) \/ q = s) /\ ValuesGiven' /\ ValuesDistinct'
        BY <2>q, <3>1, <3>2, <3>4, <4>1, FulfilDelivers
      <4> HIDE DEF s
      <4> QED
        BY <2>t, <3>1, <3>2, <3>3, <4>1, <4>2, MembersType DEF ExactlyOnce, ValuesDistinct
    <3>6. CASE capacity # 0
      <4>1. Fulfil(r, Undef) /\ buffer' = <<s>>
        BY <2>6, <3>6, <3>1 DEF RecvFromProducer, Produce
      <4>2. (\A q \in Sends : Delivered(q)' <=> Delivered(q)) /\ ValuesGiven' /\ ValuesDistinct'
        BY <2>q, <2>t, <3>4, <4>1, FulfilDelivers
      <4>3. Members(buffer') = {s} /\ Distinct(buffer')
        BY <4>1, SingletonMembers
      <4> HIDE DEF s
      <4> QED
        BY <2>t, <3>1, <3>2, <3>3, <4>2, <4>3, MembersType DEF ExactlyOnce, ValuesDistinct
    <3> QED
      BY <3>5, <3>6
  <2>7. ASSUME NEW r \in Recvs, RecvFinished(r) \/ RecvClosing(r) PROVE IInv'
    <3>1. Fulfil(r, Undef) /\ recvPromise[r] = "idle"
      BY <2>7 DEF RecvFinished, RecvClosing
    <3>2. (\A q \in Sends : Delivered(q)' <=> Delivered(q)) /\ ValuesGiven' /\ ValuesDistinct'
      BY <2>q, <2>t, <3>1, FulfilDelivers
    <3>3. buffer' = buffer /\ producers' = producers /\ sendPromise' = sendPromise
      BY <2>7 DEF RecvFinished, RecvClosing, queues
    <3> QED
      BY <2>t, <3>2, <3>3, MembersType DEF ExactlyOnce, ValuesDistinct, Accepted
  <2>8. ASSUME NEW r \in Recvs, RecvError(r) \/ RecvBlocks(r) PROVE IInv'
    <3>1. value' = value /\ \A q \in Recvs : recvPromise'[q] = recvPromise[q] \/ recvPromise[q] # "fulfilled"
      BY <2>8, <2>t DEF RecvError, RecvBlocks
    <3>2. (\A q \in Sends : Delivered(q)' <=> Delivered(q)) /\ ValuesGiven' /\ ValuesDistinct'
      BY <2>q, <3>1, NothingDelivered
    <3>3. buffer' = buffer /\ producers' = producers /\ sendPromise' = sendPromise
      BY <2>8 DEF RecvError, RecvBlocks, queues
    <3> QED
      BY <2>t, <3>2, <3>3, MembersType DEF ExactlyOnce, ValuesDistinct, Accepted
  <2>9. ASSUME NEW err \in BOOLEAN, Close(err) PROVE IInv'
    <3>1. value' = value /\ \A q \in Recvs : recvPromise'[q] = recvPromise[q] \/ recvPromise[q] # "fulfilled"
      BY <2>9, <2>t DEF Close, Broadcast, PendingCallsQueued
    <3>2. (\A q \in Sends : Delivered(q)' <=> Delivered(q)) /\ ValuesGiven' /\ ValuesDistinct'
      BY <2>q, <3>1, NothingDelivered
    <3>3. buffer' = buffer /\ producers' = producers /\ sendPromise' = sendPromise
      BY <2>9 DEF Close
    <3> QED
      BY <2>t, <3>2, <3>3, MembersType DEF ExactlyOnce, ValuesDistinct, Accepted
  <2>10. CASE UNCHANGED vars
    BY <2>10 DEF vars, queues, promises, ExactlyOnce, ValuesGiven, Accepted, Delivered
  <2> QED
    BY <2>1, <2>2, <2>3, <2>4, <2>5, <2>6, <2>7, <2>8, <2>9, <2>10 DEF Next, Send, Recv
<1> QED
  BY <1>1, <1>2, TypeCorrect, NobodyForgotten, PTL DEF Spec

\* Whatever the capacity, a datum send() accepted is in exactly one place.
THEOREM DataExactlyOnce == Spec => []ExactlyOnce
BY ExactlyOnceInductive, PTL

-----------------------------------------------------------------------------
(* A channel without a buffer, or with an unbounded one, implements the       *)
(* abstract queue of FifoChannel, for every set of calls: each step of the    *)
(* channel is one of the queue's, or does not show.                           *)

\* What an ordered channel never uses: a buffer it does not have, or blocked
\* senders.  So the data it holds are in one queue.
OneQueueUsed == /\ capacity = 0 => buffer = << >>
                /\ capacity = Infinity => producers = << >>

LEMMA OneQueue == Spec => []OneQueueUsed
<1>1. Init => OneQueueUsed
  BY DEF Init, OneQueueUsed
<1>2. TypeOK /\ OneQueueUsed /\ [Next]_vars => OneQueueUsed'
  <2> SUFFICES ASSUME TypeOK, OneQueueUsed, [Next]_vars PROVE OneQueueUsed'
    OBVIOUS
  <2> USE DEF OneQueueUsed
  <2>1. ASSUME NEW s \in Sends, SendRefused(s) \/ SendToConsumer(s) PROVE OneQueueUsed'
    BY <2>1 DEF SendRefused, SendToConsumer, queues
  <2>2. ASSUME NEW s \in Sends, SendToBuffer(s) PROVE OneQueueUsed'
    <3>1. capacity # 0
      BY <2>2 DEF SendToBuffer, HasRoom, TypeOK
    <3> QED
      BY <2>2, <3>1 DEF SendToBuffer
  <2>3. ASSUME NEW s \in Sends, SendBlocks(s) PROVE OneQueueUsed'
    <3>1. capacity # Infinity
      BY <2>3, CapacityAssumption DEF SendBlocks, HasRoom
    <3> QED
      BY <2>3, <3>1 DEF SendBlocks
  <2>4. ASSUME NEW r \in Recvs, RecvBuffered(r) PROVE OneQueueUsed'
    BY <2>4 DEF RecvBuffered
  <2>5. ASSUME NEW r \in Recvs, RecvFromProducer(r) PROVE OneQueueUsed'
    BY <2>5 DEF RecvFromProducer, Produce
  <2>6. ASSUME NEW r \in Recvs, RecvFinished(r) \/ RecvError(r) \/ RecvClosing(r) PROVE OneQueueUsed'
    BY <2>6 DEF RecvFinished, RecvError, RecvClosing, queues
  <2>7. ASSUME NEW r \in Recvs, RecvBlocks(r) PROVE OneQueueUsed'
    BY <2>7 DEF RecvBlocks
  <2>8. ASSUME NEW err \in BOOLEAN, Close(err) PROVE OneQueueUsed'
    BY <2>8 DEF Close
  <2>9. CASE UNCHANGED vars
    BY <2>9 DEF vars, queues
  <2> QED
    BY <2>1, <2>2, <2>3, <2>4, <2>5, <2>6, <2>7, <2>8, <2>9 DEF Next, Send, Recv
<1> QED
  BY <1>1, <1>2, TypeCorrect, PTL DEF Spec

-----------------------------------------------------------------------------
(* The refinement mapping, one variable of FifoChannel at a time. *)

Holds == buffer \o producers
Given == {s \in Sends : Accepted(s)}
Outcomes == [r \in Recvs |-> Outcome(r)]

\* A receiver is told something: what it sees changes, and nobody else's view.
LEMMA OutcomesExcept ==
  ASSUME NEW r \in Recvs, NEW o, Outcome(r)' = o,
         \A q \in Recvs : q # r => Outcome(q)' = Outcome(q)
  PROVE  Outcomes' = [Outcomes EXCEPT ![r] = o]
BY DEF Outcomes

\* fulfilled with a datum, or with undefined.
LEMMA FulfilOutcome ==
  ASSUME TypeOK, NEW r \in Recvs, NEW v \in Sends \cup {Undef}, Fulfil(r, v)
  PROVE  /\ v # Undef => Outcomes' = [Outcomes EXCEPT ![r] = "datum"]
         /\ v = Undef => Outcomes' = [Outcomes EXCEPT ![r] = "end"]
<1>1. \A q \in Recvs : /\ recvPromise'[q] = IF q = r THEN "fulfilled" ELSE recvPromise[q]
                       /\ value'[q] = IF q = r THEN v ELSE value[q]
  BY DEF TypeOK, Fulfil
<1>2. \A q \in Recvs : q # r => Outcome(q)' = Outcome(q)
  BY <1>1 DEF Outcome, Ended
<1>3. Outcome(r)' = IF v = Undef THEN "end" ELSE "datum"
  BY <1>1 DEF Outcome, Ended
<1> QED
  BY <1>2, <1>3, OutcomesExcept

LEMMA GivenMore ==
  ASSUME TypeOK, NEW s \in Sends, NEW p \in {"resolved", "pending"}, SendReturns(s, p)
  PROVE  Given' = Given \cup {s}
BY DEF TypeOK, SendReturns, Given, Accepted

\* Nobody is given a thing: views do not change.
LEMMA OutcomesSame ==
  ASSUME recvPromise' = recvPromise, value' = value
  PROVE  Outcomes' = Outcomes
BY DEF Outcomes, Outcome, Ended

LEMMA EmptyConcat ==
  ASSUME NEW S, NEW s \in Seq(S)
  PROVE  s \o << >> = s /\ << >> \o s = s
BY ConcatEmptySeq

-----------------------------------------------------------------------------
StepInv == /\ TypeOK /\ NoReceiverMissed /\ ErrorMeansClosed /\ PendingCallsQueued
           /\ ValuesGiven /\ OneQueueUsed

LEMMA FifoStep ==
  ASSUME StepInv, Ordered, [Next]_vars
  PROVE  Fifo!Next \/ UNCHANGED Fifo!vars
<1>t. /\ buffer \in Seq(Sends) /\ producers \in Seq(Sends) /\ consumers \in Seq(Recvs)
      /\ recvPromise \in [Recvs -> {"idle", "pending", "fulfilled", "rejected"}]
      /\ value \in [Recvs -> Sends \cup {Undef}]
      /\ sendPromise \in [Sends -> {"idle", "pending", "resolved", "refused"}]
      /\ Undef \notin Sends
  BY UndefAssumption DEF StepInv, TypeOK
<1>o. (capacity = 0 /\ buffer = << >>) \/ (capacity = Infinity /\ capacity \notin Nat /\ producers = << >>)
  BY CapacityAssumption DEF StepInv, OneQueueUsed, Ordered
<1>1. ASSUME NEW s \in Sends, SendRefused(s) PROVE UNCHANGED Fifo!vars
  <2>1. Given' = Given
    BY <1>1, <1>t DEF SendRefused, Given, Accepted
  <2>2. Outcomes' = Outcomes
    BY <1>1, OutcomesSame DEF SendRefused
  <2> QED
    BY <1>1, <2>1, <2>2 DEF Fifo!vars, SendRefused, queues, Given, Outcomes
<1>2. ASSUME NEW s \in Sends, SendToConsumer(s) PROVE Fifo!Handoff(s)
  <2>1. Given' = Given \cup {s} /\ s \notin Given /\ state = 1
    BY <1>2, GivenMore DEF SendToConsumer, StepInv, MaySend, Given, Accepted
  <2>2. Head(consumers) \in Recvs
    BY <1>2, <1>t DEF SendToConsumer
  <2>3. Outcomes' = [Outcomes EXCEPT ![Head(consumers)] = "datum"]
    BY <1>2, <1>t, <2>2, FulfilOutcome DEF SendToConsumer, StepInv
  <2>4. value' = [value EXCEPT ![Head(consumers)] = s]
    BY <1>2 DEF SendToConsumer, Fulfil
  <2> QED
    BY <1>2, <2>1, <2>3, <2>4 DEF Fifo!Handoff, SendToConsumer, Given, Outcomes
<1>3. ASSUME NEW s \in Sends, SendToBuffer(s) PROVE Fifo!Put(s)
  <2>1. Given' = Given \cup {s} /\ s \notin Given /\ state = 1
    BY <1>3, GivenMore DEF SendToBuffer, StepInv, MaySend, Given, Accepted
  <2>2. Outcomes' = Outcomes
    BY <1>3, OutcomesSame DEF SendToBuffer
  <2>3. capacity # 0
    BY <1>3 DEF SendToBuffer, HasRoom
  <2>4. buffer' \o producers' = Append(buffer \o producers, s)
    BY <1>3, <1>t, <1>o, <2>3, EmptyConcat DEF SendToBuffer
  <2> QED
    BY <1>3, <2>1, <2>2, <2>4 DEF Fifo!Put, SendToBuffer, NoReceiver, Given, Outcomes
<1>4. ASSUME NEW s \in Sends, SendBlocks(s) PROVE Fifo!Put(s)
  <2>1. Given' = Given \cup {s} /\ s \notin Given /\ state = 1
    BY <1>4, GivenMore DEF SendBlocks, StepInv, MaySend, Given, Accepted
  <2>2. Outcomes' = Outcomes
    BY <1>4, OutcomesSame DEF SendBlocks
  <2>3. capacity = 0
    BY <1>4, <1>o DEF SendBlocks, HasRoom
  <2>4. buffer' \o producers' = Append(buffer \o producers, s)
    BY <1>4, <1>t, <1>o, <2>3, CapacityAssumption, EmptyConcat DEF SendBlocks
  <2> QED
    BY <1>4, <2>1, <2>2, <2>4 DEF Fifo!Put, SendBlocks, NoReceiver, Given, Outcomes
<1>5. ASSUME NEW r \in Recvs, RecvBuffered(r) PROVE Fifo!Get(r)
  <2>1. producers = << >>
    BY <1>5, <1>o DEF RecvBuffered
  <2>2. /\ buffer \o producers = buffer /\ buffer' \o producers' = Tail(buffer)
        /\ Head(buffer) \in Sends /\ buffer # << >>
    BY <1>5, <1>t, <2>1, EmptyConcat DEF RecvBuffered
  <2>3. Outcomes' = [Outcomes EXCEPT ![r] = "datum"] /\ value' = [value EXCEPT ![r] = Head(buffer)]
    BY <1>5, <1>t, <2>2, FulfilOutcome DEF RecvBuffered, StepInv, Fulfil
  <2>4. Outcomes[r] = "idle"
    BY <1>5 DEF Outcomes, Outcome, Ended, RecvBuffered
  <2>5. (state' = 1) = (state = 1) /\ Given' = Given
    BY <1>5 DEF RecvBuffered, Drained, Given, Accepted
  <2> QED
    BY <1>5, <2>2, <2>3, <2>4, <2>5 DEF Fifo!Get, RecvBuffered, Given, Outcomes
<1>6. ASSUME NEW r \in Recvs, RecvFromProducer(r) PROVE Fifo!Get(r)
  <2>1. capacity = 0 /\ buffer = << >> /\ buffer' = << >>
    BY <1>6, <1>o DEF RecvFromProducer, Produce
  <2>2. /\ buffer \o producers = producers /\ buffer' \o producers' = Tail(producers)
        /\ Head(producers) \in Sends /\ producers # << >>
    BY <1>6, <1>t, <2>1, EmptyConcat DEF RecvFromProducer
  <2>3. Outcomes' = [Outcomes EXCEPT ![r] = "datum"] /\ value' = [value EXCEPT ![r] = Head(producers)]
    BY <1>6, <1>t, <2>1, <2>2, FulfilOutcome DEF RecvFromProducer, Produce, NextProducer, StepInv, Fulfil
  <2>4. Outcomes[r] = "idle"
    BY <1>6 DEF Outcomes, Outcome, Ended, RecvFromProducer
  <2>5. state' = 1 <=> state = 1
    BY <1>6 DEF RecvFromProducer, Drained
  <2>6. sendPromise[Head(producers)] = "pending"
    BY <1>6, <1>t, <2>2, TailMembers DEF StepInv, PendingCallsQueued
  <2>7. Given' = Given
    BY <1>6, <1>t, <2>2, <2>6 DEF RecvFromProducer, Released, NextProducer, Given, Accepted
  <2> QED
    BY <1>6, <2>2, <2>3, <2>4, <2>5, <2>7 DEF Fifo!Get, RecvFromProducer, Given, Outcomes
<1>7. ASSUME NEW r \in Recvs, RecvFinished(r) \/ RecvClosing(r) PROVE Fifo!End(r)
  <2>1. Fulfil(r, Undef) /\ recvPromise[r] = "idle" /\ NothingQueued /\ state # 1 /\ state' # 1
    BY <1>7 DEF RecvFinished, RecvClosing
  <2>2. value' = value
    <3>1. value[r] = Undef
      BY <2>1, <1>t DEF StepInv, ValuesGiven
    <3> QED
      BY <2>1, <3>1, <1>t DEF Fulfil
  <2>3. Outcomes' = [Outcomes EXCEPT ![r] = "end"]
    BY <2>1, <1>t, FulfilOutcome DEF StepInv
  <2>4. Outcomes[r] = "idle"
    BY <2>1 DEF Outcomes, Outcome, Ended
  <2>5. UNCHANGED <<queues, sendPromise>> /\ Given' = Given
    BY <1>7 DEF RecvFinished, RecvClosing, Given, Accepted
  <2>6. buffer \o producers = << >> /\ buffer' \o producers' = << >>
    BY <2>1, <2>5 DEF NothingQueued, queues
  <2> QED
    BY <2>1, <2>2, <2>3, <2>4, <2>5, <2>6 DEF Fifo!End, Given, Outcomes, queues
<1>8. ASSUME NEW r \in Recvs, RecvError(r) PROVE Fifo!End(r)
  <2>1. recvPromise[r] = "idle" /\ NothingQueued /\ state # 1 /\ state' # 1 /\ value' = value
    BY <1>8 DEF RecvError, StepInv, ErrorMeansClosed
  <2>2. \A q \in Recvs : recvPromise'[q] = IF q = r THEN "rejected" ELSE recvPromise[q]
    BY <1>8, <1>t DEF RecvError
  <2>3. Outcomes' = [Outcomes EXCEPT ![r] = "end"]
    BY <2>1, <2>2, OutcomesExcept DEF Outcome, Ended
  <2>4. Outcomes[r] = "idle"
    BY <2>1 DEF Outcomes, Outcome, Ended
  <2>5. UNCHANGED <<queues, sendPromise>> /\ Given' = Given
    BY <1>8 DEF RecvError, Given, Accepted
  <2>6. buffer \o producers = << >> /\ buffer' \o producers' = << >>
    BY <2>1, <2>5 DEF NothingQueued, queues
  <2> QED
    BY <2>1, <2>3, <2>4, <2>5, <2>6 DEF Fifo!End, Given, Outcomes, queues
<1>9. ASSUME NEW r \in Recvs, RecvBlocks(r) PROVE Fifo!Wait(r)
  <2>1. \A q \in Recvs : recvPromise'[q] = IF q = r THEN "pending" ELSE recvPromise[q]
    BY <1>9, <1>t DEF RecvBlocks
  <2>2. Outcomes' = [Outcomes EXCEPT ![r] = "pending"]
    BY <1>9, <2>1, OutcomesExcept DEF RecvBlocks, Outcome, Ended
  <2>3. Outcomes[r] = "idle"
    BY <1>9 DEF RecvBlocks, Outcomes, Outcome, Ended
  <2>4. buffer \o producers = << >> /\ buffer' \o producers' = << >>
    BY <1>9 DEF RecvBlocks, NothingQueued
  <2>5. Given' = Given
    BY <1>9 DEF RecvBlocks, Given, Accepted
  <2> QED
    BY <1>9, <2>2, <2>3, <2>4, <2>5 DEF Fifo!Wait, RecvBlocks, Given, Outcomes
<1>10. ASSUME NEW err \in BOOLEAN, Close(err) PROVE Fifo!Close
  <2>1. \A q \in Recvs : recvPromise'[q] = IF recvPromise[q] # "pending" THEN recvPromise[q]
                                           ELSE IF err THEN "rejected" ELSE "fulfilled"
    BY <1>10 DEF Close, Broadcast, StepInv, PendingCallsQueued
  <2>2. \A q \in Recvs : recvPromise[q] = "pending" => value[q] = Undef
    BY <1>t DEF StepInv, ValuesGiven
  <2>3. \A q \in Recvs : Outcome(q)' = IF recvPromise[q] = "pending" THEN "end" ELSE Outcome(q)
    BY <1>10, <2>1, <2>2 DEF Close, Outcome, Ended
  <2>4. \A q \in Recvs : Outcomes[q] = "pending" <=> recvPromise[q] = "pending"
    BY DEF Outcomes, Outcome, Ended
  <2>5. Outcomes' = [q \in Recvs |-> IF Outcomes[q] = "pending" THEN "end" ELSE Outcomes[q]]
    BY <2>3, <2>4 DEF Outcomes
  <2>6. Given' = Given /\ state = 1 /\ state' # 1
    BY <1>10 DEF Close, Given, Accepted
  <2> QED
    BY <1>10, <2>5, <2>6 DEF Fifo!Close, Close, Broadcast, Given, Outcomes
<1>11. CASE UNCHANGED vars
  <2>1. Outcomes' = Outcomes /\ Given' = Given
    BY <1>11, OutcomesSame DEF vars, promises, Given, Accepted
  <2> QED
    BY <1>11, <2>1 DEF vars, queues, promises, Fifo!vars, Given, Outcomes
<1> QED
  BY <1>1, <1>2, <1>3, <1>4, <1>5, <1>6, <1>7, <1>8, <1>9, <1>10, <1>11
  DEF Next, Send, Recv, Fifo!Next

\* An ordered channel is a FIFO queue with handoff.
THEOREM FifoImplemented == Spec => ImplementsFifo
<1>1. Init => (Ordered => Fifo!Init)
  <2> SUFFICES ASSUME Init PROVE Fifo!Init
    OBVIOUS
  <2>1. buffer \o producers = << >>
    BY DEF Init
  <2>2. Given = {}
    BY DEF Init, Given, Accepted
  <2>3. Outcomes = [r \in Recvs |-> "idle"]
    BY DEF Init, Outcomes, Outcome, Ended
  <2> QED
    BY <2>1, <2>2, <2>3 DEF Init, Fifo!Init, Given, Outcomes
<1>2. StepInv /\ [Next]_vars => [Ordered => Fifo!Next \/ UNCHANGED Fifo!vars]_vars
  BY FifoStep
<1> QED
  BY <1>1, <1>2, TypeCorrect, NobodyMissedInductive, NobodyForgotten, ExactlyOnceInductive,
     OneQueue, PTL DEF Spec, ImplementsFifo, StepInv

-----------------------------------------------------------------------------
\* Once a receiver of an ordered channel was told of the end, the channel is
\* finished and empty.
EndMeansFinished ==
  Ordered /\ (\E r \in Recvs : Ended(r)) => state = 0 /\ NothingQueued

\* A step that gives r the datum v ends nobody.
LEMMA DatumEndsNobody ==
  ASSUME TypeOK, NEW r \in Recvs, NEW v \in Sends, Fulfil(r, v)
  PROVE  \A q \in Recvs : Ended(q)' => Ended(q)
BY UndefAssumption DEF TypeOK, Fulfil, Ended

LEMMA EndInductive == Spec => []EndMeansFinished
<1>1. Init => EndMeansFinished
  BY DEF Init, EndMeansFinished, Ended
<1>2. StepInv /\ EndMeansFinished /\ [Next]_vars => EndMeansFinished'
  <2> SUFFICES ASSUME StepInv, EndMeansFinished, [Next]_vars, Ordered' PROVE EndMeansFinished'
    BY DEF EndMeansFinished
  <2>t. /\ buffer \in Seq(Sends) /\ producers \in Seq(Sends) /\ consumers \in Seq(Recvs)
        /\ recvPromise \in [Recvs -> {"idle", "pending", "fulfilled", "rejected"}]
        /\ TypeOK
    BY DEF StepInv, TypeOK
  <2>1. ASSUME NEW s \in Sends, SendRefused(s) PROVE EndMeansFinished'
    BY <2>1 DEF SendRefused, EndMeansFinished, Ordered, Ended, NothingQueued, queues
  <2>2. ASSUME NEW s \in Sends, SendToConsumer(s) PROVE EndMeansFinished'
    <3>1. \A q \in Recvs : Ended(q)' => Ended(q)
      <4>1. Head(consumers) \in Recvs
        BY <2>2, <2>t DEF SendToConsumer
      <4> QED
        BY <2>2, <2>t, <4>1, DatumEndsNobody DEF SendToConsumer
    <3> QED
      BY <2>2, <3>1 DEF SendToConsumer, MaySend, EndMeansFinished, Ordered
  <2>3. ASSUME NEW s \in Sends, SendToBuffer(s) \/ SendBlocks(s) PROVE EndMeansFinished'
    BY <2>3 DEF SendToBuffer, SendBlocks, MaySend, EndMeansFinished, Ordered, Ended
  <2>4. ASSUME NEW r \in Recvs, RecvBuffered(r) PROVE EndMeansFinished'
    <3>1. \A q \in Recvs : Ended(q)' => Ended(q)
      <4>1. Head(buffer) \in Sends
        BY <2>4, <2>t DEF RecvBuffered
      <4> QED
        BY <2>4, <2>t, <4>1, DatumEndsNobody DEF RecvBuffered
    <3> QED
      BY <2>4, <3>1 DEF RecvBuffered, EndMeansFinished, Ordered, NothingQueued
  <2>5. ASSUME NEW r \in Recvs, RecvFromProducer(r) PROVE EndMeansFinished'
    <3>1. capacity = 0 /\ producers # << >>
      BY <2>5, CapacityAssumption DEF RecvFromProducer, Ordered, StepInv, OneQueueUsed
    <3>2. \A q \in Recvs : Ended(q)' => Ended(q)
      <4>1. NextProducer \in Sends
        BY <2>5, <2>t DEF RecvFromProducer, NextProducer
      <4>2. Fulfil(r, NextProducer)
        BY <2>5, <3>1 DEF RecvFromProducer, Produce
      <4> QED
        BY <2>t, <4>1, <4>2, DatumEndsNobody
    <3> QED
      BY <2>5, <3>1, <3>2 DEF RecvFromProducer, EndMeansFinished, Ordered, NothingQueued
  <2>6. ASSUME NEW r \in Recvs, RecvFinished(r) \/ RecvError(r) \/ RecvClosing(r) PROVE EndMeansFinished'
    BY <2>6 DEF RecvFinished, RecvError, RecvClosing, EndMeansFinished, NothingQueued, queues
  <2>7. ASSUME NEW r \in Recvs, RecvBlocks(r) PROVE EndMeansFinished'
    <3>1. \A q \in Recvs : Ended(q)' => Ended(q)
      BY <2>7, <2>t DEF RecvBlocks, Ended
    <3> QED
      BY <2>7, <3>1 DEF RecvBlocks, EndMeansFinished, Ordered, NothingQueued
  <2>8. ASSUME NEW err \in BOOLEAN, Close(err) PROVE EndMeansFinished'
    <3>1. CASE consumers = << >>
      <4>1. \A q \in Recvs : Ended(q)' => Ended(q)
        BY <2>8, <2>t, <3>1, EmptyMembers DEF Close, Broadcast, Ended
      <4> QED
        BY <2>8, <4>1 DEF Close, EndMeansFinished, Ordered
    <3>2. CASE consumers # << >>
      BY <2>8, <3>2 DEF Close, EndMeansFinished, StepInv, NoReceiverMissed, NothingQueued
    <3> QED
      BY <3>1, <3>2
  <2>9. CASE UNCHANGED vars
    BY <2>9 DEF vars, queues, promises, EndMeansFinished, Ordered, Ended, NothingQueued
  <2> QED
    BY <2>1, <2>2, <2>3, <2>4, <2>5, <2>6, <2>7, <2>8, <2>9 DEF Next, Send, Recv
<1> QED
  BY <1>1, <1>2, TypeCorrect, NobodyMissedInductive, NobodyForgotten, ExactlyOnceInductive,
     OneQueue, PTL DEF Spec, StepInv

\* Nothing follows the end of the stream of an ordered channel: neither a datum
\* nor an error.
THEOREM EndIsLast == Spec => EndOfStreamIsLast
<1> DEFINE Last == Ordered => \A r, q \in Recvs :
                     Ended(r) /\ recvPromise[q] = "idle" /\ recvPromise'[q] # "idle"
                       => recvPromise'[q] = "fulfilled" /\ value'[q] = Undef
<1>1. StepInv /\ EndMeansFinished /\ [Next]_vars => [Last]_vars
  <2> SUFFICES ASSUME StepInv, EndMeansFinished, Next, Ordered,
                      NEW r \in Recvs, Ended(r),
                      NEW q \in Recvs, recvPromise[q] = "idle", recvPromise'[q] # "idle"
               PROVE  recvPromise'[q] = "fulfilled" /\ value'[q] = Undef
    OBVIOUS
  <2>1. state = 0 /\ NothingQueued /\ consumers = << >>
    BY DEF EndMeansFinished, StepInv, NoReceiverMissed
  <2>2. ASSUME NEW s \in Sends, Send(s) PROVE recvPromise' = recvPromise
    BY <2>1, <2>2 DEF Send, SendRefused, SendToConsumer, SendToBuffer, SendBlocks, MaySend
  <2>3. ASSUME NEW err \in BOOLEAN PROVE ~Close(err)
    BY <2>1 DEF Close
  <2>4. PICK p \in Recvs : Recv(p)
    BY <2>2, <2>3 DEF Next
  <2>5. RecvFinished(p)
    BY <2>1, <2>4 DEF Recv, RecvBuffered, RecvFromProducer, RecvError, RecvClosing, RecvBlocks, NothingQueued
  <2>6. recvPromise \in [Recvs -> {"idle", "pending", "fulfilled", "rejected"}]
        /\ value \in [Recvs -> Sends \cup {Undef}]
    BY DEF StepInv, TypeOK
  <2> QED
    BY <2>5, <2>6 DEF RecvFinished, Fulfil
<1> QED
  BY <1>1, TypeCorrect, NobodyMissedInductive, NobodyForgotten, ExactlyOnceInductive,
     OneQueue, EndInductive, PTL DEF Spec, EndOfStreamIsLast, StepInv

-----------------------------------------------------------------------------
(* The iterator, and the queue: callers of the channel. *)

\* A step of the iterator, or a loop body that throws.
LoopBodyFails(l) ==
  /\ loop[l] = "body"
  /\ loop' = [loop EXCEPT ![l] = "failed"]
  /\ UNCHANGED <<vars, call, found, yielded>>

AnyStep == IterateNext \/ \E l \in Loops : LoopBodyFails(l)

LEMMA QueueIsLoop == QueueSpec => IterInit /\ [][AnyStep]_allVars
<1>1. QueueInit => IterInit
  BY DEF QueueInit
<1>2. [QueueNext]_queueVars => [AnyStep]_allVars
  <2> SUFFICES ASSUME QueueNext PROVE AnyStep \/ UNCHANGED allVars
    BY DEF queueVars
  <2>1. ASSUME NEW l \in Loops, Work(l) PROVE AnyStep
    BY <2>1 DEF Work, Advance, HandlerEnds, ErrorHandlerThrows, AnyStep, IterateNext, LoopStep, LoopBodyFails
  <2> QED
    BY <2>1 DEF QueueNext, Push, CloseQueue, OnError, AnyStep, IterateNext
<1> QED
  BY <1>1, <1>2, PTL DEF QueueSpec

LEMMA LoopUsesChannel == IterInit /\ [][AnyStep]_allVars => Spec
<1>1. IterInit => Init
  BY DEF IterInit
<1>2. [AnyStep]_allVars => [Next]_vars
  <2> SUFFICES ASSUME AnyStep PROVE Next \/ UNCHANGED vars
    BY DEF allVars
  <2>1. ASSUME NEW l \in Loops, IterNext(l) PROVE Next
    <3>1. NewCall \in Recvs
      BY <2>1 DEF IterNext, NewCall
    <3> QED
      BY <2>1, <3>1 DEF IterNext, Next
  <2>2. ASSUME NEW l \in Loops, IterResume(l) \/ IterThrows(l) \/ BodyEnds(l) \/ LoopBodyFails(l)
        PROVE  UNCHANGED vars
    BY <2>2 DEF IterResume, IterThrows, BodyEnds, LoopBodyFails
  <2> QED
    BY <2>1, <2>2 DEF AnyStep, IterateNext, LoopStep, Next
<1> QED
  BY <1>1, <1>2, PTL DEF Spec

ChannelInv == StepInv /\ EndMeansFinished /\ ExactlyOnce

LEMMA ChannelInvKept == Spec => []ChannelInv
BY TypeCorrect, NobodyMissedInductive, NobodyForgotten, ExactlyOnceInductive, OneQueue,
   EndInductive, PTL DEF ChannelInv, StepInv

\* What a loop sees of the calls of the channel.
LEMMA SendSeen ==
  ASSUME ChannelInv, NEW s \in Sends, Send(s)
  PROVE  /\ state' = state
         /\ state = 0 => (NothingQueued' <=> NothingQueued)
         /\ \/ recvPromise' = recvPromise /\ value' = value
            \/ \E r \in Recvs :
                 /\ state = 1 /\ NothingQueued /\ recvPromise[r] = "pending"
                 /\ buffer' = buffer /\ producers' = producers
                 /\ recvPromise' = [recvPromise EXCEPT ![r] = "fulfilled"]
                 /\ value' = [value EXCEPT ![r] = s]
<1>1. CASE SendRefused(s)
  BY <1>1 DEF SendRefused, queues, NothingQueued
<1>2. CASE SendToBuffer(s)
  BY <1>2 DEF SendToBuffer, MaySend
<1>3. CASE SendBlocks(s)
  BY <1>3 DEF SendBlocks, MaySend
<1>4. CASE SendToConsumer(s)
  <2>1. Head(consumers) \in Recvs /\ recvPromise[Head(consumers)] = "pending"
    BY <1>4, TailMembers DEF SendToConsumer, ChannelInv, StepInv, TypeOK, PendingCallsQueued
  <2>2. NothingQueued /\ state = 1
    BY <1>4 DEF SendToConsumer, ChannelInv, StepInv, NoReceiverMissed
  <2>3. PICK r \in Recvs : r = Head(consumers)
    BY <2>1
  <2>4. /\ buffer' = buffer /\ producers' = producers /\ state' = state
        /\ recvPromise' = [recvPromise EXCEPT ![r] = "fulfilled"]
        /\ value' = [value EXCEPT ![r] = s]
    BY <1>4, <2>3 DEF SendToConsumer, Fulfil
  <2>5. \E q \in Recvs :
          /\ state = 1 /\ NothingQueued /\ recvPromise[q] = "pending"
          /\ buffer' = buffer /\ producers' = producers
          /\ recvPromise' = [recvPromise EXCEPT ![q] = "fulfilled"]
          /\ value' = [value EXCEPT ![q] = s]
    BY <2>1, <2>2, <2>3, <2>4
  <2>6. state' = state /\ (state = 0 => (NothingQueued' <=> NothingQueued))
    BY <2>2, <2>4
  <2> QED
    BY <2>5, <2>6, Zenon
<1> QED
  BY <1>1, <1>2, <1>3, <1>4 DEF Send

LEMMA RecvSeen ==
  ASSUME ChannelInv, NEW r \in Recvs, Recv(r)
  PROVE  /\ recvPromise[r] = "idle" /\ recvPromise'[r] # "idle"
         /\ \A q \in Recvs : q # r => recvPromise'[q] = recvPromise[q] /\ value'[q] = value[q]
         /\ NothingQueued => NothingQueued' /\ value'[r] = Undef
         /\ Ordered /\ ~NothingQueued => value'[r] \in Sends
<1>t. /\ buffer \in Seq(Sends) /\ producers \in Seq(Sends)
      /\ recvPromise \in [Recvs -> {"idle", "pending", "fulfilled", "rejected"}]
      /\ value \in [Recvs -> Sends \cup {Undef}]
      /\ recvPromise[r] = "idle" => value[r] = Undef
  BY DEF ChannelInv, StepInv, TypeOK, ValuesGiven
<1>1. CASE RecvBuffered(r)
  <2>1. ~NothingQueued /\ Fulfil(r, Head(buffer)) /\ Head(buffer) \in Sends /\ recvPromise[r] = "idle"
    BY <1>1, <1>t DEF RecvBuffered, NothingQueued
  <2> QED
    BY <1>t, <2>1 DEF Fulfil
<1>2. CASE RecvFromProducer(r)
  <2>1. ~NothingQueued /\ NextProducer \in Sends /\ recvPromise[r] = "idle"
    BY <1>2, <1>t DEF RecvFromProducer, NothingQueued, NextProducer
  <2>2. CASE capacity = 0
    BY <1>2, <1>t, <2>1, <2>2 DEF RecvFromProducer, Produce, Fulfil
  <2>3. CASE capacity # 0
    <3>1. ~Ordered
      BY <1>2, <2>3 DEF RecvFromProducer, Ordered, ChannelInv, StepInv, OneQueueUsed
    <3> QED
      BY <1>2, <1>t, <2>1, <2>3, <3>1 DEF RecvFromProducer, Produce, Fulfil
  <2> QED
    BY <2>2, <2>3
<1>3. CASE RecvFinished(r) \/ RecvClosing(r)
  <2>1. Fulfil(r, Undef) /\ recvPromise[r] = "idle" /\ NothingQueued /\ NothingQueued'
    BY <1>3 DEF RecvFinished, RecvClosing, queues, NothingQueued
  <2> QED
    BY <1>t, <2>1 DEF Fulfil
<1>4. CASE RecvError(r) \/ RecvBlocks(r)
  <2>1. value' = value /\ recvPromise[r] = "idle" /\ NothingQueued /\ NothingQueued'
    BY <1>4 DEF RecvError, RecvBlocks, queues, NothingQueued
  <2>2. \A q \in Recvs : q # r => recvPromise'[q] = recvPromise[q]
    BY <1>4, <1>t DEF RecvError, RecvBlocks
  <2>3. recvPromise'[r] # "idle"
    BY <1>4, <1>t DEF RecvError, RecvBlocks
  <2> QED
    BY <1>t, <2>1, <2>2, <2>3
<1> QED
  BY <1>1, <1>2, <1>3, <1>4 DEF Recv

LEMMA CloseSeen ==
  ASSUME ChannelInv, NEW err \in BOOLEAN, Close(err)
  PROVE  /\ state = 1 /\ value' = value /\ (NothingQueued' <=> NothingQueued)
         /\ \A r \in Recvs : IF recvPromise[r] = "pending"
                               THEN recvPromise'[r] \in {"fulfilled", "rejected"}
                               ELSE recvPromise'[r] = recvPromise[r]
         /\ state' = 0 => NothingQueued /\ \E r \in Recvs : recvPromise[r] = "pending"
<1>1. \A r \in Recvs : recvPromise[r] = "pending" <=> r \in Members(consumers)
  BY DEF ChannelInv, StepInv, PendingCallsQueued
<1>2. \A r \in Recvs : recvPromise'[r] = IF r \notin Members(consumers) THEN recvPromise[r]
                                         ELSE IF err THEN "rejected" ELSE "fulfilled"
  BY DEF Close, Broadcast
<1>3. ASSUME state' = 0 PROVE NothingQueued /\ \E r \in Recvs : recvPromise[r] = "pending"
  <2>1. consumers # << >>
    BY <1>3 DEF Close
  <2>2. Head(consumers) \in Recvs /\ Head(consumers) \in Members(consumers)
    BY <2>1, TailMembers DEF ChannelInv, StepInv, TypeOK, PendingCallsQueued
  <2> QED
    BY <1>1, <2>1, <2>2 DEF ChannelInv, StepInv, NoReceiverMissed
<1>4. state = 1 /\ value' = value /\ buffer' = buffer /\ producers' = producers
  BY DEF Close
<1> QED
  BY <1>1, <1>2, <1>3, <1>4 DEF NothingQueued

-----------------------------------------------------------------------------
(* The invariant of the loop of a queue, the only one that calls recv(). *)

TheLoop == CHOOSE l : Loops = {l}

LEMMA TheOnlyLoop == Loops = {TheLoop}
BY OneLoop DEF TheLoop

Awaits == loop[TheLoop] = "awaiting"
Taken == value[call[TheLoop]]

\* The loop awaits the one recv() that waits.
CallKnown ==
  /\ Awaits => call[TheLoop] \in Recvs /\ recvPromise[call[TheLoop]] # "idle"
  /\ \A r \in Recvs : recvPromise[r] = "pending" => Awaits /\ call[TheLoop] = r

\* A loop that found nothing and is about to end drops no datum and leaves none.
EndsEmpty == Awaits /\ ~found[TheLoop] /\ state = 0 => NothingQueued /\ Taken = Undef

\* One that found something was given it, so it does not stop at `undefined`.
FoundIsGiven == Ordered /\ Awaits /\ found[TheLoop] => Taken \in Sends

StaysDrained == loop[TheLoop] = "ended" => state = 0 /\ NothingQueued

LoopInv == IterTypeOK /\ CallKnown /\ EndsEmpty /\ FoundIsGiven /\ StaysDrained /\ NothingSkipped

LEMMA LoopInvInit == IterInit => LoopInv
<1> SUFFICES ASSUME IterInit PROVE LoopInv
  OBVIOUS
<1>1. /\ loop[TheLoop] = "ready" /\ \A r \in Recvs : recvPromise[r] = "idle"
      /\ loop = [l \in Loops |-> "ready"] /\ call = [l \in Loops |-> Undef]
      /\ found = [l \in Loops |-> FALSE] /\ yielded = << >>
  BY TheOnlyLoop DEF IterInit, Init
<1>2. TypeOK /\ << >> \in Seq(Sends \cup {Undef})
  BY InitTypes DEF IterInit
<1>3. IterTypeOK
  BY <1>1, <1>2 DEF IterTypeOK
<1> QED
  BY <1>1, <1>3 DEF LoopInv, CallKnown, EndsEmpty, FoundIsGiven, StaysDrained, Awaits,
     NothingSkipped, Delivered

\* A call of the channel that some other caller makes.
LEMMA LoopInvSend ==
  ASSUME ChannelInv, ChannelInv', LoopInv, NEW s \in Sends, Send(s), UNCHANGED iterVars
  PROVE  LoopInv'
<1> USE DEF LoopInv
<1>t. UNCHANGED <<loop, call, found, yielded>> /\ IterTypeOK'
  BY DEF iterVars, IterTypeOK, ChannelInv, StepInv
<1>a. Ordered' <=> Ordered
  BY DEF Send, SendRefused, SendToConsumer, SendToBuffer, SendBlocks, Ordered
<1>v. /\ recvPromise \in [Recvs -> {"idle", "pending", "fulfilled", "rejected"}]
      /\ value \in [Recvs -> Sends \cup {Undef}]
      /\ \A r \in Recvs : value[r] # Undef => recvPromise[r] = "fulfilled"
      /\ Undef \notin Sends
  BY UndefAssumption DEF ChannelInv, StepInv, TypeOK, ValuesGiven
<1>1. state' = state /\ (state = 0 => (NothingQueued' <=> NothingQueued))
  BY SendSeen
<1>2. CASE recvPromise' = recvPromise /\ value' = value
  <2>1. CallKnown' /\ EndsEmpty' /\ FoundIsGiven' /\ StaysDrained'
    BY <1>t, <1>a, <1>1, <1>2 DEF CallKnown, EndsEmpty, FoundIsGiven, StaysDrained, Awaits, Taken
  <2>2. NothingSkipped'
    BY <1>t, <1>2 DEF NothingSkipped, Delivered
  <2> QED
    BY <1>t, <2>1, <2>2
<1>3. ASSUME NEW r \in Recvs, state = 1, recvPromise[r] = "pending",
             recvPromise' = [recvPromise EXCEPT ![r] = "fulfilled"], value' = [value EXCEPT ![r] = s]
      PROVE  LoopInv'
  <2>1. /\ Awaits /\ call[TheLoop] = r /\ value[r] = Undef
        /\ \A q \in Recvs : /\ recvPromise'[q] = IF q = r THEN "fulfilled" ELSE recvPromise[q]
                            /\ value'[q] = IF q = r THEN s ELSE value[q]
    BY <1>3, <1>v DEF CallKnown
  <2>2. CallKnown'
    BY <1>t, <2>1 DEF CallKnown, Awaits
  <2>3. EndsEmpty' /\ FoundIsGiven' /\ StaysDrained'
    BY <1>t, <1>1, <1>3, <2>1 DEF EndsEmpty, FoundIsGiven, StaysDrained, Awaits, Taken
  <2>4. NothingSkipped'
    <3> SUFFICES ASSUME NEW q \in Sends, Delivered(q)'
                 PROVE  q \in Members(yielded) \/ \E l \in Loops : loop[l] = "awaiting" /\ value'[call[l]] = q
      BY <1>t DEF NothingSkipped
    <3>1. CASE q = s
      BY <2>1, <3>1, TheOnlyLoop DEF Awaits
    <3>2. CASE q # s
      <4>1. Delivered(q)
        BY <2>1, <3>2 DEF Delivered
      <4>2. \A l \in Loops : value[call[l]] = q => q = value[r]
        BY <2>1, TheOnlyLoop
      <4> QED
        BY <4>1, <4>2, <2>1, <1>v DEF NothingSkipped
    <3> QED
      BY <3>1, <3>2
  <2> QED
    BY <1>t, <2>2, <2>3, <2>4
<1> QED
  BY <1>2, <1>3, SendSeen

LEMMA LoopInvClose ==
  ASSUME ChannelInv, ChannelInv', LoopInv, NEW err \in BOOLEAN, Close(err), UNCHANGED iterVars
  PROVE  LoopInv'
<1> USE DEF LoopInv
<1>t. UNCHANGED <<loop, call, found, yielded>> /\ IterTypeOK'
  BY DEF iterVars, IterTypeOK, ChannelInv, StepInv
<1>a. Ordered' <=> Ordered
  BY DEF Close, Ordered
<1>v. /\ \A r \in Recvs : value[r] # Undef => recvPromise[r] = "fulfilled"
      /\ Undef \notin Sends
  BY UndefAssumption DEF ChannelInv, StepInv, ValuesGiven
<1>1. /\ state = 1 /\ value' = value /\ (NothingQueued' <=> NothingQueued)
      /\ \A r \in Recvs : IF recvPromise[r] = "pending"
                            THEN recvPromise'[r] \in {"fulfilled", "rejected"}
                            ELSE recvPromise'[r] = recvPromise[r]
      /\ state' = 0 => NothingQueued /\ \E r \in Recvs : recvPromise[r] = "pending"
  BY CloseSeen
<1>2. CallKnown'
  BY <1>t, <1>1 DEF CallKnown, Awaits
<1>3. EndsEmpty'
  BY <1>t, <1>1, <1>v DEF CallKnown, EndsEmpty, Awaits, Taken
<1>4. FoundIsGiven' /\ StaysDrained'
  BY <1>t, <1>a, <1>1 DEF FoundIsGiven, StaysDrained, Awaits, Taken
<1>5. NothingSkipped'
  <2>1. \A s \in Sends : Delivered(s)' => Delivered(s)
    BY <1>1, <1>v DEF Delivered
  <2> QED
    BY <1>t, <1>1, <2>1 DEF NothingSkipped
<1> QED
  BY <1>t, <1>2, <1>3, <1>4, <1>5

\* next(): the loop calls recv().
LEMMA LoopInvNext ==
  ASSUME ChannelInv, ChannelInv', LoopInv, IterNext(TheLoop)
  PROVE  LoopInv'
<1> USE DEF LoopInv
<1> DEFINE r == NewCall
<1>t. /\ loop \in [Loops -> {"ready", "awaiting", "body", "ended", "failed"}]
      /\ call \in [Loops -> Recvs \cup {Undef}] /\ found \in [Loops -> BOOLEAN]
      /\ TheLoop \in Loops
  BY TheOnlyLoop DEF IterTypeOK
<1>n. r \in Recvs /\ Recv(r) /\ loop[TheLoop] = "ready"
  BY DEF IterNext, NewCall
<1>v. /\ \A q \in Recvs : value'[q] # Undef => recvPromise'[q] = "fulfilled"
      /\ Undef \notin Sends
  BY UndefAssumption DEF ChannelInv, StepInv, ValuesGiven
<1>1. /\ loop' = [loop EXCEPT ![TheLoop] = "awaiting"] /\ call' = [call EXCEPT ![TheLoop] = r]
      /\ found' = [found EXCEPT ![TheLoop] = ~NothingQueued] /\ yielded' = yielded
  BY DEF IterNext
<1> HIDE DEF r
<1>2. /\ loop'[TheLoop] = "awaiting" /\ call'[TheLoop] = r
      /\ found'[TheLoop] <=> ~NothingQueued
  BY <1>1, <1>t
<1>3. IterTypeOK'
  <2>1. TypeOK' /\ yielded' \in Seq(Sends \cup {Undef})
    BY <1>1 DEF IterTypeOK, ChannelInv, StepInv
  <2>2. loop' \in [Loops -> {"ready", "awaiting", "body", "ended", "failed"}]
    BY <1>1, <1>t
  <2>3. call' \in [Loops -> Recvs \cup {Undef}]
    BY <1>1, <1>n, <1>t
  <2>4. found' \in [Loops -> BOOLEAN]
    BY <1>1, <1>t
  <2> QED
    BY <2>1, <2>2, <2>3, <2>4 DEF IterTypeOK
<1>4. /\ recvPromise[r] = "idle" /\ recvPromise'[r] # "idle"
      /\ \A q \in Recvs : q # r => recvPromise'[q] = recvPromise[q] /\ value'[q] = value[q]
      /\ NothingQueued => NothingQueued' /\ value'[r] = Undef
      /\ Ordered /\ ~NothingQueued => value'[r] \in Sends
  BY <1>n, RecvSeen
<1>5. \A q \in Recvs : recvPromise[q] # "pending"
  BY <1>n DEF CallKnown, Awaits
<1>6. CallKnown'
  BY <1>n, <1>2, <1>4, <1>5 DEF CallKnown, Awaits
<1>7. EndsEmpty' /\ StaysDrained'
  BY <1>2, <1>4 DEF EndsEmpty, StaysDrained, Awaits, Taken
<1>8. FoundIsGiven'
  <2>1. Ordered' => Ordered
    BY <1>n DEF Recv, RecvBuffered, RecvFromProducer, RecvFinished, RecvError, RecvClosing, RecvBlocks, Ordered
  <2> QED
    BY <2>1, <1>2, <1>4 DEF FoundIsGiven, Awaits, Taken
<1>9. NothingSkipped'
  <2> SUFFICES ASSUME NEW s \in Sends, Delivered(s)'
               PROVE  s \in Members(yielded) \/ \E l \in Loops : loop'[l] = "awaiting" /\ value'[call'[l]] = s
    BY <1>1 DEF NothingSkipped
  <2>1. PICK q \in Recvs : recvPromise'[q] = "fulfilled" /\ value'[q] = s
    BY DEF Delivered
  <2>2. CASE q = r
    BY <2>1, <2>2, <1>2, <1>t
  <2>3. CASE q # r
    <3>1. Delivered(s)
      BY <2>1, <2>3, <1>4 DEF Delivered
    <3>2. ~\E l \in Loops : loop[l] = "awaiting"
      BY <1>n, TheOnlyLoop
    <3> QED
      BY <3>1, <3>2 DEF NothingSkipped
  <2> QED
    BY <2>2, <2>3
<1> QED
  BY <1>3, <1>6, <1>7, <1>8, <1>9

LEMMA YieldedMore ==
  ASSUME NEW y \in Seq(Sends \cup {Undef}), NEW v \in Sends \cup {Undef}
  PROVE  Append(y, v) \in Seq(Sends \cup {Undef}) /\ Members(Append(y, v)) = Members(y) \cup {v}
<1>1. /\ Append(y, v) \in Seq(Sends \cup {Undef}) /\ Len(y) \in Nat
      /\ DOMAIN y = 1 .. Len(y) /\ DOMAIN Append(y, v) = 1 .. Len(y) + 1
      /\ Append(y, v)[Len(y) + 1] = v
      /\ \A i \in 1 .. Len(y) : Append(y, v)[i] = y[i]
  BY AppendProperties
<1>2. DOMAIN Append(y, v) = DOMAIN y \cup {Len(y) + 1}
  BY <1>1
<1> QED
  BY <1>1, <1>2 DEF Members

\* The loop goes on, or ends.
LEMMA LoopInvResume ==
  ASSUME ChannelInv, ChannelInv', LoopInv, IterResume(TheLoop)
  PROVE  LoopInv'
<1> USE DEF LoopInv
<1>t. /\ loop \in [Loops -> {"ready", "awaiting", "body", "ended", "failed"}]
      /\ call \in [Loops -> Recvs \cup {Undef}] /\ found \in [Loops -> BOOLEAN]
      /\ TheLoop \in Loops /\ yielded \in Seq(Sends \cup {Undef})
      /\ TypeOK /\ Undef \notin Sends
  BY TheOnlyLoop, UndefAssumption DEF IterTypeOK
<1>1. /\ UNCHANGED <<vars, call, found>>
      /\ Awaits /\ recvPromise[call[TheLoop]] = "fulfilled" /\ call[TheLoop] \in Recvs
  BY DEF IterResume, Awaits, CallKnown
<1>2. /\ UNCHANGED <<capacity, buffer, producers, consumers, error, state, sendPromise, recvPromise, value>>
      /\ (NothingQueued' <=> NothingQueued) /\ \A s \in Sends : Delivered(s)' <=> Delivered(s)
  BY <1>1 DEF vars, queues, promises, NothingQueued, Delivered
<1>3. Taken \in Sends \cup {Undef}
  BY <1>1, <1>t DEF TypeOK, Taken
<1>4. \A s \in Sends : Delivered(s) => s \in Members(yielded) \/ s = Taken
  BY TheOnlyLoop DEF NothingSkipped, Taken
<1>5. CASE Done(TheLoop)
  <2>1. loop' = [loop EXCEPT ![TheLoop] = "ended"] /\ yielded' = yielded
    BY <1>5 DEF IterResume
  <2>2. NothingQueued /\ Taken = Undef /\ state = 0
    BY <1>1, <1>5 DEF Done, EndsEmpty
  <2>3. loop'[TheLoop] = "ended" /\ IterTypeOK'
    BY <2>1, <1>t, <1>1 DEF IterTypeOK, ChannelInv, StepInv
  <2>4. CallKnown' /\ EndsEmpty' /\ FoundIsGiven' /\ StaysDrained'
    BY <2>2, <2>3, <1>1, <1>2 DEF CallKnown, EndsEmpty, FoundIsGiven, StaysDrained, Awaits
  <2>5. NothingSkipped'
    BY <2>1, <2>2, <1>2, <1>4, <1>t DEF NothingSkipped
  <2> QED
    BY <2>3, <2>4, <2>5
<1>6. CASE ~Done(TheLoop)
  <2>1. loop' = [loop EXCEPT ![TheLoop] = "body"] /\ yielded' = Append(yielded, Taken)
    BY <1>6 DEF IterResume, Taken
  <2>2. yielded' \in Seq(Sends \cup {Undef}) /\ Members(yielded') = Members(yielded) \cup {Taken}
    BY <2>1, <1>3, <1>t, YieldedMore
  <2>3. loop'[TheLoop] = "body" /\ IterTypeOK'
    BY <2>1, <2>2, <1>t, <1>1 DEF IterTypeOK, ChannelInv, StepInv
  <2>4. CallKnown' /\ EndsEmpty' /\ FoundIsGiven' /\ StaysDrained'
    BY <2>3, <1>1, <1>2 DEF CallKnown, EndsEmpty, FoundIsGiven, StaysDrained, Awaits
  <2>5. NothingSkipped'
    BY <2>2, <1>2, <1>4 DEF NothingSkipped
  <2> QED
    BY <2>3, <2>4, <2>5
<1> QED
  BY <1>5, <1>6

\* The loop fails, or its body ends.
LEMMA LoopInvLeaves ==
  ASSUME ChannelInv, ChannelInv', LoopInv,
         IterThrows(TheLoop) \/ BodyEnds(TheLoop) \/ LoopBodyFails(TheLoop)
  PROVE  LoopInv'
<1> USE DEF LoopInv
<1>1. /\ UNCHANGED <<vars, call, found, yielded>>
      /\ loop' \in [Loops -> {"ready", "awaiting", "body", "ended", "failed"}]
      /\ loop'[TheLoop] \in {"ready", "failed"}
      /\ Awaits => recvPromise[call[TheLoop]] = "rejected"
  BY TheOnlyLoop DEF IterThrows, BodyEnds, LoopBodyFails, IterTypeOK, Awaits
<1>2. /\ UNCHANGED <<capacity, buffer, producers, consumers, error, state, sendPromise, recvPromise, value>>
      /\ (NothingQueued' <=> NothingQueued) /\ \A s \in Sends : Delivered(s)' <=> Delivered(s)
  BY <1>1 DEF vars, queues, promises, NothingQueued, Delivered
<1>3. IterTypeOK'
  BY <1>1 DEF IterTypeOK, ChannelInv, StepInv
<1>4. CallKnown' /\ EndsEmpty' /\ FoundIsGiven' /\ StaysDrained'
  BY <1>1, <1>2 DEF CallKnown, EndsEmpty, FoundIsGiven, StaysDrained, Awaits
<1>5. NothingSkipped'
  <2>1. Awaits => Taken = Undef
    BY <1>1 DEF CallKnown, Taken, ChannelInv, StepInv, ValuesGiven
  <2>2. \A s \in Sends : Delivered(s) => s \in Members(yielded)
    BY <2>1, TheOnlyLoop, UndefAssumption DEF NothingSkipped, Awaits, Taken
  <2> QED
    BY <1>1, <1>2, <2>2 DEF NothingSkipped
<1> QED
  BY <1>3, <1>4, <1>5

LEMMA LoopInvInductive == IterInit /\ [][AnyStep]_allVars => [](ChannelInv /\ LoopInv)
<1>1. ChannelInv /\ ChannelInv' /\ LoopInv /\ [AnyStep]_allVars => LoopInv'
  <2> SUFFICES ASSUME ChannelInv, ChannelInv', LoopInv, [AnyStep]_allVars PROVE LoopInv'
    OBVIOUS
  <2>1. ASSUME NEW s \in Sends, Send(s), UNCHANGED iterVars PROVE LoopInv'
    BY <2>1, LoopInvSend
  <2>2. ASSUME NEW err \in BOOLEAN, Close(err), UNCHANGED iterVars PROVE LoopInv'
    BY <2>2, LoopInvClose
  <2>3. ASSUME NEW l \in Loops, LoopStep(l) \/ LoopBodyFails(l) PROVE LoopInv'
    <3>1. l = TheLoop
      BY TheOnlyLoop
    <3> QED
      BY <2>3, <3>1, LoopInvNext, LoopInvResume, LoopInvLeaves DEF LoopStep
  <2>4. CASE UNCHANGED allVars
    BY <2>4 DEF allVars, vars, iterVars, queues, promises, LoopInv, IterTypeOK, TypeOK, CallKnown, EndsEmpty,
       FoundIsGiven, StaysDrained, NothingSkipped, Awaits, Taken, NothingQueued, Ordered, Delivered
  <2> QED
    BY <2>1, <2>2, <2>3, <2>4 DEF AnyStep, IterateNext
<1> QED
  BY <1>1, LoopInvInit, LoopUsesChannel, ChannelInvKept, PTL

\* What recv() gives to the iterator reaches the handler of the queue.
THEOREM NothingIsSkipped == QueueSpec => []NothingSkipped
BY QueueIsLoop, LoopInvInductive, PTL DEF LoopInv

\* The loop of a queue ends only when it has handled all that push() accepted.
THEOREM LoopDrains == QueueSpec => []EndedMeansDrained
<1>1. ChannelInv /\ LoopInv => EndedMeansDrained
  <2> SUFFICES ASSUME ChannelInv, LoopInv, loop[TheLoop] = "ended"
               PROVE  /\ state = 0 /\ NothingQueued
                      /\ \A s \in Sends : Accepted(s) => s \in Members(yielded)
    BY TheOnlyLoop DEF EndedMeansDrained
  <2>1. state = 0 /\ NothingQueued
    BY DEF LoopInv, StaysDrained
  <2>2. \A s \in Sends : Accepted(s) => Delivered(s)
    BY <2>1, EmptyMembers DEF NothingQueued, ChannelInv, ExactlyOnce
  <2>3. \A s \in Sends : Delivered(s) => s \in Members(yielded)
    BY TheOnlyLoop DEF LoopInv, NothingSkipped
  <2> QED
    BY <2>1, <2>2, <2>3
<1> QED
  BY <1>1, QueueIsLoop, LoopInvInductive, PTL

-----------------------------------------------------------------------------
(* The order in which the queue handles its data. *)

LEMMA WiderSeq == ASSUME NEW S, NEW T, S \subseteq T, NEW s \in Seq(S) PROVE s \in Seq(T)
OBVIOUS

LEMMA AppendLater ==
  ASSUME NEW S, NEW a \in Seq(S), NEW h \in Seq(S), NEW v \in S
  PROVE  a \o Append(h, v) = Append(a \o h, v)
<1>1. Append(h, v) = h \o <<v>> /\ a \o h \in Seq(S) /\ <<v>> \in Seq(S)
  BY AppendIsConcat, ConcatProperties
<1>2. Append(a \o h, v) = (a \o h) \o <<v>>
  BY <1>1, AppendIsConcat
<1> QED
  BY <1>1, <1>2, ConcatAssociative

\* The datum at the front is taken out.
LEMMA FrontTaken ==
  ASSUME NEW S, NEW a \in Seq(S), NEW h \in Seq(S), h # << >>
  PROVE  a \o h = (a \o <<Head(h)>>) \o Tail(h)
<1>1. Head(h) \in S /\ Tail(h) \in Seq(S) /\ <<Head(h)>> \in Seq(S) /\ Len(h) \in Nat /\ Len(h) >= 1
  BY HeadTailProperties
<1>2. h = SubSeq(h, 1, Len(h)) /\ SubSeq(h, 2, Len(h)) = Tail(h) /\ h[1] = Head(h)
  BY SubSeqFull, TailIsSubSeq
<1>3. SubSeq(h, 1, Len(h)) = <<h[1]>> \o SubSeq(h, 1 + 1, Len(h))
  BY <1>1, SubSeqRecursiveFirst
<1>4. h = <<Head(h)>> \o Tail(h)
  BY <1>2, <1>3
<1> QED
  BY <1>1, <1>4, ConcatAssociative

LEMMA PrefixOfConcat ==
  ASSUME NEW S, NEW a \in Seq(S), NEW h \in Seq(S)
  PROVE  Len(a) \in 0 .. Len(a \o h) /\ a = SubSeq(a \o h, 1, Len(a))
<1>1. Len(a) \in Nat /\ Len(h) \in Nat /\ Len(a \o h) = Len(a) + Len(h)
  BY ConcatProperties
<1>2. CASE a = << >>
  BY <1>1, <1>2, SubSeqEmpty
<1>3. CASE a # << >>
  <2>1. 1 \in 1 .. Len(a) /\ Len(a) \in 1 .. Len(a)
    BY <1>1, <1>3
  <2>2. SubSeq(a \o h, 1, Len(a)) = SubSeq(a, 1, Len(a))
    BY <2>1, SubSeqOfConcat1
  <2> QED
    BY <1>1, <2>2, SubSeqFull
<1> QED
  BY <1>2, <1>3

\* What an ordered channel holds after send() has not found a receiver.
LEMMA HoldsMore ==
  ASSUME ChannelInv, Ordered, NEW s \in Sends, SendToBuffer(s) \/ SendBlocks(s)
  PROVE  Holds' = Append(Holds, s)
<1>1. /\ buffer \in Seq(Sends) /\ producers \in Seq(Sends)
      /\ (capacity = 0 /\ buffer = << >>) \/ (capacity = Infinity /\ capacity \notin Nat /\ producers = << >>)
  BY CapacityAssumption DEF ChannelInv, StepInv, TypeOK, OneQueueUsed, Ordered
<1>2. CASE SendToBuffer(s)
  <2>1. producers = << >> /\ producers' = << >> /\ buffer' = Append(buffer, s)
    BY <1>1, <1>2 DEF SendToBuffer, HasRoom
  <2> QED
    BY <1>1, <2>1, EmptyConcat DEF Holds
<1>3. CASE SendBlocks(s)
  <2>1. buffer = << >> /\ buffer' = << >> /\ producers' = Append(producers, s)
    BY <1>1, <1>3 DEF SendBlocks, HasRoom
  <2> QED
    BY <1>1, <2>1, EmptyConcat DEF Holds
<1> QED
  BY <1>2, <1>3

\* recv() takes the oldest.
LEMMA HoldsLess ==
  ASSUME ChannelInv, Ordered, NEW r \in Recvs, Recv(r), ~NothingQueued
  PROVE  Holds # << >> /\ Head(Holds) \in Sends /\ value'[r] = Head(Holds) /\ Holds' = Tail(Holds)
<1>1. /\ buffer \in Seq(Sends) /\ producers \in Seq(Sends) /\ value \in [Recvs -> Sends \cup {Undef}]
      /\ (capacity = 0 /\ buffer = << >>) \/ (capacity = Infinity /\ capacity # 0 /\ producers = << >>)
  BY CapacityAssumption DEF ChannelInv, StepInv, TypeOK, OneQueueUsed, Ordered
<1>2. CASE RecvBuffered(r)
  <2>1. /\ producers = << >> /\ producers' = << >> /\ buffer # << >> /\ buffer' = Tail(buffer)
        /\ value'[r] = Head(buffer)
    BY <1>1, <1>2 DEF RecvBuffered, Fulfil
  <2>2. Holds = buffer /\ Holds' = Tail(buffer) /\ Head(buffer) \in Sends
    BY <1>1, <2>1, EmptyConcat DEF Holds
  <2> QED
    BY <2>1, <2>2
<1>3. CASE RecvFromProducer(r)
  <2>1. /\ buffer = << >> /\ buffer' = << >> /\ producers # << >> /\ producers' = Tail(producers)
        /\ value'[r] = Head(producers)
    BY <1>1, <1>3 DEF RecvFromProducer, Produce, NextProducer, Fulfil
  <2>2. Holds = producers /\ Holds' = Tail(producers) /\ Head(producers) \in Sends
    BY <1>1, <2>1, EmptyConcat DEF Holds
  <2> QED
    BY <2>1, <2>2
<1> QED
  BY <1>2, <1>3 DEF Recv, RecvFinished, RecvError, RecvClosing, RecvBlocks

\* The datum recv() gave to the iterator, before the loop body has it.
InHand == IF Awaits /\ Taken \in Sends THEN <<Taken>> ELSE << >>

\* The data the queue was given, from the oldest: those it has handled, the one
\* the loop is about to take, and those in the channel.
InOrder == Ordered => pushed = (yielded \o InHand) \o Holds

Data == Sends \cup {Undef}

OrderInv == pushed \in Seq(Data) /\ InOrder

LEMMA OrderTypes ==
  ASSUME ChannelInv, LoopInv
  PROVE  /\ yielded \in Seq(Data) /\ Holds \in Seq(Sends) /\ Holds \in Seq(Data)
         /\ InHand \in Seq(Data) /\ yielded \o InHand \in Seq(Data)
<1>1. yielded \in Seq(Data) /\ buffer \in Seq(Sends) /\ producers \in Seq(Sends)
  BY DEF LoopInv, IterTypeOK, TypeOK, Data
<1>2. Holds \in Seq(Sends)
  BY <1>1, ConcatProperties DEF Holds
<1>3. Holds \in Seq(Data)
  BY <1>2, WiderSeq DEF Data
<1>4. InHand \in Seq(Data)
  <2>1. << >> \in Seq(Data) /\ \A v \in Data : <<v>> \in Seq(Data)
    OBVIOUS
  <2> QED
    BY <2>1 DEF InHand, Data
<1> QED
  BY <1>1, <1>2, <1>3, <1>4, ConcatProperties

LEMMA OrderInvPush ==
  ASSUME ChannelInv, LoopInv, OrderInv, NEW s \in Sends, Push(s)
  PROVE  OrderInv'
<1>t. /\ yielded \in Seq(Data) /\ Holds \in Seq(Data) /\ InHand \in Seq(Data)
      /\ yielded \o InHand \in Seq(Data) /\ pushed \in Seq(Data) /\ s \in Data
      /\ UNCHANGED <<loop, call, found, yielded>>
  BY OrderTypes DEF OrderInv, Data, Push, iterVars
<1>a. Ordered' <=> Ordered
  BY DEF Push, Send, SendRefused, SendToConsumer, SendToBuffer, SendBlocks, Ordered
<1>1. CASE SendRefused(s)
  <2>1. /\ pushed' = pushed /\ UNCHANGED <<buffer, producers, value>>
    BY <1>1 DEF Push, SendRefused, queues
  <2> QED
    BY <1>t, <1>a, <2>1 DEF OrderInv, InOrder, InHand, Awaits, Taken, Holds
<1>2. CASE ~SendRefused(s)
  <2>1. pushed' = Append(pushed, s)
    BY <1>2 DEF Push, Send, SendToConsumer, SendToBuffer, SendBlocks, MaySend
  <2>2. pushed' \in Seq(Data)
    BY <2>1, <1>t, AppendProperties
  <2>3. ASSUME Ordered, SendToBuffer(s) \/ SendBlocks(s)
        PROVE  pushed' = (yielded' \o InHand') \o Holds'
    <3>1. InHand' = InHand /\ yielded' = yielded
      BY <2>3, <1>t DEF SendToBuffer, SendBlocks, InHand, Awaits, Taken
    <3>2. Holds' = Append(Holds, s) /\ pushed = (yielded \o InHand) \o Holds
      BY <2>3, HoldsMore DEF OrderInv, InOrder
    <3>3. (yielded \o InHand) \o Append(Holds, s) = Append((yielded \o InHand) \o Holds, s)
      BY <1>t, AppendLater
    <3> QED
      BY <2>1, <3>1, <3>2, <3>3
  <2>4. ASSUME Ordered, SendToConsumer(s)
        PROVE  pushed' = (yielded' \o InHand') \o Holds'
    <3>1. /\ consumers # << >> /\ UNCHANGED <<buffer, producers>>
          /\ value' = [value EXCEPT ![Head(consumers)] = s]
      BY <2>4 DEF SendToConsumer, Fulfil
    <3>2. Head(consumers) \in Recvs /\ recvPromise[Head(consumers)] = "pending"
      BY <3>1, TailMembers DEF ChannelInv, StepInv, TypeOK, PendingCallsQueued
    <3>3. Awaits /\ call[TheLoop] = Head(consumers)
      BY <3>2 DEF LoopInv, CallKnown
    <3>4. Taken = Undef /\ Taken' = s /\ Awaits'
      BY <1>t, <3>1, <3>2, <3>3 DEF Taken, Awaits, ChannelInv, StepInv, TypeOK, ValuesGiven
    <3>5. InHand = << >> /\ InHand' = <<s>>
      BY <3>3, <3>4, UndefAssumption DEF InHand
    <3>6. Holds = << >> /\ Holds' = << >>
      BY <3>1 DEF Holds, ChannelInv, StepInv, NoReceiverMissed, NothingQueued
    <3>7. pushed = yielded
      BY <2>4, <3>5, <3>6, <1>t, EmptyConcat DEF OrderInv, InOrder
    <3>8. pushed' = yielded \o <<s>> /\ yielded \o <<s>> \in Seq(Data)
      BY <2>1, <2>2, <3>7, <1>t, AppendIsConcat
    <3> QED
      BY <3>5, <3>6, <3>8, <1>t, EmptyConcat
  <2> QED
    BY <1>2, <1>a, <2>2, <2>3, <2>4 DEF Push, Send, OrderInv, InOrder
<1> QED
  BY <1>1, <1>2

LEMMA OrderInvNext ==
  ASSUME ChannelInv, LoopInv, OrderInv, IterNext(TheLoop), pushed' = pushed
  PROVE  OrderInv'
<1> DEFINE r == NewCall
<1>t. /\ yielded \in Seq(Data) /\ Holds \in Seq(Data) /\ Holds \in Seq(Sends) /\ TheLoop \in Loops
      /\ call \in [Loops -> Recvs \cup {Undef}] /\ loop \in [Loops -> {"ready", "awaiting", "body", "ended", "failed"}]
  BY OrderTypes, TheOnlyLoop DEF LoopInv, IterTypeOK
<1>n. r \in Recvs /\ Recv(r) /\ loop[TheLoop] = "ready"
  BY DEF IterNext, NewCall
<1>1. /\ loop'[TheLoop] = "awaiting" /\ call'[TheLoop] = r /\ yielded' = yielded
  BY <1>t DEF IterNext
<1> HIDE DEF r
<1>2. Taken' = value'[r] /\ Awaits'
  BY <1>1 DEF Taken, Awaits
<1>3. Ordered' <=> Ordered
  BY <1>n DEF Recv, RecvBuffered, RecvFromProducer, RecvFinished, RecvError, RecvClosing, RecvBlocks, Ordered
<1>4. ASSUME Ordered PROVE pushed = (yielded \o InHand') \o Holds'
  <2>1. InHand = << >> /\ pushed = yielded \o Holds
    BY <1>4, <1>n, <1>t, EmptyConcat DEF InHand, Awaits, OrderInv, InOrder
  <2>2. CASE NothingQueued
    <3>1. NothingQueued' /\ Taken' = Undef
      BY <2>2, <1>n, <1>2, RecvSeen
    <3>2. InHand' = << >> /\ Holds = << >> /\ Holds' = << >>
      BY <2>2, <3>1, UndefAssumption DEF InHand, Holds, NothingQueued
    <3> QED
      BY <2>1, <3>2, <1>t, EmptyConcat
  <2>3. CASE ~NothingQueued
    <3>1. Holds # << >> /\ Head(Holds) \in Sends /\ Taken' = Head(Holds) /\ Holds' = Tail(Holds)
      BY <2>3, <1>n, <1>2, <1>4, HoldsLess
    <3>2. InHand' = <<Head(Holds)>>
      BY <3>1, <1>2 DEF InHand
    <3> QED
      BY <2>1, <3>1, <3>2, <1>t, FrontTaken
  <2> QED
    BY <2>2, <2>3
<1> QED
  BY <1>1, <1>3, <1>4 DEF OrderInv, InOrder

\* A loop of an ordered channel that does not end has a datum.
LEMMA GoesOnWithDatum ==
  ASSUME ChannelInv, LoopInv, Ordered, Awaits, recvPromise[call[TheLoop]] = "fulfilled", ~Done(TheLoop)
  PROVE  Taken \in Sends
<1>1. call[TheLoop] \in Recvs /\ Taken \in Sends \cup {Undef}
  BY DEF LoopInv, CallKnown, ChannelInv, StepInv, TypeOK, Taken
<1>2. CASE Taken = Undef
  <2>1. state = 0
    BY <1>1, <1>2 DEF Taken, ChannelInv, EndMeansFinished, Ended
  <2>2. found[TheLoop]
    BY <2>1 DEF Done
  <2> QED
    BY <2>2 DEF LoopInv, FoundIsGiven
<1> QED
  BY <1>1, <1>2

LEMMA OrderInvResume ==
  ASSUME ChannelInv, LoopInv, OrderInv, IterResume(TheLoop), pushed' = pushed
  PROVE  OrderInv'
<1>t. /\ yielded \in Seq(Data) /\ Holds \in Seq(Data) /\ TheLoop \in Loops
      /\ loop \in [Loops -> {"ready", "awaiting", "body", "ended", "failed"}]
  BY OrderTypes, TheOnlyLoop DEF LoopInv, IterTypeOK
<1>1. /\ UNCHANGED <<capacity, buffer, producers, value, call>>
      /\ Awaits /\ recvPromise[call[TheLoop]] = "fulfilled"
  BY DEF IterResume, Awaits, vars, queues, promises
<1>2. ~Awaits' /\ Holds' = Holds /\ InHand' = << >>
  BY <1>1, <1>t DEF IterResume, Awaits, Holds, InHand
<1>3. ASSUME Ordered PROVE yielded' \in Seq(Data) /\ yielded' = yielded \o InHand
  <2>1. CASE Done(TheLoop)
    <3>1. Taken = Undef /\ yielded' = yielded
      BY <2>1, <1>1 DEF IterResume, Done, LoopInv, EndsEmpty
    <3> QED
      BY <3>1, <1>t, UndefAssumption, EmptyConcat DEF InHand
  <2>2. CASE ~Done(TheLoop)
    <3>1. Taken \in Sends /\ Taken \in Data
      BY <1>1, <1>3, <2>2, GoesOnWithDatum DEF Data
    <3>2. yielded' = Append(yielded, Taken) /\ InHand = <<Taken>>
      BY <1>1, <2>2, <3>1 DEF IterResume, Taken, InHand
    <3> QED
      BY <1>t, <3>1, <3>2, AppendIsConcat, AppendProperties
  <2> QED
    BY <2>1, <2>2
<1>4. ASSUME Ordered PROVE pushed = (yielded' \o InHand') \o Holds'
  BY <1>2, <1>3, <1>4, EmptyConcat DEF OrderInv, InOrder
<1>5. Ordered' <=> Ordered
  BY <1>1 DEF Ordered
<1> QED
  BY <1>4, <1>5 DEF OrderInv, InOrder

LEMMA OrderInductive == QueueSpec => []OrderInv
<1>1. QueueInit => OrderInv
  <2> SUFFICES ASSUME QueueInit PROVE OrderInv
    OBVIOUS
  <2>1. /\ pushed = << >> /\ yielded = << >> /\ Holds = << >> /\ InHand = << >>
    BY TheOnlyLoop DEF QueueInit, IterInit, Init, Holds, InHand, Awaits
  <2> QED
    BY <2>1 DEF OrderInv, InOrder
<1>2. ChannelInv /\ LoopInv /\ OrderInv /\ [QueueNext]_queueVars => OrderInv'
  <2> SUFFICES ASSUME ChannelInv, LoopInv, OrderInv, [QueueNext]_queueVars PROVE OrderInv'
    OBVIOUS
  <2>1. ASSUME NEW s \in Sends, Push(s) PROVE OrderInv'
    BY <2>1, OrderInvPush
  <2>2. ASSUME NEW l \in Loops, Advance(l) PROVE OrderInv'
    <3>1. l = TheLoop
      BY TheOnlyLoop
    <3> QED
      BY <2>2, <3>1, OrderInvNext, OrderInvResume DEF Advance
  <2>3. ASSUME NEW l \in Loops, HandlerEnds(l) \/ ErrorHandlerThrows(l) PROVE OrderInv'
    <3>1. l = TheLoop
      BY TheOnlyLoop
    <3>2. /\ UNCHANGED <<vars, yielded, pushed>> /\ ~Awaits /\ ~Awaits'
      BY <2>3, <3>1, TheOnlyLoop DEF HandlerEnds, BodyEnds, ErrorHandlerThrows, Awaits, LoopInv, IterTypeOK
    <3> QED
      BY <3>2 DEF OrderInv, InOrder, InHand, Holds, Ordered, vars, queues
  <2>4. CASE CloseQueue
    BY <2>4 DEF CloseQueue, Close, iterVars, OrderInv, InOrder, InHand, Awaits, Taken, Holds, Ordered
  <2>5. CASE OnError \/ UNCHANGED queueVars
    BY <2>5 DEF OnError, queueVars, allVars, iterVars, vars, queues, promises, OrderInv, InOrder,
       InHand, Awaits, Taken, Holds, Ordered
  <2> QED
    BY <2>1, <2>2, <2>3, <2>4, <2>5 DEF QueueNext, Work
<1> QED
  BY <1>1, <1>2, QueueIsLoop, LoopInvInductive, PTL DEF QueueSpec

\* The handler of a queue without a buffer, or with an unbounded one, is run for
\* the pushed data in the order of the push() calls, each once and none left out.
THEOREM HandlesInOrder == QueueSpec => []HandledInOrder
<1>1. ChannelInv /\ LoopInv /\ OrderInv => HandledInOrder
  <2> SUFFICES ASSUME ChannelInv, LoopInv, OrderInv, Ordered
               PROVE  \E n \in 0 .. Len(pushed) : yielded = SubSeq(pushed, 1, n)
    BY DEF HandledInOrder
  <2>1. /\ yielded \in Seq(Data) /\ InHand \in Seq(Data) /\ Holds \in Seq(Data)
    BY OrderTypes
  <2>2. pushed = (yielded \o InHand) \o Holds
    BY DEF OrderInv, InOrder
  <2>3. pushed = yielded \o (InHand \o Holds)
    BY <2>1, <2>2, ConcatAssociative
  <2>4. InHand \o Holds \in Seq(Data)
    BY <2>1, ConcatProperties
  <2> QED
    BY <2>1, <2>3, <2>4, PrefixOfConcat
<1> QED
  BY <1>1, OrderInductive, QueueIsLoop, LoopInvInductive, PTL
=============================================================================
