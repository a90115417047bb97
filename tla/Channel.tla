------------------------------- MODULE Channel -------------------------------
(***************************************************************************)
(* The Go-like channel of chan.ts.  JavaScript runs one call of send(),    *)
(* recv() or close() at a time and to its end, so each of them is a step;  *)
(* what interleaves is the order in which callers make those calls.        *)
(*                                                                         *)
(* A member of Sends is one call of send() together with the datum it      *)
(* carries; a member of Recvs is one call of recv().  A promise that is    *)
(* settled stays settled, so each call is made at most once and the        *)
(* promises are functions on the calls.                                    *)
(***************************************************************************)
EXTENDS Naturals, Sequences

CONSTANTS
  Sends,      \* the calls of send(), each with a datum of its own
  Recvs,      \* the calls of recv()
  Infinity,   \* JavaScript's Infinity: "never block and behave like a message queue"
  Capacities, \* the arguments of the constructor: natural numbers or Infinity
  Undef       \* JavaScript's undefined

ASSUME CapacityAssumption == /\ Infinity \notin Nat
                             /\ Capacities \subseteq Nat \cup {Infinity}
ASSUME UndefAssumption == Undef \notin Sends

VARIABLES
  capacity,     \* the most data the buffer may hold; never written again
  buffer,       \* data waiting in the buffer, oldest first
  producers,    \* the blocked send() calls, oldest first
  consumers,    \* the blocked recv() calls, oldest first
  error,        \* TRUE iff this.error holds the Error passed to close()
  state,        \* 1 open, 2 closing, 0 finished
  sendPromise,  \* the promise of each send() call ("refused": it threw)
  recvPromise,  \* the promise of each recv() call
  value         \* what a fulfilled recv() was given

queues   == <<buffer, producers, consumers>>
promises == <<sendPromise, recvPromise, value>>
vars     == <<capacity, queues, error, state, promises>>

Members(s) == {s[i] : i \in DOMAIN s}
Distinct(s) == \A i, j \in DOMAIN s : s[i] = s[j] => i = j

Init ==
  /\ capacity \in Capacities
  /\ buffer = << >> /\ producers = << >> /\ consumers = << >>
  /\ error = FALSE
  /\ state = 1
  /\ sendPromise = [s \in Sends |-> "idle"]
  /\ recvPromise = [r \in Recvs |-> "idle"]
  /\ value = [r \in Recvs |-> Undef]

-----------------------------------------------------------------------------
(* send(data) *)

\* `this.state !== 1` throws.
MaySend(s) == sendPromise[s] = "idle" /\ state = 1

\* `this.capacity && this.buffer.length < this.capacity`
HasRoom == capacity \in Nat => Len(buffer) < capacity

ReceiversIgnored == TRUE                                            \* mutant
NoReceiver == consumers = << >>

SendReturns(s, promise) == sendPromise' = [sendPromise EXCEPT ![s] = promise]

Fulfil(r, v) ==
  /\ recvPromise' = [recvPromise EXCEPT ![r] = "fulfilled"]
  /\ value' = [value EXCEPT ![r] = v]

SendRefused(s) ==
  /\ sendPromise[s] = "idle" /\ state # 1
  /\ sendPromise' = [sendPromise EXCEPT ![s] = "refused"]
  /\ UNCHANGED <<capacity, queues, error, state, recvPromise, value>>

\* The oldest waiting receiver takes the datum in the same step.
SendToConsumer(s) ==
  /\ MaySend(s) /\ consumers # << >>
  /\ consumers' = Tail(consumers)
  /\ Fulfil(Head(consumers), s)
  /\ SendReturns(s, "resolved")
  /\ UNCHANGED <<capacity, buffer, producers, error, state>>

SendToBuffer(s) ==
  /\ MaySend(s) /\ NoReceiver /\ HasRoom
  /\ buffer' = Append(buffer, s)
  /\ SendReturns(s, "resolved")
  /\ UNCHANGED <<capacity, producers, consumers, error, state, recvPromise, value>>

SendBlocks(s) ==
  /\ MaySend(s) /\ NoReceiver /\ ~HasRoom
  /\ producers' = Append(producers, s)
  /\ SendReturns(s, "pending")
  /\ UNCHANGED <<capacity, buffer, consumers, error, state, recvPromise, value>>

Send(s) == SendRefused(s) \/ SendToConsumer(s) \/ SendToBuffer(s) \/ SendBlocks(s)

-----------------------------------------------------------------------------
(* recv() *)

\* The state after the queue that was being drained became `rest`.
Drained(rest) == IF state = 2 /\ rest = << >> THEN 0 ELSE state

RecvBuffered(r) ==
  /\ recvPromise[r] = "idle" /\ buffer # << >>
  /\ buffer' = Tail(buffer)
  /\ state' = Drained(buffer')
  /\ Fulfil(r, Head(buffer))
  /\ UNCHANGED <<capacity, producers, consumers, error, sendPromise>>

Released(s) == [sendPromise EXCEPT ![s] = "resolved"]

HandedOverAndBuffered(r, s) == Fulfil(r, s) /\ buffer' = <<s>>      \* mutant

\* The closure a blocked send() left in producers.  Without a buffer it hands
\* its datum over.  With one it shifts the buffer, which is empty when recv()
\* calls it, so the receiver is given undefined, and buffers its datum.
Produce(r, s) ==
  IF capacity = 0 THEN Fulfil(r, s) /\ UNCHANGED buffer
                  ELSE Fulfil(r, Undef) /\ buffer' = <<s>>

NewestFirst == producers[Len(producers)]                            \* mutant
NextProducer == Head(producers)

RecvFromProducer(r) ==
  /\ recvPromise[r] = "idle" /\ buffer = << >> /\ producers # << >>
  /\ producers' = Tail(producers)
  /\ state' = Drained(producers')
  /\ sendPromise' = Released(NextProducer)
  /\ Produce(r, NextProducer)
  /\ UNCHANGED <<capacity, consumers, error>>

BufferIgnored == producers = << >>                                  \* mutant
NothingQueued == buffer = << >> /\ producers = << >>

RecvFinished(r) ==
  /\ recvPromise[r] = "idle" /\ NothingQueued /\ state = 0
  /\ Fulfil(r, Undef)
  /\ UNCHANGED <<capacity, queues, error, state, sendPromise>>

RecvError(r) ==
  /\ recvPromise[r] = "idle" /\ NothingQueued /\ state # 0 /\ error
  /\ state' = 0
  /\ error' = FALSE
  /\ recvPromise' = [recvPromise EXCEPT ![r] = "rejected"]
  /\ UNCHANGED <<capacity, queues, sendPromise, value>>

RecvClosing(r) ==
  /\ recvPromise[r] = "idle" /\ NothingQueued /\ state = 2 /\ ~error
  /\ state' = 0
  /\ Fulfil(r, Undef)
  /\ UNCHANGED <<capacity, queues, error, sendPromise>>

RecvBlocks(r) ==
  /\ recvPromise[r] = "idle" /\ NothingQueued /\ state = 1 /\ ~error
  /\ consumers' = Append(consumers, r)
  /\ recvPromise' = [recvPromise EXCEPT ![r] = "pending"]
  /\ UNCHANGED <<capacity, buffer, producers, error, state, sendPromise, value>>

Recv(r) == \/ RecvBuffered(r) \/ RecvFromProducer(r) \/ RecvFinished(r)
           \/ RecvError(r) \/ RecvClosing(r) \/ RecvBlocks(r)

-----------------------------------------------------------------------------
(* close(err); `err` is TRUE when an Error is passed. *)

\* Every waiting consumer is settled; the closure of the last one finds state
\* 2 and no consumer left, and finishes the channel.
Broadcast(err) ==
  /\ recvPromise' = [r \in Recvs |->
       IF r \notin Members(consumers) THEN recvPromise[r]
       ELSE IF err THEN "rejected" ELSE "fulfilled"]
  /\ consumers' = << >>

CloseDropsSenders(err) ==                                           \* mutant
  /\ state = 1
  /\ error' = err
  /\ state' = IF consumers = << >> THEN 2 ELSE 0
  /\ Broadcast(err)
  /\ producers' = << >>
  /\ UNCHANGED <<capacity, buffer, sendPromise, value>>

Close(err) ==
  /\ state = 1
  /\ error' = err
  /\ state' = IF consumers = << >> THEN 2 ELSE 0
  /\ Broadcast(err)
  /\ UNCHANGED <<capacity, buffer, producers, sendPromise, value>>

Next == \/ \E s \in Sends : Send(s)
        \/ \E r \in Recvs : Recv(r)
        \/ \E err \in BOOLEAN : Close(err)

Spec == Init /\ [][Next]_vars

\* A receiver that loops (`for await`, `while (await recv())`) calls recv()
\* again whatever the senders do.
FairSpec == Spec /\ WF_vars(\E r \in Recvs : Recv(r))

-----------------------------------------------------------------------------
TypeOK ==
  /\ capacity \in Capacities
  /\ buffer \in Seq(Sends) /\ producers \in Seq(Sends) /\ consumers \in Seq(Recvs)
  /\ error \in BOOLEAN
  /\ state \in {0, 1, 2}
  /\ sendPromise \in [Sends -> {"idle", "pending", "resolved", "refused"}]
  /\ recvPromise \in [Recvs -> {"idle", "pending", "fulfilled", "rejected"}]
  /\ value \in [Recvs -> Sends \cup {Undef}]

\* A receiver that was told the stream is over: undefined, or the error.
Ended(r) == \/ recvPromise[r] = "rejected"
            \/ recvPromise[r] = "fulfilled" /\ value[r] = Undef

\* send() did not throw: the datum is in the care of the channel.
Accepted(s) == sendPromise[s] \in {"pending", "resolved"}

Delivered(s) == \E r \in Recvs : recvPromise[r] = "fulfilled" /\ value[r] = s

\* Whatever the capacity and the order of the calls, a datum send() accepted
\* is in exactly one place: queued (buffered, or held by a blocked sender), or
\* given to exactly one receiver.
ExactlyOnce ==
  /\ \A s \in Sends :
       Accepted(s) <=> s \in Members(buffer) \cup Members(producers) \/ Delivered(s)
  /\ \A s \in Members(buffer) \cup Members(producers) : ~Delivered(s)
  /\ Members(buffer) \cap Members(producers) = {}
  /\ Distinct(buffer)
  /\ \A q, r \in Recvs :
       value[q] = value[r] /\ value[q] # Undef => q = r

\* No receiver waits while there is something for it to have: a datum, the end
\* of the stream or the error (recv() and send() never miss one another).
NoReceiverMissed == consumers # << >> => NothingQueued /\ state = 1

\* No caller is forgotten: a promise is pending exactly while its call is in
\* the queue from which it will be settled, in which it is once.
PendingCallsQueued ==
  /\ \A s \in Sends : sendPromise[s] = "pending" <=> s \in Members(producers)
  /\ \A r \in Recvs : recvPromise[r] = "pending" <=> r \in Members(consumers)
  /\ Distinct(producers) /\ Distinct(consumers)

\* Channels without a buffer, and unbounded ones.  In the others a sender that
\* is blocked on a full buffer can be overtaken.
Ordered == capacity \in {0, Infinity}

\* Nothing follows the end of the stream: once a receiver was told that the
\* channel is closed, by undefined or by the error, a later recv() is answered
\* at once, with undefined.  So no datum comes after the end, and an error
\* that close() has not broadcast is raised once.
EndOfStreamIsLast ==
  [][Ordered => \A r, q \in Recvs :
       Ended(r) /\ recvPromise[q] = "idle" /\ recvPromise'[q] # "idle"
         => recvPromise'[q] = "fulfilled" /\ value'[q] = Undef]_vars

\* What send() accepted is eventually received, when receivers keep asking.
EventuallyReceived ==
  \A s \in Sends : Accepted(s) ~> Delivered(s)

\* chan.ts:81: recv() "will block until new data is available"; it gives
\* undefined when the channel is closed.
UndefinedMeansClosed ==
  (\E r \in Recvs : recvPromise[r] = "fulfilled" /\ value[r] = Undef) => state # 1

-----------------------------------------------------------------------------
(* The queue a channel without a finite buffer implements. *)

Outcome(r) == IF Ended(r) THEN "end"
              ELSE IF recvPromise[r] = "fulfilled" THEN "datum" ELSE recvPromise[r]

Fifo == INSTANCE FifoChannel WITH
  Data <- Sends, Readers <- Recvs, Nothing <- Undef,
  queue <- buffer \o producers,
  waiting <- consumers,
  open <- state = 1,
  put <- {s \in Sends : Accepted(s)},
  got <- [r \in Recvs |-> Outcome(r)],
  datum <- value

\* An ordered channel is a FIFO queue with handoff: it starts as one, and each
\* step is one of the queue's or does not show.
ImplementsFifo ==
  /\ Ordered => Fifo!Init
  /\ [][Ordered => Fifo!Next \/ UNCHANGED Fifo!vars]_vars
=============================================================================
