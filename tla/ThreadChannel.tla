----------------------------- MODULE ThreadChannel -----------------------------
(***************************************************************************)
(* One channel that the main thread passes to workers, parallel/channel.ts.  *)
(* A thread that has the channel may send, and what it sends is posted to     *)
(* the other side: a worker has one, the main thread sends to its workers in  *)
(* turn.  What a thread is posted goes into its own channel, whose recv() is  *)
(* the subject of Channel.  A worker may be passed the channel again.         *)
(***************************************************************************)
EXTENDS Naturals, Sequences, FiniteSets

CONSTANTS
  Main,           \* the main thread
  WorkerThreads,  \* the workers
  MaxPasses,      \* how often the main thread passes the channel at most
  MaxData         \* how many data a thread sends at most

ASSUME ThreadChannelAssumption ==
  Main \notin WorkerThreads /\ MaxPasses \in Nat /\ MaxData \in Nat

Threads == WorkerThreads \cup {Main}

Of(seq) == {seq[i] : i \in DOMAIN seq}

VARIABLES
  writers,  \* the writers of a thread's record, by whom they post to; none
            \* when its channelStore has no record
  counter,  \* the counter of the record
  state,    \* "none" if the thread does not have the channel; else how it is there
  link,     \* the messages on the way from one thread to another
  passes,   \* how often the channel was passed
  sent,     \* how many data a thread has sent
  got,      \* what a thread was given, by whom, in order
  closed    \* what a thread had sent when it first called close(), or Never

portVars == <<writers, counter, state, link, passes, sent, got, closed>>

Never == MaxData + 1

\* The channel was made in the main thread.
PortInit ==
  /\ writers = [t \in Threads |-> << >>] /\ counter = [t \in Threads |-> 0]
  /\ state = [t \in Threads |-> IF t = Main THEN "open" ELSE "none"]
  /\ link = [s \in Threads |-> [t \in Threads |-> << >>]]
  /\ passes = 0
  /\ sent = [t \in Threads |-> 0]
  /\ got = [t \in Threads |-> [s \in Threads |-> << >>]]
  /\ closed = [t \in Threads |-> Never]

-----------------------------------------------------------------------------
Stored(t) == writers[t] # << >>

\* channelStore.delete()
Delete(t) == /\ writers' = [writers EXCEPT ![t] = << >>]
             /\ counter' = [counter EXCEPT ![t] = 0]

\* wireChannel() in t, for a writer that posts to u.
Wire(t, u) == writers' = [writers EXCEPT ![t] = Append(@, u)]

\* A remote call has the channel among its arguments: wrapChannel().
Pass(w) ==
  /\ state[Main] = "open" /\ passes < MaxPasses
  /\ passes' = passes + 1
  /\ Wire(Main, w)
  /\ link' = [link EXCEPT ![Main][w] = Append(@, <<"call">>)]
  /\ UNCHANGED <<counter, state, sent, got, closed>>

NextWriter(t) == writers[t][(counter[t] % Len(writers[t])) + 1]

PostToAll(t, n) == [link EXCEPT ![t] =                              \* mutant
  [u \in Threads |-> IF u \in Of(writers[t]) THEN Append(@[u], <<"send", n>>) ELSE @[u]]]
Post(t, n) == [link EXCEPT ![t][NextWriter(t)] = Append(@, <<"send", n>>)]

\* send(), as wireChannel() has replaced it: the writers have their turns.
Send(t) ==
  /\ Stored(t) /\ sent[t] < MaxData
  /\ sent' = [sent EXCEPT ![t] = @ + 1]
  /\ counter' = [counter EXCEPT ![t] = @ + 1]
  /\ link' = Post(t, sent[t] + 1)
  /\ UNCHANGED <<writers, state, passes, got, closed>>

\* A thread that was told of another's close() still has the replaced send(),
\* which finds no record and resolves.
SendNowhere(t) ==
  /\ ~Stored(t) /\ state[t] = "ended" /\ sent[t] < MaxData
  /\ sent' = [sent EXCEPT ![t] = @ + 1]
  /\ UNCHANGED <<writers, counter, state, link, passes, got, closed>>

\* Every writer of t posts a close message.
WritersTo(t, u) == Cardinality({i \in DOMAIN writers[t] : writers[t][i] = u})
Closes(t, u) == [i \in 1 .. WritersTo(t, u) |-> <<"close">>]
WriteClose(t) == [link EXCEPT ![t] = [u \in Threads |-> @[u] \o Closes(t, u)]]

\* close(), as wireChannel() has replaced it.
Close(t) ==
  /\ Stored(t)
  /\ Delete(t)
  /\ link' = WriteClose(t)
  /\ state' = [state EXCEPT ![t] = "closed"]
  /\ closed' = [closed EXCEPT ![t] = IF @ = Never THEN sent[t] ELSE @]
  /\ UNCHANGED <<passes, sent, got>>

-----------------------------------------------------------------------------
(* A message arrives: unwrapChannel() and handleChannelMessage(). *)

Head2(s, t, type) == link[s][t] # << >> /\ Head(link[s][t])[1] = type
Taken(s, t, links) == [links EXCEPT ![s][t] = Tail(@)]

\* The channel itself: a worker without a record makes a new one.
ReceiveCall(w) ==
  /\ Head2(Main, w, "call")
  /\ link' = Taken(Main, w, link)
  /\ Wire(w, Main)
  /\ state' = [state EXCEPT ![w] = "open"]
  /\ UNCHANGED <<counter, passes, sent, got, closed>>

\* A datum, which is dropped when there is no record any more.
ReceiveDatum(s, t) ==
  /\ Head2(s, t, "send")
  /\ link' = Taken(s, t, link)
  /\ got' = IF Stored(t) THEN [got EXCEPT ![t][s] = Append(@, Head(link[s][t])[2])] ELSE got
  /\ UNCHANGED <<writers, counter, state, passes, sent, closed>>

OnlyToMany(t) == t = Main /\ Len(writers[t]) > 2                    \* mutant
Distributes(t) == t = Main /\ Len(writers[t]) > 1

\* The other side has closed the channel; the main thread tells all its writers.
ReceiveClose(s, t) ==
  /\ Head2(s, t, "close")
  /\ IF Stored(t)
       THEN /\ Delete(t)
            /\ state' = [state EXCEPT ![t] = "ended"]
            /\ link' = Taken(s, t, IF Distributes(t) THEN WriteClose(t) ELSE link)
       ELSE UNCHANGED <<writers, counter, state>> /\ link' = Taken(s, t, link)
  /\ UNCHANGED <<passes, sent, got, closed>>

ReceiveMessage(s, t) ==
  \/ s = Main /\ t # Main /\ ReceiveCall(t)
  \/ ReceiveDatum(s, t)
  \/ ReceiveClose(s, t)

PortNext ==
  \/ \E w \in WorkerThreads : Pass(w)
  \/ \E t \in Threads : Send(t) \/ SendNowhere(t) \/ Close(t)
  \/ \E s, t \in Threads : ReceiveMessage(s, t)

\* What is posted arrives.
PortFairness == \A s, t \in Threads : WF_portVars(ReceiveMessage(s, t))

PortSpec == PortInit /\ [][PortNext]_portVars /\ PortFairness

-----------------------------------------------------------------------------
Messages == {<<"call">>, <<"close">>} \cup ({"send"} \X (1 .. MaxData))

PortTypeOK ==
  /\ writers \in [Threads -> Seq(Threads)] /\ counter \in [Threads -> Nat]
  /\ state \in [Threads -> {"none", "open", "closed", "ended"}]
  /\ link \in [Threads -> [Threads -> Seq(Messages)]]
  /\ passes \in 0 .. MaxPasses /\ sent \in [Threads -> 0 .. MaxData]
  /\ got \in [Threads -> [Threads -> Seq(1 .. MaxData)]]
  /\ closed \in [Threads -> 0 .. Never]

\* The data among the messages of a queue, and whether they are in order.
IsDatum(m) == m[1] = "send"
DataIn(q) == {n \in 1 .. MaxData : <<"send", n>> \in Of(q)}
DataRise(q) == \A i, j \in DOMAIN q :
  i < j /\ IsDatum(q[i]) /\ IsDatum(q[j]) => q[i][2] < q[j][2]

\* The data from s that t was given, or that are on the way to it.
Data(s, t) == Of(got[t][s]) \cup DataIn(link[s][t])

InOrderOnce(s) == \A t \in Threads :
  /\ \A i, j \in DOMAIN got[t][s] : i < j => got[t][s][i] < got[t][s][j]
  /\ DataRise(link[s][t])
  /\ \A n \in Of(got[t][s]), m \in DataIn(link[s][t]) : n < m
  /\ \A u \in Threads \ {t} : Data(s, t) \cap Data(s, u) = {}

\* Everything a thread has sent before its own close(), if any, is given to one thread,
\* once and in order, or on the way to it, as long as no other thread closes the channel.
CloserHeard == \A s \in Threads :
  /\ InOrderOnce(s)
  /\ (\A t \in Threads \ {s} : closed[t] = Never) =>
       \A n \in 1 .. sent[s] : n <= closed[s] => \E t \in Threads : n \in Data(s, t)

\* Once a thread closes the channel it is closed in every thread, for good, also in
\* those it is just being passed to.
CloseReachesAll == (\E t \in Threads : closed[t] # Never) ~> [](\A t \in Threads : state[t] # "open")
================================================================================
