--------------------------- MODULE ChannelIterator ---------------------------
(***************************************************************************)
(* `for await (const data of channel)` loops over a channel: the async     *)
(* iterator of chan.ts.  next() notes what is queued, calls recv() in the  *)
(* same step, and decides whether the stream is done when the promise of   *)
(* recv() has been settled and the microtask that continues it runs; every *)
(* caller of the channel may have run in between.                          *)
(***************************************************************************)
EXTENDS Channel

CONSTANT Loops   \* the loops over the channel

VARIABLES
  loop,     \* each loop's place: "ready", "awaiting", "body", "ended", "failed"
  call,     \* the recv() call a loop awaits or has taken last
  found,    \* whether next() found something queued before it called recv()
  yielded   \* history: the values given to loop bodies

iterVars == <<loop, call, found, yielded>>
allVars  == <<vars, iterVars>>

IterInit == /\ Init
            /\ loop = [l \in Loops |-> "ready"]
            /\ call = [l \in Loops |-> Undef]
            /\ found = [l \in Loops |-> FALSE]
            /\ yielded = << >>

\* Calls are interchangeable: a loop makes any of those not made yet.
NewCall == CHOOSE r \in Recvs : recvPromise[r] = "idle"

\* next(): `bufSize` and `queueSize`, then recv().
IterNext(l) ==
  /\ loop[l] = "ready" /\ \E r \in Recvs : recvPromise[r] = "idle"
  /\ Recv(NewCall)
  /\ call' = [call EXCEPT ![l] = NewCall]
  /\ found' = [found EXCEPT ![l] = ~NothingQueued]
  /\ loop' = [loop EXCEPT ![l] = "awaiting"]
  /\ UNCHANGED yielded

DoneWhenClosing(l) == state # 1 /\ ~found[l]                        \* mutant
DoneIgnoresQueue(l) == state = 0                                    \* mutant
NeverDone(l) == FALSE                                               \* mutant

\* `done: channel.state === 0 && !bufSize && !queueSize`
Done(l) == state = 0 /\ ~found[l]

\* The loop takes its next value, or ends: a value that comes with `done` is
\* dropped by `for await`.
IterResume(l) ==
  /\ loop[l] = "awaiting" /\ recvPromise[call[l]] = "fulfilled"
  /\ IF Done(l)
       THEN /\ loop' = [loop EXCEPT ![l] = "ended"]
            /\ UNCHANGED yielded
       ELSE /\ loop' = [loop EXCEPT ![l] = "body"]
            /\ yielded' = Append(yielded, value[call[l]])
  /\ UNCHANGED <<vars, call, found>>

IterThrows(l) ==
  /\ loop[l] = "awaiting" /\ recvPromise[call[l]] = "rejected"
  /\ loop' = [loop EXCEPT ![l] = "failed"]
  /\ UNCHANGED <<vars, call, found, yielded>>

\* The caller's loop body ends; how long it takes is up to the caller.
BodyEnds(l) ==
  /\ loop[l] = "body"
  /\ loop' = [loop EXCEPT ![l] = "ready"]
  /\ UNCHANGED <<vars, call, found, yielded>>

LoopStep(l) == IterNext(l) \/ IterResume(l) \/ IterThrows(l) \/ BodyEnds(l)

IterateNext == \/ \E s \in Sends : Send(s) /\ UNCHANGED iterVars
               \/ \E err \in BOOLEAN : Close(err) /\ UNCHANGED iterVars
               \/ \E l \in Loops : LoopStep(l)

IterSpec == IterInit /\ [][IterateNext]_allVars

\* Microtasks run, and the bodies of these loops end.
FairIterSpec == IterSpec /\ \A l \in Loops : WF_allVars(LoopStep(l))

-----------------------------------------------------------------------------
IterTypeOK ==
  /\ TypeOK
  /\ loop \in [Loops -> {"ready", "awaiting", "body", "ended", "failed"}]
  /\ call \in [Loops -> Recvs \cup {Undef}]
  /\ found \in [Loops -> BOOLEAN]
  /\ yielded \in Seq(Sends \cup {Undef})

\* A datum that recv() gave to an iterator reaches a loop body: only the loop
\* that still awaits it has not seen it.
NothingSkipped ==
  \A s \in Sends : Delivered(s) =>
    \/ s \in Members(yielded)
    \/ \E l \in Loops : loop[l] = "awaiting" /\ value[call[l]] = s

\* A loop that ended has drained the channel: nothing that send() accepted, or
\* will accept, is left for it.
EndedMeansDrained ==
  (\E l \in Loops : loop[l] = "ended") =>
    /\ state = 0 /\ NothingQueued
    /\ \A s \in Sends : Accepted(s) => s \in Members(yielded)

\* chan.ts:139: closing the channel makes the loop break.
CloseEndsLoops == \A l \in Loops : state # 1 ~> loop[l] \in {"ended", "failed"}
=============================================================================
