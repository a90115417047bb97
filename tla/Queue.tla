-------------------------------- MODULE Queue --------------------------------
(***************************************************************************)
(* The task queue of queue.ts: one `for await` loop over a channel, started *)
(* by the constructor, gives each pushed datum to the handler and waits for *)
(* it.  push() is send(), close() is the channel's close() without an       *)
(* error, and a loop body is one run of the handler.                        *)
(***************************************************************************)
EXTENDS ChannelIterator

ASSUME OneLoop == \E l \in Loops : Loops = {l}

VARIABLES
  errorHandler,  \* TRUE once onError() was called
  threw,         \* history: errorHandler has thrown
  pushed         \* history: the data push() accepted, in the order of the calls

queueVars == <<allVars, errorHandler, threw, pushed>>

QueueInit == IterInit /\ errorHandler = FALSE /\ threw = FALSE /\ pushed = << >>

Push(s) == /\ Send(s)
           /\ pushed' = IF state = 1 THEN Append(pushed, s) ELSE pushed
           /\ UNCHANGED <<iterVars, errorHandler, threw>>

CloseQueue == Close(FALSE) /\ UNCHANGED <<iterVars, errorHandler, threw, pushed>>

OnError == /\ ~errorHandler
           /\ errorHandler' = TRUE
           /\ UNCHANGED <<allVars, threw, pushed>>

\* The loop between two runs of the handler.
Advance(l) == (IterNext(l) \/ IterResume(l)) /\ UNCHANGED <<errorHandler, threw, pushed>>

FailureEndsLoop(l) ==                                               \* mutant
  /\ loop[l] = "body"
  /\ loop' = [loop EXCEPT ![l] = "failed"]
  /\ UNCHANGED <<vars, call, found, yielded, errorHandler, threw, pushed>>

\* The handler ends, or it throws and errorHandler, if there is one, is told:
\* the `catch` block lets the loop go on.
HandlerEnds(l) == BodyEnds(l) /\ UNCHANGED <<errorHandler, threw, pushed>>

\* errorHandler throws as well: its error leaves the `catch` block and the
\* loop, and only errorHandler, called again, hears of it.
ErrorHandlerThrows(l) ==
  /\ loop[l] = "body" /\ errorHandler
  /\ loop' = [loop EXCEPT ![l] = "failed"]
  /\ threw' = TRUE
  /\ UNCHANGED <<vars, call, found, yielded, errorHandler, pushed>>

Work(l) == Advance(l) \/ HandlerEnds(l) \/ ErrorHandlerThrows(l)

QueueNext == \/ \E s \in Sends : Push(s)
             \/ CloseQueue \/ OnError
             \/ \E l \in Loops : Work(l)

\* Microtasks run, and the promise of each handler settles.
QueueSpec == /\ QueueInit /\ [][QueueNext]_queueVars
             /\ \A l \in Loops : WF_queueVars(Work(l))

-----------------------------------------------------------------------------
\* One handler at a time, in the order of the push() calls, of a queue without
\* a buffer or an unbounded one: what was handled is what was pushed, up to
\* some point.
HandledInOrder ==
  Ordered => \E n \in 0 .. Len(pushed) : yielded = SubSeq(pushed, 1, n)

\* Every pushed datum is eventually handled, whatever becomes of the handlers
\* of the others, unless errorHandler threw.
EventuallyHandled == \A s \in Sends : Accepted(s) ~> s \in Members(yielded) \/ threw
=============================================================================
