-------------------------------- MODULE RunTask --------------------------------
(***************************************************************************)
(* What becomes of one call of run() once it was posted to its worker: the    *)
(* messages of the worker, its death, abort(), and what the caller is told by *)
(* result() and iterate().  The pool of workers is the subject of RunPool; of *)
(* the channel of iterate() there is here what one loop makes of it: data are *)
(* queued while the loop is busy, also when the channel is closed.            *)
(***************************************************************************)
EXTENDS Naturals, Sequences

CONSTANTS
  MaxYields,  \* how often a generator yields at most
  MaxCalls    \* how often result() and iterate() are called at most

ASSUME RunTaskAssumption == MaxYields \in Nat /\ MaxCalls \in Nat

Calls == 1 .. MaxCalls
None == 0

VARIABLES
  keepAlive,  \* options.keepAlive
  aborted,    \* whether the signal is aborted
  \* The variables of run(): which result() and which iterate() have made the
  \* promise and the channel, and whether there are an error and a result.
  promise, channel, error, result,
  closing,    \* what waits for terminate() before it calls handleClose()
  listening,  \* whether the worker's messages and events are heard
  \* The worker: what it does, what it has yielded, and its messages on the way.
  worker, yielded, posted,
  arrived,    \* how many of the yielded data have arrived
  \* The caller: how often it has called, and what a call is told at the end.
  calls, told,
  \* The channel a loop has: the data in it, and its state: "open", "asking" when
  \* the loop waits in recv(), "closed", or "failed" when recv() will throw.
  buffer, stream,
  \* History: the data a loop is given, how many had arrived before it began, and
  \* how many were in its channel when that was closed.
  items, missed, unread

task   == <<promise, channel, error, result, closing, listening>>
thread == <<worker, yielded, posted>>
loops  == <<buffer, stream, items, missed, unread>>
vars   == <<keepAlive, aborted, task, thread, arrived, calls, told, loops>>

Init ==
  /\ keepAlive \in BOOLEAN /\ aborted = FALSE
  /\ promise = None /\ channel = None /\ error = FALSE /\ result = FALSE
  /\ closing = {} /\ listening = TRUE
  /\ worker = "running" /\ yielded = 0 /\ posted = << >> /\ arrived = 0
  /\ calls = 0
  /\ told = [c \in Calls |-> "nothing"]
  /\ buffer = [c \in Calls |-> << >>]
  /\ stream = [c \in Calls |-> "none"]
  /\ items = [c \in Calls |-> << >>]
  /\ missed = [c \in Calls |-> 0]
  /\ unread = [c \in Calls |-> 0]

-----------------------------------------------------------------------------
(* handleClose(), handleMessage(), the abort listener. *)

RejectsFirst(c) == c = promise /\ told[c] = "nothing"               \* mutant
Concerned(c) == c \in {promise, channel} /\ told[c] = "nothing"

\* With a promise, the channel of a failed task is closed without the error.
WithError(failed) == failed /\ promise = None

\* What handleClose() tells the calls: the promise is settled, the channel closed.  A
\* loop that waits is told at once, any other when it asks again.
TellOutcome(failed) ==
  LET closed == {c \in Calls : Concerned(c) /\ stream[c] \in {"open", "asking"}}
      asking == {c \in closed : stream[c] = "asking"}
  IN /\ told' = [c \in Calls |->
           IF c \in asking THEN (IF WithError(failed) THEN "error" ELSE "end")
           ELSE IF Concerned(c) /\ c = promise THEN (IF failed THEN "error" ELSE "value")
           ELSE told[c]]
     /\ stream' = [c \in Calls |->
           IF c \notin closed THEN stream[c]
           ELSE IF WithError(failed) /\ c \notin asking THEN "failed" ELSE "closed"]
     /\ unread' = [c \in Calls |-> IF c \in closed THEN Len(buffer[c]) ELSE unread[c]]

\* err: the error it is given, if any.  A task that neither failed nor has a
\* result has the result undefined.
HandleClose(err, terminated) ==
  /\ error' = (error \/ err)
  /\ result' = (result \/ ~error')
  /\ listening' = (listening /\ terminated)
  /\ TellOutcome(error')
  /\ UNCHANGED <<promise, channel, calls, buffer, items, missed>>

Heard(msg) == posted # << >> /\ Head(posted) = msg /\ posted' = Tail(posted)

\* channel?.send(): the loop waits for the datum, or it is queued.  A closed channel
\* takes none: send() throws.
Send ==
  \/ /\ channel # None /\ stream[channel] = "asking"
     /\ items' = [items EXCEPT ![channel] = Append(@, arrived')]
     /\ stream' = [stream EXCEPT ![channel] = "open"]
     /\ UNCHANGED buffer
  \/ /\ channel # None /\ stream[channel] = "open"
     /\ buffer' = [buffer EXCEPT ![channel] = Append(@, arrived')]
     /\ UNCHANGED <<items, stream>>
  \/ /\ \A c \in Calls : c = channel => stream[c] \in {"closed", "failed"}
     /\ UNCHANGED <<buffer, items, stream>>

\* A datum, which nobody is given if iterate() was not called yet.
HearYield ==
  /\ listening /\ Heard("yield")
  /\ arrived' = arrived + 1
  /\ Send
  /\ UNCHANGED <<keepAlive, aborted, task, worker, yielded, calls, told, missed, unread>>

\* The end: the worker is terminated first, unless it is kept alive.
HearEnd ==
  /\ listening
  /\ \/ Heard("return") /\ error' = error /\ result' = TRUE
     \/ Heard("error") /\ error' = TRUE /\ result' = result
  /\ IF keepAlive
       THEN /\ listening' = FALSE
            /\ TellOutcome(error')
            /\ UNCHANGED closing
       ELSE closing' = closing \cup {"end"} /\ UNCHANGED <<listening, told, stream, unread>>
  /\ UNCHANGED <<keepAlive, aborted, promise, channel, worker, yielded, arrived, calls, buffer, items, missed>>

AlwaysHeeded == ~aborted                                            \* mutant
Heeded == ~aborted /\ ~error /\ ~result

\* abort(), or the timeout, or the caller's signal: the worker is terminated.
Abort ==
  /\ ~aborted /\ aborted' = TRUE
  /\ IF Heeded
       THEN error' = TRUE /\ closing' = closing \cup {"abort"}
       ELSE UNCHANGED <<error, closing>>
  /\ UNCHANGED <<keepAlive, promise, channel, result, listening, thread, arrived, calls, told, loops>>

\* terminate() is fulfilled; what the worker has posted may be lost.
Terminated ==
  /\ \E reason \in closing :
       /\ closing' = closing \ {reason}
       /\ HandleClose(reason = "abort", TRUE)
  /\ worker' = "gone" /\ posted' \in {posted, << >>}
  /\ UNCHANGED <<keepAlive, aborted, yielded, arrived>>

\* An uncaught error in the worker: its error event.
Die ==
  /\ worker = "running"
  /\ worker' = "gone" /\ posted' = << >>
  /\ IF listening /\ ~error /\ ~result
       THEN HandleClose(TRUE, TRUE) /\ UNCHANGED closing
       ELSE UNCHANGED <<task, calls, told, loops>>
  /\ UNCHANGED <<keepAlive, aborted, yielded, arrived>>

-----------------------------------------------------------------------------
(* The caller: result(), which is told at once what is known, iterate(),     *)
(* which throws if result() was called or the result is there, and its loop. *)

Result ==
  /\ calls < MaxCalls /\ calls' = calls + 1
  /\ IF error \/ result
       THEN told' = [told EXCEPT ![calls'] = IF error THEN "error" ELSE "value"] /\ UNCHANGED promise
       ELSE promise' = calls' /\ UNCHANGED told
  /\ UNCHANGED <<keepAlive, aborted, channel, error, result, closing, listening, thread, arrived, loops>>

Iterate ==
  /\ calls < MaxCalls /\ promise = None /\ ~result
  /\ calls' = calls + 1 /\ channel' = calls'
  /\ stream' = [stream EXCEPT ![calls'] = "open"]
  /\ missed' = [missed EXCEPT ![calls'] = arrived]
  /\ UNCHANGED <<keepAlive, aborted, promise, error, result, closing, listening, thread, arrived, told,
                 buffer, items, unread>>

HasWhileOpen(c) == buffer[c] # << >> /\ stream[c] = "open"           \* mutant
Has(c) == buffer[c] # << >>

\* recv() of a loop that goes on.  What is queued comes first; with the last of it
\* a closed channel is finished, and forgets the error it was closed with.
Recv(c) ==
  /\ told[c] = "nothing" /\ stream[c] \in {"open", "closed", "failed"}
  /\ \/ /\ Has(c)
        /\ items' = [items EXCEPT ![c] = Append(@, Head(buffer[c]))]
        /\ buffer' = [buffer EXCEPT ![c] = Tail(@)]
        /\ stream' = [stream EXCEPT ![c] = IF @ = "failed" /\ Len(buffer[c]) = 1 THEN "closed" ELSE @]
        /\ UNCHANGED told
     \/ /\ ~Has(c) /\ stream[c] = "open"
        /\ stream' = [stream EXCEPT ![c] = "asking"]
        /\ UNCHANGED <<told, buffer, items>>
     \/ /\ ~Has(c) /\ stream[c] # "open"
        /\ told' = [told EXCEPT ![c] = IF stream[c] = "failed" THEN "error" ELSE "end"]
        /\ UNCHANGED <<stream, buffer, items>>
  /\ UNCHANGED <<keepAlive, aborted, task, thread, arrived, calls, missed, unread>>

-----------------------------------------------------------------------------
(* The worker: handleCallRequest(), which sends all that a generator yields. *)

Post(msg) == /\ worker = "running"
             /\ posted' = Append(posted, msg)
             /\ UNCHANGED <<keepAlive, aborted, task, arrived, calls, told, loops>>

WorkYield == /\ yielded < MaxYields
             /\ Post("yield")
             /\ yielded' = yielded + 1 /\ UNCHANGED worker

WorkEnd == /\ \E msg \in {"return", "error"} : Post(msg)
           /\ worker' = "done" /\ UNCHANGED yielded

Hear == HearYield \/ HearEnd

LoopNext == \E c \in Calls : Recv(c)

Next == Hear \/ Abort \/ Terminated \/ Die \/ Result \/ Iterate \/ LoopNext \/ WorkYield \/ WorkEnd

\* The function ends, messages and the promises of terminate() come, and the bodies
\* of loops end.
Fairness == /\ WF_vars(Hear) /\ WF_vars(Terminated) /\ WF_vars(WorkEnd)
            /\ \A c \in Calls : WF_vars(Recv(c))

Spec == Init /\ [][Next]_vars /\ Fairness

-----------------------------------------------------------------------------
TypeOK ==
  /\ keepAlive \in BOOLEAN /\ aborted \in BOOLEAN
  /\ promise \in Calls \cup {None} /\ channel \in Calls \cup {None}
  /\ error \in BOOLEAN /\ result \in BOOLEAN
  /\ closing \subseteq {"abort", "end"} /\ listening \in BOOLEAN
  /\ worker \in {"running", "done", "gone"}
  /\ yielded \in 0 .. MaxYields /\ arrived \in 0 .. MaxYields
  /\ posted \in Seq({"yield", "return", "error"})
  /\ calls \in 0 .. MaxCalls /\ told \in [Calls -> {"nothing", "value", "error", "end"}]
  /\ buffer \in [Calls -> Seq(1 .. MaxYields)]
  /\ stream \in [Calls -> {"none", "open", "asking", "closed", "failed"}]
  /\ items \in [Calls -> Seq(1 .. MaxYields)]
  /\ missed \in [Calls -> 0 .. MaxYields] /\ unread \in [Calls -> Nat]

\* Nobody is told a value when another is told an error, however late an abort, the death
\* of the worker or its last message comes.  When the task fails and result() was not
\* called, its loop is told the error if it had taken all that had arrived by then, and
\* that it has ended if it had not (chan.ts:94 finishes the channel with its last datum):
\* run.ts:102 says that iterate() will throw.
OneOutcome == \A c, d \in Calls :
  told[c] = "error" => /\ told[d] # "value"
                       /\ told[d] = "end" => promise # None \/ unread[d] # 0
                       /\ stream[c] # "none" => unread[c] = 0

\* A loop is given what is yielded since it began, once and in order, and is only told how
\* the task ended when nothing is left in its channel, that it has ended after all that was
\* yielded.  Unless the task has failed.
LoopComplete == \A c \in Calls :
  /\ \A i \in DOMAIN items[c] : items[c][i] = missed[c] + i
  /\ told[c] # "nothing" => buffer[c] = << >>
  /\ told[c] = "end" /\ ~error => missed[c] + Len(items[c]) = yielded

\* The last to call result() and the last to call iterate() are told how the task ends,
\* if it has not failed before.
EverybodyTold == \A c \in Calls :
  /\ promise = c ~> told[c] # "nothing" \/ promise # c
  /\ channel = c /\ ~error ~> told[c] # "nothing" \/ channel # c
================================================================================
