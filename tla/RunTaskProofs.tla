----------------------------- MODULE RunTaskProofs -----------------------------
(* Theorems about RunTask.                                                     *)
EXTENDS RunTask, TLAPS

Messages == {"yield", "return", "error"}

\* The worker posts one end, after everything else.
EndLast == \A i \in 1 .. Len(posted) : posted[i] # "yield" => i = Len(posted) /\ worker # "running"

\* The data on their way: all that is posted but the end.
OnTheWay == IF posted # << >> /\ posted[Len(posted)] # "yield" THEN Len(posted) - 1 ELSE Len(posted)

\* Nothing that was yielded arrives twice, and nothing is lost unless the task fails.
DataCounted ==
  /\ arrived + OnTheWay <= yielded
  /\ ~error => arrived + OnTheWay = yielded

\* Once the end was heard nothing more can come, and an abort that waits for
\* terminate() has set the error.
EndHeard ==
  /\ result \/ "end" \in closing \/ ~listening => worker # "running" /\ posted = << >>
  /\ "end" \in closing => result \/ error
  /\ "abort" \in closing => error

\* Whoever was told is told what the variables of run() say, and these stay so; a channel is
\* closed without the error when there is none, for result(), or by its last datum.
ToldAsKnown == \A c \in Calls :
  /\ told[c] = "value" => result /\ ~error
  /\ told[c] = "error" => error /\ unread[c] = 0
  /\ told[c] = "end" => stream[c] = "closed"
  /\ stream[c] = "closed" /\ told[c] # "error" => promise # None \/ unread[c] # 0 \/ ~error
  /\ stream[c] = "closed" /\ ~error => result

\* What the state of a loop's channel says of its data, and of what the loop was told.
StreamKnown == \A c \in Calls :
  /\ stream[c] \in {"none", "open", "asking"} => unread[c] = 0
  /\ stream[c] \in {"open", "asking"} => told[c] = "nothing"
  /\ stream[c] = "asking" => buffer[c] = << >>
  /\ stream[c] = "none" => items[c] = << >> /\ buffer[c] = << >>
  /\ stream[c] = "failed" => error /\ (buffer[c] = << >> <=> unread[c] = 0)
  /\ c = promise => stream[c] = "none"
  /\ told[c] # "nothing" => buffer[c] = << >>

\* The calls that were made.
CallsMade ==
  /\ promise <= calls /\ channel <= calls
  /\ \A c \in Calls : c > calls => told[c] = "nothing" /\ stream[c] = "none"

\* What a loop was given and what is left in its channel follow each other, up to what has
\* arrived, or to the end.
ItemsInOrder == \A c \in Calls :
  /\ \A i \in 1 .. Len(items[c]) : items[c][i] = missed[c] + i
  /\ \A i \in 1 .. Len(buffer[c]) : buffer[c][i] = missed[c] + Len(items[c]) + i
  /\ c = channel /\ stream[c] \in {"open", "asking"} => missed[c] + Len(items[c]) + Len(buffer[c]) = arrived
  /\ stream[c] = "closed" /\ ~error => missed[c] + Len(items[c]) + Len(buffer[c]) = yielded

LoopInv == ToldAsKnown /\ StreamKnown /\ CallsMade /\ ItemsInOrder

RunTaskInv == TypeOK /\ EndLast /\ DataCounted /\ EndHeard /\ LoopInv

-----------------------------------------------------------------------------
LEMMA Bounds ==
  /\ MaxCalls \in Nat /\ MaxYields \in Nat /\ None = 0
  /\ \A c \in Calls : c \in Nat /\ c # None
BY RunTaskAssumption DEF Calls, None

LEMMA PostedType == TypeOK => posted \in Seq(Messages) /\ Len(posted) \in Nat
BY DEF TypeOK, Messages

\* The types of one call's loop.
LEMMA LoopType ==
  ASSUME TypeOK, NEW c \in Calls
  PROVE  /\ items[c] \in Seq(1 .. MaxYields) /\ Len(items[c]) \in Nat
         /\ buffer[c] \in Seq(1 .. MaxYields) /\ Len(buffer[c]) \in Nat
         /\ missed[c] \in 0 .. MaxYields /\ missed[c] \in Nat /\ unread[c] \in Nat
         /\ stream[c] \in {"none", "open", "asking", "closed", "failed"}
         /\ told[c] \in {"nothing", "value", "error", "end"}
BY Bounds DEF TypeOK

\* A sequence without its first element.
LEMMA Taking ==
  ASSUME NEW S, NEW b \in Seq(S), b # << >>
  PROVE  /\ Head(b) \in S /\ Head(b) = b[1] /\ Tail(b) \in Seq(S)
         /\ Len(b) >= 1 /\ Len(Tail(b)) = Len(b) - 1
         /\ \A i \in 1 .. Len(Tail(b)) : Tail(b)[i] = b[i + 1]
<1>1. Len(b) \in Nat /\ Len(b) >= 1
  OBVIOUS
<1>2. Head(b) = b[1] /\ b[1] \in S
  BY <1>1
<1>3. Tail(b) \in Seq(S) /\ Len(Tail(b)) = Len(b) - 1
  BY <1>1
<1>4. \A i \in 1 .. Len(Tail(b)) : Tail(b)[i] = b[i + 1]
  BY <1>1, <1>3
<1> QED
  BY <1>1, <1>2, <1>3, <1>4

\* The sums of ItemsInOrder.
LEMMA Sums ==
  ASSUME NEW m \in Nat, NEW n \in Nat, NEW k \in Nat
  PROVE  /\ m + n + (k + 1) = (m + n + k) + 1 /\ m + (n + 1) + k = (m + n + k) + 1
         /\ m + (n + 1) = (m + n) + 1 /\ m + n + 0 = m + n
OBVIOUS

\* Taking the first message off.
LEMMA Hearing ==
  ASSUME TypeOK, EndLast, NEW msg, Heard(msg), UNCHANGED worker
  PROVE  /\ posted' \in Seq(Messages) /\ EndLast'
         /\ msg = "yield" => OnTheWay' = OnTheWay - 1 /\ OnTheWay \in Nat
         /\ msg # "yield" => posted' = << >> /\ OnTheWay = 0 /\ worker # "running"
         /\ OnTheWay' \in Nat
<1>1. /\ posted \in Seq(Messages) /\ Len(posted) \in Nat /\ Len(posted) >= 1
      /\ posted[1] = msg /\ posted' = Tail(posted)
  BY PostedType DEF Heard
<1>2. /\ posted' \in Seq(Messages) /\ Len(posted') = Len(posted) - 1 /\ Len(posted') \in Nat
      /\ \A i \in 1 .. Len(posted') : posted'[i] = posted[i + 1]
  BY <1>1
<1>3. EndLast'
  <2> SUFFICES ASSUME NEW i \in 1 .. Len(posted'), posted'[i] # "yield"
               PROVE  i = Len(posted') /\ worker' # "running"
    BY DEF EndLast
  <2>1. i + 1 \in 1 .. Len(posted) /\ posted[i + 1] # "yield"
    BY <1>1, <1>2
  <2>2. i + 1 = Len(posted) /\ worker # "running"
    BY <2>1 DEF EndLast
  <2>3. i \in Nat /\ i = Len(posted')
    BY <1>2, <2>2
  <2> QED
    BY <2>2, <2>3
<1>4. msg # "yield" => Len(posted) = 1 /\ worker # "running"
  <2>1. 1 \in 1 .. Len(posted)
    BY <1>1
  <2> QED
    BY <1>1, <2>1 DEF EndLast
<1>5. msg # "yield" => posted' = << >> /\ OnTheWay = 0
  BY <1>1, <1>2, <1>4 DEF OnTheWay
<1>6. msg = "yield" => OnTheWay' = OnTheWay - 1 /\ OnTheWay \in Nat
  <2>1. CASE Len(posted) = 1
    BY <1>1, <1>2, <2>1 DEF OnTheWay
  <2>2. CASE Len(posted) # 1
    <3>1. Len(posted') \in 1 .. Len(posted') /\ posted' # << >> /\ Len(posted') + 1 = Len(posted)
      <4>1. Len(posted) \in Nat /\ Len(posted') \in Nat /\ Len(posted) >= 1 /\ Len(posted') = Len(posted) - 1
        BY <1>1, <1>2
      <4> QED
        BY <4>1, <2>2
    <3>2. posted'[Len(posted')] = posted[Len(posted)]
      BY <1>2, <3>1
    <3> QED
      BY <1>1, <1>2, <2>2, <3>1, <3>2 DEF OnTheWay
  <2> QED
    BY <2>1, <2>2
<1>7. OnTheWay' \in Nat
  BY <1>2 DEF OnTheWay
<1> QED
  BY <1>2, <1>3, <1>4, <1>5, <1>6, <1>7

\* What handleClose() does to one call: nothing, or it settles the promise, or closes the
\* channel of a loop that waits, or of one that is busy.
LEMMA Telling ==
  ASSUME TypeOK, StreamKnown, NEW failed \in BOOLEAN, TellOutcome(failed), NEW c \in Calls
  PROVE  \/ /\ told'[c] = told[c] /\ stream'[c] = stream[c] /\ unread'[c] = unread[c]
            /\ c = channel => stream[c] \notin {"open", "asking"}
         \/ /\ c = promise /\ told[c] = "nothing" /\ stream[c] = "none"
            /\ told'[c] = (IF failed THEN "error" ELSE "value")
            /\ stream'[c] = stream[c] /\ unread'[c] = unread[c]
         \/ /\ c = channel /\ told[c] = "nothing" /\ stream[c] = "asking"
            /\ told'[c] = (IF WithError(failed) THEN "error" ELSE "end")
            /\ stream'[c] = "closed" /\ unread'[c] = Len(buffer[c])
         \/ /\ c = channel /\ told[c] = "nothing" /\ stream[c] = "open" /\ told'[c] = told[c]
            /\ stream'[c] = (IF WithError(failed) THEN "failed" ELSE "closed")
            /\ unread'[c] = Len(buffer[c])
<1>1. CASE c = promise
  <2>1. stream[c] = "none"
    BY <1>1 DEF StreamKnown
  <2> QED
    BY <1>1, <2>1 DEF TellOutcome, Concerned
<1>2. CASE c # promise /\ c = channel /\ stream[c] \in {"open", "asking"}
  <2>1. told[c] = "nothing"
    BY <1>2 DEF StreamKnown
  <2> QED
    BY <1>2, <2>1 DEF TellOutcome, Concerned
<1>3. CASE c # promise /\ ~(c = channel /\ stream[c] \in {"open", "asking"})
  BY <1>3 DEF TellOutcome, Concerned
<1> QED
  BY <1>1, <1>2, <1>3

LEMMA TellingType ==
  ASSUME TypeOK, StreamKnown, NEW failed \in BOOLEAN, TellOutcome(failed)
  PROVE  /\ told' \in [Calls -> {"nothing", "value", "error", "end"}]
         /\ stream' \in [Calls -> {"none", "open", "asking", "closed", "failed"}]
         /\ unread' \in [Calls -> Nat]
<1>1. ASSUME NEW c \in Calls
      PROVE  /\ told'[c] \in {"nothing", "value", "error", "end"}
             /\ stream'[c] \in {"none", "open", "asking", "closed", "failed"}
             /\ unread'[c] \in Nat
  BY Telling, LoopType
<1> QED
  BY <1>1 DEF TellOutcome

\* A step in which handleClose() tells the outcome, of a task of which nothing
\* is on its way any more, or that has failed.
LEMMA TellingInOrder ==
  ASSUME RunTaskInv, NEW failed \in BOOLEAN, TellOutcome(failed), failed = error',
         error => error', result => result',
         error' \/ (result' /\ arrived' = yielded' /\ arrived' = arrived),
         result /\ ~error => ~error',
         UNCHANGED <<promise, channel, calls, buffer, items, missed>>,
         ~error => yielded' = yielded
  PROVE  LoopInv'
<1>1. TypeOK /\ ToldAsKnown /\ StreamKnown /\ CallsMade /\ ItemsInOrder
  BY DEF RunTaskInv, LoopInv
<1>2. WithError(failed) <=> error' /\ promise = None
  BY DEF WithError
<1>3. ToldAsKnown'
  <2> SUFFICES ASSUME NEW c \in Calls
               PROVE  /\ told'[c] = "value" => result' /\ ~error'
                      /\ told'[c] = "error" => error' /\ unread'[c] = 0
                      /\ told'[c] = "end" => stream'[c] = "closed"
                      /\ stream'[c] = "closed" /\ told'[c] # "error"
                           => promise # None \/ unread'[c] # 0 \/ ~error'
                      /\ stream'[c] = "closed" /\ ~error' => result'
    BY DEF ToldAsKnown
  <2>1. /\ told[c] = "value" => result /\ ~error
        /\ told[c] = "error" => error /\ unread[c] = 0
        /\ told[c] = "end" => stream[c] = "closed"
        /\ stream[c] = "closed" /\ told[c] # "error" => promise # None \/ unread[c] # 0 \/ ~error
        /\ stream[c] = "closed" /\ ~error => result
    BY <1>1 DEF ToldAsKnown
  <2>2. /\ stream[c] \in {"none", "open", "asking"} => unread[c] = 0
        /\ stream[c] = "asking" => buffer[c] = << >>
        /\ Len(buffer[c]) \in Nat /\ Len(<< >>) = 0
    BY <1>1, LoopType DEF StreamKnown
  <2> QED
    BY <1>1, <1>2, <2>1, <2>2, Telling
<1>4. StreamKnown'
  <2> SUFFICES ASSUME NEW c \in Calls
               PROVE  /\ stream'[c] \in {"none", "open", "asking"} => unread'[c] = 0
                      /\ stream'[c] \in {"open", "asking"} => told'[c] = "nothing"
                      /\ stream'[c] = "asking" => buffer[c] = << >>
                      /\ stream'[c] = "none" => items[c] = << >> /\ buffer[c] = << >>
                      /\ stream'[c] = "failed" => error' /\ (buffer[c] = << >> <=> unread'[c] = 0)
                      /\ c = promise => stream'[c] = "none"
                      /\ told'[c] # "nothing" => buffer[c] = << >>
    BY DEF StreamKnown
  <2>1. /\ stream[c] \in {"none", "open", "asking"} => unread[c] = 0
        /\ stream[c] \in {"open", "asking"} => told[c] = "nothing"
        /\ stream[c] = "asking" => buffer[c] = << >>
        /\ stream[c] = "none" => items[c] = << >> /\ buffer[c] = << >>
        /\ stream[c] = "failed" => error /\ (buffer[c] = << >> <=> unread[c] = 0)
        /\ c = promise => stream[c] = "none"
        /\ told[c] # "nothing" => buffer[c] = << >>
    BY <1>1 DEF StreamKnown
  <2>2. buffer[c] = << >> <=> Len(buffer[c]) = 0
    <3>1. buffer[c] \in Seq(1 .. MaxYields)
      BY <1>1, LoopType
    <3> QED
      BY <3>1
  <2> QED
    BY <1>1, <1>2, <2>1, <2>2, Telling
<1>5. CallsMade'
  <2>1. calls \in Nat /\ promise \in Nat /\ channel \in Nat
    BY <1>1, Bounds DEF TypeOK
  <2>2. \A c \in Calls : c > calls => c \notin {promise, channel} /\ told[c] = "nothing" /\ stream[c] = "none"
    BY <1>1, <2>1, Bounds DEF CallsMade
  <2>3. \A c \in Calls : c > calls => told'[c] = "nothing" /\ stream'[c] = "none"
    BY <1>1, <2>2, Telling
  <2> QED
    BY <1>1, <2>3 DEF CallsMade
<1>6. ItemsInOrder'
  <2> SUFFICES ASSUME NEW c \in Calls
               PROVE  /\ c = channel /\ stream'[c] \in {"open", "asking"}
                           => missed[c] + Len(items[c]) + Len(buffer[c]) = arrived'
                      /\ stream'[c] = "closed" /\ ~error'
                           => missed[c] + Len(items[c]) + Len(buffer[c]) = yielded'
    BY <1>1 DEF ItemsInOrder
  <2>1. /\ c = channel /\ stream[c] \in {"open", "asking"}
             => missed[c] + Len(items[c]) + Len(buffer[c]) = arrived
        /\ stream[c] = "closed" /\ ~error => missed[c] + Len(items[c]) + Len(buffer[c]) = yielded
    BY <1>1 DEF ItemsInOrder
  <2> QED
    BY <1>1, <1>2, <2>1, Telling
<1> QED
  BY <1>3, <1>4, <1>5, <1>6 DEF LoopInv

-----------------------------------------------------------------------------
LEMMA InitInv == Init => RunTaskInv
<1> SUFFICES ASSUME Init PROVE RunTaskInv
  OBVIOUS
<1>1. TypeOK
  <2>1. << >> \in Seq(Messages) /\ << >> \in Seq(1 .. MaxYields)
    OBVIOUS
  <2> QED
    <3>1. /\ told \in [Calls -> {"nothing", "value", "error", "end"}]
          /\ items \in [Calls -> Seq(1 .. MaxYields)] /\ missed \in [Calls -> 0 .. MaxYields]
          /\ buffer \in [Calls -> Seq(1 .. MaxYields)] /\ unread \in [Calls -> Nat]
          /\ stream \in [Calls -> {"none", "open", "asking", "closed", "failed"}]
      BY <2>1, Bounds DEF Init
    <3>2. /\ yielded \in 0 .. MaxYields /\ arrived \in 0 .. MaxYields /\ calls \in 0 .. MaxCalls
      BY Bounds DEF Init
    <3>3. /\ keepAlive \in BOOLEAN /\ aborted \in BOOLEAN /\ error \in BOOLEAN /\ result \in BOOLEAN
          /\ listening \in BOOLEAN
      BY DEF Init
    <3>4. /\ promise \in Calls \cup {None} /\ channel \in Calls \cup {None}
          /\ closing \subseteq {"abort", "end"} /\ worker \in {"running", "done", "gone"}
          /\ posted \in Seq({"yield", "return", "error"})
      BY <2>1 DEF Init, Messages
    <3> QED
      BY <3>1, <3>2, <3>3, <3>4 DEF TypeOK
<1>2. EndLast /\ DataCounted
  BY DEF Init, EndLast, DataCounted, OnTheWay
<1>3. EndHeard /\ LoopInv
  BY Bounds DEF Init, EndHeard, LoopInv, ToldAsKnown, StreamKnown, CallsMade, ItemsInOrder
<1> QED
  BY <1>1, <1>2, <1>3 DEF RunTaskInv

LEMMA HearYieldInv == ASSUME RunTaskInv, HearYield PROVE RunTaskInv'
<1>1. /\ TypeOK /\ EndLast /\ posted # << >> /\ listening
      /\ arrived' = arrived + 1 /\ arrived \in Nat /\ yielded \in Nat
      /\ UNCHANGED <<keepAlive, aborted, worker, yielded, calls, told, missed, unread>>
      /\ UNCHANGED <<promise, channel, error, result, closing, listening>>
  BY Bounds DEF RunTaskInv, HearYield, Heard, TypeOK, task
<1>2. /\ posted' \in Seq(Messages) /\ EndLast' /\ OnTheWay' = OnTheWay - 1
      /\ OnTheWay \in Nat /\ OnTheWay' \in Nat
  BY <1>1, Hearing DEF HearYield
<1>3. arrived' \in 1 .. yielded /\ DataCounted'
  BY <1>1, <1>2 DEF RunTaskInv, DataCounted
<1>4. arrived' \in 1 .. MaxYields
  BY <1>1, <1>3, Bounds DEF TypeOK
<1>5. ASSUME NEW c \in Calls
      PROVE  \/ items'[c] = items[c] /\ buffer'[c] = buffer[c] /\ stream'[c] = stream[c]
                /\ ~(c = channel /\ stream[c] \in {"open", "asking"})
             \/ /\ c = channel /\ stream[c] = "asking" /\ stream'[c] = "open"
                /\ items'[c] = Append(items[c], arrived') /\ buffer'[c] = buffer[c]
             \/ /\ c = channel /\ stream[c] = "open" /\ stream'[c] = "open"
                /\ items'[c] = items[c] /\ buffer'[c] = Append(buffer[c], arrived')
  <2>1. Send /\ TypeOK /\ (channel # None => channel \in Calls)
    BY <1>1 DEF HearYield, TypeOK
  <2>2. CASE channel # None /\ stream[channel] = "asking"
    <3>1. /\ items' = [items EXCEPT ![channel] = Append(items[channel], arrived')]
          /\ stream' = [stream EXCEPT ![channel] = "open"] /\ buffer' = buffer
      BY <2>1, <2>2 DEF Send
    <3> QED
      BY <2>1, <2>2, <3>1 DEF TypeOK
  <2>3. CASE channel # None /\ stream[channel] = "open"
    <3>1. /\ buffer' = [buffer EXCEPT ![channel] = Append(buffer[channel], arrived')]
          /\ stream' = stream /\ items' = items
      BY <2>1, <2>3 DEF Send
    <3> QED
      BY <2>1, <2>3, <3>1 DEF TypeOK
  <2>4. CASE ~(channel # None /\ stream[channel] \in {"open", "asking"})
    <3>1. buffer' = buffer /\ stream' = stream /\ items' = items
      BY <2>1, <2>4 DEF Send
    <3> QED
      BY <2>1, <2>4, <3>1, Bounds DEF TypeOK
  <2> QED
    BY <2>2, <2>3, <2>4
<1>6. /\ items' \in [Calls -> Seq(1 .. MaxYields)] /\ buffer' \in [Calls -> Seq(1 .. MaxYields)]
      /\ stream' \in [Calls -> {"none", "open", "asking", "closed", "failed"}]
  <2>1. ASSUME NEW c \in Calls
        PROVE  /\ items'[c] \in Seq(1 .. MaxYields) /\ buffer'[c] \in Seq(1 .. MaxYields)
               /\ stream'[c] \in {"none", "open", "asking", "closed", "failed"}
    <3>1. Append(items[c], arrived') \in Seq(1 .. MaxYields) /\ Append(buffer[c], arrived') \in Seq(1 .. MaxYields)
      BY <1>1, <1>4, LoopType
    <3> QED
      BY <1>1, <1>5, <3>1, LoopType
  <2>2. /\ items' = [c \in Calls |-> items'[c]] /\ buffer' = [c \in Calls |-> buffer'[c]]
        /\ stream' = [c \in Calls |-> stream'[c]]
    BY <1>1 DEF HearYield, Send, TypeOK
  <2> QED
    BY <2>1, <2>2
<1>7. TypeOK'
  BY <1>1, <1>2, <1>4, <1>6 DEF TypeOK, Messages
<1>8. EndHeard'
  BY <1>1 DEF RunTaskInv, EndHeard
<1>9. ToldAsKnown'
  BY <1>1, <1>5 DEF RunTaskInv, LoopInv, ToldAsKnown
<1>10. StreamKnown'
  BY <1>1, <1>5 DEF RunTaskInv, LoopInv, StreamKnown
<1>11. CallsMade'
  BY <1>1, <1>5 DEF RunTaskInv, LoopInv, CallsMade
<1>12. ItemsInOrder'
  <2> SUFFICES ASSUME NEW c \in Calls
               PROVE  /\ \A i \in 1 .. Len(items'[c]) : items'[c][i] = missed[c] + i
                      /\ \A i \in 1 .. Len(buffer'[c]) : buffer'[c][i] = missed[c] + Len(items'[c]) + i
                      /\ c = channel /\ stream'[c] \in {"open", "asking"}
                           => missed[c] + Len(items'[c]) + Len(buffer'[c]) = arrived'
                      /\ stream'[c] = "closed" /\ ~error
                           => missed[c] + Len(items'[c]) + Len(buffer'[c]) = yielded
    BY <1>1 DEF ItemsInOrder
  <2>1. /\ items[c] \in Seq(1 .. MaxYields) /\ buffer[c] \in Seq(1 .. MaxYields)
        /\ Len(items[c]) \in Nat /\ Len(buffer[c]) \in Nat /\ missed[c] \in Nat
    BY <1>1, LoopType
  <2>2. /\ \A i \in 1 .. Len(items[c]) : items[c][i] = missed[c] + i
        /\ \A i \in 1 .. Len(buffer[c]) : buffer[c][i] = missed[c] + Len(items[c]) + i
        /\ c = channel /\ stream[c] \in {"open", "asking"}
             => missed[c] + Len(items[c]) + Len(buffer[c]) = arrived
        /\ stream[c] = "closed" /\ ~error => missed[c] + Len(items[c]) + Len(buffer[c]) = yielded
    BY DEF RunTaskInv, LoopInv, ItemsInOrder
  <2>3. CASE /\ items'[c] = items[c] /\ buffer'[c] = buffer[c] /\ stream'[c] = stream[c]
             /\ ~(c = channel /\ stream[c] \in {"open", "asking"})
    BY <2>2, <2>3
  <2>4. CASE /\ c = channel /\ stream[c] = "asking" /\ stream'[c] = "open"
             /\ items'[c] = Append(items[c], arrived') /\ buffer'[c] = buffer[c]
    <3>1. buffer[c] = << >> /\ Len(buffer[c]) = 0
      BY <2>4 DEF RunTaskInv, LoopInv, StreamKnown
    <3>2. missed[c] + Len(items[c]) = arrived
      BY <2>1, <2>2, <2>4, <3>1, Sums
    <3>3. /\ Len(items'[c]) = Len(items[c]) + 1 /\ items'[c][Len(items[c]) + 1] = arrived'
          /\ \A i \in 1 .. Len(items[c]) : items'[c][i] = items[c][i]
      BY <1>4, <2>1, <2>4
    <3>4. missed[c] + (Len(items[c]) + 1) = arrived'
      BY <1>1, <2>1, <3>2, Sums
    <3>5. ASSUME NEW i \in 1 .. Len(items'[c]) PROVE items'[c][i] = missed[c] + i
      <4>1. i = Len(items[c]) + 1 \/ i \in 1 .. Len(items[c])
        BY <2>1, <3>3
      <4> QED
        BY <2>2, <3>3, <3>4, <4>1
    <3>6. missed[c] + Len(items'[c]) + Len(buffer'[c]) = arrived'
      <4>1. Len(items'[c]) \in Nat
        BY <2>1, <3>3
      <4> QED
        BY <2>1, <2>4, <3>1, <3>3, <3>4, <4>1, Sums
    <3> QED
      BY <2>4, <3>1, <3>5, <3>6
  <2>5. CASE /\ c = channel /\ stream[c] = "open" /\ stream'[c] = "open"
             /\ items'[c] = items[c] /\ buffer'[c] = Append(buffer[c], arrived')
    <3>1. /\ Len(buffer'[c]) = Len(buffer[c]) + 1 /\ buffer'[c][Len(buffer[c]) + 1] = arrived'
          /\ \A i \in 1 .. Len(buffer[c]) : buffer'[c][i] = buffer[c][i]
      BY <1>4, <2>1, <2>5
    <3>2. missed[c] + Len(items[c]) + (Len(buffer[c]) + 1) = arrived'
      <4>1. missed[c] + Len(items[c]) + Len(buffer[c]) = arrived /\ arrived' = arrived + 1
        BY <1>1, <2>2, <2>5
      <4>2. missed[c] + Len(items[c]) + (Len(buffer[c]) + 1) = (missed[c] + Len(items[c]) + Len(buffer[c])) + 1
        BY <2>1, Sums
      <4> QED
        BY <4>1, <4>2
    <3>3. ASSUME NEW i \in 1 .. Len(buffer'[c]) PROVE buffer'[c][i] = missed[c] + Len(items[c]) + i
      <4>1. i = Len(buffer[c]) + 1 \/ i \in 1 .. Len(buffer[c])
        BY <2>1, <3>1
      <4> QED
        BY <2>2, <3>1, <3>2, <4>1
    <3> QED
      BY <2>2, <2>5, <3>1, <3>2, <3>3
  <2> QED
    BY <1>5, <2>3, <2>4, <2>5
<1> QED
  BY <1>2, <1>3, <1>7, <1>8, <1>9, <1>10, <1>11, <1>12 DEF RunTaskInv, LoopInv

LEMMA HearEndInv == ASSUME RunTaskInv, HearEnd PROVE RunTaskInv'
<1>1. /\ TypeOK /\ EndLast /\ listening /\ posted # << >>
      /\ UNCHANGED <<keepAlive, aborted, promise, channel, worker, yielded, arrived, calls, buffer, items, missed>>
      /\ \/ error' = error /\ result' = TRUE
         \/ error' = TRUE /\ result' = result
  BY DEF RunTaskInv, HearEnd, Heard
<1>2. /\ error => error'
      /\ result => result'
      /\ error' \in BOOLEAN /\ result' \in BOOLEAN
      /\ result' \/ error'
  BY <1>1 DEF TypeOK
<1>3. PICK msg \in {"return", "error"} : /\ Heard(msg)
                                         /\ msg = "error" => error'
                                         /\ msg = "return" => error' = error /\ result'
  BY DEF HearEnd
<1>4. /\ posted' = << >> /\ OnTheWay = 0 /\ worker # "running" /\ OnTheWay' = 0
      /\ posted' \in Seq(Messages) /\ EndLast'
  BY <1>1, <1>2, <1>3, Hearing DEF OnTheWay
<1>5. ~result /\ "end" \notin closing
  BY <1>1, <1>2 DEF RunTaskInv, EndHeard
<1>6. DataCounted' /\ (~error' => arrived' = yielded')
  <2>1. arrived \in Nat /\ yielded \in Nat
    BY <1>1, <1>2, Bounds DEF TypeOK
  <2> QED
    BY <1>1, <1>2, <1>4, <2>1 DEF RunTaskInv, DataCounted
<1>7. CASE keepAlive
  <2>1. listening' = FALSE /\ TellOutcome(error') /\ UNCHANGED closing
    BY <1>7 DEF HearEnd
  <2>2. PICK failed \in BOOLEAN : failed = error'
    BY <1>1, <1>2
  <2>3. TellOutcome(failed)
    BY <2>1, <2>2 DEF TellOutcome
  <2>4. TypeOK'
    <3>1. /\ told' \in [Calls -> {"nothing", "value", "error", "end"}]
          /\ stream' \in [Calls -> {"none", "open", "asking", "closed", "failed"}]
          /\ unread' \in [Calls -> Nat]
      BY <1>1, <2>3, TellingType DEF RunTaskInv, LoopInv
    <3> QED
      BY <1>1, <1>2, <1>4, <2>1, <3>1 DEF TypeOK, Messages
  <2>5. LoopInv'
    BY <1>1, <1>2, <1>5, <1>6, <2>2, <2>3, TellingInOrder
  <2>6. EndHeard'
    BY <1>1, <1>2, <1>4, <2>1 DEF RunTaskInv, EndHeard
  <2> QED
    BY <1>4, <1>6, <2>4, <2>5, <2>6 DEF RunTaskInv
<1>8. CASE ~keepAlive
  <2>1. closing' = closing \cup {"end"} /\ UNCHANGED <<listening, told, stream, unread>>
    BY <1>8 DEF HearEnd
  <2>2. TypeOK'
    BY <1>1, <1>2, <1>4, <2>1 DEF TypeOK, Messages
  <2>3. EndHeard'
    BY <1>1, <1>2, <1>4, <2>1 DEF RunTaskInv, EndHeard
  <2>4. ToldAsKnown'
    BY <1>1, <1>2, <1>5, <2>1 DEF RunTaskInv, LoopInv, ToldAsKnown
  <2>5. StreamKnown' /\ CallsMade' /\ ItemsInOrder'
    BY <1>1, <1>2, <2>1 DEF RunTaskInv, LoopInv, StreamKnown, CallsMade, ItemsInOrder
  <2> QED
    BY <1>4, <1>6, <2>2, <2>3, <2>4, <2>5 DEF RunTaskInv, LoopInv
<1> QED
  BY <1>7, <1>8

LEMMA AbortInv == ASSUME RunTaskInv, Abort PROVE RunTaskInv'
<1>1. /\ UNCHANGED <<keepAlive, promise, channel, result, listening, worker, yielded, posted, arrived,
                     calls, told, buffer, stream, items, missed, unread>>
      /\ \/ UNCHANGED <<error, closing>>
         \/ error' = TRUE /\ closing' = closing \cup {"abort"} /\ ~result
      /\ aborted' = TRUE
  BY DEF Abort, Heeded, thread, loops
<1>2. TypeOK'
  BY <1>1 DEF RunTaskInv, TypeOK
<1>3. EndLast' /\ DataCounted' /\ EndHeard'
  BY <1>1 DEF RunTaskInv, EndLast, DataCounted, OnTheWay, EndHeard
<1>4. ToldAsKnown'
  BY <1>1 DEF RunTaskInv, LoopInv, ToldAsKnown
<1>5. StreamKnown' /\ CallsMade' /\ ItemsInOrder'
  BY <1>1 DEF RunTaskInv, LoopInv, StreamKnown, CallsMade, ItemsInOrder
<1> QED
  BY <1>2, <1>3, <1>4, <1>5 DEF RunTaskInv, LoopInv

\* handleClose() after terminate(), or by the error event.
LEMMA HandleCloseInv ==
  ASSUME RunTaskInv, NEW err \in BOOLEAN, HandleClose(err, TRUE),
         err \/ error \/ (result /\ posted = << >>),
         err => error \/ ~result,
         closing' \subseteq closing, worker' = "gone", posted' \in {posted, << >>},
         posted' = posted \/ err \/ error \/ posted = << >>,
         UNCHANGED <<keepAlive, aborted, yielded, arrived>>
  PROVE  RunTaskInv'
<1>1. /\ TypeOK /\ error' = (error \/ err) /\ result' = (result \/ ~error') /\ listening' = listening
      /\ TellOutcome(error') /\ UNCHANGED <<promise, channel, calls, buffer, items, missed>>
      /\ error' \in BOOLEAN /\ result' \in BOOLEAN
  BY DEF RunTaskInv, HandleClose, TypeOK
<1>2. error' \/ (~err /\ ~error /\ result /\ posted = << >> /\ posted' = << >>)
  BY <1>1
<1>3. PICK failed \in BOOLEAN : failed = error'
  BY <1>1
<1>4. TellOutcome(failed)
  BY <1>1, <1>3 DEF TellOutcome
<1>5. /\ told' \in [Calls -> {"nothing", "value", "error", "end"}]
      /\ stream' \in [Calls -> {"none", "open", "asking", "closed", "failed"}]
      /\ unread' \in [Calls -> Nat]
  BY <1>1, <1>4, TellingType DEF RunTaskInv, LoopInv
<1>6. << >> \in Seq(Messages)
  OBVIOUS
<1>7. TypeOK'
  BY <1>1, <1>5, <1>6 DEF TypeOK, Messages
<1>8. EndLast'
  BY DEF RunTaskInv, EndLast
<1>9. DataCounted' /\ (error' \/ arrived' = yielded')
  <2>1. arrived \in Nat /\ yielded \in Nat /\ OnTheWay \in Nat
    BY <1>1, PostedType, Bounds DEF TypeOK, OnTheWay
  <2>2. OnTheWay' = OnTheWay \/ OnTheWay' = 0
    BY DEF OnTheWay
  <2>3. posted = << >> => OnTheWay = 0 /\ OnTheWay' = 0
    BY DEF OnTheWay
  <2> QED
    BY <1>1, <1>2, <2>1, <2>2, <2>3 DEF RunTaskInv, DataCounted
<1>10. EndHeard'
  BY <1>1, <1>2 DEF RunTaskInv, EndHeard
<1>11. LoopInv'
  BY <1>1, <1>2, <1>3, <1>4, <1>9, TellingInOrder
<1> QED
  BY <1>7, <1>8, <1>9, <1>10, <1>11 DEF RunTaskInv

LEMMA TerminatedInv == ASSUME RunTaskInv, Terminated PROVE RunTaskInv'
<1>1. PICK reason \in closing : /\ closing' = closing \ {reason}
                                /\ HandleClose(reason = "abort", TRUE)
  BY DEF Terminated
<1>2. reason \in {"abort", "end"}
  BY DEF RunTaskInv, TypeOK
<1>3. /\ reason = "abort" => error
      /\ reason = "end" => (result \/ error) /\ posted = << >>
  BY DEF RunTaskInv, EndHeard
<1> QED
  BY <1>1, <1>2, <1>3, HandleCloseInv DEF Terminated

LEMMA DieInv == ASSUME RunTaskInv, Die PROVE RunTaskInv'
<1>1. /\ worker = "running" /\ worker' = "gone" /\ posted' = << >>
      /\ UNCHANGED <<keepAlive, aborted, yielded, arrived>>
  BY DEF Die
<1>2. CASE listening /\ ~error /\ ~result
  BY <1>1, <1>2, HandleCloseInv DEF Die
<1>3. CASE ~(listening /\ ~error /\ ~result)
  <2>1. /\ UNCHANGED <<promise, channel, error, result, closing, listening, calls, told, buffer, stream,
                       items, missed, unread>>
        /\ error
    BY <1>1, <1>3 DEF Die, task, loops, RunTaskInv, EndHeard
  <2>2. << >> \in Seq(Messages) /\ OnTheWay' = 0 /\ OnTheWay \in Nat /\ arrived \in Nat /\ yielded \in Nat
    BY <1>1, PostedType, Bounds DEF RunTaskInv, TypeOK, OnTheWay
  <2>3. TypeOK'
    BY <1>1, <2>1, <2>2 DEF RunTaskInv, TypeOK, Messages
  <2>4. EndLast' /\ DataCounted'
    BY <1>1, <2>1, <2>2 DEF RunTaskInv, EndLast, DataCounted
  <2>5. EndHeard'
    BY <1>1, <2>1 DEF RunTaskInv, EndHeard
  <2>6. LoopInv'
    BY <1>1, <2>1 DEF RunTaskInv, LoopInv, ToldAsKnown, StreamKnown, CallsMade, ItemsInOrder
  <2> QED
    BY <2>3, <2>4, <2>5, <2>6 DEF RunTaskInv
<1> QED
  BY <1>2, <1>3

LEMMA ResultInv == ASSUME RunTaskInv, Result PROVE RunTaskInv'
<1>1. /\ UNCHANGED <<keepAlive, aborted, channel, error, result, closing, listening, worker, yielded,
                     posted, arrived, buffer, stream, items, missed, unread>>
      /\ calls < MaxCalls /\ calls' = calls + 1
      /\ \/ /\ (error \/ result) /\ UNCHANGED promise
            /\ told' = [told EXCEPT ![calls'] = IF error THEN "error" ELSE "value"]
         \/ ~error /\ ~result /\ promise' = calls' /\ UNCHANGED told
  BY DEF Result, thread, loops
<1>2. calls \in Nat /\ calls' \in Calls /\ calls' > calls /\ channel \in Nat /\ promise \in Nat
  BY <1>1, Bounds DEF RunTaskInv, TypeOK, Calls
<1>3. TypeOK'
  <2>1. told' \in [Calls -> {"nothing", "value", "error", "end"}]
    BY <1>1 DEF RunTaskInv, TypeOK
  <2>2. promise' \in Calls \cup {None} /\ calls' \in 0 .. MaxCalls
    BY <1>1, <1>2 DEF RunTaskInv, TypeOK, Calls
  <2> QED
    BY <1>1, <2>1, <2>2 DEF RunTaskInv, TypeOK
<1>4. EndLast' /\ DataCounted' /\ EndHeard'
  BY <1>1 DEF RunTaskInv, EndLast, DataCounted, OnTheWay, EndHeard
<1>5. /\ told[calls'] = "nothing" /\ stream[calls'] = "none" /\ unread[calls'] = 0
      /\ buffer[calls'] = << >>
  BY <1>1, <1>2 DEF RunTaskInv, LoopInv, CallsMade, StreamKnown
<1>6. ASSUME NEW c \in Calls
      PROVE  \/ told'[c] = told[c]
             \/ /\ c = calls' /\ (error \/ result)
                /\ told'[c] = (IF error THEN "error" ELSE "value")
  BY <1>1 DEF RunTaskInv, TypeOK
<1>7. ToldAsKnown'
  BY <1>1, <1>2, <1>5, <1>6, Bounds DEF RunTaskInv, LoopInv, ToldAsKnown
<1>8. StreamKnown'
  BY <1>1, <1>2, <1>5, <1>6 DEF RunTaskInv, LoopInv, StreamKnown
<1>9. CallsMade'
  <2>1. promise' <= calls' /\ channel' <= calls'
    BY <1>1, <1>2 DEF RunTaskInv, LoopInv, CallsMade
  <2>2. ASSUME NEW c \in Calls, c > calls' PROVE told'[c] = "nothing" /\ stream'[c] = "none"
    <3>1. c > calls /\ c # calls'
      BY <1>1, <1>2, <2>2, Bounds
    <3> QED
      BY <1>1, <1>6, <3>1 DEF RunTaskInv, LoopInv, CallsMade
  <2> QED
    BY <2>1, <2>2 DEF CallsMade
<1>10. ItemsInOrder'
  BY <1>1 DEF RunTaskInv, LoopInv, ItemsInOrder
<1> QED
  BY <1>3, <1>4, <1>7, <1>8, <1>9, <1>10 DEF RunTaskInv, LoopInv

LEMMA IterateInv == ASSUME RunTaskInv, Iterate PROVE RunTaskInv'
<1>1. /\ UNCHANGED <<keepAlive, aborted, promise, error, result, closing, listening, worker, yielded,
                     posted, arrived, told, buffer, items, unread>>
      /\ calls < MaxCalls /\ calls' = calls + 1 /\ channel' = calls' /\ promise = None
      /\ stream' = [stream EXCEPT ![calls'] = "open"]
      /\ missed' = [missed EXCEPT ![calls'] = arrived]
  BY DEF Iterate, thread
<1>2. /\ calls \in Nat /\ calls' \in Calls /\ promise \in Nat /\ calls' > calls
      /\ arrived \in 0 .. MaxYields /\ arrived \in Nat
  BY <1>1, Bounds DEF RunTaskInv, TypeOK, Calls
<1>3. TypeOK'
  BY <1>1, <1>2, Bounds DEF RunTaskInv, TypeOK, Calls
<1>4. EndLast' /\ DataCounted' /\ EndHeard'
  BY <1>1 DEF RunTaskInv, EndLast, DataCounted, OnTheWay, EndHeard
<1>5. /\ told[calls'] = "nothing" /\ stream[calls'] = "none" /\ unread[calls'] = 0
      /\ items[calls'] = << >> /\ buffer[calls'] = << >>
  BY <1>2 DEF RunTaskInv, LoopInv, CallsMade, StreamKnown
<1>6. ASSUME NEW c \in Calls
      PROVE  \/ c # calls' /\ stream'[c] = stream[c] /\ missed'[c] = missed[c]
             \/ c = calls' /\ stream'[c] = "open" /\ missed'[c] = arrived
  BY <1>1 DEF RunTaskInv, TypeOK
<1>7. ToldAsKnown'
  BY <1>1, <1>5, <1>6 DEF RunTaskInv, LoopInv, ToldAsKnown
<1>8. StreamKnown'
  BY <1>1, <1>5, <1>6, Bounds DEF RunTaskInv, LoopInv, StreamKnown
<1>9. CallsMade'
  <2>1. promise' <= calls' /\ channel' <= calls'
    BY <1>1, <1>2, Bounds
  <2>2. ASSUME NEW c \in Calls, c > calls' PROVE told'[c] = "nothing" /\ stream'[c] = "none"
    <3>1. c > calls /\ c # calls'
      BY <1>1, <1>2, <2>2, Bounds
    <3> QED
      BY <1>1, <1>6, <3>1 DEF RunTaskInv, LoopInv, CallsMade
  <2> QED
    BY <2>1, <2>2 DEF CallsMade
<1>10. ItemsInOrder'
  <2> SUFFICES ASSUME NEW c \in Calls
               PROVE  /\ \A i \in 1 .. Len(items[c]) : items[c][i] = missed'[c] + i
                      /\ \A i \in 1 .. Len(buffer[c]) : buffer[c][i] = missed'[c] + Len(items[c]) + i
                      /\ c = calls' => missed'[c] + Len(items[c]) + Len(buffer[c]) = arrived
                      /\ stream'[c] = "closed" /\ ~error
                           => missed'[c] + Len(items[c]) + Len(buffer[c]) = yielded
    BY <1>1 DEF ItemsInOrder
  <2>1. CASE c = calls'
    BY <1>2, <1>5, <1>6, <2>1
  <2>2. CASE c # calls'
    BY <1>6, <2>2 DEF RunTaskInv, LoopInv, ItemsInOrder
  <2> QED
    BY <2>1, <2>2
<1> QED
  BY <1>3, <1>4, <1>7, <1>8, <1>9, <1>10 DEF RunTaskInv, LoopInv

\* recv() of a loop: it takes a datum, waits, or is told how the task ended.
LEMMA RecvInv == ASSUME RunTaskInv, NEW c \in Calls, Recv(c) PROVE RunTaskInv'
<1>1. /\ TypeOK /\ told[c] = "nothing" /\ stream[c] \in {"open", "closed", "failed"}
      /\ UNCHANGED <<keepAlive, aborted, promise, channel, error, result, closing, listening, worker,
                     yielded, posted, arrived, calls, missed, unread>>
  BY DEF RunTaskInv, Recv, task, thread
<1>2. /\ items[c] \in Seq(1 .. MaxYields) /\ buffer[c] \in Seq(1 .. MaxYields)
      /\ Len(items[c]) \in Nat /\ Len(buffer[c]) \in Nat /\ missed[c] \in Nat
  BY <1>1, LoopType
<1>3. \/ /\ buffer[c] # << >> /\ UNCHANGED told
         /\ items' = [items EXCEPT ![c] = Append(items[c], Head(buffer[c]))]
         /\ buffer' = [buffer EXCEPT ![c] = Tail(buffer[c])]
         /\ \E state \in {stream[c], "closed"} :
              /\ stream' = [stream EXCEPT ![c] = state]
              /\ state # stream[c] => stream[c] = "failed" /\ Len(buffer[c]) = 1
              /\ stream[c] = "failed" /\ Len(buffer[c]) = 1 => state = "closed"
      \/ /\ buffer[c] = << >> /\ stream[c] = "open" /\ UNCHANGED <<told, buffer, items>>
         /\ stream' = [stream EXCEPT ![c] = "asking"]
      \/ /\ buffer[c] = << >> /\ stream[c] # "open" /\ UNCHANGED <<stream, buffer, items>>
         /\ told' = [told EXCEPT ![c] = IF stream[c] = "failed" THEN "error" ELSE "end"]
  BY DEF Recv, Has
<1>4. EndLast' /\ DataCounted' /\ EndHeard'
  BY <1>1 DEF RunTaskInv, EndLast, DataCounted, OnTheWay, EndHeard
<1>5. ASSUME NEW d \in Calls, d # c
      PROVE  told'[d] = told[d] /\ stream'[d] = stream[d] /\ items'[d] = items[d] /\ buffer'[d] = buffer[d]
  BY <1>1, <1>3, <1>5 DEF TypeOK
<1>6. CASE buffer[c] # << >>
  <2>1. /\ UNCHANGED told
        /\ items' = [items EXCEPT ![c] = Append(items[c], Head(buffer[c]))]
        /\ buffer' = [buffer EXCEPT ![c] = Tail(buffer[c])]
    BY <1>3, <1>6
  <2>2. PICK state \in {stream[c], "closed"} :
          /\ stream' = [stream EXCEPT ![c] = state]
          /\ state # stream[c] => stream[c] = "failed" /\ Len(buffer[c]) = 1
          /\ stream[c] = "failed" /\ Len(buffer[c]) = 1 => state = "closed"
    BY <1>3, <1>6
  <2>3. /\ Head(buffer[c]) \in 1 .. MaxYields /\ Tail(buffer[c]) \in Seq(1 .. MaxYields)
        /\ Head(buffer[c]) = buffer[c][1] /\ Len(buffer[c]) >= 1
        /\ Len(Tail(buffer[c])) = Len(buffer[c]) - 1
        /\ \A i \in 1 .. Len(Tail(buffer[c])) : Tail(buffer[c])[i] = buffer[c][i + 1]
    BY <1>2, <1>6, Taking
  <2>4. /\ Append(items[c], Head(buffer[c])) \in Seq(1 .. MaxYields)
        /\ Len(Append(items[c], Head(buffer[c]))) = Len(items[c]) + 1
        /\ Append(items[c], Head(buffer[c]))[Len(items[c]) + 1] = Head(buffer[c])
        /\ \A i \in 1 .. Len(items[c]) : Append(items[c], Head(buffer[c]))[i] = items[c][i]
    BY <1>2, <2>3
  <2>5. TypeOK'
    BY <1>1, <2>1, <2>2, <2>3, <2>4 DEF TypeOK
  <2>6. /\ stream'[c] = state /\ items'[c] = Append(items[c], Head(buffer[c]))
        /\ buffer'[c] = Tail(buffer[c])
    BY <1>1, <2>1, <2>2 DEF TypeOK
  <2>7. state = stream[c] \/ (stream[c] = "failed" /\ state = "closed")
    BY <2>2
  <2>8. ToldAsKnown'
    <3>1. stream[c] = "failed" => error
      BY DEF RunTaskInv, LoopInv, StreamKnown
    <3>2. stream[c] = "failed" => unread[c] # 0
      BY <1>1, <1>6 DEF RunTaskInv, LoopInv, StreamKnown
    <3> QED
      BY <1>1, <1>5, <2>1, <2>6, <2>7, <3>1, <3>2 DEF RunTaskInv, LoopInv, ToldAsKnown
  <2>9. StreamKnown'
    <3>1. stream'[c] = "failed" => buffer'[c] # << >>
      <4> SUFFICES ASSUME state = "failed", Tail(buffer[c]) = << >> PROVE FALSE
        BY <2>6
      <4>1. Len(buffer[c]) - 1 = 0
        BY <2>3
      <4> QED
        BY <1>2, <2>2, <2>7, <4>1
    <3> QED
      BY <1>1, <1>5, <2>1, <2>6, <2>7, <3>1 DEF RunTaskInv, LoopInv, StreamKnown
  <2>10. CallsMade'
    BY <1>1, <1>5, <2>1, <2>6, <2>7 DEF RunTaskInv, LoopInv, CallsMade
  <2>11. ItemsInOrder'
    <3>1. /\ \A i \in 1 .. Len(items[c]) : items[c][i] = missed[c] + i
          /\ \A i \in 1 .. Len(buffer[c]) : buffer[c][i] = missed[c] + Len(items[c]) + i
      BY DEF RunTaskInv, LoopInv, ItemsInOrder
    <3>2. Len(items'[c]) = Len(items[c]) + 1 /\ Len(buffer'[c]) = Len(buffer[c]) - 1
      BY <2>3, <2>4, <2>6
    <3>3. missed[c] + Len(items'[c]) + Len(buffer'[c]) = missed[c] + Len(items[c]) + Len(buffer[c])
      <4>1. ASSUME NEW m \in Nat, NEW n \in Nat, NEW k \in Nat PROVE m + (n + 1) + (k - 1) = m + n + k
        OBVIOUS
      <4>2. missed[c] + (Len(items[c]) + 1) + (Len(buffer[c]) - 1) = missed[c] + Len(items[c]) + Len(buffer[c])
        BY <1>2, <4>1
      <4> QED
        BY <3>2, <4>2
    <3>4. ASSUME NEW i \in 1 .. Len(items'[c]) PROVE items'[c][i] = missed[c] + i
      <4>1. buffer[c][1] = missed[c] + Len(items[c]) + 1
        BY <1>2, <2>3, <3>1
      <4>2. CASE i = Len(items[c]) + 1
        BY <1>2, <2>3, <2>4, <2>6, <4>1, <4>2, Sums
      <4>3. CASE i # Len(items[c]) + 1
        <5>1. i \in 1 .. Len(items[c])
          BY <1>2, <3>2, <4>3
        <5> QED
          BY <2>4, <2>6, <3>1, <5>1
      <4> QED
        BY <4>2, <4>3
    <3>5. ASSUME NEW i \in 1 .. Len(buffer'[c]) PROVE buffer'[c][i] = missed[c] + Len(items'[c]) + i
      <4>1. i + 1 \in 1 .. Len(buffer[c]) /\ i \in Nat
        BY <1>2, <3>2
      <4>2. buffer'[c][i] = missed[c] + Len(items[c]) + (i + 1)
        BY <2>3, <2>6, <3>1, <4>1
      <4>3. ASSUME NEW m \in Nat, NEW n \in Nat, NEW k \in Nat PROVE m + n + (k + 1) = m + (n + 1) + k
        OBVIOUS
      <4>4. missed[c] + Len(items[c]) + (i + 1) = missed[c] + (Len(items[c]) + 1) + i
        BY <1>2, <4>1, <4>3
      <4> QED
        BY <3>2, <4>2, <4>4
    <3>6. stream'[c] = "closed" /\ ~error => stream[c] = "closed"
      BY <2>6, <2>7 DEF RunTaskInv, LoopInv, StreamKnown
    <3>7. stream'[c] \in {"open", "asking"} => stream[c] \in {"open", "asking"}
      BY <2>6, <2>7
    <3> QED
      BY <1>1, <1>5, <3>3, <3>4, <3>5, <3>6, <3>7 DEF RunTaskInv, LoopInv, ItemsInOrder
  <2> QED
    BY <1>4, <2>5, <2>8, <2>9, <2>10, <2>11 DEF RunTaskInv, LoopInv
<1>7. CASE buffer[c] = << >> /\ stream[c] = "open"
  <2>1. UNCHANGED <<told, buffer, items>> /\ stream' = [stream EXCEPT ![c] = "asking"]
    BY <1>3, <1>7
  <2>2. TypeOK' /\ stream'[c] = "asking"
    BY <1>1, <2>1 DEF TypeOK
  <2>3. ToldAsKnown' /\ StreamKnown'
    BY <1>1, <1>5, <1>7, <2>1, <2>2 DEF RunTaskInv, LoopInv, ToldAsKnown, StreamKnown
  <2>4. CallsMade' /\ ItemsInOrder'
    BY <1>1, <1>5, <1>7, <2>1, <2>2 DEF RunTaskInv, LoopInv, CallsMade, ItemsInOrder
  <2> QED
    BY <1>4, <2>2, <2>3, <2>4 DEF RunTaskInv, LoopInv
<1>8. CASE buffer[c] = << >> /\ stream[c] # "open"
  <2>1. /\ UNCHANGED <<stream, buffer, items>>
        /\ told' = [told EXCEPT ![c] = IF stream[c] = "failed" THEN "error" ELSE "end"]
    BY <1>3, <1>8
  <2>2. TypeOK' /\ told'[c] = (IF stream[c] = "failed" THEN "error" ELSE "end")
    BY <1>1, <2>1 DEF TypeOK
  <2>3. ToldAsKnown' /\ StreamKnown'
    BY <1>1, <1>5, <1>8, <2>1, <2>2 DEF RunTaskInv, LoopInv, ToldAsKnown, StreamKnown
  <2>4. CallsMade' /\ ItemsInOrder'
    BY <1>1, <1>5, <1>8, <2>1, <2>2 DEF RunTaskInv, LoopInv, CallsMade, ItemsInOrder
  <2> QED
    BY <1>4, <2>2, <2>3, <2>4 DEF RunTaskInv, LoopInv
<1> QED
  BY <1>6, <1>7, <1>8

\* The worker posts a message: nothing was heard of its end.
LEMMA PostInv ==
  ASSUME RunTaskInv, NEW msg \in Messages, Post(msg),
         \/ msg = "yield" /\ yielded < MaxYields /\ yielded' = yielded + 1 /\ worker' = worker
         \/ msg # "yield" /\ yielded' = yielded /\ worker' = "done"
  PROVE  RunTaskInv'
<1>1. /\ TypeOK /\ worker = "running" /\ posted' = Append(posted, msg)
      /\ UNCHANGED <<keepAlive, aborted, promise, channel, error, result, closing, listening, arrived,
                     calls, told, buffer, stream, items, missed, unread>>
  BY DEF RunTaskInv, Post, task, loops
<1>2. /\ posted \in Seq(Messages) /\ Len(posted) \in Nat /\ posted' \in Seq(Messages)
      /\ Len(posted') = Len(posted) + 1 /\ posted'[Len(posted) + 1] = msg /\ posted' # << >>
      /\ \A i \in 1 .. Len(posted) : posted'[i] = posted[i]
  <2>1. posted \in Seq(Messages) /\ Len(posted) \in Nat
    BY <1>1, PostedType
  <2>2. /\ posted' \in Seq(Messages) /\ Len(posted') = Len(posted) + 1 /\ posted'[Len(posted) + 1] = msg
        /\ \A i \in 1 .. Len(posted) : posted'[i] = posted[i]
    BY <1>1, <2>1
  <2> QED
    BY <2>1, <2>2
<1>3. /\ yielded \in Nat /\ yielded' \in 0 .. MaxYields /\ arrived \in Nat
      /\ ~result /\ "end" \notin closing /\ listening
  BY <1>1, Bounds DEF RunTaskInv, TypeOK, EndHeard
<1>4. \A i \in 1 .. Len(posted) : posted[i] = "yield"
  BY <1>1 DEF RunTaskInv, EndLast
<1>5. TypeOK'
  BY <1>1, <1>2, <1>3 DEF TypeOK, Messages
<1>6. EndLast'
  <2> SUFFICES ASSUME NEW i \in 1 .. Len(posted'), posted'[i] # "yield"
               PROVE  i = Len(posted') /\ worker' # "running"
    BY DEF EndLast
  <2>1. i \in Nat /\ (i = Len(posted) + 1 \/ i \in 1 .. Len(posted))
    BY <1>2
  <2>2. i = Len(posted) + 1
    BY <1>2, <1>4, <2>1
  <2> QED
    BY <1>2, <2>2
<1>7. DataCounted'
  <2>1. OnTheWay = Len(posted)
    <3>1. CASE posted = << >>
      BY <3>1 DEF OnTheWay
    <3>2. CASE posted # << >>
      <4>1. Len(posted) \in 1 .. Len(posted)
        BY <1>2, <3>2
      <4> QED
        BY <1>4, <4>1 DEF OnTheWay
    <3> QED
      BY <3>1, <3>2
  <2>2. OnTheWay' = IF msg = "yield" THEN Len(posted) + 1 ELSE Len(posted)
    BY <1>2 DEF OnTheWay
  <2> QED
    BY <1>1, <1>2, <1>3, <2>1, <2>2 DEF RunTaskInv, DataCounted
<1>8. EndHeard' /\ ToldAsKnown' /\ StreamKnown' /\ CallsMade'
  BY <1>1, <1>3 DEF RunTaskInv, LoopInv, EndHeard, ToldAsKnown, StreamKnown, CallsMade
<1>9. ItemsInOrder'
  BY <1>1, <1>3 DEF RunTaskInv, LoopInv, ItemsInOrder, ToldAsKnown
<1> QED
  BY <1>5, <1>6, <1>7, <1>8, <1>9 DEF RunTaskInv, LoopInv

LEMMA StepInv == RunTaskInv /\ [Next]_vars => RunTaskInv'
<1> SUFFICES ASSUME RunTaskInv, [Next]_vars PROVE RunTaskInv'
  OBVIOUS
<1>1. CASE Hear
  BY <1>1, HearYieldInv, HearEndInv DEF Hear
<1>2. CASE Abort \/ Terminated \/ Die
  BY <1>2, AbortInv, TerminatedInv, DieInv
<1>3. CASE Result \/ Iterate \/ LoopNext
  BY <1>3, ResultInv, IterateInv, RecvInv DEF LoopNext
<1>4. CASE WorkYield
  BY <1>4, PostInv DEF WorkYield, Messages
<1>5. CASE WorkEnd
  <2>1. PICK msg \in {"return", "error"} : Post(msg)
    BY <1>5 DEF WorkEnd
  <2> QED
    BY <1>5, <2>1, PostInv DEF WorkEnd, Messages
<1>6. CASE UNCHANGED vars
  <2>1. UNCHANGED <<keepAlive, aborted, promise, channel, error, result, closing, listening, worker,
                    yielded, posted, arrived, calls, told, buffer, stream, items, missed, unread>>
    BY <1>6 DEF vars, task, thread, loops
  <2>2. TypeOK' /\ EndLast' /\ DataCounted' /\ EndHeard'
    BY <2>1 DEF RunTaskInv, TypeOK, EndLast, DataCounted, OnTheWay, EndHeard
  <2>3. LoopInv'
    BY <2>1 DEF RunTaskInv, LoopInv, ToldAsKnown, StreamKnown, CallsMade, ItemsInOrder
  <2> QED
    BY <2>2, <2>3 DEF RunTaskInv
<1> QED
  BY <1>1, <1>2, <1>3, <1>4, <1>5, <1>6 DEF Next

LEMMA InvHolds == Spec => []RunTaskInv
BY InitInv, StepInv, PTL DEF Spec

\* Every variable of the task, its worker and its callers stays within its type.
THEOREM RunTaskTypeCorrect == Spec => []TypeOK
<1>1. RunTaskInv => TypeOK
  BY DEF RunTaskInv
<1> QED
  BY <1>1, InvHolds, PTL

\* No caller of result() or iterate() is told a value when another is told an error, and the
\* error of a failed task reaches a loop that has taken all that had arrived.  Of one
\* that has not, it is proved that the error does not reach it.
THEOREM OutcomeIsOne == Spec => []OneOutcome
<1>1. RunTaskInv => OneOutcome
  BY DEF RunTaskInv, LoopInv, ToldAsKnown, OneOutcome
<1> QED
  BY <1>1, InvHolds, PTL

\* A loop is given every datum since it began, once and in order, before it ends.
THEOREM LoopIsGivenAll == Spec => []LoopComplete
<1>1. RunTaskInv => LoopComplete
  <2> SUFFICES ASSUME RunTaskInv PROVE LoopComplete
    OBVIOUS
  <2>1. \A c \in Calls : DOMAIN items[c] = 1 .. Len(items[c])
    BY DEF RunTaskInv, TypeOK
  <2>2. \A c \in Calls : told[c] # "nothing" => buffer[c] = << >>
    BY DEF RunTaskInv, LoopInv, StreamKnown
  <2>3. ASSUME NEW c \in Calls, told[c] = "end", ~error PROVE missed[c] + Len(items[c]) = yielded
    <3>1. buffer[c] = << >> /\ stream[c] = "closed"
      BY <2>2, <2>3 DEF RunTaskInv, LoopInv, ToldAsKnown
    <3>2. missed[c] + Len(items[c]) + Len(buffer[c]) = yielded
      BY <2>3, <3>1 DEF RunTaskInv, LoopInv, ItemsInOrder
    <3>3. Len(buffer[c]) = 0 /\ missed[c] \in Nat /\ Len(items[c]) \in Nat
      BY <3>1, LoopType DEF RunTaskInv
    <3> QED
      BY <3>2, <3>3, Sums
  <2> QED
    BY <2>1, <2>2, <2>3 DEF RunTaskInv, LoopInv, ItemsInOrder, LoopComplete
<1> QED
  BY <1>1, InvHolds, PTL
================================================================================
