--------------------------- MODULE EventSourceProofs ---------------------------
(* Theorems about EventSource.                                                  *)
EXTENDS EventSource, TLAPS

\* What is on the wire of the connection follows on what the client has, the end of
\* the stream comes last, and an open endpoint has sent just that.
WireInOrder ==
  step \in {"responding", "reading"} =>
    /\ requests \in Endpoints
    /\ \A i \in 1 .. Len(wire) :
         wire[i] = lastEventId + i \/ (i = Len(wire) /\ wire[i] = End /\ closed[requests])
    /\ ~closed[requests] /\ closing[requests] = << >> => sent[requests] = lastEventId + Len(wire)

\* A source that was closed cleanly has nothing on its way that would open it again.
CleanlyClosed == closeCalled = "clean" => aborted /\ step \in {"none", "reading"} /\ ~timer /\ readyState = "CLOSED"

\* An ID is marked only if somebody asked for it.
MarkedWereAsked == marked \subseteq asked

EventSourceInv == /\ TypeOK /\ OneConnection /\ CleanlyClosed
                  /\ MarkedWereAsked /\ TurnedAwayIfAsked
                  /\ WireInOrder /\ NothingRepeated

LEMMA Counters ==
  /\ MaxEvents \in Nat /\ MaxBreaks \in Nat
  /\ \A n \in 0 .. MaxEvents : n \in Nat
  /\ \A c \in Endpoints : c \in Nat /\ c # 0
  /\ End = 0
BY EventSourceAssumption DEF Endpoints, End

\* What appending to a sequence and taking its head off give.
LEMMA AppendFacts ==
  ASSUME NEW S, NEW s \in Seq(S), NEW e \in S
  PROVE  /\ Append(s, e) \in Seq(S) /\ Len(s) \in Nat /\ Len(Append(s, e)) = Len(s) + 1
         /\ Append(s, e)[Len(s) + 1] = e /\ \A i \in 1 .. Len(s) : Append(s, e)[i] = s[i]
OBVIOUS

LEMMA TailFacts ==
  ASSUME NEW S, NEW s \in Seq(S), s # << >>
  PROVE  /\ Head(s) = s[1] /\ Head(s) \in S /\ Tail(s) \in Seq(S)
         /\ Len(s) \in Nat /\ Len(s) >= 1 /\ Len(Tail(s)) = Len(s) - 1
         /\ \A i \in 1 .. Len(Tail(s)) : Tail(s)[i] = s[i + 1]
OBVIOUS

\* The sequences of the model.
LEMMA Sequences ==
  ASSUME TypeOK
  PROVE  /\ wire \in Seq(0 .. MaxEvents) /\ << >> \in Seq(0 .. MaxEvents)
         /\ received \in Seq(1 .. MaxEvents)
         /\ \A c \in Endpoints : closing[c] \in Seq(BOOLEAN) /\ sent[c] \in 0 .. MaxEvents
         /\ lastEventId \in Nat
BY Counters DEF TypeOK, ClientTypeOK, ServerTypeOK, NetworkTypeOK

LEMMA InitInv == Init => EventSourceInv
<1> SUFFICES ASSUME Init PROVE EventSourceInv
  OBVIOUS
<1> USE Counters DEF Init
<1>1. TypeOK
  <2>1. ClientTypeOK
    <3>1. lastEventId \in 0 .. MaxEvents /\ received \in Seq(1 .. MaxEvents)
      OBVIOUS
    <3> QED
      BY <3>1 DEF ClientTypeOK
  <2>2. ServerTypeOK
    BY DEF TypeOK, ServerTypeOK
  <2>3. NetworkTypeOK
    BY DEF TypeOK, NetworkTypeOK
  <2> QED
    BY <2>1, <2>2, <2>3 DEF TypeOK
<1>2. OneConnection /\ CleanlyClosed /\ MarkedWereAsked /\ TurnedAwayIfAsked /\ WireInOrder
  BY DEF OneConnection, CleanlyClosed, MarkedWereAsked, TurnedAwayIfAsked, WireInOrder
<1>3. NothingRepeated
  BY DEF NothingRepeated
<1> QED
  BY <1>1, <1>2, <1>3 DEF EventSourceInv

\* An error event, from a step that goes on.
LEMMA InterruptedFacts ==
  ASSUME TypeOK, Interrupted
  PROVE  /\ step' = "none" /\ readyState' = "CONNECTING" /\ timer' \in BOOLEAN
         /\ aborted' \in BOOLEAN /\ closeCalled' \in {closeCalled, "racing"}
         /\ UNCHANGED <<lastEventId, received>>
BY DEF Interrupted, TypeOK, ClientTypeOK, ServerTypeOK, NetworkTypeOK, Reconnect

-----------------------------------------------------------------------------
(* The client's steps. *)

LEMMA TimerFiresInv == ASSUME EventSourceInv, TimerFires PROVE EventSourceInv'
<1> USE DEF EventSourceInv, TimerFires, server, network
<1>1. TypeOK'
  <2>1. ClientTypeOK'
    BY DEF TypeOK, ClientTypeOK
  <2>2. ServerTypeOK'
    BY DEF TypeOK, ServerTypeOK
  <2>3. NetworkTypeOK'
    BY DEF TypeOK, NetworkTypeOK
  <2> QED
    BY <2>1, <2>2, <2>3 DEF TypeOK
<1>2. OneConnection' /\ CleanlyClosed' /\ MarkedWereAsked' /\ NothingRepeated'
  BY DEF OneConnection, CleanlyClosed, MarkedWereAsked, NothingRepeated
<1>3. step = "none" /\ step' \in {"none", "fetching"}
  BY DEF OneConnection
<1>4. TurnedAwayIfAsked' /\ WireInOrder'
  BY <1>3 DEF TurnedAwayIfAsked, WireInOrder
<1> QED
  BY <1>1, <1>2, <1>4

\* A connection that is lost, with or without what was on the wire.
LEMMA InterruptionInv ==
  ASSUME EventSourceInv, Interrupted, ~aborted \/ step \in {"fetching", "responding"},
         breaks' \in 0 .. MaxBreaks, closed' \in [Endpoints -> BOOLEAN],
         wire' \in {wire, << >>},
         UNCHANGED <<requests, sent, closing, marked, asked, status, faults>>
  PROVE  EventSourceInv'
<1> USE DEF EventSourceInv
<1>1. /\ step' = "none" /\ readyState' = "CONNECTING" /\ timer' \in BOOLEAN
      /\ aborted' \in BOOLEAN /\ closeCalled' \in {closeCalled, "racing"}
      /\ UNCHANGED <<lastEventId, received>>
  BY InterruptedFacts
<1>2. TypeOK'
  <2>1. ClientTypeOK'
    BY <1>1 DEF TypeOK, ClientTypeOK
  <2>2. ServerTypeOK'
    BY <1>1 DEF TypeOK, ServerTypeOK
  <2>3. NetworkTypeOK'
    <3>1. wire' \in Seq(0 .. MaxEvents)
      BY Sequences
    <3> QED
      BY <3>1 DEF TypeOK, NetworkTypeOK
  <2> QED
    BY <2>1, <2>2, <2>3 DEF TypeOK
<1>3. OneConnection' /\ MarkedWereAsked' /\ NothingRepeated' /\ TurnedAwayIfAsked' /\ WireInOrder'
  BY <1>1 DEF OneConnection, MarkedWereAsked, NothingRepeated, TurnedAwayIfAsked, WireInOrder
<1>4. closeCalled # "clean"
  BY DEF CleanlyClosed
<1>5. CleanlyClosed'
  BY <1>1, <1>4 DEF CleanlyClosed
<1> QED
  BY <1>2, <1>3, <1>5

LEMMA InterruptingInv == ASSUME EventSourceInv, FetchFails \/ ReadEnd PROVE EventSourceInv'
<1>1. Interrupted /\ (~aborted \/ step \in {"fetching", "responding"}) /\ wire' \in {wire, << >>}
  BY DEF FetchFails, ReadEnd, network
<1>2. breaks' \in 0 .. MaxBreaks
  BY Counters DEF FetchFails, ReadEnd, Break, EventSourceInv, TypeOK, ClientTypeOK, ServerTypeOK,
     NetworkTypeOK
<1>3. UNCHANGED <<requests, sent, closing, marked, asked, status, faults>> /\ closed' = closed
  BY DEF FetchFails, ReadEnd, server, network
<1>4. closed' \in [Endpoints -> BOOLEAN]
  BY <1>3 DEF EventSourceInv, TypeOK, ClientTypeOK, ServerTypeOK, NetworkTypeOK
<1> QED
  BY <1>1, <1>2, <1>3, <1>4, InterruptionInv

LEMMA ReadFailsInv == ASSUME EventSourceInv, ReadFails PROVE EventSourceInv'
<1>1. CASE aborted
  <2> USE DEF EventSourceInv, ReadFails
  <2>1. TypeOK'
    <3>1. ClientTypeOK'
      BY <1>1 DEF TypeOK, ClientTypeOK
    <3>2. ServerTypeOK'
      BY <1>1 DEF TypeOK, ServerTypeOK
    <3>3. NetworkTypeOK'
      BY <1>1 DEF TypeOK, NetworkTypeOK
    <3> QED
      BY <3>1, <3>2, <3>3 DEF TypeOK
  <2>2. /\ OneConnection' /\ CleanlyClosed' /\ MarkedWereAsked' /\ NothingRepeated'
        /\ TurnedAwayIfAsked' /\ WireInOrder'
    BY <1>1 DEF OneConnection, CleanlyClosed, MarkedWereAsked, NothingRepeated, TurnedAwayIfAsked,
       WireInOrder
  <2> QED
    BY <2>1, <2>2
<1>2. CASE ~aborted
  <2>1. Interrupted /\ wire' = << >>
        /\ UNCHANGED <<requests, sent, closing, marked, asked, status, faults>>
    BY <1>2 DEF ReadFails
  <2>2. breaks' \in 0 .. MaxBreaks
    BY <1>2, Counters DEF ReadFails, Break, EventSourceInv, TypeOK, ClientTypeOK, ServerTypeOK,
       NetworkTypeOK
  <2>3. closed' \in [Endpoints -> BOOLEAN]
    BY DEF ReadFails, EventSourceInv, TypeOK, ClientTypeOK, ServerTypeOK, NetworkTypeOK
  <2> QED
    BY <1>2, <2>1, <2>2, <2>3, InterruptionInv
<1> QED
  BY <1>1, <1>2

LEMMA RespondInv == ASSUME EventSourceInv, Respond PROVE EventSourceInv'
<1> USE DEF EventSourceInv, Respond, server, network
<1>1. TypeOK'
  <2>1. ClientTypeOK'
    BY DEF TypeOK, ClientTypeOK
  <2>2. ServerTypeOK'
    BY DEF TypeOK, ServerTypeOK
  <2>3. NetworkTypeOK'
    BY DEF TypeOK, NetworkTypeOK
  <2> QED
    BY <2>1, <2>2, <2>3 DEF TypeOK
<1>2. OneConnection' /\ CleanlyClosed' /\ MarkedWereAsked' /\ NothingRepeated' /\ TurnedAwayIfAsked'
  BY DEF OneConnection, CleanlyClosed, MarkedWereAsked, NothingRepeated, TurnedAwayIfAsked
<1>3. WireInOrder'
  BY DEF WireInOrder
<1> QED
  BY <1>1, <1>2, <1>3

\* The datum that is read is the next one.
LEMMA ReadInv == ASSUME EventSourceInv, Read PROVE EventSourceInv'
<1> USE DEF EventSourceInv
<1>1. /\ step = "reading" /\ wire # << >> /\ Head(wire) # 0 /\ wire' = Tail(wire)
      /\ lastEventId' = Head(wire) /\ received' = Append(received, Head(wire))
      /\ UNCHANGED <<readyState, aborted, timer, step, closeCalled, requests, sent, closed, closing,
                     marked, asked, status, breaks, faults>>
  BY DEF Read, server, LastId, End
<1>2. /\ Head(wire) = wire[1] /\ Head(wire) \in 0 .. MaxEvents /\ wire' \in Seq(0 .. MaxEvents)
      /\ Len(wire) \in Nat /\ Len(wire) >= 1 /\ Len(wire') = Len(wire) - 1
      /\ \A i \in 1 .. Len(wire') : wire'[i] = wire[i + 1]
  BY <1>1, Sequences, TailFacts
<1>3. \A i \in 1 .. Len(wire) :
        wire[i] = lastEventId + i \/ (i = Len(wire) /\ wire[i] = 0 /\ closed[requests])
  BY <1>1, Counters DEF WireInOrder
<1>4. lastEventId' = lastEventId + 1 /\ lastEventId \in Nat /\ lastEventId' \in 1 .. MaxEvents
  <2>1. wire[1] = lastEventId + 1
    <3>1. 1 \in 1 .. Len(wire) /\ wire[1] # 0
      BY <1>1, <1>2
    <3> QED
      BY <1>3, <3>1
  <2>2. lastEventId \in Nat /\ MaxEvents \in Nat
    BY Sequences, Counters
  <2> QED
    BY <1>1, <1>2, <2>1, <2>2
<1>5. /\ received' \in Seq(1 .. MaxEvents) /\ Len(received') = Len(received) + 1
      /\ Len(received) \in Nat /\ received'[Len(received) + 1] = lastEventId'
      /\ \A i \in 1 .. Len(received) : received'[i] = received[i]
  BY <1>1, <1>4, Sequences, AppendFacts
<1>6. TypeOK'
  <2>1. ClientTypeOK'
    BY <1>1, <1>4, <1>5 DEF TypeOK, ClientTypeOK
  <2>2. ServerTypeOK'
    BY <1>1 DEF TypeOK, ServerTypeOK
  <2>3. NetworkTypeOK'
    BY <1>1, <1>2 DEF TypeOK, NetworkTypeOK
  <2> QED
    BY <2>1, <2>2, <2>3 DEF TypeOK
<1>7. NothingRepeated'
  <2>1. Len(received) = lastEventId /\ \A i \in 1 .. Len(received) : received[i] = i
    BY Sequences DEF NothingRepeated
  <2>2. DOMAIN received' = 1 .. Len(received')
    BY <1>5
  <2>3. ASSUME NEW i \in 1 .. Len(received') PROVE received'[i] = i
    <3>1. CASE i = Len(received')
      BY <1>4, <1>5, <2>1, <3>1
    <3>2. CASE i # Len(received')
      <4>1. i \in 1 .. Len(received)
        BY <1>5, <3>2
      <4> QED
        BY <1>5, <2>1, <4>1
    <3> QED
      BY <3>1, <3>2
  <2>4. Len(received') = lastEventId'
    BY <1>4, <1>5, <2>1
  <2> QED
    BY <2>2, <2>3, <2>4 DEF NothingRepeated
<1>8. OneConnection' /\ CleanlyClosed' /\ MarkedWereAsked' /\ TurnedAwayIfAsked'
  BY <1>1 DEF OneConnection, CleanlyClosed, MarkedWereAsked, TurnedAwayIfAsked
<1>9. ASSUME NEW i \in 1 .. Len(wire')
      PROVE  wire'[i] = lastEventId' + i \/ (i = Len(wire') /\ wire'[i] = 0 /\ closed[requests])
  <2>1. i + 1 \in 1 .. Len(wire) /\ i \in Nat
    BY <1>2
  <2>2. wire'[i] = wire[i + 1]
    BY <1>2
  <2>3. CASE wire[i + 1] = lastEventId + (i + 1)
    BY <1>4, <2>1, <2>2, <2>3
  <2>4. CASE i + 1 = Len(wire) /\ wire[i + 1] = 0 /\ closed[requests]
    BY <1>2, <2>1, <2>2, <2>4
  <2> QED
    BY <1>3, <2>1, <2>3, <2>4
<1>10. ~closed[requests] /\ closing[requests] = << >> => sent[requests] = lastEventId' + Len(wire')
  <2>1. ~closed[requests] /\ closing[requests] = << >> => sent[requests] = lastEventId + Len(wire)
    BY <1>1 DEF WireInOrder
  <2> QED
    BY <1>2, <1>4, <2>1
<1>11. WireInOrder'
  BY <1>1, <1>9, <1>10, Counters DEF WireInOrder
<1> QED
  BY <1>6, <1>7, <1>8, <1>11

LEMMA CloseInv == ASSUME EventSourceInv, Close PROVE EventSourceInv'
<1> USE DEF EventSourceInv, Close, server, network, TimerCleared
<1>1. TypeOK'
  <2>1. ClientTypeOK'
    BY DEF TypeOK, ClientTypeOK
  <2>2. ServerTypeOK'
    BY DEF TypeOK, ServerTypeOK
  <2>3. NetworkTypeOK'
    BY DEF TypeOK, NetworkTypeOK
  <2> QED
    BY <2>1, <2>2, <2>3 DEF TypeOK
<1>2. OneConnection' /\ MarkedWereAsked' /\ NothingRepeated' /\ TurnedAwayIfAsked'
  BY DEF OneConnection, MarkedWereAsked, NothingRepeated, TurnedAwayIfAsked
<1>3. WireInOrder'
  BY DEF WireInOrder
<1>4. CleanlyClosed'
  BY DEF CleanlyClosed, TypeOK, ClientTypeOK, ServerTypeOK, NetworkTypeOK
<1> QED
  BY <1>1, <1>2, <1>3, <1>4

-----------------------------------------------------------------------------
(* The server's steps. *)

LEMMA AcceptInv == ASSUME EventSourceInv, Accept PROVE EventSourceInv'
<1> USE Counters DEF EventSourceInv, Accept
<1>1. requests' \in Endpoints /\ requests' \in 0 .. MaxBreaks + 1
  BY DEF TypeOK, ClientTypeOK, ServerTypeOK, NetworkTypeOK, Endpoints
<1>2. status' \in {200, 204, 500} /\ (status' = 204 => TurnAway)
  OBVIOUS
<1>3. /\ sent' \in [Endpoints -> 0 .. MaxEvents] /\ sent'[requests'] = lastEventId
      /\ closed' \in [Endpoints -> BOOLEAN] /\ closing' \in [Endpoints -> Seq(BOOLEAN)]
  <2>1. sent' \in [Endpoints -> 0 .. MaxEvents] /\ sent'[requests'] = lastEventId
    BY <1>1 DEF TypeOK, ClientTypeOK, ServerTypeOK
  <2>2. closed' \in [Endpoints -> BOOLEAN]
    BY <1>1 DEF TypeOK, ServerTypeOK, TurnAway
  <2>3. << >> \in Seq(BOOLEAN) /\ <<FALSE>> \in Seq(BOOLEAN)
    OBVIOUS
  <2>4. closing' \in [Endpoints -> Seq(BOOLEAN)]
    BY <1>1, <2>3 DEF TypeOK, ServerTypeOK
  <2> QED
    BY <2>1, <2>2, <2>4
<1>4. TypeOK'
  <2>1. ClientTypeOK'
    BY <1>1, <1>2, <1>3 DEF TypeOK, ClientTypeOK
  <2>2. ServerTypeOK'
    BY <1>1, <1>2, <1>3 DEF TypeOK, ServerTypeOK
  <2>3. NetworkTypeOK'
    BY <1>1, <1>2, <1>3 DEF TypeOK, NetworkTypeOK
  <2> QED
    BY <2>1, <2>2, <2>3 DEF TypeOK
<1>5. OneConnection' /\ CleanlyClosed' /\ MarkedWereAsked' /\ NothingRepeated'
  BY DEF OneConnection, CleanlyClosed, MarkedWereAsked, NothingRepeated
<1>6. TurnedAwayIfAsked'
  BY <1>2 DEF TurnedAwayIfAsked, TurnAway, MarkedWereAsked
<1>7. WireInOrder'
  BY <1>1, <1>3 DEF WireInOrder, TypeOK, ClientTypeOK, ServerTypeOK, NetworkTypeOK
<1> QED
  BY <1>4, <1>5, <1>6, <1>7

\* What an open endpoint sends is one more than what is on the wire.
LEMMA SendInv == ASSUME EventSourceInv, NEW c \in Endpoints, Send(c) PROVE EventSourceInv'
<1> USE DEF EventSourceInv
<1>1. /\ c = requests /\ step \in {"responding", "reading"} /\ sent[c] < MaxEvents
      /\ sent' = [sent EXCEPT ![c] = @ + 1]
      /\ wire' = IF closed[c] \/ closing[c] # << >> THEN wire ELSE Append(wire, sent'[c])
      /\ UNCHANGED <<readyState, aborted, timer, step, lastEventId, received, closeCalled, requests,
                     closed, closing, marked, asked, status, breaks, faults>>
  BY DEF Send, Connected, client
<1>2. /\ sent' \in [Endpoints -> 0 .. MaxEvents] /\ sent'[c] = sent[c] + 1
      /\ sent'[c] \in 0 .. MaxEvents
  BY <1>1, Counters, Sequences DEF TypeOK, ServerTypeOK
<1>3. wire' \in Seq(0 .. MaxEvents)
  BY <1>1, <1>2, Sequences, AppendFacts
<1>4. TypeOK'
  <2>1. ClientTypeOK'
    BY <1>1 DEF TypeOK, ClientTypeOK
  <2>2. ServerTypeOK'
    BY <1>1, <1>2 DEF TypeOK, ServerTypeOK
  <2>3. NetworkTypeOK'
    BY <1>1, <1>3 DEF TypeOK, NetworkTypeOK
  <2> QED
    BY <2>1, <2>2, <2>3 DEF TypeOK
<1>5. OneConnection' /\ CleanlyClosed' /\ MarkedWereAsked' /\ NothingRepeated' /\ TurnedAwayIfAsked'
  BY <1>1 DEF OneConnection, CleanlyClosed, MarkedWereAsked, NothingRepeated, TurnedAwayIfAsked
<1>6. CASE closed[c] \/ closing[c] # << >>
  <2>1. wire' = wire
    BY <1>1, <1>6
  <2>2. WireInOrder'
    BY <1>1, <1>6, <2>1 DEF WireInOrder
  <2> QED
    BY <1>4, <1>5, <2>2
<1>7. CASE ~(closed[c] \/ closing[c] # << >>)
  <2>1. wire' = Append(wire, sent'[c])
    BY <1>1, <1>7
  <2>2. /\ Len(wire) \in Nat /\ Len(wire') = Len(wire) + 1 /\ wire'[Len(wire) + 1] = sent'[c]
        /\ \A i \in 1 .. Len(wire) : wire'[i] = wire[i]
    BY <1>2, <2>1, Sequences, AppendFacts
  <2>3. sent[c] = lastEventId + Len(wire) /\ lastEventId \in Nat
    BY <1>1, <1>7, Sequences DEF WireInOrder
  <2>4. sent'[c] = lastEventId + Len(wire')
    BY <1>2, <2>2, <2>3
  <2>5. ASSUME NEW i \in 1 .. Len(wire') PROVE wire'[i] = lastEventId + i
    <3>1. CASE i = Len(wire')
      BY <2>2, <2>4, <3>1
    <3>2. CASE i # Len(wire')
      <4>1. i \in 1 .. Len(wire)
        BY <2>2, <3>2
      <4>2. wire[i] = lastEventId + i
        BY <1>1, <1>7, <4>1 DEF WireInOrder
      <4> QED
        BY <2>2, <4>1, <4>2
    <3> QED
      BY <3>1, <3>2
  <2>6. WireInOrder'
    BY <1>1, <2>4, <2>5 DEF WireInOrder
  <2> QED
    BY <1>4, <1>5, <2>6
<1> QED
  BY <1>6, <1>7

LEMMA CloseEndpointInv ==
  ASSUME EventSourceInv, NEW c \in Endpoints, CloseEndpoint(c) PROVE EventSourceInv'
<1> USE Counters DEF EventSourceInv, CloseEndpoint, client, network
<1>1. PICK noReconnect \in BOOLEAN : closing' = [closing EXCEPT ![c] = Append(@, noReconnect)]
  OBVIOUS
<1>2. closing' \in [Endpoints -> Seq(BOOLEAN)] /\ closing[c] \in Seq(BOOLEAN)
  BY <1>1 DEF TypeOK, ClientTypeOK, ServerTypeOK, NetworkTypeOK
<1>3. closing'[c] # << >> /\ \A d \in Endpoints : d # c => closing'[d] = closing[d]
  <2>1. closing[c] \in Seq(BOOLEAN) /\ closing'[c] = Append(closing[c], noReconnect)
    BY <1>1, <1>2 DEF TypeOK, ServerTypeOK
  <2>2. Len(closing'[c]) = Len(closing[c]) + 1 /\ Len(closing[c]) \in Nat
    BY <2>1, AppendFacts
  <2>3. closing'[c] # << >>
    BY <2>2
  <2> QED
    BY <1>1, <2>3 DEF TypeOK, ServerTypeOK
<1>4. breaks' \in 0 .. MaxBreaks
  BY DEF Break, TypeOK, ClientTypeOK, ServerTypeOK, NetworkTypeOK
<1>5. TypeOK'
  <2>1. ClientTypeOK'
    BY <1>2, <1>4 DEF TypeOK, ClientTypeOK
  <2>2. ServerTypeOK'
    BY <1>2, <1>4 DEF TypeOK, ServerTypeOK
  <2>3. NetworkTypeOK'
    BY <1>2, <1>4 DEF TypeOK, NetworkTypeOK
  <2> QED
    BY <2>1, <2>2, <2>3 DEF TypeOK
<1>6. OneConnection' /\ CleanlyClosed' /\ MarkedWereAsked' /\ NothingRepeated' /\ TurnedAwayIfAsked'
  BY DEF OneConnection, CleanlyClosed, MarkedWereAsked, NothingRepeated, TurnedAwayIfAsked
<1>7. WireInOrder'
  BY <1>3 DEF WireInOrder
<1> QED
  BY <1>5, <1>6, <1>7

\* Whoever marks an ID was asked to.
LEMMA MarksFacts ==
  ASSUME TypeOK, NEW id \in 0 .. MaxEvents, NEW noReconnect \in BOOLEAN
  PROVE  /\ Marks(id, noReconnect) \subseteq 1 .. MaxEvents
         /\ Marks(id, noReconnect) \subseteq marked \cup (IF noReconnect THEN {id} ELSE {})
BY Counters DEF Marks, TypeOK, ClientTypeOK, ServerTypeOK, NetworkTypeOK

LEMMA FinishCloseInv ==
  ASSUME EventSourceInv, NEW c \in Endpoints, FinishClose(c) PROVE EventSourceInv'
<1> USE DEF EventSourceInv
<1>1. PICK noReconnect \in BOOLEAN :
        /\ closing' = [closing EXCEPT ![c] = Tail(@)] /\ Tail(closing[c]) \in Seq(BOOLEAN)
        /\ marked' = Marks(sent[c], noReconnect)
        /\ asked' = asked \cup (IF noReconnect THEN {sent[c]} ELSE {})
  <2>1. closing[c] \in Seq(BOOLEAN) /\ closing[c] # << >>
    BY Sequences DEF FinishClose
  <2>2. Head(closing[c]) \in BOOLEAN /\ Tail(closing[c]) \in Seq(BOOLEAN)
    BY <2>1, TailFacts
  <2> QED
    BY <2>2 DEF FinishClose
<1>2. /\ closed' = [closed EXCEPT ![c] = TRUE]
      /\ wire' = IF Connected(c) /\ ~closed[c] THEN Append(wire, End) ELSE wire
      /\ UNCHANGED <<readyState, aborted, timer, step, lastEventId, received, closeCalled, requests,
                     sent, status, breaks, faults>>
  BY DEF FinishClose, client
<1>3. /\ marked' \subseteq 1 .. MaxEvents
      /\ marked' \subseteq marked \cup (IF noReconnect THEN {sent[c]} ELSE {})
  BY <1>1, Sequences, MarksFacts
<1>4. /\ closed' \in [Endpoints -> BOOLEAN] /\ closed'[c] = TRUE
      /\ \A d \in Endpoints : d # c => closed'[d] = closed[d]
  BY <1>2 DEF TypeOK, ServerTypeOK
<1>5. /\ closing' \in [Endpoints -> Seq(BOOLEAN)]
      /\ \A d \in Endpoints : d # c => closing'[d] = closing[d]
  BY <1>1 DEF TypeOK, ServerTypeOK
<1>6. wire' \in Seq(0 .. MaxEvents)
  <2>1. End \in 0 .. MaxEvents
    BY Counters
  <2> QED
    BY <1>2, <2>1, Sequences, AppendFacts
<1>7. TypeOK'
  <2>1. ClientTypeOK'
    BY <1>2 DEF TypeOK, ClientTypeOK
  <2>2. asked' \subseteq 0 .. MaxEvents
    BY <1>1, Sequences DEF TypeOK, ServerTypeOK
  <2>3. ServerTypeOK'
    BY <1>2, <1>3, <1>4, <1>5, <2>2 DEF TypeOK, ServerTypeOK
  <2>4. NetworkTypeOK'
    BY <1>2, <1>6 DEF TypeOK, NetworkTypeOK
  <2> QED
    BY <2>1, <2>3, <2>4 DEF TypeOK
<1>8. OneConnection' /\ CleanlyClosed' /\ NothingRepeated'
  BY <1>2 DEF OneConnection, CleanlyClosed, NothingRepeated
<1>9. MarkedWereAsked' /\ TurnedAwayIfAsked'
  BY <1>1, <1>2, <1>3 DEF MarkedWereAsked, TurnedAwayIfAsked
<1>10. CASE Connected(c) /\ ~closed[c]
  <2>1. wire' = Append(wire, End) /\ c = requests /\ step \in {"responding", "reading"}
    BY <1>2, <1>10 DEF Connected
  <2>2. /\ Len(wire) \in Nat /\ Len(wire') = Len(wire) + 1 /\ wire'[Len(wire) + 1] = End
        /\ \A i \in 1 .. Len(wire) : wire'[i] = wire[i]
    <3>1. End \in 0 .. MaxEvents
      BY Counters
    <3> QED
      BY <2>1, <3>1, Sequences, AppendFacts
  <2>3. \A i \in 1 .. Len(wire) : wire[i] = lastEventId + i
    BY <1>10, <2>1 DEF WireInOrder
  <2>4. ASSUME NEW i \in 1 .. Len(wire')
        PROVE  wire'[i] = lastEventId + i \/ (i = Len(wire') /\ wire'[i] = End)
    <3>1. CASE i = Len(wire')
      BY <2>2, <3>1
    <3>2. CASE i # Len(wire')
      <4>1. i \in 1 .. Len(wire)
        BY <2>2, <3>2
      <4> QED
        BY <2>2, <2>3, <4>1
    <3> QED
      BY <3>1, <3>2
  <2>5. WireInOrder'
    BY <1>2, <1>4, <2>1, <2>4 DEF WireInOrder
  <2> QED
    BY <1>7, <1>8, <1>9, <2>5
<1>11. CASE ~(Connected(c) /\ ~closed[c])
  <2>1. wire' = wire
    BY <1>2, <1>11
  <2>2. WireInOrder'
    BY <1>2, <1>4, <1>5, <2>1 DEF WireInOrder
  <2> QED
    BY <1>7, <1>8, <1>9, <2>2
<1> QED
  BY <1>10, <1>11

-----------------------------------------------------------------------------
LEMMA StepInv == EventSourceInv /\ [Next]_vars => EventSourceInv'
<1> SUFFICES ASSUME EventSourceInv, [Next]_vars PROVE EventSourceInv'
  OBVIOUS
<1>1. CASE TimerFires
  BY <1>1, TimerFiresInv
<1>2. CASE FetchFails \/ ReadEnd
  BY <1>2, InterruptingInv
<1>3. CASE Respond
  BY <1>3, RespondInv
<1>4. CASE Read
  BY <1>4, ReadInv
<1>5. CASE ReadFails
  BY <1>5, ReadFailsInv
<1>6. CASE Close
  BY <1>6, CloseInv
<1>7. CASE Accept
  BY <1>7, AcceptInv
<1>8. ASSUME NEW c \in Endpoints, Send(c) PROVE EventSourceInv'
  BY <1>8, SendInv
<1>9. ASSUME NEW c \in Endpoints, CloseEndpoint(c) PROVE EventSourceInv'
  BY <1>9, CloseEndpointInv
<1>10. ASSUME NEW c \in Endpoints, FinishClose(c) PROVE EventSourceInv'
  BY <1>10, FinishCloseInv
<1>11. CASE UNCHANGED vars
  BY <1>11 DEF vars, client, server, network, EventSourceInv, TypeOK, ClientTypeOK, ServerTypeOK,
     NetworkTypeOK, OneConnection, CleanlyClosed,
     MarkedWereAsked, TurnedAwayIfAsked, WireInOrder, NothingRepeated
<1> QED
  BY <1>1, <1>2, <1>3, <1>4, <1>5, <1>6, <1>7, <1>8, <1>9, <1>10, <1>11 DEF Next

LEMMA InvHolds == Spec => []EventSourceInv
BY InitInv, StepInv, PTL DEF Spec

\* Every variable of the source, the endpoints and the connection stays within its
\* type, for every number of events and of interruptions.
THEOREM EventSourceTypeCorrect == Spec => []TypeOK
<1>1. EventSourceInv => TypeOK
  BY DEF EventSourceInv
<1> QED
  BY <1>1, InvHolds, PTL

\* The client dispatches every event once and in order, over all its connections.
THEOREM EventsInOrder == Spec => []NothingRepeated
<1>1. EventSourceInv => NothingRepeated
  BY DEF EventSourceInv
<1> QED
  BY <1>1, InvHolds, PTL

\* A timer and a connection are never there at once.
THEOREM NeverTwoConnections == Spec => []OneConnection
<1>1. EventSourceInv => OneConnection
  BY DEF EventSourceInv
<1> QED
  BY <1>1, InvHolds, PTL

\* A source closed by a close() that races with no request stays closed.
THEOREM CloseStays == Spec => []ClosedStaysClosed
<1>1. EventSourceInv => ClosedStaysClosed
  BY DEF EventSourceInv, CleanlyClosed, ClosedStaysClosed
<1> QED
  BY <1>1, InvHolds, PTL

\* Whoever is turned away received last an event after which somebody closed with noReconnect.
THEOREM OnlyAskedTurnedAway == Spec => []TurnedAwayIfAsked
<1>1. EventSourceInv => TurnedAwayIfAsked
  BY DEF EventSourceInv
<1> QED
  BY <1>1, InvHolds, PTL
=============================================================================
