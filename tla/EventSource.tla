------------------------------ MODULE EventSource ------------------------------
(***************************************************************************)
(* Server-sent events, sse.ts: an EventSource that reconnects, and the       *)
(* EventEndpoints that a server makes for its requests, one for each.  The   *)
(* network in between may fail.  The server's application numbers its events *)
(* and goes on, for a client that comes back, after the last event it names. *)
(* The parsing of the stream and the length of the delays are left out.      *)
(***************************************************************************)
EXTENDS Naturals, Sequences

CONSTANTS
  MaxEvents,  \* how many events the application has
  MaxBreaks,  \* how often requests and connections break or end
  Faults      \* the sets of faults to explore, of those named in Init

ASSUME EventSourceAssumption == MaxEvents \in Nat /\ MaxBreaks \in Nat

Endpoints == 1 .. MaxBreaks + 1
End == 0   \* the end of the stream, among the event numbers on the wire

VARIABLES
  \* The client: readyState, whether its controller is aborted, whether its
  \* timer is set, how far connect() is, and its last event ID (0: none).
  readyState, aborted, timer, step, lastEventId,
  received,     \* the events it has dispatched
  closeCalled,  \* how its close() was called
  \* The server: the number of requests, and for each endpoint its last event
  \* ID, whether it is closed, and the close() calls that have not settled.
  requests, sent, closed, closing,
  marked,       \* SSEMarkClosed
  asked,        \* the IDs of endpoints closed with noReconnect
  \* The connection: the status of its response and what is on the wire.
  status, wire,
  breaks, faults

client  == <<readyState, aborted, timer, step, lastEventId, received, closeCalled>>
server  == <<requests, sent, closed, closing, marked, asked>>
network == <<status, wire>>
vars    == <<client, server, network, breaks, faults>>

\* The constructor calls connect().
Init ==
  /\ readyState = "CONNECTING" /\ aborted = FALSE /\ timer = FALSE
  /\ step = "fetching" /\ lastEventId = 0 /\ received = << >> /\ closeCalled = "no"
  /\ requests = 0 /\ marked = {} /\ asked = {}
  /\ sent = [c \in Endpoints |-> 0]
  /\ closed = [c \in Endpoints |-> FALSE]
  /\ closing = [c \in Endpoints |-> << >>]
  /\ status = 0 /\ wire = << >> /\ breaks = 0
  \* "status": the server may respond with another status; "twice": close() of
  \* an endpoint is called again; "late": the application sends after close().
  /\ faults \in Faults

Break == breaks < MaxBreaks /\ breaks' = breaks + 1

-----------------------------------------------------------------------------
(* The client: connect(), tryReconnect(), close(). *)

\* The timer calls connect(), which returns at once when the source is closed.
TimerFires ==
  /\ timer
  /\ timer' = FALSE
  /\ IF readyState = "CLOSED" THEN UNCHANGED <<readyState, step>>
     ELSE readyState' = "CONNECTING" /\ step' = "fetching"
  /\ UNCHANGED <<aborted, lastEventId, received, closeCalled, server, network, breaks, faults>>

NoReconnect == FALSE                                                \* mutant
Reconnect == TRUE

\* An error event, whose listener may call close(), then tryReconnect().
Interrupted ==
  /\ \E closes \in {FALSE, closeCalled = "no"} :
       /\ aborted' = (aborted \/ closes)
       /\ closeCalled' = IF closes THEN "racing" ELSE closeCalled
  /\ readyState' = "CONNECTING"
  /\ timer' = Reconnect
  /\ step' = "none"
  /\ UNCHANGED <<lastEventId, received>>

\* fetch() is rejected: the network fails, or the signal is aborted.
FetchFails ==
  /\ step \in {"fetching", "responding"}
  /\ IF aborted THEN UNCHANGED breaks ELSE Break
  /\ Interrupted
  /\ UNCHANGED <<server, network, faults>>

\* fetch() is fulfilled.
Respond ==
  /\ step = "responding" /\ ~aborted
  /\ IF status = 200
       THEN readyState' = "OPEN" /\ step' = "reading"
       ELSE readyState' = "CLOSED" /\ step' = "none"
  /\ UNCHANGED <<aborted, timer, lastEventId, received, closeCalled, server, network, breaks, faults>>

LastIdForgotten(id) == lastEventId                                  \* mutant
LastId(id) == id

\* A chunk of the body: onId() and onData().
Read ==
  /\ step = "reading" /\ ~aborted /\ wire # << >> /\ Head(wire) # End
  /\ wire' = Tail(wire)
  /\ lastEventId' = LastId(Head(wire))
  /\ received' = Append(received, Head(wire))
  /\ UNCHANGED <<readyState, aborted, timer, step, closeCalled, server, status, breaks, faults>>

\* The body ends.
ReadEnd ==
  /\ step = "reading" /\ ~aborted /\ wire # << >> /\ Head(wire) = End
  /\ wire' = << >>
  /\ Interrupted
  /\ UNCHANGED <<server, status, breaks, faults>>

\* The body fails: the connection is lost, with what was on the wire, which the
\* server notices; or it was aborted by close(), which raises no event.
ReadFails ==
  /\ step = "reading"
  /\ IF aborted
       THEN step' = "none" /\ UNCHANGED <<readyState, aborted, timer, lastEventId, received, closeCalled, breaks>>
       ELSE Break /\ Interrupted
  /\ wire' = << >>
  /\ closed' = [closed EXCEPT ![requests] = TRUE]
  /\ UNCHANGED <<requests, sent, closing, marked, asked, status, faults>>

TimerLeft == timer                                                  \* mutant
TimerCleared == FALSE

\* close(), but for the one in a listener of the error event.
Close ==
  /\ closeCalled = "no"
  /\ closeCalled' = IF step \in {"fetching", "responding"} THEN "racing" ELSE "clean"
  /\ timer' = TimerCleared
  /\ readyState' = "CLOSED"
  /\ aborted' = TRUE
  /\ UNCHANGED <<step, lastEventId, received, server, network, breaks, faults>>

-----------------------------------------------------------------------------
(* The server: the constructor of EventEndpoint, send() and close(). *)

TurnAwayNobody == FALSE                                             \* mutant
TurnAway == lastEventId # 0 /\ lastEventId \in marked

\* A request arrives, with the client's last event ID.  An endpoint that is
\* marked responds 204 and closes itself.
Accept ==
  /\ step = "fetching" /\ ~aborted /\ requests < MaxBreaks + 1
  /\ requests' = requests + 1
  /\ sent' = [sent EXCEPT ![requests'] = lastEventId]
  /\ closed' = [closed EXCEPT ![requests'] = TurnAway]
  /\ closing' = [closing EXCEPT ![requests'] = IF TurnAway THEN <<FALSE>> ELSE << >>]
  /\ \/ status' = IF TurnAway THEN 204 ELSE 200
     \/ "status" \in faults /\ ~TurnAway /\ status' = 500
  /\ step' = "responding" /\ wire' = << >>
  /\ UNCHANGED <<readyState, aborted, timer, lastEventId, received, closeCalled, marked, asked, breaks, faults>>

Connected(c) == c = requests /\ step \in {"responding", "reading"} /\ status = 200

\* send(): the ID is kept first, then the write fails if the stream is closed.
Send(c) ==
  /\ sent[c] < MaxEvents /\ Connected(c)
  /\ "late" \in faults \/ (~closed[c] /\ closing[c] = << >>)
  /\ sent' = [sent EXCEPT ![c] = @ + 1]
  /\ wire' = IF closed[c] \/ closing[c] # << >> THEN wire ELSE Append(wire, sent'[c])
  /\ UNCHANGED <<client, requests, closed, closing, marked, asked, status, breaks, faults>>

\* close(noReconnect), up to the first await.
CloseEndpoint(c) ==
  /\ c <= requests /\ (c = requests => status # 500)
  /\ "twice" \in faults \/ (closing[c] = << >> /\ ~closed[c])
  /\ Break
  /\ \E noReconnect \in BOOLEAN : closing' = [closing EXCEPT ![c] = Append(@, noReconnect)]
  /\ UNCHANGED <<client, requests, sent, closed, marked, asked, network, faults>>

AlwaysMarked(id, noReconnect) == IF id = 0 THEN marked ELSE marked \cup {id}  \* mutant
Marks(id, noReconnect) ==
  IF id = 0 THEN marked
  ELSE IF id \in marked THEN marked \ {id}
  ELSE IF noReconnect THEN marked \cup {id} ELSE marked

\* Its callback: the stream has ended, and the client is marked or unmarked.
FinishClose(c) ==
  /\ closing[c] # << >>
  /\ closing' = [closing EXCEPT ![c] = Tail(@)]
  /\ closed' = [closed EXCEPT ![c] = TRUE]
  /\ marked' = Marks(sent[c], Head(closing[c]))
  /\ asked' = IF Head(closing[c]) THEN asked \cup {sent[c]} ELSE asked
  /\ wire' = IF Connected(c) /\ ~closed[c] THEN Append(wire, End) ELSE wire
  /\ UNCHANGED <<client, requests, sent, status, breaks, faults>>

Next == \/ TimerFires \/ FetchFails \/ Respond \/ Read \/ ReadEnd \/ ReadFails \/ Close \/ Accept
        \/ \E c \in Endpoints : Send(c) \/ CloseEndpoint(c) \/ FinishClose(c)

\* Timers fire, the server answers, what is written arrives, promises settle.
Fairness == /\ WF_vars(TimerFires) /\ WF_vars(Accept) /\ WF_vars(Respond)
            /\ WF_vars(Read) /\ WF_vars(ReadEnd)
            /\ \A c \in Endpoints : WF_vars(FinishClose(c))

Spec == Init /\ [][Next]_vars /\ Fairness

-----------------------------------------------------------------------------
ClientTypeOK ==
  /\ readyState \in {"CONNECTING", "OPEN", "CLOSED"}
  /\ aborted \in BOOLEAN /\ timer \in BOOLEAN
  /\ step \in {"none", "fetching", "responding", "reading"}
  /\ lastEventId \in 0 .. MaxEvents /\ received \in Seq(1 .. MaxEvents)
  /\ closeCalled \in {"no", "clean", "racing"}

ServerTypeOK ==
  /\ requests \in 0 .. MaxBreaks + 1 /\ sent \in [Endpoints -> 0 .. MaxEvents]
  /\ closed \in [Endpoints -> BOOLEAN] /\ closing \in [Endpoints -> Seq(BOOLEAN)]
  /\ marked \subseteq 1 .. MaxEvents /\ asked \subseteq 0 .. MaxEvents

NetworkTypeOK ==
  /\ status \in {0, 200, 204, 500} /\ wire \in Seq(0 .. MaxEvents)
  /\ breaks \in 0 .. MaxBreaks /\ faults \in Faults

TypeOK == ClientTypeOK /\ ServerTypeOK /\ NetworkTypeOK

\* Every event is dispatched once and in order, over all connections, whatever
\* is lost when one breaks: the ID sent back is that of the last event dispatched.
NothingRepeated == /\ \A i \in DOMAIN received : received[i] = i
                   /\ Len(received) = lastEventId

\* There is one connection, or one timer that will make it, and never both.
OneConnection == timer => step = "none"

\* A source is closed for good by close().  Unless close() is called while a
\* request is on its way, or in a listener of the error event.
ClosedStaysClosed == closeCalled = "clean" => readyState = "CLOSED" /\ ~timer

\* sse.ts:758: "Closes the connection."
CloseIsFinal == closeCalled # "no" => readyState = "CLOSED"

\* A client is turned away with 204 only if an endpoint was closed with
\* noReconnect after the very event that this client received last.
TurnedAwayIfAsked == step = "responding" /\ status = 204 => lastEventId \in asked

\* sse.ts:430: "the server will send a `204 No Content` response to the client to instruct
\* it to terminate the connection": close(true) of the endpoint of a reading client closes the
\* client, when that has an ID and the connection does not break before.  Unless the ID is
\* marked already, or another endpoint that sent it is being closed, which would unmark it.
ToldNotToReconnect ==
  /\ faults = {} /\ breaks = MaxBreaks /\ step = "reading"
  /\ sent[requests] \notin {0} \cup marked
  /\ \A c \in Endpoints : closing[c] = IF c = requests THEN <<TRUE>> ELSE << >>
NoReconnectObeyed == ToldNotToReconnect ~> readyState = "CLOSED" \/ closeCalled = "racing"

\* A source that is not open, since its connection broke or was never made, gets open or is
\* closed, once the network does not fail any more.
Reconnects ==
  readyState = "CONNECTING" /\ closeCalled = "no" ~> readyState \in {"OPEN", "CLOSED"} \/ closeCalled = "racing"
=============================================================================
