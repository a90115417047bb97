------------------------------ MODULE MCChannel ------------------------------
(* Channel on a few calls.  The calls are interchangeable, so they are made *)
(* in a fixed order: one representative of every permutation of their names. *)
EXTENDS Channel

\* The call made next, if one is left.
Upcoming(calls, promise) ==
  LET idle == {c \in calls : promise[c] = "idle"}
  IN  IF idle = {} THEN {} ELSE {CHOOSE c \in idle : TRUE}

Senders == \E s \in Upcoming(Sends, sendPromise) : Send(s)
Receivers == \E r \in Upcoming(Recvs, recvPromise) : Recv(r)
Closers == \E err \in BOOLEAN : Close(err)

InOrderSpec == /\ Init /\ [][Senders \/ Receivers \/ Closers]_vars
               /\ WF_vars(Receivers)
=============================================================================
