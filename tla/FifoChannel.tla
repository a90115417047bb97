----------------------------- MODULE FifoChannel -----------------------------
(***************************************************************************)
(* What a channel promises its callers, without buffers, promises of       *)
(* senders or closing states: data come out once and in the order they     *)
(* went in, a reader that finds none waits and is served in turn, and the  *)
(* end of the stream is seen only after the last datum.                    *)
(***************************************************************************)
EXTENDS Sequences

CONSTANTS Data, Readers, Nothing

VARIABLES
  queue,    \* the data not yet read, oldest first
  waiting,  \* the readers that wait, oldest first
  open,     \* TRUE until the channel is closed
  put,      \* the data ever put
  got,      \* each reader's outcome: "idle", "pending", "datum" or "end"
  datum     \* the datum of a reader whose outcome is "datum"

vars == <<queue, waiting, open, put, got, datum>>

Init == /\ queue = << >> /\ waiting = << >>
        /\ open = TRUE
        /\ put = {}
        /\ got = [r \in Readers |-> "idle"]
        /\ datum = [r \in Readers |-> Nothing]

Put(d) == /\ open /\ d \notin put /\ waiting = << >>
          /\ put' = put \cup {d}
          /\ queue' = Append(queue, d)
          /\ UNCHANGED <<waiting, open, got, datum>>

Handoff(d) == /\ open /\ d \notin put /\ waiting # << >>
              /\ put' = put \cup {d}
              /\ waiting' = Tail(waiting)
              /\ got' = [got EXCEPT ![Head(waiting)] = "datum"]
              /\ datum' = [datum EXCEPT ![Head(waiting)] = d]
              /\ UNCHANGED <<queue, open>>

Get(r) == /\ got[r] = "idle" /\ queue # << >>
          /\ queue' = Tail(queue)
          /\ got' = [got EXCEPT ![r] = "datum"]
          /\ datum' = [datum EXCEPT ![r] = Head(queue)]
          /\ UNCHANGED <<waiting, open, put>>

Wait(r) == /\ got[r] = "idle" /\ queue = << >> /\ open
           /\ waiting' = Append(waiting, r)
           /\ got' = [got EXCEPT ![r] = "pending"]
           /\ UNCHANGED <<queue, open, put, datum>>

End(r) == /\ got[r] = "idle" /\ queue = << >> /\ ~open
          /\ got' = [got EXCEPT ![r] = "end"]
          /\ UNCHANGED <<queue, waiting, open, put, datum>>

\* Closing ends every reader that waits.
Close == /\ open
         /\ open' = FALSE
         /\ waiting' = << >>
         /\ got' = [r \in Readers |-> IF got[r] = "pending" THEN "end" ELSE got[r]]
         /\ UNCHANGED <<queue, put, datum>>

Next == \/ \E d \in Data : Put(d) \/ Handoff(d)
        \/ \E r \in Readers : Get(r) \/ Wait(r) \/ End(r)
        \/ Close

Spec == Init /\ [][Next]_vars
=============================================================================
