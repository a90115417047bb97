----------------------------- MODULE AbstractLock -----------------------------
(* What a lock promises: one owner at a time, nobody passed over for good.    *)
CONSTANTS Tasks, Nobody

VARIABLES owner,   \* the task that has the lock, or Nobody
          waiting  \* the tasks that asked for it

vars == <<owner, waiting>>

Init == owner = Nobody /\ waiting = {}

Ask(t) == /\ owner \notin {t, Nobody} /\ t \notin waiting
          /\ waiting' = waiting \cup {t}
          /\ UNCHANGED owner

\* A task that asks while nobody has the lock and nobody waits gets it at once.
TakeFree(t) == /\ owner = Nobody /\ waiting = {}
               /\ owner' = t
               /\ UNCHANGED waiting

\* The owner gives the lock up, or hands it to one that waits.
Leave == /\ owner # Nobody /\ waiting = {}
         /\ owner' = Nobody
         /\ UNCHANGED waiting

HandOver(t) == /\ owner # Nobody /\ t \in waiting
               /\ owner' = t
               /\ waiting' = waiting \ {t}

Next == \/ \E t \in Tasks : Ask(t) \/ TakeFree(t) \/ HandOver(t)
        \/ Leave

Spec == Init /\ [][Next]_vars
===============================================================================
