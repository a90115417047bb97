------------------------------ MODULE MCRunPool ------------------------------
(***************************************************************************)
(* RunPool with a few calls, each of which may create a worker.  The calls   *)
(* are alike but for their options, so that it is enough to start from those *)
(* in which they are in the order of their options.                          *)
(***************************************************************************)
EXTENDS RunPool, SequencesExt

\* The calls and the adapters in some order, and a number for each
\* combination of options.
Ordered == SetToSeq(Tasks)
Position == SetToSeq(Adapters)
Rank(t) == 2 * (CHOOSE i \in DOMAIN Position : Position[i] = adapter[t])
           + (IF keepAlive[t] THEN 1 ELSE 0)

InOrder == \A i \in 1 .. Len(Ordered) - 1 : Rank(Ordered[i]) <= Rank(Ordered[i + 1])

InOrderInit == Init /\ InOrder

InOrderSpec == InOrderInit /\ [][Next]_vars /\ Fairness
==============================================================================
