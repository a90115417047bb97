------------------------------ MODULE MCParallel ------------------------------
(***************************************************************************)
(* Parallel with a few calls.  They are alike but for their functions, so    *)
(* that it is enough to start with the generators first and to make the      *)
(* calls of a kind in one order.                                              *)
(***************************************************************************)
EXTENDS Parallel, SequencesExt

Ordered == SetToSeq(Tasks)

InOrder == \A i \in 1 .. Len(Ordered) - 1 : Ordered[i + 1] \in generator => Ordered[i] \in generator

InOrderInit == Init /\ InOrder
InOrderSpec == InOrderInit /\ [][Next]_vars /\ Fairness
===============================================================================
