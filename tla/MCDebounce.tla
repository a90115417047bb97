------------------------------ MODULE MCDebounce ------------------------------
(***************************************************************************)
(* Debounce with a few functions and calls.  The calls are alike until they  *)
(* are made, so that they are made in a fixed order; the functions are alike *)
(* but for their options, so that it is enough to start from those in which  *)
(* they are in the order of their options.                                   *)
(***************************************************************************)
EXTENDS Debounce, SequencesExt

Functions == SetToSeq(Wrappers)
Rank(w) == (IF key[w] = None THEN 0 ELSE 2) + (IF reducer[w] THEN 1 ELSE 0)

InOrderInit ==
  /\ Init
  /\ \A i \in 1 .. Len(Functions) - 1 : Rank(Functions[i]) <= Rank(Functions[i + 1])

Upcoming == LET idle == {x \in Calls : promise[x] = "idle"}
            IN  IF idle = {} THEN {} ELSE {CHOOSE x \in idle : TRUE}

InOrderNext ==
  \/ \E w \in Wrappers : Make(w) \/ Abort(w)
  \/ \E w \in Wrappers, x \in Upcoming : CallRefused(x, w) \/ ReducerThrows(x, w) \/ Call(x, w)
  \/ \E c \in Caches : Fire(c)
  \/ \E b \in batches : Finish(b)

InOrderSpec == InOrderInit /\ [][InOrderNext]_vars /\ Fairness
=============================================================================
