------------------------------- MODULE MCQueue -------------------------------
(* Queue on a few pushed data.                                              *)
EXTENDS Queue, TLC
=============================================================================
