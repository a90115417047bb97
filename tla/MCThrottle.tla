------------------------------ MODULE MCThrottle ------------------------------
(* Throttle with functions of one key, of several durations and modes.       *)
EXTENDS Throttle

===============================================================================
