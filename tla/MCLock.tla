-------------------------------- MODULE MCLock --------------------------------
(* Lock with three coroutines, one mutex that guards a counter and two keys; *)
(* a mutex for each coroutine that may have one made.                        *)
EXTENDS Lock

===============================================================================
