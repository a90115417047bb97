SPECIFICATION Spec
CONSTANTS
  MaxYields = 3
  MaxCalls = 3
CHECK_DEADLOCK FALSE
INVARIANTS  LoopComplete
PROPERTY EverybodyTold
