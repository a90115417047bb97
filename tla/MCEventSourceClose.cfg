SPECIFICATION Spec
CONSTANTS
  MaxEvents = 1
  MaxBreaks = 1
  Faults = {{}}
CHECK_DEADLOCK FALSE
INVARIANT CloseIsFinal
