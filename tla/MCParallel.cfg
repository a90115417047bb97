SPECIFICATION InOrderSpec
CONSTANTS
  Tasks = {t1, t2}
  Workers = {w1, w2}
  Limits = {1, 2}
  Faults = {{}, {"start"}, {"clone"}, {"exit"}, {"leave"}}
  MaxYields = 2
  None = None
CHECK_DEADLOCK FALSE
INVARIANTS ServedByPool NoTaskKept NoDatumLost
PROPERTIES AwaitSettles NextSettles
