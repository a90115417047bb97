SPECIFICATION InOrderSpec
CONSTANTS
  Wrappers = {f, g, h}
  Calls = {x1, x2, x3}
  Keys = {k}
  Caches = {c1, c2, c3}
  None = None
CHECK_DEADLOCK FALSE
INVARIANTS PendingInOneBatch DataOfTheBatch AbortCancels
PROPERTY EveryCallSettles
