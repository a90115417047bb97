SPECIFICATION InOrderSpec
CONSTANTS
  Tasks = {t1, t2, t3}
  Workers = {w1, w2, w3}
  Adapters = {thread}
  Limits = {1, 2}
  Faults = {{}, {"start"}, {"wait"}, {"abort"}}
  None = None
CHECK_DEADLOCK FALSE
INVARIANTS OneTaskPerWorker NoPlaceLost NobodyStuck
PROPERTY EventuallyServed
