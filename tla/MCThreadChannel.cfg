SPECIFICATION PortSpec
CONSTANTS
  Main = Main
  WorkerThreads = {w1, w2}
  MaxPasses = 3
  MaxData = 2
CHECK_DEADLOCK FALSE
INVARIANT CloserHeard
PROPERTY CloseReachesAll
