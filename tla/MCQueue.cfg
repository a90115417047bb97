SPECIFICATION QueueSpec
CONSTANTS
  Sends = {s1, s2, s3}
  Recvs = {r1, r2, r3, r4, r5, r6, r7}
  Infinity = Infinity
  Capacities = {0, 1, Infinity}
  Undef = Undef
  Loops = {l1}
CHECK_DEADLOCK FALSE
INVARIANTS NothingSkipped EndedMeansDrained HandledInOrder
PROPERTIES CloseEndsLoops EventuallyHandled
