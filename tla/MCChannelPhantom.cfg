SPECIFICATION Spec
CONSTANTS
  Sends = {s1, s2, s3}
  Recvs = {r1, r2, r3}
  Infinity = Infinity
  Capacities = {1}
  Undef = Undef
CHECK_DEADLOCK FALSE
INVARIANT UndefinedMeansClosed
