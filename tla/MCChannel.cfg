SPECIFICATION InOrderSpec
CONSTANTS
  Sends = {s1, s2, s3, s4, s5}
  Recvs = {r1, r2, r3, r4, r5, r6, r7, r8, r9, r10}
  Infinity = Infinity
  Capacities = {0, 1, 2, Infinity}
  Undef = Undef
CHECK_DEADLOCK FALSE
INVARIANTS ExactlyOnce NoReceiverMissed
PROPERTIES EndOfStreamIsLast ImplementsFifo EventuallyReceived
