SPECIFICATION Spec
CONSTANTS
  Tasks = {t1, t2, t3}
  Keys = {k1, k2}
  Mutexes = {m0, m1, m2, m3}
  Standalone = {m0}
  Disposers = {{}, {t1}}
  None = None
  ValueBound = 3
INVARIANTS ExclusionIfUnlockedOnce RegistryExact
PROPERTIES NoStarvation ImplementsLock
