SPECIFICATION Spec
CONSTANTS
  Wrappers = {f, g}
  Durations = {0, 1, 2}
  MaxRuns = 3
  MaxTime = 5
  None = None
CHECK_DEADLOCK FALSE
INVARIANTS RunsApart NothingStale
PROPERTY LatestGiven
