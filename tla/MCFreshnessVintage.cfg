\* Two refreshes, of which the second may fail after its core load.
SPECIFICATION Spec
CONSTANTS
  Jobs = {j1, j2}
  LastTick = 8
  Stale = 3
  NewestPeriod = 2
INVARIANT TrueVintage
CHECK_DEADLOCK FALSE
