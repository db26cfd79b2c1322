SPECIFICATION Spec
CONSTANTS
  w1 = w1
  w2 = w2
  Workers = {w1, w2}
  Period = 3
  LeaseTicks = 2
  StaleTicks = 3
  Horizon = 9
  StopsUntil = 1
  MaxStops = 1
  MaxStalls = 0
CHECK_DEADLOCK FALSE

PROPERTY InterruptedRunSettles
