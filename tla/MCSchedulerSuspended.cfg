SPECIFICATION Spec
CONSTANTS
  w1 = w1
  w2 = w2
  Workers = {w1, w2}
  Period = 5
  LeaseTicks = 2
  StaleTicks = 2
  Horizon = 4
  StopsUntil = 0
  MaxStops = 0
  MaxStalls = 1
CHECK_DEADLOCK FALSE

PROPERTY SlotOnce
