SPECIFICATION Spec
CONSTANTS
  w1 = w1
  w2 = w2
  Workers = {w1, w2}
  Period = 5
  LeaseTicks = 2
  StaleTicks = 2
  Horizon = 8
  StopsUntil = 1
  MaxStops = 2
  MaxStalls = 1
CHECK_DEADLOCK FALSE
INVARIANTS TypeOK OneRunner
PROPERTIES ReplayedOnlyAfterStall TakeoverJustified 
