SPECIFICATION Spec
CONSTANTS
  u1 = u1
  Usages = {u1}
  MaxInstant = 3
  PerMinute = 2
  MaxKm = 1
  MinAllowanceKm = 0
  KmPerInstant = 0
  MaxReadings = 3
  MaxSegments = 2
INVARIANTS TypeOK DistanceFollowsReadings CumulativeNeverDecreases
PROPERTIES ValidationStands BaseStands
CHECK_DEADLOCK FALSE
