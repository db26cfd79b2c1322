SPECIFICATION Spec
CONSTANTS
  j1 = j1
  u1 = u1
  w1 = w1
  w2 = w2
  None = None
  Jobs = {j1}
  Workers = {w1, w2}
  Owners = {j1}
  Keys <- MCKeys
  Uploads = {u1}
  MaxAttempts = 2
  MaxHitches = 2
INVARIANTS TypeOK NothingPromisedIsLost
PROPERTIES OutcomeStays EveryJobEnds
CHECK_DEADLOCK FALSE
