SPECIFICATION Spec
CONSTANTS
  m1 = m1
  m2 = m2
  w1 = w1
  w2 = w2
  Messages = {m1, m2}
  Workers = {w1, w2}
  BatchSize = 2
  MaxAttempts = 2
  LockTicks = 1
  RetryTicks <- MCRetryTicks
  MaxHitches = 2
INVARIANTS TypeOK OneSender AttemptsSpent
PROPERTIES DuplicatesExplained FinalStays EverythingSettles
