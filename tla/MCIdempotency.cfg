SPECIFICATION Spec
CONSTANTS
  r1 = r1
  r2 = r2
  r3 = r3
  r4 = r4
  b1 = b1
  b2 = b2
  Requests = {r1, r2, r3, r4}
  Bodies = {b1, b2}
  NoRequest = NoRequest
  NoBody = NoBody
  MaxFailures = 2
CHECK_DEADLOCK FALSE
INVARIANTS TypeOK WorksUnderItsRecord AnswersFaithful NoSilentDuplicate
PROPERTIES KeySettles
