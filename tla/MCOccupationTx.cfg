SPECIFICATION Spec
CONSTANTS
  v1 = v1
  v2 = v2
  d1 = d1
  r1 = r1
  r2 = r2
  NoRequest = NoRequest
  Vehicles = {v1, v2}
  Drivers = {d1}
  Requests = {r1, r2}
  Asked = {"depart", "return", "reserve", "cancel", "exit", "restore", "deactivate", "reactivate", "immobilize", "release"}
SYMMETRY MCSymmetry
INVARIANTS TypeOK PromisesHonoured NoDeadlock
PROPERTIES AtomicSpec DeparturesAvailable
