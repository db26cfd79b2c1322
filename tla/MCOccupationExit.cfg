SPECIFICATION Spec
CONSTANTS
  v1 = v1
  v2 = v2
  d1 = d1
  d2 = d2
  u1 = u1
  u2 = u2
  c1 = c1
  c2 = c2
  Vehicles = {v1}
  Drivers = {d1}
  Companies = {c1, c2}
  UsageIds = {u1}
  ReservationIds = {"r1"}
  HomeCompany <- MCHomeCompany
  Horizon = 2
  Periods <- MCPeriods
  Outages <- MCOutages
  Targets <- MCTargets
  FutureTolerance = 1
  StartTolerance = 1
  Early = 1
  Grace = 1
INVARIANT ExitedVehicleNotImmobilized
