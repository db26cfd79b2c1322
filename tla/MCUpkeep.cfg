SPECIFICATION Spec
CONSTANTS
  n1 = n1
  i1 = i1
  Interventions = {n1}
  Incidents = {i1}
  Other = Other
  NoIncident = NoIncident
  MaxInstant = 1
  FutureTolerance = 1
  MaxCauses = 3
  MaxAdmitted = 1
VIEW View
INVARIANTS TypeOK PeriodsSummariseCauses CostsInTheBooks
PROPERTIES ClosedTakesNoIntervention DowntimeSpec
CHECK_DEADLOCK FALSE
