SPECIFICATION IncidentsSpec
CONSTANTS
  w1 = w1
  w2 = w2
  i1 = i1
  i2 = i2
  Workers = {w1, w2}
  Ids = {i1, i2}
  Webhooks = {hook}
  Emails = {mail}
  NoId = NoId
  MaxEdits = 1
  MaxCrashes = 1
CHECK_DEADLOCK FALSE
SYMMETRY RunSymmetry
INVARIANTS
  RunsResolveOnlyNewcomers
  
  AlertsMatchIncidents
