SPECIFICATION ControlSpec
CONSTANTS
  w1 = w1
  w2 = w2
  q1 = q1
  q2 = q2
  q3 = q3
  q4 = q4
  Workers = {w1}
  Schedulers = {s1, s2}
  Admins = {api}
  Jobs = {j1}
  QueueIds = {q1, q2, q3}
  MaxAttempts = 1
  NoWorker = NoWorker
  Interval = 1
  MaxTime = 1
  MaxEdits = 2
  MaxDeaths = 1
  Never = Never
  NoJob = NoJob
CHECK_DEADLOCK FALSE
SYMMETRY QueueIdSymmetry
INVARIANTS
  DispatchesDoNotPileUp
PROPERTIES
  DeletedStaysDeleted
  DeadWorkerSilencesJob
