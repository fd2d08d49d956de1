SPECIFICATION FairControlSpec
CONSTANTS
  w1 = w1
  w2 = w2
  q1 = q1
  q2 = q2
  q3 = q3
  q4 = q4
  Workers = {w1}
  Schedulers = {s1}
  Admins = {api}
  Jobs = {j1}
  QueueIds = {q1, q2, q3}
  MaxAttempts = 2
  NoWorker = NoWorker
  Interval = 2
  MaxTime = 3
  MaxEdits = 1
  MaxDeaths = 1
  Never = Never
  NoJob = NoJob
CHECK_DEADLOCK FALSE
PROPERTIES
  RunsAreSpaced
  DueJobIsEnqueued
