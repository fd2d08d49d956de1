SPECIFICATION FairQueueSpec
CONSTANTS
  Workers = {w1, w2}
  Jobs = {j1}
  QueueIds = {q1, q2}
  MaxAttempts = 2
  RetryDelay = 1
  MaxCrashes = 1
  NoWorker = NoWorker
  NoJob = NoJob
  NoItem = NoItem
INVARIANTS SingleOwner ClaimsWithinBudget HistoryMatchesQueue
PROPERTIES EveryDispatchEnds EarlyClaimIsStale StrandedIsForever ImplementsLifecycle
CHECK_DEADLOCK FALSE
