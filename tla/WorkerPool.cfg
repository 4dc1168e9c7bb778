CONSTANTS
  Workers = {w1, w2, w3}
  max_pending = 2
  MaxTasks = 4
  MaxRejected = 1
  MaxStarts = 2
SPECIFICATION FairSpec
INVARIANTS
  NoTaskAbandoned
  NoLostWakeup
PROPERTIES
  EveryTaskRuns
  StopReturns
