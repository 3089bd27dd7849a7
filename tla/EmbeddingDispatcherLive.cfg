SPECIFICATION DispatcherLiveSpec
CONSTANTS
  Tasks = {j1, j2}
  NoJob = NoJob
  Workers = {w1}
  Closers = {s1}
  MaxTasks = 4
  BatchSize = 2
  MaxAttempts = 2
  Concurrencies = {1}
  MaxExecutors = 1
INVARIANT NoLostWakeup
PROPERTIES ClaimedWithoutTimer StopTerminates
CHECK_DEADLOCK FALSE
