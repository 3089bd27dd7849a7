SPECIFICATION DispatcherSpec
CONSTANTS
  Tasks = {j1, j2}
  NoJob = NoJob
  Workers = {w1, w2}
  Closers = {s1, s2}
  MaxTasks = 2
  BatchSize = 2
  MaxAttempts = 1
  Concurrencies = {1, 2}
  MaxExecutors = 3
INVARIANTS NothingRefused StopLeavesNothing
SYMMETRY Symmetry
CHECK_DEADLOCK FALSE
