SPECIFICATION LiveSpec
CONSTANTS
  Workers = {w1, w2, w3}
  Closers = {c1, c2}
  Tasks = {t1, t2}
  MaxTasks = 5
INVARIANTS NobodySleepsOnWork
PROPERTIES KeepsPoolPromise AcceptedIsStarted CloseTerminates
CHECK_DEADLOCK FALSE
