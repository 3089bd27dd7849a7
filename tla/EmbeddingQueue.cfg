SPECIFICATION LiveSpec
CONSTANTS
  Entities = {e1}
  Workers = {w1, w2}
  Survivors = {w1}
  NoWorker = NoWorker
  MaxAttempts = 2
  IntakeWorkers <- TwoForSurvivors
  BatchSize = 2
  MaxRetries = 1
  Chunks = 2
  MaxVersion = 2
INVARIANT SettledUnlessCrossed
PROPERTIES LeaseRespected KeepsPromise OutstandingIsSettled
VIEW AllButStored
CHECK_DEADLOCK FALSE
