SPECIFICATION Spec
CONSTANTS
  Entities = {e1}
  Workers = {w1}
  Survivors = {w1}
  NoWorker = NoWorker
  MaxAttempts = 3
  IntakeWorkers <- TwoForSurvivors
  BatchSize = 2
  MaxRetries = 2
  Chunks = 2
  MaxVersion = 2
INVARIANT SettledByItsText
CHECK_DEADLOCK FALSE
