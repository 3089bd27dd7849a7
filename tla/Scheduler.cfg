SPECIFICATION LiveSpec
CONSTANTS
  Replicas = {r1, r2}
  Teams = {a, b, c}
  Registered = {a, b}
  Stored = {b, c}
  Written = {a}
  Intervals = {1}
  MinInterval = 1
  DueLimit = 2
  Writers = {"upsert", "delete"}
  Closing = {r1}
  MaxClock = 1
  MaxIds = 3
  MaxFaults = 1
  Faults = {"statement", "crash", "session"}
  NoReplica = NoReplica
  NoRow = NoRow
  Never = Never
INVARIANTS OneRunPerRow LocksAreInUse

PROPERTIES OwnRunsAreSpaced DueIsRun
CHECK_DEADLOCK FALSE
