SPECIFICATION FairSpec
CONSTANTS
  Cancels = {c1}
  Clients = {k1}
  Kinds = {"stream", "sync", "reported"}
  MaxEvents = 2
  MaxFaults = 1
  MayBeCut = TRUE
INVARIANTS OutcomeIsTheAgents
PROPERTIES VerdictStands NewEventsComeLast InvocationsEnd
CHECK_DEADLOCK FALSE
