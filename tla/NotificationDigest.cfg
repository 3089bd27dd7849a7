SPECIFICATION FairSpec
CONSTANTS
  p1 = p1
  p2 = p2
  ann = ann
  bob = bob
  red = red
  blue = blue
  annRed = annRed
  annBlue = annBlue
  bobBlue = bobBlue
  Processes = {p1, p2}
  PoolSize <- TwoAndOne
  Requests <- TwoAndOne
  Rows = {annRed, annBlue, bobBlue}
  Loads <- MCLoads
  Users = {ann, bob}
  Teams = {red, blue}
  UserOf <- MCUserOf
  TeamOf <- MCTeamOf
  Unreachable = {bob}
  BrokenTeams = {red}
  MaxHeld = 3
  Faults = {"call", "context", "crash"}
  MaxFaults = 1
INVARIANTS ProcessesStayApart RetiredWasMailed RepeatsAreUnrecorded
PROPERTY HealthyTeamsAreServed
CHECK_DEADLOCK FALSE
