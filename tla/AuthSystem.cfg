CONSTANTS
  p1 = p1
  p2 = p2
  q1 = q1
  q2 = q2
  s1 = s1
  s2 = s2
  None = None
  Providers = {p1, p2}
  Writers = {w1, w2}
  Local = {w1}
  Requests = {q1, q2}
  SignIns = {s1, s2}
  Modes = {"open", "invite"}
  MaxWrites = 2
  ProbeInterval = 1
  RefreshTimeout = 1
  MaxClock = 2
  MaxGen = 1
  Loads <- MCLoads
SPECIFICATION Spec
INVARIANTS OwnWritesAreSeen WritesTakeEffect SignInsKeepUp
PROPERTIES RegistryNeverGoesBack ProviderWritesLeaveAWayIn
SYMMETRY MCSymmetry
CHECK_DEADLOCK FALSE
