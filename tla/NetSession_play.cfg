SPECIFICATION Spec
CONSTANTS
  c1 = c1
  c2 = c2
  None = None
  Client = {c1, c2}
  BASELINE_INTERVAL = 3
  Configs <- BothConfigs
  MaxCalls = 3
  MaxInputs = 1
  MaxLost = 1
  MaxFailures = 1
SYMMETRY Symmetry
INVARIANTS
  ClientsFollow
  ServerFollows
CHECK_DEADLOCK FALSE
