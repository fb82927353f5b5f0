SPECIFICATION FairSpec
CONSTANTS
  k1 = k1
  k2 = k2
  Key = {k1, k2}
  MaxSlots = 2
  Priority = {1, 2}
  Budget = 1
  Cost = 1
  Capacity = 1
  MaxEdits = 0
  MaxCommands = 1
  MaxReloads = 0
  MaxCancels = 0
  MaxPanics = 0
  None = None
  Workers <- OneWorkerEach
  Opts <- HighAndBackground
PROPERTIES
  EveryLoadSettles
CHECK_DEADLOCK FALSE
