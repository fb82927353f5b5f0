SPECIFICATION Spec
CONSTANTS
  k1 = k1
  k2 = k2
  Key = {k1}
  MaxSlots = 2
  Priority = {1, 2}
  Budget = 1
  Cost = 1
  Capacity = 1
  MaxEdits = 1
  MaxCommands = 1
  MaxReloads = 1
  MaxCancels = 1
  MaxPanics = 1
  None = None
  Workers <- OneWorkerEach
  Opts <- HighAndBackground
INVARIANTS
  OneLoadPerSlot
  CacheTrue
PROPERTIES
  CancelStopsLoad
CHECK_DEADLOCK FALSE
