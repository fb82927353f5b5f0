SPECIFICATION FairSpec
CONSTANTS
  io = io
  cpu = cpu
  w1 = w1
  w2 = w2
  w3 = w3
  j1 = j1
  j2 = j2
  Queue = {io, cpu}
  Worker = {w1, w2, w3}
  Serves <- Both
  Job = {j1, j2}
  Capacity = 2
  USIZE_MOD = 16
  None = None
INVARIANTS
  NoLostWakeup
  RunsOnce
  JobsConserved
  CancelStops
  MetricsExact
PROPERTIES
  FirstInFirstOut
  EveryJobSettles
CHECK_DEADLOCK FALSE
