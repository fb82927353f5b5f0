SPECIFICATION Spec
CONSTANTS
  Last = 3
  Contents <- ThreeFiles
  MinFrames = 2
  PrebufferMin = 1
  PrebufferMax = 1
  PreloadMax = 1
  WarmMax = 2
  PlayMax = 3
  WarmUp = 1
  PredecodeMax = 2
  PreloadAfter = 1
  PreloadFrames = 1
  PreloadAudio = 1
  VideoBudget = 2
  MaxAhead = 1
  EndGap = 1
  Late = 1
  PcmMax = 1
  USIZE_MOD = 8
  Horizon = 4
  MaxUpsets = 0
INVARIANTS
  EveryEntryPlays
CHECK_DEADLOCK FALSE
