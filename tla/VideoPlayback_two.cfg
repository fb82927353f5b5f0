SPECIFICATION FairSpec
CONSTANTS
  Last = 2
  Contents <- TwoFiles
  MinFrames = 2
  PrebufferMin = 1
  PrebufferMax = 2
  PreloadMax = 1
  WarmMax = 2
  PlayMax = 3
  WarmUp = 1
  PredecodeMax = 2
  PreloadAfter = 1
  PreloadFrames = 1
  PreloadAudio = 1
  VideoBudget = 2
  MaxAhead = 2
  EndGap = 1
  Late = 1
  PcmMax = 1
  USIZE_MOD = 8
  Horizon = 4
  MaxUpsets = 1
INVARIANTS
  SoundOfCurrent
  CountsExact
PROPERTIES
  StopReturns
  PlaylistEnds
CHECK_DEADLOCK FALSE
