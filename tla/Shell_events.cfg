SPECIFICATION FairSpec
CONSTANTS
  walk = walk
  Key = {walk}
  MaxMovies = 2
  MaxEvents = 3
  MaxMeddling = 1
  Warmup = 2
  ReplayLen = 1
INVARIANTS
  WindowSettles
  InputFollows
PROPERTIES
  Shown
CHECK_DEADLOCK FALSE
