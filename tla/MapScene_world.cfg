SPECIFICATION MCSpec
CONSTANTS
    MaxLeaf = 2
    MaxTris = 2
    MinSize = 4
    MaxDepth = 2
    TestMaps <- MCTestMaps
    BspArgs <- MCBspArgs
    Queries <- MCQueries
    MaxEdits = 1
    Levels <- MCLevels
    Eps = 1
    EyeHeight = 5
    StepHeight = 3
    MaxDrop = 8
    Probe = 2
    MaxDown = 6
    UnstuckDy <- MCUnstuckDy
    UnstuckRadii <- MCUnstuckRadii
    Wishes <- MCWishes
    Strides = {1, 3}
    Reach <- MCReach
    Floors = {0, 2}
    Slopes = {2}
    Ceiling = 7
    JumpSpeed = 2
    Gravity = 1
    Window = 2
    Snap = 1
    StepUp = 2
    Offset = 2
    Eye = 3
    FrameTimes = {1, 4}
    FixedTimes = {0, 2}
    Substeps = {1, 2}
    MaxAccum = 5
    MaxSteps = 2
    Fastest = 4
INVARIANTS
    CookSound SceneSolid HullSound Walking
CHECK_DEADLOCK FALSE
