SPECIFICATION MCSpec
CONSTANTS
    Base = "base"
    Mod = "mod"
    Pk3File = "zip"
    PakOrder <- MCPakOrder
    Names <- MCNames
    Contents <- MCContents
    Packings <- MCPackings
    Lower <- MCLower
    KeyOrder <- MCKeyOrder
    VPaths <- MCVPaths
    CommandLines <- MCCommandLines
    Disks <- AllDisks
    MaxEdits = 2
    MaxClock = 1
    MapOf <- MCMapOf
    Levels <- MCLevels
    LevelNames <- MCLevelNames
    Files <- MCFiles
    Configs <- MCConfigs
    KeyOf <- MCKeyOf
    BadKey = "bad"
    Manifests <- MCManifests
    Trees <- MCTrees
    LevelEdits <- MCLevelEdits
    FileEdits <- MCFileEdits
    Typed <- MCTyped
    Trim <- MCTrim
    Rounded <- MCRounded
    Shorter <- MCShorter
    WorkDir = "/repo"
    OldFiles <- MCOldFiles
    MaxChanges = 1
    Readable <- MCReadable
    Dashed <- MCDashed
    LevelFiles <- MCLevelFiles
    Roots = {"a", "b"}
    Jobs <- MCJobs
    Prints <- MCPrints
    Builders = {"build"}
    Cleaners = {"clean"}
    ContentJobs = {"build", "clean"}
    LogMax = 2
    MaxStarts = 2
    MaxRefusals = 1
    MaxClears = 1
INVARIANTS
    LookupsAgree IndexTells BuildsTell LevelsAgree
    SettingsKept PanelUnderstood LanesTrue
CHECK_DEADLOCK FALSE
