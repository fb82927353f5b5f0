SPECIFICATION FairSpec
CONSTANTS
  CvarDefs <- Cvars
  Scripts <- McScripts
  Shipped <- McShipped
  Profiles <- McProfiles
  LuaCommands <- McLua
  GoodNames = {"a"}
  NoFile = NoFile
  NoTrace = NoTrace
  NaN = NaN
  Junk = Junk
  MaxDepth = 3
  SmokeScripts <- McSmoke
  Typed <- ConsoleLines
  TickLines <- HookOnly
  FirstFiles <- ConsoleFiles
  FirstTraces <- ConsoleTraces
  StepTimeout = 3
  GlobalTimeout = 9
  Frame <- OneFrame
  MaxTyped = 2
  MaxFaults = 1
INVARIANTS
  SettingsAgree
  HostsApart
PROPERTIES
  OwnCaptureWritten
  QueuesDrain
CHECK_DEADLOCK FALSE
