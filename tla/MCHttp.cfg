SPECIFICATION Spec
CONSTANTS
  Tables <- MCTables
  Handlers <- MCHandlers
  Inbound <- MCInbound
  Codes = {0, 101, 150, 299, 404, 1024}
  MaxReloads = 1
  Addresses = {a1}
  MaxVisits = 2
  Idle = 1
  BlockTimes = {1, 2}
  MaxClock = 3
  UserLines = {u1, u2}
  Names = {h1, h2}
  Adrs = {ip1, ip2}
  MaxUpdates = 2
  MaxSeconds = 3
  Loaders = {c1, c2}
  Recheck = 1
  MaxVersion = 4
  MaxWebTime = 2
  Pids = {1, 2, 3}
  MaxStarts = 5
  Parts <- MCParts
  Trees <- MCTrees
  Options <- MCOptions
  Dirs <- MCDirs
  Tools <- MCTools
  ScriptSets <- MCScriptSets
  ModuleSets <- MCModuleSets
  Confs <- MCConfs
  MaxEdits = 1
INVARIANTS
  AnswersCorrect
  FileKept
  FilesCorrect
  KindsCorrect
PROPERTIES
  BlocksCorrect
  LoadCorrect
  LoadsReturn
  CleanupCorrect
CHECK_DEADLOCK FALSE
