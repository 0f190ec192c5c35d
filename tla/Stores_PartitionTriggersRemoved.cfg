SPECIFICATION StoresSpec
CHECK_DEADLOCK FALSE
CONSTANTS
  TriggerPartitions = {"p1"}
  TriggerMax = 1
  TriggerNames = {1, 2}
  TriggerSaves = 3
  ListNodes = {1, 2, 3}
  ListKeys = {1, 2}
  RadioNames = {1, 2}
  RadioUris = {u1, u2}
  RadioMemory = {a1, a2}
  NoRadio = NoRadio
  DbVersions = 2
  MaxSessions = 2
  SessionTimeout = 2
  SessionLogins = 4
  SessionClock = 5
  MaxPlays = 2
  MaxFeatures = 2
  MaxRestarts = 2
  HomeMax = 1
  LastPlayedCount = 1
  Entries = {e1}
  StateChanges = 3
  StateFaults = 2
  ListingLength = 3
  ListingKeys = {0, 1, 2}
  ListingLimits = {1, 2}
  QueueParts <- AddedParts
  QueueUnknown = {9}
  QueueStart <- FirstQueues
  QueuePrioMax = 2
  JukeboxStart <- FirstJukebox
  JukeboxLength = 5
  QueueCalls = 1
  QueueForeign = 1
  RandomTag <- DrawnTags
  RandomWorlds <- DrawWorlds
  RandomPage = 2
  AlbumSongs <- CachedSongs
  AlbumLibraries <- Libraries
  AlbumConfigs <- AlbumModes
  AlbumReads <- SongReads
  AlbumIds = {"id"}
  AlbumPage = 2
  AlbumClock = 2
  AlbumUpdates = 1
  AlbumFaults = 1
  NoTree = NoTree
  SettingGroups <- KeyGroups
  SettingsCalls = 2
  SettingsFaults = 1
  ScriptNames = {1, 2}
  ScriptTexts = {t1, t2}
  BrokenText = BrokenText
  BareText = BareText
  NoText = NoText
  ScriptWorkers = 1
  VarNames = {1, 2}
  VarsMax = 1
  TmpNames = {1}
  TmpLives = {0, 1}
  TmpSweep = 3
  ScriptClock = 3
  ScriptCalls = 2
  ScriptFaults = 1
PROPERTY PartitionTriggersRemoved
