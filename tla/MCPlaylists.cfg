SPECIFICATION PlaylistsSpec
CHECK_DEADLOCK FALSE
CONSTANTS
  plist1 = plist1
  plist2 = plist2
  Plists = {plist1, plist2}
  NoList = NoList
  KnownSongs = {1, 2}
  GoneSongs = {3}
  ResultsMax = 2
  CommandsMax = 2
  ReadBound = 5
  EditSongs = {1}
  PlistWorlds <- Worlds
  Defs <- Definitions
  PlistEdits = 1
  PlistJobs = 1
  PlistFaults = 1
INVARIANTS SongsKept Updated
