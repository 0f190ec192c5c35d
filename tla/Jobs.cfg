SPECIFICATION FairSpec
CONSTANTS
  Workers = {w1, w2}
  MaxWorkers = 1
  Trees = {1, 2, 3}
  None = None
  FirstMode = "album"
  MaxRequests = 2
  MaxChanges = 1
INVARIANTS FlagsTrue CacheOwned
PROPERTIES FlagsReset
CHECK_DEADLOCK FALSE
