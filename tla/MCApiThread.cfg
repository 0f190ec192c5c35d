SPECIFICATION ThreadSpec
CONSTANTS
  default = default
  bedroom = bedroom
  Order <- TwoPartitions
  MaxIdle = 1
  SocketErrors = {default, bedroom}
  Requests <- AllRequests
  OtherParts = {"p2"}
  Fds = {1, 2, 3, 4, 5}
  Replaced = {2}
  FirstId = 10
  MaxId = 11
  ListMax = 1
  LastId = 12
INVARIANTS Attended AnsweredOnce NoFreedEntry PollsListed UniqueIds OneShotOnce ChangesScheduled FitsArray
CHECK_DEADLOCK FALSE
