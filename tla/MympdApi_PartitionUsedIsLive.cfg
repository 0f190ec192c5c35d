SPECIFICATION Spec
CONSTANTS
  default = default
  bedroom = bedroom
  Order <- TwoPartitions
  MaxIdle = 1
  SocketErrors = {}
  Requests <- AllRequests
INVARIANT PartitionUsedIsLive
CHECK_DEADLOCK FALSE
