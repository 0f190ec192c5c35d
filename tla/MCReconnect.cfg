SPECIFICATION FairSpec
CONSTANTS
  default = default
  bedroom = bedroom
  Order <- TwoPartitions
  MaxIdle = 1
  SocketErrors = {bedroom}
  Requests <- FewRequests
PROPERTY Reconnects
CHECK_DEADLOCK FALSE
