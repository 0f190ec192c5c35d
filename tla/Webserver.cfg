SPECIFICATION WebFairSpec
CHECK_DEADLOCK FALSE
CONSTANTS
  Fronts = {1, 2}
  Backs = {b1, b2}
  Null = Null
  MaxRequests = 2
  MaxConns = 2
INVARIANTS InOrder ProxyOK
PROPERTY Served
