SPECIFICATION FairSpec
CONSTANTS
  p1 = p1  p2 = p2  p3 = p3
  c1 = c1  c2 = c2
  MaxMsgs = 4
  Ids = {0, 1, 2}
  Producers = {p1, p2, p3}
  Consumers = {c1, c2}
  Queues <- AllQueues
  Setup <- AllSetups
  PipeCap = 2
INVARIANTS EventAccounting NoLostWakeup NoStrandedResponse
PROPERTY Delivered
CHECK_DEADLOCK FALSE
