SPECIFICATION HandoverSpec
CHECK_DEADLOCK FALSE
CONSTANTS
  MaxMsgs = 4
  Ids = {0, 1, 2}
  MaxTime = 1
  Callers = {c1, c2}
  MaxCalls = 3
  MaxTries = 2
  Second = 2
  MaxAge = 8
INVARIANTS ListSound CallsPrompt
PROPERTIES RefinesChannel ExpirySweeps ResponsesReach CallEnds
