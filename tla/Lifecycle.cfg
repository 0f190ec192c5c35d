SPECIFICATION FairSpec
CONSTANTS
  Detached = {d1}
  MaxTerm = 1
  MaxHup = 1
  MaxWork = 1
  PipeCap = 1
INVARIANT JoinedBeforeFree
PROPERTY Terminates
CHECK_DEADLOCK FALSE
