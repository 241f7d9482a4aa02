SPECIFICATION Spec
CONSTANTS
  c1 = c1
  c2 = c2
  c3 = c3
  ExitCodes = {}
  Clients = {c1, c2, c3}
  Rights <- MCRights
  Calls <- MCCalls
  MaxLives = 2
  MaxQueued = 1
INVARIANTS
  TypeOK
  StopNotLost
PROPERTIES
  StopEndsLife
  StopReturns
  StartReturns
  LateStopCounts
CHECK_DEADLOCK FALSE
