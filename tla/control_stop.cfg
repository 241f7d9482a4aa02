SPECIFICATION Safety
CONSTANTS
  c1 = c1
  c2 = c2
  c3 = c3
  ExitCodes = {5}
  Clients = {c1, c2}
  Rights <- PairRights
  Calls <- PairCalls
  MaxLives = 2
  MaxQueued = 1
PROPERTIES
  StopMeansNotRunning
CHECK_DEADLOCK FALSE
