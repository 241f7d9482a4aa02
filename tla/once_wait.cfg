SPECIFICATION Safety
CONSTANTS
  ExitCodes = {}
  Clients = {"a", "b"}
  Outsider = "outsider"
  MaxRuns = 2
PROPERTIES
  WaitsForEnd
