SPECIFICATION Spec
CONSTANTS
  ExitCodes = {}
  Clients = {"a", "b"}
  Outsider = "outsider"
  MaxRuns = 3
INVARIANTS
  TypeOK
  TemporaryOnly
PROPERTIES
  ExactWhenAlone
  CallsReturn
