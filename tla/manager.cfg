SPECIFICATION Spec
CONSTANTS
  c1 = c1
  c2 = c2
  c3 = c3
  ExitCodes = {}
  Clients = {c1, c2, c3}
  Calls <- MCCalls
  Admins = {c1, c2}
  Commands = {"cmd"}
  MaxFails = 3
INVARIANTS
  TypeOK
  MarkedIsHeld
  RestartsBounded
  CommandAsAsked
PROPERTIES
  FreshProcess
