SPECIFICATION Safety
CONSTANTS
  ExitCodes = {}
  ExitThreads = {}
  NativeCodes = {}
  MaxCheckPoint = 2
  MaxQueued = 1
  Env = {"Overlap"}
PROPERTIES
  RenotifyAdvances
