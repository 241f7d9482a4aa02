SPECIFICATION HistorySpec
CONSTANTS
  ExitCodes = {}
  ExitThreads = {e1}
  NativeCodes = {"USER"}
  MaxCheckPoint = 1
  MaxQueued = 1
  Env = {"Overlap", "LateRegister"}
INVARIANTS
  NoRunningWhileStarting
  CodesAfterStart
PROPERTIES
  StopIsNotWithdrawn
  PrepareReturns
  ImplementsOverlapped
