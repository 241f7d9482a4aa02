SPECIFICATION Spec
CONSTANTS
  ExitCodes = {0, 5, 1077}
  ExitThreads = {e1}
  NativeCodes = {"SESSIONCHANGE", "USER"}
  MaxCheckPoint = 2
  MaxQueued = 1
  Env = {"ThreadFails"}
INVARIANTS
  TypeOK
  StoppedIsFinal
  NoUseAfterClose
  LastExitReported
  RegisteredIsDeliverable
PROPERTIES
  RenotifyAdvances
  StopCompletes
  ImplementsLifecycle
