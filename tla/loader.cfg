SPECIFICATION Spec
CONSTANTS
  Procs = {p1, p2}
  Workers = {w1, w2}
  MaxAttempts = 2
INVARIANTS
  TypeOK
  OneCopyEach
PROPERTIES
  LoadedOnce
  LostToAnother
  LoadReturns
