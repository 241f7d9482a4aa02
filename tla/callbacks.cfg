SPECIFICATION Safety
CONSTANTS
  NativeThreads = {"h1", "h2"}
  Codes = {"USER"}
  MaxRefs = 4
INVARIANTS
  TypeOK
  OneOwner
  CallIsLive
  Attached
