\* A frame captured on this host is logged.
CONSTANTS
  m1 = m1
  m2 = m2
  Codes <- OneCode
  Blocks = {0}
  Mirrors = {}
  Dbms <- Captured
  NullFragments = {}
  Captures = TRUE
  Debug = FALSE
  PlayerThread = FALSE
  MaxSessions = 1
  MaxOld = 0
  MaxChunks = 6
  MaxFrames = 2
  MaxOther = 0
  CutOffs = {60}
SPECIFICATION Spec
INVARIANT LoadedAll
CHECK_DEADLOCK FALSE
