\* Two sessions or two runs of a listener: the second session goes on in the
\* log of the first or begins its own, and the first log is then short.  A
\* listener that has ended, with no session left and nothing loaded, does
\* nothing more.
CONSTANTS
  m1 = m1
  m2 = m2
  Codes <- TwoCodes
  Blocks = {1}
  Mirrors = {m1, m2}
  Dbms <- NearAndFar
  NullFragments = {1}
  Captures = FALSE
  Debug = FALSE
  PlayerThread = FALSE
  MaxSessions = 2
  MaxOld = 1
  MaxChunks = 7
  MaxFrames = 2
  MaxOther = 1
  CutOffs = {40, 60}
SPECIFICATION Spec
INVARIANTS WellFormed StoreOK LoadedAll ReplayInOrder CorruptedIsLost FilterFresh  MedianInMiddle
PROPERTY OldLogsKept
CHECK_DEADLOCK FALSE
