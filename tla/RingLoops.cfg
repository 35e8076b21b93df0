CONSTANTS
  RingSize = 3
  SizeMod = 11
  IntMod = 9
  LoopBlocks = {0, 1}
SPECIFICATION LoopsSpec
INVARIANTS SearchAgrees FreeAgrees
CHECK_DEADLOCK FALSE
