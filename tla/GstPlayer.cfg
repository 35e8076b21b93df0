CONSTANTS
  Uses = {"live", "play", "write"}
  Frames = 4
  Plays = 2
  Errors = TRUE
  NHist = 3
SPECIFICATION FairSpec
INVARIANTS FreedLast PlayedToTheEnd
PROPERTY ExitCompletes
\* a pipeline that fails while its end is awaited leaves everything waiting
CHECK_DEADLOCK FALSE
