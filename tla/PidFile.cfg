CONSTANTS
  Pids = {101, 102}
  Killers = {k}
  MaxInodes = 3
  PidReuse = TRUE
SPECIFICATION Spec
INVARIANTS FileNamesOwner ReadersSeeWholePid RefusedForRival
