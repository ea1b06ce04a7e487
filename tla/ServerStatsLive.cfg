\* As many calls as a buffer has rows; no symmetry, the properties are temporal.
CONSTANTS
  Threads = {t1, t2}
  NoThread = NoThread
  MainThread = MainThread
  entry_count = 4
  buffer_count = 1
  MaxCalls = 4
SPECIFICATION FairSpec
PROPERTIES
  CallReturns
  StopCompletes
  LogSpec
CHECK_DEADLOCK FALSE
