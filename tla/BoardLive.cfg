\* Termination in spite of faults, with one worker thread per server.
CONSTANTS
  Clients = {"c1"}
  iterations = 2
  Workers = 1
  WaitReady = FALSE
  MayStop = {"sanitization", "database", "c1"}
  MayExpire = TRUE
  client_id <- OneId
  message <- OneMessage
  Forbidden = {"Test*Message"}
  SYNC = TRUE
  CLIENT_SYNC = FALSE
SPECIFICATION FairSpec
INVARIANTS
  SpansNest
  AckedIsStored
PROPERTIES
  ClientEnds
  WorkersFreed
CHECK_DEADLOCK FALSE
