\* Two callbacks increment a counter at once.
CONSTANTS
  Clients = {"c1"}
  iterations = 3
  Workers = 2
  WaitReady = TRUE
  MayStop = {}
  MayExpire = FALSE
  client_id <- OneId
  message <- OneMessage
  Forbidden = {"Test*Message"}
  SYNC = FALSE
  CLIENT_SYNC = FALSE
SPECIFICATION Spec
INVARIANT CountersExact
