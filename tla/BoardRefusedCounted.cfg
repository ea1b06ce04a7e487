\* The summary counts refused sends as successful.
CONSTANTS
  Clients = {"c1"}
  iterations = 2
  Workers = 1
  WaitReady = TRUE
  MayStop = {}
  MayExpire = FALSE
  client_id <- OneId
  message <- BadMessage
  Forbidden = {"Test*Message"}
  SYNC = TRUE
  CLIENT_SYNC = TRUE
SPECIFICATION Spec
INVARIANT CountedSendsSucceeded
