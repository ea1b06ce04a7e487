CONSTANTS
  Readers = {"r1", "r2"}
  Programs = {"p1"}
  FLAGS_max_messages_per_get = 2
  MaxMessages = 3
  MaxLives = 2
SPECIFICATION Spec
INVARIANTS
  NoneMissed
CHECK_DEADLOCK FALSE
