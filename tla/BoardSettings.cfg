\* The four settings of MCBoardSettings.
SPECIFICATION Spec
INVARIANTS
  FindSeesAcked
  CountersExact
  SequentialAccess
