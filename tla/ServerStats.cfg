\* Three threads, twice as many calls as a buffer has rows.
CONSTANTS
  Threads = {t1, t2, t3}
  NoThread = NoThread
  MainThread = MainThread
  entry_count = 2
  buffer_count = 2
  MaxCalls = 4
SPECIFICATION Spec
SYMMETRY ThreadSymmetry
INVARIANTS
  TypeOK
  MutualExclusion
  EntriesPreserved
  DumpFaithful
  LapsKept
