\* One of the programs in each behaviour.
CONSTANTS
  Workers = {"w1", "w2"}
  Maps = {"mock_map", "sanit_map"}
  MaxCalls = 3
  ExitThreads = {"main", "t2", "t3"}
  MainThread = "main"
  Rows = 2
  entry_count = 2
  entry_test_number = 3
  AsyncWorkers = {"w1", "w2", "w3"}
  AsyncCalls = 2
  ClientThreads = {"t1", "t2", "t3"}
  FLAGS_transport = "header"
  FLAGS_terminate_sec = 5
  FLAGS_stats_interval_sec = 2
  MaxTerminate = 5
  MaxInterval = 3
  Forever = 9
  EchoPrograms = {"p1", "p2"}
  MaxIterations = 4
SPECIFICATION ProgramsSpec
INVARIANTS
  FirstDumpWhole
  OwnClient
  SleepsExact
  NothingDangles
  SummaryComplete
  LossBounded
PROPERTIES
  SavesAsLog
  IsRemoteCall
  WarmNeverRaces
  ProgramsEnd
CHECK_DEADLOCK FALSE
