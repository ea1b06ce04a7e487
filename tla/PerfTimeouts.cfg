CONSTANTS
  STREAM_PERF_TEST = TRUE
  max_outstanding_ops = 2
  Weighted = {"TIMEOUT", "SEMIFUTURE_SUM", "STREAM"}
  MaxCalls = 3
  MaxItems = 1
  cpu_threads = 1
SPECIFICATION BenchFairSpec
INVARIANTS
  SlotAccounting
  FullWhenIdle
PROPERTY CallsEnd
CHECK_DEADLOCK FALSE
