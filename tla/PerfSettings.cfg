\* The settings of MCPerfSettings; the constants are those of the statistics.
CONSTANTS
  Threads = {"t1", "t2"}
  Names <- DefaultNames
  Sorted <- SortedNames
  AddNames = {"fatal", "timeout_success"}
  Modulus = 2
  MaxAdds = 2
  MaxPrints = 2
SPECIFICATION SettingsSpec
INVARIANTS
  CountedOnce
  SuccessesServed
  AddsUndisturbed
  AddFindsCounter
  RatesExact
  PrintCovers
CHECK_DEADLOCK FALSE
