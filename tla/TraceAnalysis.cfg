\* Two queries of three hosts, or the ids of two clients.
CONSTANTS
  Queries = {q1, q2}
  Hosts <- ThreeHosts
  Numbers = {0, 2}
  OctetSize = 2
  RandomSize = 2
  NumberSize = 2
  Clients = {"c1", "c2"}
  MaxNumber = 4
  EpochSize = 16
  MaxZeros = 1
SYMMETRY Symmetry
SPECIFICATION EitherSpec
INVARIANTS
  PlottedIsTrue
  UidsIdentify
CHECK_DEADLOCK FALSE
