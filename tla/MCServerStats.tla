--------------------------- MODULE MCServerStats ---------------------------
(* Model checking of ServerStats: the threads are interchangeable.         *)
EXTENDS ServerStats, TLC

ThreadSymmetry == Permutations(Threads)
=============================================================================
