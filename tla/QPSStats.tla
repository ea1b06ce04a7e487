------------------------------ MODULE QPSStats ------------------------------
(***************************************************************************)
(* The statistics of the performance client: QPSStats (util/QPSStats.h) and *)
(* Counter (util/Counter.h), in src/dep/perf/cpp2, as the client uses them. *)
(* Every thread registers the names of its Operation under mutex_ and only *)
(* then adds, without mutex_; the main thread prints, without mutex_, at    *)
(* any time.  counters_ is a tree: a lookup or an iteration takes time, and *)
(* one that overlaps the insertion of a node is a data race.  A lookup      *)
(* never does (AddsUndisturbed); an iteration may, while the first thread   *)
(* registers: its next step may then lead to any node, back or ahead, or    *)
(* to the end of the tree.  (The build may also crash there: the process    *)
(* takes no more steps.)  An emplace of a name that is present changes no   *)
(* node.                                                                    *)
(*                                                                          *)
(* folly::ThreadCachedInt is external: an increment is atomic and readFull  *)
(* returns the sum of all caches, modulo Modulus.  Rates are differences of *)
(* two prints (the division by the seconds is left out).                    *)
(* Bounds: MaxAdds adds to each counter, MaxPrints prints.                  *)
(***************************************************************************)
EXTENDS Integers, Sequences, FiniteSets

CONSTANTS
  Threads,
  Names,      \* what the constructor of an Operation registers, in order
  Sorted,     \* the order of the map: at least the same names
  AddNames,   \* the counters the threads add to
  Modulus,    \* a counter wraps to 0 at this number (2^32)
  MaxAdds,
  MaxPrints

ASSUME StatsAssumption ==
  /\ Names \in Seq(STRING) \ {<<>>} /\ Sorted \in Seq(STRING)
  /\ {Names[i] : i \in DOMAIN Names} \subseteq {Sorted[i] : i \in DOMAIN Sorted}
  /\ Modulus \in Nat \ {0} /\ MaxAdds \in Nat /\ MaxPrints \in Nat

VARIABLES
  counters_,       \* the names in the tree
  mutex_,          \* the thread that holds it, or "free"
  pc,              \* pc[t]: "register", "emplace", "ready", "find" or "crashed"
  next,            \* next[t]: the next of Names t registers
  name,            \* name[t]: the counter t looks up
  value_,
  lastQueryCount_,
  printer,         \* the main thread: "idle", "iterate" or "print"
  at,              \* its iterator, a position of Sorted
  queryCount_,
  prints,
  shown,           \* history: sum of the differences printed
  adds,            \* history: adds so far
  before,          \* history: adds when the print began
  read,            \* history: adds to the counter when queryCount_ was read
  seen             \* history: adds when lastQueryCount_ was read

threadVars == <<counters_, mutex_, pc, next, name, value_, adds>>
printVars  == <<lastQueryCount_, printer, at, queryCount_, prints, shown, before,
                read, seen>>
vars       == <<threadVars, printVars>>

All == {Names[i] : i \in DOMAIN Names} \cup AddNames

Init ==
  /\ counters_ = {}
  /\ mutex_ = "free"
  /\ pc = [t \in Threads |-> "register"]
  /\ next = [t \in Threads |-> 1]
  /\ name = [t \in Threads |-> "none"]
  /\ value_ = [n \in All |-> 0]
  /\ lastQueryCount_ = [n \in All |-> 0]
  /\ printer = "idle" /\ at = 0 /\ queryCount_ = 0 /\ prints = 0
  /\ shown = [n \in All |-> 0]
  /\ adds = [n \in All |-> 0]
  /\ before = [n \in All |-> 0]
  /\ read = 0
  /\ seen = [n \in All |-> 0]

(* Mutant: counters_[name] = std::make_unique..., which replaces the       *)
(* counter of a name that is there.                                        *)
InsertingAlways(t) == pc[t] = "emplace"

(* t is changing nodes of the tree.                                        *)
Inserting(t) == pc[t] = "emplace" /\ Names[next[t]] \notin counters_

Ready(t)   == pc[t] \in {"ready", "find"}
Reading(t) == pc[t] = "find"
-----------------------------------------------------------------------------
registerCounter(t) ==
  /\ pc[t] = "register"
  /\ mutex_ = "free"
  /\ mutex_' = t
  /\ pc' = [pc EXCEPT ![t] = "emplace"]
  /\ UNCHANGED <<counters_, next, name, value_, adds, printVars>>

emplaced(t) ==
  /\ pc[t] = "emplace"
  /\ counters_' = counters_ \cup {Names[next[t]]}
  /\ mutex_' = "free"
  /\ next' = [next EXCEPT ![t] = @ + 1]
  /\ pc' = [pc EXCEPT ![t] = IF next[t] = Len(Names) THEN "ready" ELSE "register"]
  /\ UNCHANGED <<name, value_, adds, printVars>>

add(t, n) ==
  /\ pc[t] = "ready"
  /\ adds[n] + Cardinality({u \in Threads : Reading(u) /\ name[u] = n}) < MaxAdds
  /\ name' = [name EXCEPT ![t] = n]
  /\ pc' = [pc EXCEPT ![t] = "find"]
  /\ UNCHANGED <<counters_, mutex_, next, value_, adds, printVars>>

(* counters_[name] makes an empty node for a name that is not there, and   *)
(* the increment goes through a null pointer.                              *)
added(t) ==
  /\ pc[t] = "find"
  /\ IF name[t] \in counters_
     THEN /\ value_' = [value_ EXCEPT ![name[t]] = (@ + 1) % Modulus]
          /\ adds' = [adds EXCEPT ![name[t]] = @ + 1]
          /\ pc' = [pc EXCEPT ![t] = "ready"]
          /\ UNCHANGED counters_
     ELSE /\ counters_' = counters_ \cup {name[t]}
          /\ pc' = [pc EXCEPT ![t] = "crashed"]
          /\ UNCHANGED <<value_, adds>>
  /\ UNCHANGED <<mutex_, next, name, printVars>>
-----------------------------------------------------------------------------
printStats ==
  /\ printer = "idle"
  /\ prints < MaxPrints
  /\ prints' = prints + 1
  /\ printer' = "iterate"
  /\ at' = 0
  /\ before' = adds
  /\ UNCHANGED <<threadVars, lastQueryCount_, queryCount_, shown, read, seen>>

Present   == {i \in DOMAIN Sorted : Sorted[i] \in counters_}
Ahead     == {i \in Present : i > at}
Disturbed == \E u \in Threads : Inserting(u)

(* Counter::print of the next counter: readFull, ...                       *)
readFull ==
  /\ printer = "iterate"
  /\ \E i \in Present :
       /\ Disturbed \/ (i \in Ahead /\ \A j \in Ahead : i <= j)
       /\ at' = i
       /\ queryCount_' = value_[Sorted[i]]
       /\ read' = adds[Sorted[i]]
  /\ printer' = "print"
  /\ UNCHANGED <<threadVars, lastQueryCount_, prints, shown, before, seen>>

(* Mutant: the last count is read again after the rate was computed.       *)
printAgain ==
  LET n == Sorted[at]
  IN  /\ printer = "print"
      /\ shown' = [shown EXCEPT ![n] = @ + (queryCount_ - lastQueryCount_[n])]
      /\ lastQueryCount_' = [lastQueryCount_ EXCEPT ![n] = value_[n]]
      /\ seen' = [seen EXCEPT ![n] = adds[n]]
      /\ printer' = "iterate"
      /\ UNCHANGED <<threadVars, at, queryCount_, prints, before, read>>

(* ... the difference to the last print, and the new last count.           *)
print ==
  LET n == Sorted[at]
  IN  /\ printer = "print"
      /\ shown' = [shown EXCEPT ![n] = @ + (queryCount_ - lastQueryCount_[n])]
      /\ lastQueryCount_' = [lastQueryCount_ EXCEPT ![n] = queryCount_]
      /\ seen' = [seen EXCEPT ![n] = read]
      /\ printer' = "iterate"
      /\ UNCHANGED <<threadVars, at, queryCount_, prints, before, read>>

(* Mutant: the loop over the counters ends before the last counter.        *)
printEndEarly ==
  /\ printer = "iterate"
  /\ Cardinality(Ahead) <= 1
  /\ printer' = "idle"
  /\ UNCHANGED <<threadVars, lastQueryCount_, at, queryCount_, prints, shown, before, read, seen>>

printEnd ==
  /\ printer = "iterate"
  /\ Ahead = {} \/ Disturbed
  /\ printer' = "idle"
  /\ UNCHANGED <<threadVars, lastQueryCount_, at, queryCount_, prints, shown, before, read, seen>>
-----------------------------------------------------------------------------
Next ==
  \/ \E t \in Threads : registerCounter(t) \/ emplaced(t) \/ added(t)
  \/ \E t \in Threads, n \in AddNames : add(t, n)
  \/ printStats \/ readFull \/ print \/ printEnd

Spec == Init /\ [][Next]_vars
-----------------------------------------------------------------------------
(* add (util/QPSStats.h:51) looks a counter up without mutex_.  It never   *)
(* overlaps an insertion: a thread adds only after it has registered every *)
(* name, and then the emplaces of the threads that start later find every  *)
(* name in the tree.                                                       *)
AddsUndisturbed ==
  \A t, u \in Threads : ~(Reading(t) /\ Inserting(u))

(* Every name an operation adds to is one its constructor registered, so   *)
(* counters_[name] (util/QPSStats.h:51) never makes a null counter.        *)
AddFindsCounter ==
  \A t \in Threads : Reading(t) => name[t] \in counters_

(* The rates (util/Counter.h:43-54) add up: what was printed so far is     *)
(* what was counted up to the last readFull, no add twice and none left    *)
(* out, although threads add between readFull and the assignment; the      *)
(* total is that count as far as the 32 bits of the counter go.            *)
RatesExact ==
  \A n \in All :
    /\ shown[n] = lastQueryCount_[n]
    /\ lastQueryCount_[n] = seen[n] % Modulus
    /\ seen[n] <= adds[n]

(* A print that ended has counted every add that ended before it began     *)
(* (util/QPSStats.h:33-37), although the iteration takes no mutex and an   *)
(* insertion may lead it astray: that happens only before the first add.   *)
PrintCovers ==
  printer = "idle" => \A n \in All : seen[n] >= before[n]
=============================================================================
