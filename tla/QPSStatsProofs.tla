--------------------------- MODULE QPSStatsProofs ---------------------------
(***************************************************************************)
(* Proofs about QPSStats for every number of threads, names, adds and      *)
(* prints: lookups without mutex_ never overlap an insertion, and find     *)
(* their counter; the rates add up, and a print leaves no add out.         *)
(***************************************************************************)
EXTENDS QPSStats, Remainders, TLAPS

(* The threads only add to names the constructor of Operation registers.   *)
AddsRegistered == AddNames \subseteq {Names[i] : i \in DOMAIN Names}

(* A thread registers the names one after the other, and is ready when it  *)
(* has registered them all.                                                *)
Registering ==
  /\ pc \in [Threads -> {"register", "emplace", "ready", "find", "crashed"}]
  /\ next \in [Threads -> 1..Len(Names) + 1]
  /\ \A t \in Threads :
       /\ pc[t] \in {"register", "emplace"} => next[t] <= Len(Names)
       /\ pc[t] \notin {"register", "emplace"} => next[t] = Len(Names) + 1

(* What a thread has registered is in the tree, and stays there.           *)
Registered ==
  \A t \in Threads : \A i \in DOMAIN Names : i < next[t] => Names[i] \in counters_

LookedUp == name \in [Threads -> AddNames \cup {"none"}]
            /\ \A t \in Threads : pc[t] = "find" => name[t] \in AddNames

StatsInv == Registering /\ Registered /\ LookedUp

(* Names is a sequence of at least one name.                               *)
LEMMA NamesFacts ==
  /\ Len(Names) \in Nat /\ Len(Names) >= 1
  /\ DOMAIN Names = 1..Len(Names)
BY StatsAssumption
-----------------------------------------------------------------------------
(* No step takes a name out of the tree, or a thread back.                 *)
LEMMA InitInv == Init => StatsInv
BY NamesFacts DEF Init, StatsInv, Registering, Registered, LookedUp

(* The steps of the main thread touch nothing of this.                     *)
LEMMA PrintSteps ==
  ASSUME StatsInv, UNCHANGED threadVars
  PROVE  StatsInv'
BY DEF StatsInv, Registering, Registered, LookedUp, threadVars

(* registerCounter takes the mutex, and no name is registered yet.         *)
LEMMA RegisterStep ==
  ASSUME StatsInv, NEW t \in Threads, registerCounter(t)
  PROVE  StatsInv'
<1> USE DEF StatsInv, registerCounter
<1>1. Registering'
  BY DEF Registering
<1>2. Registered'
  BY DEF Registered
<1>3. LookedUp'
  BY DEF LookedUp, Registering
<1> QED BY <1>1, <1>2, <1>3

(* An emplace adds the next name, and one more is registered.              *)
LEMMA EmplaceStep ==
  ASSUME StatsInv, NEW t \in Threads, emplaced(t)
  PROVE  StatsInv'
<1> USE NamesFacts DEF StatsInv, emplaced
<1>1. Registering'
  BY DEF Registering
<1>2. Registered'
  <2> SUFFICES ASSUME NEW u \in Threads, NEW i \in DOMAIN Names, i < next'[u]
               PROVE  Names[i] \in counters_'
    BY DEF Registered
  <2>1. counters_ \subseteq counters_' /\ Names[next[t]] \in counters_'
    OBVIOUS
  <2>2. i < next[u] \/ (u = t /\ i = next[t])
    BY DEF Registering
  <2> QED BY <2>1, <2>2 DEF Registered
<1>3. LookedUp'
  BY DEF LookedUp, Registering
<1> QED BY <1>1, <1>2, <1>3

(* add looks up one of AddNames.                                           *)
LEMMA AddStep ==
  ASSUME StatsInv, NEW t \in Threads, NEW n \in AddNames, add(t, n)
  PROVE  StatsInv'
<1> USE DEF StatsInv, add
<1>1. Registering'
  BY DEF Registering
<1>2. Registered'
  BY DEF Registered
<1>3. LookedUp'
  BY DEF LookedUp, Registering
<1> QED BY <1>1, <1>2, <1>3

(* added increments a counter, or adds a name and ends.                    *)
LEMMA AddedStep ==
  ASSUME StatsInv, NEW t \in Threads, added(t)
  PROVE  StatsInv'
<1> USE DEF StatsInv, added
<1>1. Registering'
  BY DEF Registering
<1>2. Registered'
  <2>1. next' = next /\ counters_ \subseteq counters_'
    OBVIOUS
  <2> QED BY <2>1 DEF Registered
<1>3. LookedUp'
  BY DEF LookedUp, Registering
<1> QED BY <1>1, <1>2, <1>3

(* Every step preserves the invariant.                                     *)
LEMMA StepInv == StatsInv /\ [Next]_vars => StatsInv'
<1> SUFFICES ASSUME StatsInv, [Next]_vars PROVE StatsInv'
  OBVIOUS
<1>1. CASE UNCHANGED vars
  BY <1>1, PrintSteps DEF vars
<1>2. CASE \E t \in Threads : registerCounter(t) \/ emplaced(t) \/ added(t)
  BY <1>2, RegisterStep, EmplaceStep, AddedStep
<1>3. CASE \E t \in Threads, n \in AddNames : add(t, n)
  BY <1>3, AddStep
<1>4. CASE printStats \/ readFull \/ print \/ printEnd
  BY <1>4, PrintSteps DEF printStats, readFull, print, printEnd
<1> QED BY <1>1, <1>2, <1>3, <1>4 DEF Next

(* The invariant of the registrations holds throughout.                    *)
LEMMA InvHolds == Spec => []StatsInv
<1> QED BY InitInv, StepInv, PTL DEF Spec
-----------------------------------------------------------------------------
(* A ready thread finds every name in the tree, so nothing is inserted.    *)
LEMMA ReadyAll ==
  ASSUME StatsInv, NEW t \in Threads, Ready(t)
  PROVE  /\ \A i \in DOMAIN Names : Names[i] \in counters_
         /\ \A u \in Threads : ~Inserting(u)
<1>1. next[t] = Len(Names) + 1
  BY DEF StatsInv, Registering, Ready
<1>2. \A i \in DOMAIN Names : Names[i] \in counters_
  BY <1>1, NamesFacts DEF StatsInv, Registered
<1>3. ASSUME NEW u \in Threads, pc[u] = "emplace" PROVE next[u] \in DOMAIN Names
  BY <1>3, NamesFacts DEF StatsInv, Registering
<1> QED BY <1>2, <1>3 DEF Inserting

(* QPSStats::add (util/QPSStats.h:51) never looks up while a node is       *)
(* inserted, although it takes no mutex, whatever the number of threads.   *)
THEOREM AddsUndisturbedCorrect == Spec => []AddsUndisturbed
<1>1. StatsInv => AddsUndisturbed
  BY ReadyAll DEF AddsUndisturbed, Reading, Ready
<1> QED BY <1>1, InvHolds, PTL

(* If operations add only to names they registered, no add makes a null    *)
(* counter (util/QPSStats.h:51).                                           *)
THEOREM AddFindsCounterCorrect == AddsRegistered /\ Spec => []AddFindsCounter
<1> SUFFICES ASSUME AddsRegistered PROVE Spec => []AddFindsCounter
  OBVIOUS
<1>1. StatsInv => AddFindsCounter
  <2> SUFFICES ASSUME StatsInv, NEW t \in Threads, Reading(t)
               PROVE  name[t] \in counters_
    BY DEF AddFindsCounter
  <2>1. name[t] \in AddNames
    BY DEF StatsInv, LookedUp, Reading
  <2> QED BY <2>1, ReadyAll DEF AddsRegistered, Reading, Ready
<1> QED BY <1>1, InvHolds, PTL
-----------------------------------------------------------------------------
(* The counters: types, and the names that may be in the tree.             *)
Counts ==
  /\ value_ \in [All -> Nat] /\ adds \in [All -> Nat]
  /\ lastQueryCount_ \in [All -> Nat] /\ before \in [All -> Nat]
  /\ shown \in [All -> Int] /\ queryCount_ \in Nat /\ at \in Nat
  /\ seen \in [All -> Nat] /\ read \in Nat
  /\ printer \in {"idle", "iterate", "print"}
  /\ counters_ \subseteq All

(* A counter counts modulo Modulus, and what was printed is what it had    *)
(* counted at the last readFull.  When anything was counted, some thread   *)
(* has registered all names.                                               *)
Counted ==
  \A n \in All :
    /\ value_[n] = adds[n] % Modulus
    /\ lastQueryCount_[n] = seen[n] % Modulus
    /\ shown[n] = lastQueryCount_[n]
    /\ seen[n] <= adds[n]
    /\ before[n] <= adds[n]
    /\ adds[n] > 0 => n \in counters_ /\ \A i \in DOMAIN Names : Names[i] \in counters_

(* Between the two halves of Counter::print, what was read lies between    *)
(* the adds when the print began and those of now.                         *)
ReadInv ==
  printer = "print" =>
    /\ at \in DOMAIN Sorted /\ Sorted[at] \in All
    /\ queryCount_ = read % Modulus
    /\ read <= adds[Sorted[at]]
    /\ before[Sorted[at]] <= read

RatesInv == StatsInv /\ Counts /\ Counted /\ ReadInv

(* What a counter has not shown yet is still ahead of the iterator.        *)
AheadInv ==
  \A n \in All :
    \/ seen[n] >= before[n]
    \/ printer # "idle" /\ \E i \in DOMAIN Sorted : i > at /\ Sorted[i] = n
    \/ printer = "print" /\ Sorted[at] = n

(* Names and Sorted as sets of positions.                                  *)
LEMMA AllFacts ==
  /\ AddNames \subseteq All
  /\ \A i \in DOMAIN Names : Names[i] \in All
  /\ Modulus \in Nat /\ Modulus > 0
  /\ DOMAIN Sorted \subseteq Nat /\ 0 \notin DOMAIN Sorted
BY StatsAssumption DEF All

(* The registration of a counter changes no count.                         *)
LEMMA TreeSteps ==
  ASSUME RatesInv, NEW t \in Threads, registerCounter(t) \/ emplaced(t)
  PROVE  /\ Counts' /\ Counted' /\ ReadInv'
         /\ UNCHANGED <<adds, printVars>>
<1>1. UNCHANGED <<value_, adds, printVars>>
  BY DEF registerCounter, emplaced
<1>2. counters_ \subseteq counters_' /\ counters_' \subseteq All
  <2>1. pc[t] = "emplace" => Names[next[t]] \in All
    BY AllFacts, NamesFacts DEF RatesInv, StatsInv, Registering
  <2> QED BY <2>1 DEF registerCounter, emplaced, RatesInv, Counts
<1>3. Counts'
  BY <1>1, <1>2 DEF RatesInv, Counts, printVars
<1>4. Counted'
  BY <1>1, <1>2 DEF RatesInv, Counted, printVars
<1>5. ReadInv'
  BY <1>1 DEF RatesInv, ReadInv, printVars
<1> QED BY <1>1, <1>3, <1>4, <1>5

(* The lookup of a counter changes no count either.                        *)
LEMMA LookupStep ==
  ASSUME RatesInv, NEW t \in Threads, NEW n \in AddNames, add(t, n)
  PROVE  /\ Counts' /\ Counted' /\ ReadInv'
         /\ UNCHANGED <<adds, printVars>>
<1>1. UNCHANGED <<counters_, value_, adds, printVars>>
  BY DEF add
<1> QED BY <1>1 DEF RatesInv, Counts, Counted, ReadInv, printVars

(* An add counts one more, and value_ follows modulo Modulus.              *)
LEMMA CountStep ==
  ASSUME RatesInv, NEW t \in Threads, added(t)
  PROVE  /\ Counts' /\ Counted' /\ ReadInv'
         /\ UNCHANGED printVars
         /\ \A n \in All : adds'[n] >= adds[n]
<1> DEFINE k == name[t]
<1>1. k \in All
  BY AllFacts DEF RatesInv, StatsInv, LookedUp, added
<1>2. UNCHANGED printVars
  BY DEF added
<1>3. CASE k \notin counters_
  <2>1. UNCHANGED <<value_, adds>> /\ counters_' = counters_ \cup {k}
    BY <1>3 DEF added
  <2> HIDE DEF k
  <2>2. Counts'
    BY <1>1, <1>2, <2>1 DEF RatesInv, Counts, printVars
  <2>3. Counted' /\ ReadInv'
    BY <1>2, <2>1 DEF RatesInv, Counted, ReadInv, printVars
  <2> QED BY <1>2, <2>1, <2>2, <2>3 DEF RatesInv, Counts
<1>4. CASE k \in counters_
  <2>1. /\ value_' = [value_ EXCEPT ![k] = (@ + 1) % Modulus]
        /\ adds' = [adds EXCEPT ![k] = @ + 1]
        /\ UNCHANGED counters_
    BY <1>4 DEF added
  <2>r. \A i \in DOMAIN Names : Names[i] \in counters_
    BY ReadyAll DEF RatesInv, added, Ready
  <2> HIDE DEF k
  <2>2. adds' \in [All -> Nat] /\ \A n \in All : adds'[n] = IF n = k THEN adds[n] + 1 ELSE adds[n]
    BY <1>1, <2>1 DEF RatesInv, Counts
  <2>3. /\ \A n \in All : value_'[n] = IF n = k THEN (value_[n] + 1) % Modulus ELSE value_[n]
        /\ value_' \in [All -> Nat]
    <3>1. value_[k] \in Nat /\ (value_[k] + 1) % Modulus \in Nat
      BY <1>1, AllFacts DEF RatesInv, Counts
    <3> QED BY <2>1, <3>1 DEF RatesInv, Counts
  <2>4. Counts'
    BY <1>2, <2>1, <2>2, <2>3 DEF RatesInv, Counts, printVars
  <2>5. \A n \in All : adds[n] \in Nat /\ adds'[n] >= adds[n]
    BY <2>2 DEF RatesInv, Counts
  <2>6. Counted'
    <3> SUFFICES ASSUME NEW n \in All
                 PROVE  /\ value_'[n] = adds'[n] % Modulus
                        /\ lastQueryCount_[n] = seen[n] % Modulus
                        /\ shown[n] = lastQueryCount_[n]
                        /\ seen[n] <= adds'[n]
                        /\ before[n] <= adds'[n]
                        /\ adds'[n] > 0 => /\ n \in counters_
                                           /\ \A i \in DOMAIN Names : Names[i] \in counters_
      BY <1>2, <2>1 DEF Counted, printVars
    <3>1. /\ value_[n] = adds[n] % Modulus
          /\ lastQueryCount_[n] = seen[n] % Modulus
          /\ shown[n] = lastQueryCount_[n]
          /\ seen[n] <= adds[n] /\ before[n] <= adds[n]
          /\ adds[n] > 0 => n \in counters_
          /\ seen[n] \in Nat /\ before[n] \in Nat /\ adds[n] \in Nat
      BY DEF RatesInv, Counted, Counts
    <3>2. value_'[n] = adds'[n] % Modulus
      BY <2>2, <2>3, <3>1, AllFacts, OneMore
    <3> QED BY <1>4, <2>2, <2>5, <2>r, <3>1, <3>2
  <2>7. ReadInv'
    <3>1. read \in Nat
      BY DEF RatesInv, Counts
    <3> QED BY <1>2, <2>5, <2>2, <3>1 DEF RatesInv, ReadInv, printVars
  <2> QED BY <1>2, <2>4, <2>5, <2>6, <2>7
<1> QED BY <1>3, <1>4

(* A print begins, reads a counter, shows the difference, and ends.        *)
LEMMA PrinterSteps ==
  ASSUME RatesInv, printStats \/ readFull \/ print \/ printEnd
  PROVE  Counts' /\ Counted' /\ ReadInv' /\ UNCHANGED adds
<1>1. CASE printStats
  <2>1. /\ before' = adds /\ at' = 0 /\ printer' = "iterate"
        /\ UNCHANGED <<counters_, value_, adds, lastQueryCount_, queryCount_, shown, read, seen>>
    BY <1>1 DEF printStats, threadVars
  <2> QED BY <2>1 DEF RatesInv, Counts, Counted, ReadInv
<1>2. CASE readFull
  <2>1. PICK i \in Present : /\ at' = i
                             /\ queryCount_' = value_[Sorted[i]]
                             /\ read' = adds[Sorted[i]]
    BY <1>2 DEF readFull
  <2>2. /\ printer' = "print"
        /\ UNCHANGED <<counters_, value_, adds, lastQueryCount_, before, shown, seen>>
    BY <1>2 DEF readFull, threadVars
  <2>3. i \in DOMAIN Sorted /\ Sorted[i] \in All /\ i \in Nat
    BY AllFacts DEF Present, RatesInv, Counts
  <2>4. Counts'
    BY <2>1, <2>2, <2>3 DEF RatesInv, Counts
  <2>5. Counted'
    BY <2>2 DEF RatesInv, Counted
  <2>6. ReadInv'
    <3> DEFINE n == Sorted[i]
    <3>1. /\ value_[n] = adds[n] % Modulus
          /\ before[n] <= adds[n] /\ adds[n] \in Nat
      BY <2>3 DEF RatesInv, Counts, Counted
    <3>2. Sorted[at'] = n /\ queryCount_' = value_[n] /\ read' = adds[n]
      BY <2>1
    <3> HIDE DEF n
    <3>3. queryCount_' = read' % Modulus /\ read' <= adds'[n] /\ before'[n] <= read'
      BY <2>2, <3>1, <3>2
    <3> QED BY <2>1, <2>3, <3>2, <3>3 DEF ReadInv, n
  <2> QED BY <2>2, <2>4, <2>5, <2>6
<1>3. CASE print
  <2> DEFINE n == Sorted[at]
  <2>1. /\ shown' = [shown EXCEPT ![n] = @ + (queryCount_ - lastQueryCount_[n])]
        /\ lastQueryCount_' = [lastQueryCount_ EXCEPT ![n] = queryCount_]
        /\ seen' = [seen EXCEPT ![n] = read]
        /\ printer' = "iterate" /\ printer = "print"
        /\ UNCHANGED <<counters_, value_, adds, at, queryCount_, before, read>>
    BY <1>3 DEF print, threadVars
  <2>2. n \in All /\ queryCount_ = read % Modulus /\ read <= adds[n]
    BY <2>1 DEF RatesInv, ReadInv
  <2> HIDE DEF n
  <2>3. Counts'
    BY <2>1, <2>2 DEF RatesInv, Counts
  <2>4. Counted'
    BY <2>1, <2>2 DEF RatesInv, Counts, Counted
  <2> QED BY <2>1, <2>3, <2>4 DEF ReadInv
<1>4. CASE printEnd
  <2>1. /\ printer' = "idle"
        /\ UNCHANGED <<counters_, value_, adds, lastQueryCount_, at, queryCount_, before, shown,
                       read, seen>>
    BY <1>4 DEF printEnd, threadVars
  <2> QED BY <2>1 DEF RatesInv, Counts, Counted, ReadInv
<1> QED BY <1>1, <1>2, <1>3, <1>4

(* The invariant of the rates holds throughout.                            *)
LEMMA RatesHold == Spec => []RatesInv
<1>1. Init => RatesInv
  <2> SUFFICES ASSUME Init PROVE RatesInv
    OBVIOUS
  <2>1. 0 % Modulus = 0
    BY AllFacts
  <2>2. Counts /\ Counted /\ ReadInv
    BY <2>1 DEF Init, Counts, Counted, ReadInv
  <2> QED BY <2>2, InitInv DEF RatesInv
<1>2. RatesInv /\ [Next]_vars => RatesInv'
  <2> SUFFICES ASSUME RatesInv, [Next]_vars PROVE RatesInv'
    OBVIOUS
  <2>1. StatsInv'
    BY StepInv DEF RatesInv
  <2>2. CASE UNCHANGED vars
    BY <2>1, <2>2 DEF vars, threadVars, printVars, RatesInv, Counts, Counted, ReadInv
  <2>3. CASE Next
    BY <2>1, <2>3, TreeSteps, LookupStep, CountStep, PrinterSteps DEF Next, RatesInv
  <2> QED BY <2>2, <2>3
<1> QED BY <1>1, <1>2, PTL DEF Spec

(* The differences that are printed add up to what was counted at the last *)
(* readFull (util/Counter.h:43-54), whatever is added meanwhile, for any   *)
(* number of threads, counters and prints, and modulo the counter's width  *)
(* also after it wrapped.                                                  *)
THEOREM RatesExactCorrect == Spec => []RatesExact
<1>1. RatesInv => RatesExact
  BY DEF RatesInv, Counted, RatesExact
<1> QED BY <1>1, RatesHold, PTL
-----------------------------------------------------------------------------
(* What counted anything is in the tree, and nothing is inserted any more. *)
LEMMA CountedSettled ==
  ASSUME RatesInv, NEW n \in All, before[n] > 0
  PROVE  n \in counters_ /\ ~Disturbed
<1>1. adds[n] > 0
  BY DEF RatesInv, Counts, Counted
<1>2. n \in counters_ /\ \A i \in DOMAIN Names : Names[i] \in counters_
  BY <1>1 DEF RatesInv, Counted
<1>3. ASSUME NEW u \in Threads, pc[u] = "emplace" PROVE next[u] \in DOMAIN Names
  BY <1>3, NamesFacts DEF RatesInv, StatsInv, Registering
<1> QED BY <1>2, <1>3 DEF Disturbed, Inserting

(* A new print has every counter that counted anything ahead of it.        *)
LEMMA BeginAhead ==
  ASSUME AddsRegistered, RatesInv, printStats
  PROVE  AheadInv'
<1>1. /\ before' = adds /\ at' = 0 /\ printer' = "iterate"
      /\ UNCHANGED <<adds, seen>>
  BY DEF printStats, threadVars
<1> SUFFICES ASSUME NEW n \in All, seen[n] < adds[n]
             PROVE  \E i \in DOMAIN Sorted : i > 0 /\ Sorted[i] = n
  BY <1>1 DEF AheadInv, RatesInv, Counts
<1>2. PICK j \in DOMAIN Names : Names[j] = n
  BY DEF All, AddsRegistered
<1>3. PICK i \in DOMAIN Sorted : Sorted[i] = n
  BY <1>2, StatsAssumption
<1> QED BY <1>3, AllFacts

(* The iterator passes no counter with adds before the print: where an     *)
(* insertion may lead it astray there is none.                             *)
LEMMA ReadAhead ==
  ASSUME RatesInv, AheadInv, readFull
  PROVE  AheadInv'
<1>1. PICK i \in Present : /\ Disturbed \/ (i \in Ahead /\ \A j \in Ahead : i <= j)
                           /\ at' = i
  BY DEF readFull
<1>2. /\ printer = "iterate" /\ printer' = "print"
      /\ UNCHANGED <<adds, seen, before>>
  BY DEF readFull, threadVars
<1> SUFFICES ASSUME NEW n \in All, seen[n] < before[n]
             PROVE  Sorted[i] = n \/ \E j \in DOMAIN Sorted : j > i /\ Sorted[j] = n
  BY <1>1, <1>2 DEF AheadInv, RatesInv, Counts
<1>3. PICK j \in DOMAIN Sorted : j > at /\ Sorted[j] = n
  BY <1>2 DEF AheadInv, RatesInv, Counts
<1>4. n \in counters_ /\ ~Disturbed
  BY CountedSettled DEF RatesInv, Counts
<1>5. j \in Ahead /\ j \in Nat /\ i \in Nat
  BY <1>3, <1>4, AllFacts DEF Ahead, Present
<1> QED BY <1>1, <1>3, <1>4, <1>5

(* What was read covers the adds before the print.                         *)
LEMMA ShowAhead ==
  ASSUME RatesInv, AheadInv, print
  PROVE  AheadInv'
<1> DEFINE k == Sorted[at]
<1>1. /\ seen' = [seen EXCEPT ![k] = read]
      /\ printer' = "iterate" /\ printer = "print"
      /\ UNCHANGED <<adds, at, before>>
  BY DEF print, threadVars
<1>2. k \in All /\ before[k] <= read
  BY <1>1 DEF RatesInv, ReadInv
<1> SUFFICES ASSUME NEW n \in All
             PROVE  \/ seen'[n] >= before[n]
                    \/ \E i \in DOMAIN Sorted : i > at /\ Sorted[i] = n
  BY <1>1 DEF AheadInv
<1>3. CASE n = k
  BY <1>1, <1>2, <1>3 DEF RatesInv, Counts
<1>4. CASE n # k
  <2>1. seen'[n] = seen[n]
    BY <1>1, <1>4 DEF RatesInv, Counts
  <2> QED BY <1>4, <2>1 DEF AheadInv
<1> QED BY <1>3, <1>4

(* A print ends when nothing is ahead, or before anything was counted.     *)
LEMMA EndAhead ==
  ASSUME RatesInv, AheadInv, printEnd
  PROVE  AheadInv'
<1>1. /\ Ahead = {} \/ Disturbed
      /\ printer = "iterate"
      /\ UNCHANGED <<adds, seen, before>>
  BY DEF printEnd, threadVars
<1> SUFFICES ASSUME NEW n \in All
             PROVE  seen[n] >= before[n]
  BY <1>1 DEF AheadInv
<1>2. ASSUME seen[n] < before[n] PROVE FALSE
  <2>1. PICK i \in DOMAIN Sorted : i > at /\ Sorted[i] = n
    BY <1>1, <1>2 DEF AheadInv, RatesInv, Counts
  <2>2. n \in counters_ /\ ~Disturbed
    BY <1>2, CountedSettled DEF RatesInv, Counts
  <2> QED BY <1>1, <2>1, <2>2 DEF Ahead, Present
<1> QED BY <1>2 DEF RatesInv, Counts

(* A print that ended has counted every add that ended before it began     *)
(* (util/QPSStats.h:33-37), although threads register and add meanwhile    *)
(* and an insertion may lead the iteration astray, for any number of       *)
(* threads, counters and prints.                                           *)
THEOREM PrintCoversCorrect == AddsRegistered /\ Spec => []PrintCovers
<1> SUFFICES ASSUME AddsRegistered PROVE Spec => []PrintCovers
  OBVIOUS
<1>1. Init => AheadInv
  BY DEF Init, AheadInv
<1>2. RatesInv /\ AheadInv /\ [Next]_vars => AheadInv'
  <2> SUFFICES ASSUME RatesInv, AheadInv, [Next]_vars PROVE AheadInv'
    OBVIOUS
  <2>1. ASSUME UNCHANGED printVars PROVE AheadInv'
    BY <2>1 DEF AheadInv, printVars
  <2>2. CASE UNCHANGED vars
    BY <2>1, <2>2 DEF vars
  <2>3. ASSUME NEW t \in Threads, registerCounter(t) \/ emplaced(t) \/ added(t) PROVE AheadInv'
    BY <2>1, <2>3, TreeSteps, CountStep
  <2>4. ASSUME NEW t \in Threads, NEW n \in AddNames, add(t, n) PROVE AheadInv'
    BY <2>1, <2>4, LookupStep
  <2>5. CASE printStats \/ readFull \/ print \/ printEnd
    BY <2>5, BeginAhead, ReadAhead, ShowAhead, EndAhead
  <2> QED BY <2>2, <2>3, <2>4, <2>5 DEF Next
<1>3. RatesInv /\ AheadInv => PrintCovers
  BY DEF AheadInv, PrintCovers
<1> QED BY <1>1, <1>2, <1>3, RatesHold, PTL DEF Spec
=============================================================================
