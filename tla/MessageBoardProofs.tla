------------------------- MODULE MessageBoardProofs -------------------------
(***************************************************************************)
(* Proofs about the message board for every number of clients, calls and   *)
(* worker threads, both builds of the client, and any stops and expiries:  *)
(* spans nest, and what is acknowledged is stored.                         *)
(***************************************************************************)
EXTENDS MessageBoard, FiniteSetTheorems, TLAPS

Values == Messages \cup {Warning, "none", "true", "false"}

Typed ==
  /\ rpc \in [Services -> [Queries -> {"none", "pending", "returned", "failed"}]]
  /\ stage \in [Services -> [Queries ->
       {"none", "queued", "begun", "called", "accessing", "accessed", "done", "lost"}]]
  /\ result \in [Services -> [Queries -> Values]]
  /\ entries \in [Services \cup {"client"} -> [Queries -> Nat]]
  /\ last_messages \in [Users -> Messages \cup {Warning}]
  /\ raced \in BOOLEAN /\ (racing # {} => raced)
  /\ next \in [Clients -> 0..iterations]
  /\ main \in [Clients -> {"init", "loop", "attach", "await", "callback", "done", "dead"}]
  /\ running \in [Clients -> [CallbackThreads -> Queries \cup {NoCall}]]

(* The rows of a handler follow its stage.                                 *)
RowsMatch(x, q) ==
  /\ rpc[x][q] = "none" => stage[x][q] = "none"
  /\ rpc[x][q] = "returned" => stage[x][q] = "done"
  /\ stage[x][q] \in {"none", "queued"} => entries[x][q] = 0
  /\ stage[x][q] \in {"begun", "called", "accessing", "accessed"} => entries[x][q] = 1
  /\ stage[x][q] = "lost" => entries[x][q] <= 1

(* A process is called when its caller is under way.                       *)
CallsNest(q) ==
  /\ next[q[1]] <= q[2] => rpc["message"][q] = "none" /\ entries["client"][q] = 0
  /\ next[q[1]] > q[2] => entries["client"][q] >= 1
  /\ stage["message"][q] \in {"none", "queued", "begun"} =>
       rpc["sanitization"][q] = "none" /\ rpc["database"][q] = "none"
  /\ rpc["sanitization"][q] # "none" => q \in Sends /\ entries["message"][q] >= 1
  /\ rpc["database"][q] # "none" => entries["message"][q] >= 1
  /\ q \in Sends =>
       /\ stage["sanitization"][q] \in {"none", "queued", "begun"} => rpc["database"][q] = "none"
       /\ rpc["database"][q] # "none" => entries["sanitization"][q] >= 1 /\ ~Refused(q)

(* The second row is recorded with the answer of the process called.       *)
AnswersNest(q) ==
  /\ entries["client"][q] >= 2 => rpc["message"][q] = "returned"
  /\ rpc["message"][q] = "returned" => entries["message"][q] = 2
  /\ entries["message"][q] >= 2 => rpc[Callee(q)][q] = "returned"
  /\ rpc["sanitization"][q] = "returned" =>
       \/ entries["sanitization"][q] = 2
       \/ Refused(q) /\ entries["sanitization"][q] = 1
  /\ entries["sanitization"][q] >= 2 => rpc["database"][q] = "returned"
  /\ rpc["database"][q] = "returned" => entries["database"][q] = 2

(* What process x answered to send q is true of the database.              *)
Holds(x, q) ==
  \/ result[x][q] = "true" /\ (q \in stored \/ raced)
  \/ result[x][q] = "false" /\ Refused(q)

ResultsHold(q) ==
  q \in Sends =>
    /\ stage["database"][q] = "accessed" => Holds("database", q)
    /\ \A x \in Services : rpc[x][q] = "returned" => Holds(x, q)
    /\ q \in stored => rpc["database"][q] # "none"

Local(q) ==
  (\A x \in Services : RowsMatch(x, q)) /\ CallsNest(q) /\ AnswersNest(q) /\ ResultsHold(q)

(* A callback runs when its call has returned.                             *)
ClientInv ==
  /\ \A c \in Clients : main[c] \in {"attach", "await"} => next[c] >= 1
  /\ \A c \in Clients, th \in CallbackThreads :
       running[c][th] # NoCall => rpc["message"][running[c][th]] = "returned"

BoardInv == Typed /\ (\A q \in Queries : Local(q)) /\ ClientInv
-----------------------------------------------------------------------------
(* Queries are pairs.                                                      *)
LEMMA QueryFacts ==
  /\ iterations \in Nat
  /\ \A q \in Queries : q[1] \in Clients /\ q[2] \in 0..iterations - 1 /\ q = <<q[1], q[2]>>
  /\ \A c \in Clients, i \in 0..iterations - 1 : <<c, i>> \in Queries
  /\ NoCall \notin Queries
  /\ Sends \subseteq Queries /\ Finds \subseteq Queries
  /\ \A q \in Queries : q \in Sends <=> q \notin Finds
  /\ \A q \in Queries : Callee(q) \in Services
BY RpcAssumption DEF Queries, NoCall, Sends, Finds, Callee, Services

(* Nothing of query q changes but, perhaps, that there was a race.         *)
Same(q) ==
  /\ \A x \in Services : /\ rpc'[x][q] = rpc[x][q] /\ stage'[x][q] = stage[x][q]
                         /\ result'[x][q] = result[x][q] /\ entries'[x][q] = entries[x][q]
  /\ entries'["client"][q] = entries["client"][q]
  /\ q \in stored' <=> q \in stored
  /\ next'[q[1]] <= q[2] <=> next[q[1]] <= q[2]
  /\ next'[q[1]] > q[2] <=> next[q[1]] > q[2]

(* A query of which nothing changes keeps its invariant.                   *)
LEMMA SameLocal ==
  ASSUME NEW q \in Queries, Local(q), Same(q), raced => raced'
  PROVE  Local(q)'
<1>1. \A x \in Services : RowsMatch(x, q)'
  BY DEF Local, RowsMatch, Same
<1> USE DEF Services
<1>2. CallsNest(q)'
  BY DEF Local, CallsNest, Same, Refused
<1>3. AnswersNest(q)'
  BY DEF Local, AnswersNest, Same, Refused, Callee
<1>4. ResultsHold(q)'
  BY DEF Local, ResultsHold, Holds, Same, Refused
<1> QED BY <1>1, <1>2, <1>3, <1>4 DEF Local

(* A step of one handler, or of the expiry of its request, disturbs only   *)
(* that query.                                                             *)
LEMMA OneQuery ==
  ASSUME BoardInv, NEW q \in Queries, Typed', Local(q)',
         \A p \in Queries \ {q} : Same(p),
         raced => raced',
         rpc["message"][q] = "returned" => rpc'["message"][q] = "returned",
         UNCHANGED clientVars
  PROVE  BoardInv'
<1>1. \A p \in Queries : Local(p)'
  BY SameLocal DEF BoardInv
<1>2. \A p \in Queries : rpc["message"][p] = "returned" => rpc'["message"][p] = "returned"
  BY DEF Same, Services
<1>3. ClientInv'
  <2>1. UNCHANGED <<main, next, running>>
    BY DEF clientVars
  <2>2. \A c \in Clients, th \in CallbackThreads : running[c][th] \in Queries \cup {NoCall}
    BY DEF BoardInv, Typed
  <2> QED BY <1>2, <2>1, <2>2 DEF BoardInv, ClientInv
<1> QED BY <1>1, <1>3 DEF BoardInv
-----------------------------------------------------------------------------
(* Handler x begins: its first row.                                        *)
LEMMA BeginStep ==
  ASSUME BoardInv, NEW x \in Services, NEW q \in Queries, Begin(x, q), UNCHANGED databaseVars,
         UNCHANGED clientVars
  PROVE  BoardInv'
<1>1. /\ stage[x][q] = "queued"
      /\ stage' = [stage EXCEPT ![x][q] = "begun"]
      /\ entries' = [entries EXCEPT ![x][q] = @ + 1]
      /\ UNCHANGED <<rpc, result, last_messages, racing, raced, stored, next, main, running>>
  BY DEF Begin, add_entry, databaseVars, clientVars
<1>2. x # "client" /\ x \in Services \cup {"client"}
  BY DEF Services
<1>3. Typed'
  BY <1>1, <1>2 DEF BoardInv, Typed
<1>4. \A p \in Queries \ {q} : Same(p)
  BY <1>1, <1>2 DEF BoardInv, Typed, Same
<1>5. Local(q)'
  <2>1. \A y \in Services :
          /\ stage'[y][q] = IF y = x THEN "begun" ELSE stage[y][q]
          /\ entries'[y][q] = IF y = x THEN entries[y][q] + 1 ELSE entries[y][q]
    BY <1>1, <1>2 DEF BoardInv, Typed
  <2>2. entries'["client"][q] = entries["client"][q]
    BY <1>1, <1>2 DEF BoardInv, Typed
  <2>3. Local(q) /\ rpc[x][q] \notin {"none", "returned"} /\ entries[x][q] = 0
    BY <1>1 DEF BoardInv, Local, RowsMatch
  <2>4. \A y \in Services : RowsMatch(y, q)'
    BY <1>1, <2>1, <2>3 DEF Local, RowsMatch
  <2> USE DEF Services
  <2>5. CallsNest(q)'
    BY <1>1, <2>1, <2>2, <2>3 DEF Local, CallsNest, Refused
  <2>6. AnswersNest(q)'
    BY <1>1, <2>1, <2>2, <2>3 DEF Local, AnswersNest, Refused, Callee
  <2>7. ResultsHold(q)'
    BY <1>1, <2>1, <2>2, <2>3 DEF Local, ResultsHold, Holds, Refused
  <2> QED BY <2>4, <2>5, <2>6, <2>7 DEF Local
<1> QED BY <1>1, <1>3, <1>4, <1>5, OneQuery

(* An access to the map begins; it may race.                               *)
LEMMA AccessBeginStep ==
  ASSUME BoardInv, NEW q \in Queries, AccessBegin(q), UNCHANGED clientVars
  PROVE  BoardInv'
<1>1. /\ stage["database"][q] = "begun"
      /\ stage' = [stage EXCEPT !["database"][q] = "accessing"]
      /\ UNCHANGED <<rpc, result, entries, last_messages, stored, next, main, running>>
  BY DEF AccessBegin, clientVars
<1>2. raced' \in BOOLEAN /\ (raced => raced')
  BY Zenon DEF AccessBegin, BoardInv, Typed
<1>3. racing' # {} => raced'
  <2>1. CASE Conflicts(q) = {}
    <3>1. racing' = racing
      BY <2>1, Zenon DEF AccessBegin
    <3> QED BY <1>2, <3>1, Zenon DEF BoardInv, Typed
  <2>2. CASE Conflicts(q) # {}
    BY <2>2, Zenon DEF AccessBegin
  <2> QED BY <2>1, <2>2
<1>4. Typed'
  BY <1>1, <1>2, <1>3 DEF BoardInv, Typed, Services
<1>5. \A p \in Queries \ {q} : Same(p)
  BY <1>1 DEF BoardInv, Typed, Same, Services
<1>6. Local(q)'
  <2>1. \A y \in Services :
          stage'[y][q] = IF y = "database" THEN "accessing" ELSE stage[y][q]
    BY <1>1 DEF BoardInv, Typed, Services
  <2>2. Local(q) /\ rpc["database"][q] \notin {"none", "returned"} /\ entries["database"][q] = 1
    BY <1>1 DEF BoardInv, Local, RowsMatch, Services
  <2>3. \A y \in Services : RowsMatch(y, q)'
    BY <1>1, <2>1, <2>2 DEF Local, RowsMatch
  <2> USE DEF Services
  <2>4. CallsNest(q)'
    BY <1>1, <2>1, <2>2 DEF Local, CallsNest, Refused
  <2>5. AnswersNest(q)'
    BY <1>1, <2>1, <2>2 DEF Local, AnswersNest, Refused, Callee
  <2>6. ResultsHold(q)'
    BY <1>1, <1>2, <2>1, <2>2 DEF Local, ResultsHold, Holds, Refused
  <2> QED BY <2>3, <2>4, <2>5, <2>6 DEF Local
<1> QED BY <1>1, <1>2, <1>4, <1>5, <1>6, OneQuery DEF clientVars, AccessBegin

(* An access ends with a result; a store that did not race has happened.   *)
LEMMA AccessEndStep ==
  ASSUME BoardInv, NEW q \in Queries, NEW v \in Values,
         stage["database"][q] = "accessing",
         stage' = [stage EXCEPT !["database"][q] = "accessed"],
         result' = [result EXCEPT !["database"][q] = v],
         last_messages' \in [Users -> Messages \cup {Warning}],
         racing' = racing \ {q},
         stored' = stored \/ (q \in Sends /\ stored' = stored \cup {q}),
         q \in Sends => v = "true" /\ (q \in stored' \/ raced),
         UNCHANGED <<rpc, entries, raced, clientVars>>
  PROVE  BoardInv'
<1>1. UNCHANGED <<next, main, running>>
  BY DEF clientVars
<1>2. racing' # {} => racing # {}
  OBVIOUS
<1>3. Typed'
  BY <1>1, <1>2 DEF BoardInv, Typed, Services
<1>4. \A p \in Queries \ {q} : Same(p)
  BY <1>1 DEF BoardInv, Typed, Same, Services
<1>5. Local(q)'
  <2>1. \A y \in Services :
          /\ stage'[y][q] = IF y = "database" THEN "accessed" ELSE stage[y][q]
          /\ result'[y][q] = IF y = "database" THEN v ELSE result[y][q]
    BY DEF BoardInv, Typed, Services
  <2>2. Local(q) /\ rpc["database"][q] \notin {"none", "returned"} /\ entries["database"][q] = 1
    BY DEF BoardInv, Local, RowsMatch, Services
  <2>3. \A y \in Services : RowsMatch(y, q)'
    BY <1>1, <2>1, <2>2 DEF Local, RowsMatch
  <2> USE DEF Services
  <2>4. CallsNest(q)'
    BY <1>1, <2>1, <2>2 DEF Local, CallsNest, Refused
  <2>5. AnswersNest(q)'
    BY <1>1, <2>1, <2>2 DEF Local, AnswersNest, Refused, Callee
  <2>6. ResultsHold(q)'
    BY <1>1, <2>1, <2>2 DEF Local, ResultsHold, Holds, Refused
  <2> QED BY <2>3, <2>4, <2>5, <2>6 DEF Local
<1> QED BY <1>3, <1>4, <1>5, OneQuery

(* Both accesses end so.                                                   *)
LEMMA AccessStep ==
  ASSUME BoardInv, NEW q \in Queries, UNCHANGED clientVars,
         (q \in Finds /\ FindAccess(q)) \/ (q \in Sends /\ StoreAccess(q))
  PROVE  BoardInv'
<1>1. client_id[q[1]] \in Users /\ message[q[1]] \in Messages
  BY QueryFacts DEF Users, Messages
<1>2. CASE q \in Finds /\ FindAccess(q)
  <2>1. PICK v \in Values : result' = [result EXCEPT !["database"][q] = v]
    <3>1. PICK found \in IF q \in racing THEN Messages \cup {Warning}
                                         ELSE {last_messages[client_id[q[1]]]} :
            result' = [result EXCEPT !["database"][q] = found]
      BY <1>2 DEF FindAccess
    <3>2. found \in Values
      BY <1>1, <3>1 DEF BoardInv, Typed, Values
    <3> QED BY <3>1, <3>2
  <2>2. q \notin Sends
    BY <1>2, QueryFacts
  <2> QED BY <1>2, <2>1, <2>2, AccessEndStep DEF FindAccess, BoardInv, Typed
<1>3. CASE q \in Sends /\ StoreAccess(q)
  <2>1. \/ /\ last_messages' = [last_messages EXCEPT ![client_id[q[1]]] = message[q[1]]]
           /\ stored' = stored \cup {q}
        \/ q \in racing /\ UNCHANGED <<last_messages, stored>>
    BY <1>3 DEF StoreAccess
  <2>2. q \in stored' \/ raced
    BY <2>1 DEF BoardInv, Typed
  <2>3. last_messages' \in [Users -> Messages \cup {Warning}]
    BY <1>1, <2>1 DEF BoardInv, Typed
  <2>4. "true" \in Values
    BY DEF Values
  <2> QED BY <1>3, <2>1, <2>2, <2>3, <2>4, AccessEndStep DEF StoreAccess
<1> QED BY <1>2, <1>3
-----------------------------------------------------------------------------
(* The answer of a handler: with its second row when the process it called *)
(* returned, without one when it refused or failed.                        *)
LEMMA AnswerStep ==
  ASSUME BoardInv, NEW x \in Services, NEW q \in Queries, NEW v \in Values,
         NEW o \in {"returned", "failed"}, Answer(x, q, o, v),
         stage[x][q] \in {"begun", "called", "accessed"},
         \/ /\ add_entry(x, q)
            /\ x = "message" => rpc[Callee(q)][q] = "returned"
            /\ x = "sanitization" => rpc["database"][q] = "returned"
         \/ UNCHANGED entries /\ (o = "returned" => x = "sanitization" /\ Refused(q)),
         o = "returned" /\ q \in Sends =>
           (v = "true" /\ (q \in stored \/ raced)) \/ (v = "false" /\ Refused(q)),
         UNCHANGED databaseVars, UNCHANGED clientVars
  PROVE  BoardInv'
<1> DEFINE r == IF rpc[x][q] = "pending" THEN o ELSE rpc[x][q]
<1>1. /\ stage' = [stage EXCEPT ![x][q] = "done"]
      /\ rpc' = [rpc EXCEPT ![x][q] = r]
      /\ result' = [result EXCEPT ![x][q] = v]
      /\ entries' = entries \/ entries' = [entries EXCEPT ![x][q] = @ + 1]
      /\ UNCHANGED <<last_messages, racing, raced, stored, next, main, running>>
  BY DEF Answer, add_entry, databaseVars, clientVars
<1>2. x # "client" /\ x \in Services \cup {"client"}
  BY DEF Services
<1>3. Local(q) /\ rpc[x][q] \in {"pending", "failed"} /\ entries[x][q] = 1
  <2>1. rpc[x][q] \in {"none", "pending", "returned", "failed"}
    BY DEF BoardInv, Typed
  <2>2. Local(q) /\ RowsMatch(x, q)
    BY DEF BoardInv, Local
  <2> QED BY <2>1, <2>2 DEF RowsMatch
<1>4. r \in {o, "failed"} /\ r \in {"none", "pending", "returned", "failed"}
  BY <1>3
<1> HIDE DEF r
<1>5. Typed'
  <2>1. entries' \in [Services \cup {"client"} -> [Queries -> Nat]]
    <3>1. entries \in [Services \cup {"client"} -> [Queries -> Nat]]
      BY DEF BoardInv, Typed
    <3> QED BY <1>1, <1>2, <3>1
  <2>2. result' \in [Services -> [Queries -> Values]]
    BY <1>1 DEF BoardInv, Typed
  <2> QED BY <1>1, <1>4, <2>1, <2>2 DEF BoardInv, Typed
<1>6. \A p \in Queries \ {q} : Same(p)
  BY <1>1, <1>2 DEF BoardInv, Typed, Same
<1>7. Local(q)'
  <2>1. \A y \in Services :
          /\ stage'[y][q] = IF y = x THEN "done" ELSE stage[y][q]
          /\ rpc'[y][q] = IF y = x THEN r ELSE rpc[y][q]
          /\ result'[y][q] = IF y = x THEN v ELSE result[y][q]
          /\ y # x => entries'[y][q] = entries[y][q]
    BY <1>1, <1>2 DEF BoardInv, Typed
  <2>2. /\ entries'["client"][q] = entries["client"][q]
        /\ entries'[x][q] \in {1, 2}
        /\ r = "returned" => entries'[x][q] = 2 \/ (x = "sanitization" /\ Refused(q))
        /\ entries'[x][q] = 2 => /\ x = "message" => rpc[Callee(q)][q] = "returned"
                                 /\ x = "sanitization" => rpc["database"][q] = "returned"
    BY <1>1, <1>2, <1>3, <1>4 DEF BoardInv, Typed, add_entry
  <2>3. \A y \in Services : RowsMatch(y, q)'
    BY <1>3, <1>4, <2>1, <2>2 DEF Local, RowsMatch
  <2>4. q \in Sends /\ r = "returned" =>
           (v = "true" /\ (q \in stored \/ raced)) \/ (v = "false" /\ Refused(q))
    BY <1>4
  <2> USE DEF Services
  <2>5. CallsNest(q)'
    BY <1>1, <1>3, <1>4, <2>1, <2>2 DEF Local, CallsNest, Refused
  <2>6. AnswersNest(q)'
    BY <1>1, <1>3, <1>4, <2>1, <2>2 DEF Local, AnswersNest, Refused, Callee
  <2>7. ResultsHold(q)'
    BY <1>1, <1>3, <1>4, <2>1, <2>4 DEF Local, ResultsHold, Holds, Refused
  <2> QED BY <2>3, <2>5, <2>6, <2>7 DEF Local
<1>8. rpc["message"][q] = "returned" => rpc'["message"][q] = "returned"
  BY <1>1, <1>3, <1>4 DEF BoardInv, Typed, Services
<1> QED BY <1>1, <1>5, <1>6, <1>7, <1>8, OneQuery

(* The answers of the three handlers.                                      *)
LEMMA AnswerSteps ==
  ASSUME BoardInv, NEW q \in Queries, UNCHANGED databaseVars, UNCHANGED clientVars,
         \/ DatabaseReturn(q)
         \/ SanitizeRefuse(q) \/ SanitizeReturn(q) \/ SanitizeThrow(q)
         \/ MessageReturn(q) \/ MessageThrow(q)
  PROVE  BoardInv'
<1>1. /\ "message" \in Services /\ "sanitization" \in Services /\ "database" \in Services
      /\ "none" \in Values /\ "false" \in Values /\ Callee(q) \in Services
  BY QueryFacts DEF Services, Values
<1>2. \A y \in Services : result[y][q] \in Values
  BY DEF BoardInv, Typed
<1>3. /\ \A y \in Services : rpc[y][q] = "returned" /\ q \in Sends => Holds(y, q)
      /\ stage["database"][q] = "accessed" /\ q \in Sends => Holds("database", q)
  BY DEF BoardInv, Local, ResultsHold
<1>4. CASE DatabaseReturn(q)
  <2>1. PICK v \in Values : v = result["database"][q]
    BY <1>1, <1>2
  <2>2. Answer("database", q, "returned", v) /\ add_entry("database", q)
    BY <1>4, <2>1 DEF DatabaseReturn, Return
  <2>3. stage["database"][q] = "accessed"
    BY <1>4 DEF DatabaseReturn
  <2>4. q \in Sends => (v = "true" /\ (q \in stored \/ raced)) \/ (v = "false" /\ Refused(q))
    BY <1>3, <2>1, <2>3 DEF Holds
  <2> QED BY <1>1, <2>2, <2>3, <2>4, AnswerStep
<1>5. CASE SanitizeRefuse(q)
  BY <1>1, <1>5, AnswerStep DEF SanitizeRefuse, Return
<1>6. CASE SanitizeReturn(q)
  <2>1. PICK v \in Values : v = result["database"][q]
    BY <1>1, <1>2
  <2>2. Answer("sanitization", q, "returned", v) /\ add_entry("sanitization", q)
    BY <1>6, <2>1 DEF SanitizeReturn, Return
  <2>3. stage["sanitization"][q] = "called" /\ rpc["database"][q] = "returned"
    BY <1>6 DEF SanitizeReturn
  <2>4. q \in Sends => (v = "true" /\ (q \in stored \/ raced)) \/ (v = "false" /\ Refused(q))
    BY <1>1, <1>3, <2>1, <2>3 DEF Holds
  <2> QED BY <1>1, <2>2, <2>3, <2>4, AnswerStep
<1>7. CASE SanitizeThrow(q)
  BY <1>1, <1>7, AnswerStep DEF SanitizeThrow, Throw
<1>8. CASE MessageReturn(q)
  <2>1. PICK v \in Values : v = result[Callee(q)][q]
    BY <1>1, <1>2
  <2>2. Answer("message", q, "returned", v) /\ add_entry("message", q)
    BY <1>8, <2>1 DEF MessageReturn, Return
  <2>3. stage["message"][q] = "called" /\ rpc[Callee(q)][q] = "returned"
    BY <1>8 DEF MessageReturn
  <2>4. q \in Sends => (v = "true" /\ (q \in stored \/ raced)) \/ (v = "false" /\ Refused(q))
    BY <1>1, <1>3, <2>1, <2>3 DEF Holds
  <2> QED BY <1>1, <2>2, <2>3, <2>4, AnswerStep
<1>9. CASE MessageThrow(q)
  BY <1>1, <1>9, AnswerStep DEF MessageThrow, Throw
<1> QED BY <1>4, <1>5, <1>6, <1>7, <1>8, <1>9

(* A handler calls the next process, or fails to.                          *)
LEMMA CallStep ==
  ASSUME BoardInv, NEW x \in Services, NEW y \in Services, NEW q \in Queries,
         stage[x][q] = "begun",
         \/ x = "message" /\ y = Callee(q)
         \/ x = "sanitization" /\ y = "database",
         y = "database" /\ q \in Sends => x = "sanitization" /\ ~Refused(q),
         CallFrom(x, y, q, [stage EXCEPT ![x][q] = "called"]),
         UNCHANGED <<result, entries>>, UNCHANGED databaseVars, UNCHANGED clientVars
  PROVE  BoardInv'
<1>1. UNCHANGED <<last_messages, racing, raced, stored, next, main, running>>
  BY DEF databaseVars, clientVars
<1>2. PICK r \in {"pending", "failed"}, st \in {"queued", "none"} :
        /\ rpc' = [rpc EXCEPT ![y][q] = r]
        /\ \/ st = "queued" /\ stage' = [[stage EXCEPT ![x][q] = "called"] EXCEPT ![y][q] = "queued"]
           \/ st = "none" /\ stage' = [stage EXCEPT ![x][q] = "called"]
        /\ st = "none" => r = "failed"
  BY DEF CallFrom
<1>3. x # y /\ y \in {"sanitization", "database"} /\ x \in {"message", "sanitization"}
  BY DEF Callee
<1>4. Local(q) /\ rpc[x][q] \notin {"none", "returned"} /\ entries[x][q] = 1
  BY DEF BoardInv, Local, RowsMatch
<1>5. x = "sanitization" => q \in Sends
  BY <1>4 DEF Local, CallsNest
<1>6. rpc[y][q] = "none" /\ stage[y][q] = "none" /\ entries[y][q] = 0
  BY <1>3, <1>4, <1>5 DEF Local, CallsNest, RowsMatch
<1>7. Typed'
  <2>1. stage' \in [Services -> [Queries -> {"none", "queued", "begun", "called", "accessing",
                                            "accessed", "done", "lost"}]]
    <3>1. CASE stage' = [stage EXCEPT ![x][q] = "called"]
      BY <3>1 DEF BoardInv, Typed
    <3>2. CASE stage' = [[stage EXCEPT ![x][q] = "called"] EXCEPT ![y][q] = "queued"]
      <4> DEFINE mid == [stage EXCEPT ![x][q] = "called"]
      <4>1. mid \in [Services -> [Queries -> {"none", "queued", "begun", "called", "accessing",
                                             "accessed", "done", "lost"}]]
        BY DEF BoardInv, Typed
      <4>2. stage' = [mid EXCEPT ![y][q] = "queued"]
        BY <3>2
      <4> HIDE DEF mid
      <4> QED BY <4>1, <4>2
    <3> QED BY <1>2, <3>1, <3>2
  <2>2. rpc' \in [Services -> [Queries -> {"none", "pending", "returned", "failed"}]]
    BY <1>2 DEF BoardInv, Typed
  <2> QED BY <1>1, <2>1, <2>2 DEF BoardInv, Typed
<1>8. \A p \in Queries \ {q} : Same(p)
  <2>1. \A p \in Queries \ {q}, z \in Services : rpc'[z][p] = rpc[z][p] /\ stage'[z][p] = stage[z][p]
    BY <1>2 DEF BoardInv, Typed
  <2> QED BY <1>1, <2>1 DEF Same
<1>9. \A z \in Services :
        /\ rpc'[z][q] = IF z = y THEN r ELSE rpc[z][q]
        /\ stage'[z][q] = IF z = y THEN st ELSE IF z = x THEN "called" ELSE stage[z][q]
  BY <1>2, <1>3, <1>6 DEF BoardInv, Typed
<1>10. Local(q)'
  <2>1. \A z \in Services : RowsMatch(z, q)'
    BY <1>2, <1>4, <1>6, <1>9 DEF Local, RowsMatch
  <2> USE DEF Services
  <2>2. CallsNest(q)'
    BY <1>1, <1>2, <1>3, <1>4, <1>5, <1>6, <1>9, QueryFacts DEF Local, CallsNest, Refused, Callee
  <2>3. AnswersNest(q)'
    BY <1>1, <1>2, <1>3, <1>4, <1>6, <1>9 DEF Local, AnswersNest, Refused, Callee
  <2>4. ResultsHold(q)'
    BY <1>1, <1>2, <1>3, <1>4, <1>6, <1>9 DEF Local, ResultsHold, Holds, Refused
  <2> QED BY <2>1, <2>2, <2>3, <2>4 DEF Local
<1>11. rpc["message"][q] = "returned" => rpc'["message"][q] = "returned"
  BY <1>3, <1>9 DEF Services
<1> QED BY <1>1, <1>7, <1>8, <1>10, <1>11, OneQuery

(* Both calls between servers.                                             *)
LEMMA CallSteps ==
  ASSUME BoardInv, NEW q \in Queries, UNCHANGED databaseVars, UNCHANGED clientVars,
         SanitizeCall(q) \/ MessageCall(q)
  PROVE  BoardInv'
<1>1. /\ "message" \in Services /\ "sanitization" \in Services /\ "database" \in Services
      /\ Callee(q) \in Services /\ (q \in Sends => Callee(q) # "database")
  BY QueryFacts DEF Services, Callee
<1>2. CASE SanitizeCall(q)
  BY <1>1, <1>2, CallStep DEF SanitizeCall
<1>3. CASE MessageCall(q)
  BY <1>1, <1>3, CallStep DEF MessageCall
<1> QED BY <1>2, <1>3

(* A request expires: it fails, and is not begun any more.                 *)
LEMMA ExpireStep ==
  ASSUME BoardInv, NEW x \in Services, NEW q \in Queries, Expire(x, q),
         UNCHANGED databaseVars, UNCHANGED clientVars
  PROVE  BoardInv'
<1> DEFINE st == IF stage[x][q] = "queued" THEN "done" ELSE stage[x][q]
<1>1. /\ rpc[x][q] = "pending"
      /\ rpc' = [rpc EXCEPT ![x][q] = "failed"]
      /\ stage' = [stage EXCEPT ![x][q] = st]
      /\ UNCHANGED <<result, entries, last_messages, racing, raced, stored, next, main, running>>
  BY DEF Expire, databaseVars, clientVars
<1>2. /\ st = stage[x][q] \/ (st = "done" /\ stage[x][q] = "queued")
      /\ st \in {"none", "queued", "begun", "called", "accessing", "accessed", "done", "lost"}
  BY DEF BoardInv, Typed
<1> HIDE DEF st
<1>3. Typed'
  BY <1>1, <1>2 DEF BoardInv, Typed
<1>4. \A p \in Queries \ {q} : Same(p)
  BY <1>1 DEF BoardInv, Typed, Same
<1>5. Local(q)'
  <2>1. \A y \in Services :
          /\ stage'[y][q] = IF y = x THEN st ELSE stage[y][q]
          /\ rpc'[y][q] = IF y = x THEN "failed" ELSE rpc[y][q]
    BY <1>1 DEF BoardInv, Typed
  <2>2. Local(q)
    BY DEF BoardInv
  <2>3. \A y \in Services : RowsMatch(y, q)'
    BY <1>1, <1>2, <2>1, <2>2 DEF Local, RowsMatch
  <2> USE DEF Services
  <2>4. CallsNest(q)'
    BY <1>1, <1>2, <2>1, <2>2 DEF Local, CallsNest, Refused
  <2>5. AnswersNest(q)'
    BY <1>1, <1>2, <2>1, <2>2 DEF Local, AnswersNest, Refused, Callee
  <2>6. ResultsHold(q)'
    BY <1>1, <1>2, <2>1, <2>2 DEF Local, ResultsHold, Holds, Refused
  <2> QED BY <2>3, <2>4, <2>5, <2>6 DEF Local
<1>6. rpc["message"][q] = "returned" => rpc'["message"][q] = "returned"
  BY <1>1 DEF BoardInv, Typed, Services
<1> QED BY <1>1, <1>3, <1>4, <1>5, <1>6, OneQuery

(* A server ends: its handlers are lost and what is pending fails.         *)
LEMMA DownStep ==
  ASSUME BoardInv, NEW x \in Services, Down(x), UNCHANGED databaseVars, UNCHANGED clientVars
  PROVE  BoardInv'
<1>1. UNCHANGED <<result, entries, last_messages, racing, raced, stored, next, main, running>>
  BY DEF Down, databaseVars, clientVars
<1>2. \A y \in Services, q \in Queries :
        /\ stage'[y][q] = IF y = x /\ stage[y][q] \notin {"none", "done"} THEN "lost" ELSE stage[y][q]
        /\ rpc'[y][q] = IF y = x /\ rpc[y][q] = "pending" THEN "failed" ELSE rpc[y][q]
  BY DEF Down, BoardInv, Typed
<1>3. Typed'
  <2>1. stage' \in [Services -> [Queries -> {"none", "queued", "begun", "called", "accessing",
                                            "accessed", "done", "lost"}]]
    BY DEF Down, BoardInv, Typed
  <2>2. rpc' \in [Services -> [Queries -> {"none", "pending", "returned", "failed"}]]
    BY DEF Down, BoardInv, Typed
  <2> QED BY <1>1, <2>1, <2>2 DEF BoardInv, Typed
<1>4. ASSUME NEW q \in Queries PROVE Local(q)'
  <2>1. Local(q)
    BY DEF BoardInv
  <2>2. \A y \in Services :
          /\ stage'[y][q] = stage[y][q] \/ (stage'[y][q] = "lost" /\ stage[y][q] \notin {"none", "done"})
          /\ rpc'[y][q] = rpc[y][q] \/ (rpc'[y][q] = "failed" /\ rpc[y][q] = "pending")
    BY <1>2
  <2>3. \A y \in Services : RowsMatch(y, q)'
    <3> SUFFICES ASSUME NEW y \in Services PROVE RowsMatch(y, q)'
      OBVIOUS
    <3>1. RowsMatch(y, q)
      BY <2>1 DEF Local
    <3>2. stage[y][q] \in {"none", "queued", "begun", "called", "accessing", "accessed", "done", "lost"}
      BY DEF BoardInv, Typed
    <3> QED BY <1>1, <2>2, <3>1, <3>2 DEF RowsMatch
  <2> USE DEF Services
  <2>4. CallsNest(q)'
    BY <1>1, <2>1, <2>2 DEF Local, CallsNest, Refused
  <2>5. AnswersNest(q)'
    BY <1>1, <2>1, <2>2 DEF Local, AnswersNest, Refused, Callee
  <2>6. ResultsHold(q)'
    BY <1>1, <2>1, <2>2 DEF Local, ResultsHold, Holds, Refused
  <2> QED BY <2>3, <2>4, <2>5, <2>6 DEF Local
<1>5. \A q \in Queries : rpc["message"][q] = "returned" => rpc'["message"][q] = "returned"
  BY <1>2 DEF Services
<1>6. ClientInv'
  <2>1. \A c \in Clients, th \in CallbackThreads : running[c][th] \in Queries \cup {NoCall}
    BY DEF BoardInv, Typed
  <2> QED BY <1>1, <1>5, <2>1 DEF BoardInv, ClientInv
<1> QED BY <1>3, <1>4, <1>6 DEF BoardInv
-----------------------------------------------------------------------------
(* A step that leaves the calls and rows alone.                            *)
LEMMA QuietStep ==
  ASSUME BoardInv, UNCHANGED <<rpc, stage, result, entries, next>>, UNCHANGED databaseVars,
         main' \in [Clients -> {"init", "loop", "attach", "await", "callback", "done", "dead"}],
         \A c \in Clients : main'[c] \in {"attach", "await"} => main[c] \in {"attach", "await"},
         running' \in [Clients -> [CallbackThreads -> Queries \cup {NoCall}]],
         \A c \in Clients, th \in CallbackThreads :
           running'[c][th] # NoCall =>
             \/ running'[c][th] = running[c][th]
             \/ rpc["message"][running'[c][th]] = "returned"
  PROVE  BoardInv'
<1>1. Typed'
  BY DEF BoardInv, Typed, databaseVars
<1>2. \A q \in Queries : Local(q)'
  BY SameLocal DEF BoardInv, Same, databaseVars
<1>3. ClientInv'
  BY DEF BoardInv, ClientInv
<1> QED BY <1>1, <1>2, <1>3 DEF BoardInv

(* A client makes its next call, of which nothing has happened yet.        *)
LEMMA SendStep ==
  ASSUME BoardInv, NEW c \in Clients, SendCall(c), UNCHANGED databaseVars
  PROVE  BoardInv'
<1>0. next[c] \in 0..iterations - 1
  BY QueryFacts DEF SendCall, BoardInv, Typed
<1> PICK q \in Queries : q = <<c, next[c]>>
  BY <1>0, QueryFacts
<1>1. next[c] \in 0..iterations - 1 /\ q[1] = c /\ q[2] = next[c]
  BY <1>0
<1>2. /\ entries' = [entries EXCEPT !["client"][q] = @ + 1]
      /\ next' = [next EXCEPT ![c] = @ + 1]
      /\ CallFrom(c, "message", q, stage)
      /\ UNCHANGED <<result, last_messages, racing, raced, stored, running>>
  BY DEF SendCall, add_entry, databaseVars
<1>3. main' = [main EXCEPT ![c] = "await"] \/ main' = [main EXCEPT ![c] = "attach"]
  BY DEF SendCall
<1>4. PICK r \in {"pending", "failed"}, st \in {"queued", "none"} :
        /\ rpc' = [rpc EXCEPT !["message"][q] = r]
        /\ \/ st = "queued" /\ stage' = [stage EXCEPT !["message"][q] = "queued"]
           \/ st = "none" /\ stage' = stage
  BY <1>2 DEF CallFrom
<1>5. /\ Local(q) /\ rpc["message"][q] = "none" /\ stage["message"][q] = "none"
      /\ entries["message"][q] = 0 /\ entries["client"][q] = 0
  <2>1. Local(q) /\ next[q[1]] <= q[2]
    BY <1>1 DEF BoardInv, Typed
  <2> QED BY <2>1 DEF Local, CallsNest, RowsMatch, Services
<1>6. Typed'
  <2>1. /\ entries' \in [Services \cup {"client"} -> [Queries -> Nat]]
        /\ next' \in [Clients -> 0..iterations]
    BY <1>1, <1>2, QueryFacts DEF BoardInv, Typed
  <2>2. /\ rpc' \in [Services -> [Queries -> {"none", "pending", "returned", "failed"}]]
        /\ stage' \in [Services -> [Queries -> {"none", "queued", "begun", "called", "accessing",
                                               "accessed", "done", "lost"}]]
    <3>1. stage' = stage \/ stage' = [stage EXCEPT !["message"][q] = "queued"]
      BY <1>4
    <3>2. rpc' \in [Services -> [Queries -> {"none", "pending", "returned", "failed"}]]
      BY <1>4 DEF BoardInv, Typed
    <3>3. stage' \in [Services -> [Queries -> {"none", "queued", "begun", "called", "accessing",
                                              "accessed", "done", "lost"}]]
      <4>1. CASE stage' = stage
        BY <4>1 DEF BoardInv, Typed
      <4>2. CASE stage' = [stage EXCEPT !["message"][q] = "queued"]
        BY <4>2 DEF BoardInv, Typed
      <4> QED BY <3>1, <4>1, <4>2
    <3> QED BY <3>2, <3>3
  <2>3. main' \in [Clients -> {"init", "loop", "attach", "await", "callback", "done", "dead"}]
    BY <1>3 DEF BoardInv, Typed
  <2> QED BY <1>2, <2>1, <2>2, <2>3 DEF BoardInv, Typed
<1>7. ASSUME NEW p \in Queries, p # q PROVE Same(p)
  <2>1. /\ \A x \in Services : rpc'[x][p] = rpc[x][p] /\ stage'[x][p] = stage[x][p]
        /\ \A x \in Services \cup {"client"} : entries'[x][p] = entries[x][p]
    BY <1>2, <1>4, <1>7 DEF BoardInv, Typed
  <2>2. p[1] = c => p[2] # next[c]
    BY <1>7, QueryFacts
  <2>3. /\ next[p[1]] \in Nat /\ p[2] \in Nat
        /\ next'[p[1]] = next[p[1]] \/ (p[1] = c /\ next'[p[1]] = next[c] + 1)
    BY <1>2, QueryFacts DEF BoardInv, Typed
  <2>4. /\ next'[p[1]] <= p[2] <=> next[p[1]] <= p[2]
        /\ next'[p[1]] > p[2] <=> next[p[1]] > p[2]
    BY <2>2, <2>3
  <2> QED BY <1>2, <2>1, <2>4 DEF Same
<1>8. Local(q)'
  <2>1. \A x \in Services :
          /\ rpc'[x][q] = IF x = "message" THEN r ELSE rpc[x][q]
          /\ stage'[x][q] = IF x = "message" THEN st ELSE stage[x][q]
          /\ entries'[x][q] = entries[x][q]
    BY <1>2, <1>4, <1>5 DEF BoardInv, Typed, Services
  <2>2. entries'["client"][q] = 1 /\ next'[q[1]] > q[2]
    BY <1>1, <1>2, <1>5 DEF BoardInv, Typed
  <2>3. ~(next'[q[1]] <= q[2])
    BY <1>1, <1>2 DEF BoardInv, Typed
  <2>4. \A x \in Services : RowsMatch(x, q)'
    BY <1>5, <2>1 DEF Local, RowsMatch
  <2> USE DEF Services
  <2>5. CallsNest(q)'
    BY <1>2, <1>5, <2>1, <2>2, <2>3 DEF Local, CallsNest, Refused
  <2>6. AnswersNest(q)'
    BY <1>2, <1>5, <2>1, <2>2 DEF Local, AnswersNest, Refused, Callee
  <2>7. ResultsHold(q)'
    BY <1>2, <1>5, <2>1 DEF Local, ResultsHold, Holds, Refused
  <2> QED BY <2>4, <2>5, <2>6, <2>7 DEF Local
<1>9. \A p \in Queries : Local(p)'
  BY <1>2, <1>7, <1>8, SameLocal DEF BoardInv
<1>10. ClientInv'
  <2>1. \A d \in Clients : main'[d] \in {"attach", "await"} => next'[d] >= 1
    BY <1>2, <1>3 DEF BoardInv, Typed, ClientInv
  <2>2. \A p \in Queries : rpc["message"][p] = "returned" => rpc'["message"][p] = "returned"
    BY <1>4, <1>5 DEF BoardInv, Typed, Services
  <2>3. \A d \in Clients, th \in CallbackThreads : running[d][th] \in Queries \cup {NoCall}
    BY DEF BoardInv, Typed
  <2> QED BY <1>2, <2>1, <2>2, <2>3 DEF BoardInv, ClientInv
<1> QED BY <1>6, <1>9, <1>10 DEF BoardInv

(* A callback records the client's second row: the call has returned.      *)
LEMMA CallbackEndStep ==
  ASSUME BoardInv, NEW c \in Clients, NEW th \in CallbackThreads, CallbackEnd(c, th),
         UNCHANGED databaseVars
  PROVE  BoardInv'
<1> PICK q \in Queries : q = running[c][th]
  BY DEF CallbackEnd, BoardInv, Typed
<1>1. rpc["message"][q] = "returned"
  BY QueryFacts DEF BoardInv, ClientInv
<1>2. /\ entries' = [entries EXCEPT !["client"][q] = @ + 1]
      /\ running' = [running EXCEPT ![c][th] = NoCall]
      /\ main' = main \/ main' = [main EXCEPT ![c] = "loop"]
      /\ UNCHANGED <<rpc, stage, result, next, last_messages, racing, raced, stored>>
  BY DEF CallbackEnd, add_entry, databaseVars
<1>3. Typed'
  <2>1. entries' \in [Services \cup {"client"} -> [Queries -> Nat]]
    BY <1>1, <1>2 DEF BoardInv, Typed
  <2>2. running' \in [Clients -> [CallbackThreads -> Queries \cup {NoCall}]]
    BY <1>2 DEF BoardInv, Typed
  <2>3. main' \in [Clients -> {"init", "loop", "attach", "await", "callback", "done", "dead"}]
    BY <1>2 DEF BoardInv, Typed
  <2> QED BY <1>2, <2>1, <2>2, <2>3 DEF BoardInv, Typed
<1>4. ASSUME NEW p \in Queries, p # q PROVE Same(p)
  <2>1. \A x \in Services \cup {"client"} : entries'[x][p] = entries[x][p]
    BY <1>2, <1>4 DEF BoardInv, Typed
  <2> QED BY <1>2, <2>1 DEF Same
<1>5. Local(q)'
  <2>1. /\ \A x \in Services : entries'[x][q] = entries[x][q]
        /\ entries'["client"][q] = entries["client"][q] + 1 /\ entries["client"][q] \in Nat
    BY <1>1, <1>2 DEF BoardInv, Typed, Services
  <2>2. Local(q)
    BY <1>1 DEF BoardInv
  <2>3. \A x \in Services : RowsMatch(x, q)'
    BY <1>2, <2>1, <2>2 DEF Local, RowsMatch
  <2>4. CallsNest(q)'
    BY <1>1, <1>2, <2>1, <2>2 DEF Local, CallsNest, Refused, Services
  <2>5. AnswersNest(q)'
    BY <1>1, <1>2, <2>1, <2>2 DEF Local, AnswersNest, Refused, Callee, Services
  <2>6. ResultsHold(q)'
    BY <1>2, <2>2 DEF Local, ResultsHold, Holds, Refused
  <2> QED BY <2>3, <2>4, <2>5, <2>6 DEF Local
<1>6. \A p \in Queries : Local(p)'
  BY <1>2, <1>4, <1>5, SameLocal DEF BoardInv
<1>7. ClientInv'
  <2>1. \A d \in Clients : main'[d] \in {"attach", "await"} => next'[d] >= 1
    BY <1>2 DEF BoardInv, Typed, ClientInv
  <2>2. \A d \in Clients, t \in CallbackThreads : running'[d][t] \in {running[d][t], NoCall}
    BY <1>2 DEF BoardInv, Typed
  <2> QED BY <1>2, <2>1, <2>2 DEF BoardInv, ClientInv
<1> QED BY <1>3, <1>6, <1>7 DEF BoardInv
(* The main thread of a client goes on, without a callback.                *)
LEMMA MainStep ==
  ASSUME BoardInv, NEW c \in Clients, UNCHANGED databaseVars,
         NEW at \in {"loop", "done", "dead"},
         main' = main \/ main' = [main EXCEPT ![c] = at],
         UNCHANGED <<rpc, stage, result, entries, next, running>>
  PROVE  BoardInv'
<1>1. /\ main' \in [Clients -> {"init", "loop", "attach", "await", "callback", "done", "dead"}]
      /\ \A d \in Clients : main'[d] \in {"attach", "await"} => main[d] \in {"attach", "await"}
  BY DEF BoardInv, Typed
<1>2. running' \in [Clients -> [CallbackThreads -> Queries \cup {NoCall}]]
  BY DEF BoardInv, Typed
<1> QED BY <1>1, <1>2, QuietStep

(* A thread of a client begins the callback of a call that returned.       *)
LEMMA CallbackBeginStep ==
  ASSUME BoardInv, NEW c \in Clients, NEW th \in CallbackThreads, NEW q \in Queries,
         CallbackBegin(c, th, q), UNCHANGED databaseVars,
         main' = main \/ main' = [main EXCEPT ![c] = "callback"],
         UNCHANGED <<rpc, stage, result, entries, next>>
  PROVE  BoardInv'
<1>1. /\ main' \in [Clients -> {"init", "loop", "attach", "await", "callback", "done", "dead"}]
      /\ \A d \in Clients : main'[d] \in {"attach", "await"} => main[d] \in {"attach", "await"}
  BY DEF BoardInv, Typed
<1>2. rpc["message"][q] = "returned" /\ running' = [running EXCEPT ![c][th] = q]
  BY DEF CallbackBegin
<1>3. running' \in [Clients -> [CallbackThreads -> Queries \cup {NoCall}]]
  BY <1>2 DEF BoardInv, Typed
<1>4. \A d \in Clients, t \in CallbackThreads : running'[d][t] = running[d][t] \/ running'[d][t] = q
  BY <1>2 DEF BoardInv, Typed
<1> QED BY <1>1, <1>2, <1>3, <1>4, QuietStep

(* The steps of a client.                                                  *)
LEMMA ClientSteps ==
  ASSUME BoardInv, NEW c \in Clients, ClientStep(c), UNCHANGED databaseVars
  PROVE  BoardInv'
<1>1. main[c] \in {"attach", "await"} => Current(c) \in Queries
  <2>1. next[c] \in 0..iterations /\ (main[c] \in {"attach", "await"} => next[c] >= 1)
    BY DEF BoardInv, Typed, ClientInv
  <2> QED BY <2>1, QueryFacts DEF Current
<1>2. "main" \in CallbackThreads /\ "eb" \in CallbackThreads
  BY DEF CallbackThreads
<1>3. CASE Connect(c)
  BY <1>3, MainStep DEF Connect
<1>4. CASE SendCall(c)
  BY <1>4, SendStep
<1>5. CASE Finish(c)
  BY <1>5, MainStep DEF Finish, rpcVars
<1>6. CASE AttachWait(c) \/ AttachError(c)
  BY <1>6, MainStep DEF AttachWait, AttachError, rpcVars
<1>7. CASE AttachReply(c)
  BY <1>1, <1>2, <1>7, CallbackBeginStep DEF AttachReply, rpcVars
<1>8. CASE AwaitReply(c)
  BY <1>1, <1>2, <1>8, CallbackBeginStep DEF AwaitReply, rpcVars
<1>9. CASE AwaitError(c)
  BY <1>9, MainStep DEF AwaitError, rpcVars
<1>10. ASSUME NEW th \in CallbackThreads, CallbackEnd(c, th) PROVE BoardInv'
  BY <1>10, CallbackEndStep
<1>11. ASSUME NEW q \in Queries, EventReply(c, q) PROVE BoardInv'
  BY <1>2, <1>11, CallbackBeginStep DEF EventReply, rpcVars
<1>12. ASSUME NEW q \in Queries, EventError(c, q) PROVE BoardInv'
  BY <1>12, MainStep DEF EventError, rpcVars
<1> QED BY <1>3, <1>4, <1>5, <1>6, <1>7, <1>8, <1>9, <1>10, <1>11, <1>12 DEF ClientStep

(* SIGINT ends a client.                                                   *)
LEMMA StopClientStep ==
  ASSUME BoardInv, NEW c \in Clients, StopClient(c), UNCHANGED databaseVars
  PROVE  BoardInv'
<1>1. /\ main' = [main EXCEPT ![c] = "dead"]
      /\ running' = [running EXCEPT ![c] = [th \in CallbackThreads |-> NoCall]]
      /\ UNCHANGED <<rpc, stage, result, entries, next>>
  BY DEF StopClient, rpcVars
<1>2. /\ main' \in [Clients -> {"init", "loop", "attach", "await", "callback", "done", "dead"}]
      /\ \A d \in Clients : main'[d] \in {"attach", "await"} => main[d] \in {"attach", "await"}
  BY <1>1 DEF BoardInv, Typed
<1>3. running' \in [Clients -> [CallbackThreads -> Queries \cup {NoCall}]]
  BY <1>1 DEF BoardInv, Typed
<1>4. \A d \in Clients, t \in CallbackThreads : running'[d][t] \in {running[d][t], NoCall}
  BY <1>1 DEF BoardInv, Typed
<1> QED BY <1>1, <1>2, <1>3, <1>4, QuietStep

(* The handlers of the three services.                                     *)
LEMMA HandlerSteps ==
  ASSUME BoardInv, Handlers
  PROVE  BoardInv'
<1>1. /\ "message" \in Services /\ "sanitization" \in Services /\ "database" \in Services
      /\ Finds \subseteq Queries /\ Sends \subseteq Queries
  BY QueryFacts DEF Services
<1>2. UNCHANGED clientVars
  BY DEF Handlers
<1>3. ASSUME NEW q \in Queries, db_find_last_message(q) \/ db_store_message(q) PROVE BoardInv'
  <2>1. \/ Begin("database", q) /\ UNCHANGED databaseVars
        \/ AccessBegin(q)
        \/ (q \in Finds /\ FindAccess(q)) \/ (q \in Sends /\ StoreAccess(q))
        \/ DatabaseReturn(q)
    BY <1>3 DEF db_find_last_message, db_store_message
  <2>2. CASE Begin("database", q) /\ UNCHANGED databaseVars
    BY <1>1, <1>2, <2>2, BeginStep
  <2>3. CASE AccessBegin(q)
    BY <1>2, <2>3, AccessBeginStep
  <2>4. CASE (q \in Finds /\ FindAccess(q)) \/ (q \in Sends /\ StoreAccess(q))
    BY <1>2, <2>4, AccessStep
  <2>5. CASE DatabaseReturn(q)
    <3>1. UNCHANGED databaseVars
      BY <2>5 DEF DatabaseReturn
    <3> QED BY <1>2, <2>5, <3>1, AnswerSteps
  <2> QED BY <2>1, <2>2, <2>3, <2>4, <2>5
<1>4. CASE DatabaseCrash
  BY <1>1, <1>2, <1>4, DownStep DEF DatabaseCrash
<1>5. ASSUME NEW q \in Queries, UNCHANGED databaseVars,
             sanitize_message(q) \/ find_last_message(q) \/ send_message(q)
      PROVE  BoardInv'
  BY <1>1, <1>2, <1>5, BeginStep, CallSteps, AnswerSteps
  DEF sanitize_message, find_last_message, send_message
<1> QED BY <1>3, <1>4, <1>5 DEF Handlers, DatabaseNext

(* Before the first step.                                                  *)
LEMMA InitInv == Init => BoardInv
<1> SUFFICES ASSUME Init PROVE BoardInv
  OBVIOUS
<1> USE DEF Init, RpcInit, DatabaseInit, ClientInit
<1>1. Typed
  <2>1. "none" \in Values
    BY DEF Values
  <2>2. next \in [Clients -> 0..iterations]
    BY QueryFacts
  <2>3. running \in [Clients -> [CallbackThreads -> Queries \cup {NoCall}]]
    OBVIOUS
  <2> QED BY <2>1, <2>2, <2>3 DEF Typed
<1>2. ASSUME NEW q \in Queries PROVE Local(q)
  <2>1. /\ \A x \in Services : /\ rpc[x][q] = "none" /\ stage[x][q] = "none"
                               /\ entries[x][q] = 0
        /\ entries["client"][q] = 0 /\ q \notin stored
    OBVIOUS
  <2>2. next[q[1]] = 0 /\ q[2] \in Nat
    BY QueryFacts
  <2> USE DEF Services
  <2> QED BY <2>1, <2>2 DEF Local, RowsMatch, CallsNest, AnswersNest, ResultsHold
<1>3. ClientInv
  BY DEF ClientInv
<1> QED BY <1>1, <1>2, <1>3 DEF BoardInv

(* Every step of the system preserves the invariant.                       *)
LEMMA StepInv == BoardInv /\ [Next]_vars => BoardInv'
<1> SUFFICES ASSUME BoardInv, [Next]_vars PROVE BoardInv'
  OBVIOUS
<1>1. CASE UNCHANGED vars \/ Booting \/ Ended
  <2>1. UNCHANGED <<rpc, stage, result, entries, next, main, running>> /\ UNCHANGED databaseVars
    BY <1>1 DEF vars, rpcVars, clientVars, Booting, Ended, Boot, database_main,
                sanitization_main, message_main
  <2>2. running' \in [Clients -> [CallbackThreads -> Queries \cup {NoCall}]]
    BY <2>1 DEF BoardInv, Typed
  <2>3. main' \in [Clients -> {"init", "loop", "attach", "await", "callback", "done", "dead"}]
    BY <2>1 DEF BoardInv, Typed
  <2> QED BY <2>1, <2>2, <2>3, QuietStep
<1>2. CASE Handlers
  BY <1>2, HandlerSteps
<1>3. ASSUME NEW c \in Clients, ClientProcess(c) PROVE BoardInv'
  BY <1>3, ClientSteps DEF ClientProcess
<1>4. CASE Faults
  <2>1. ASSUME NEW x \in Services, Stop(x), UNCHANGED databaseVars, UNCHANGED clientVars
        PROVE  BoardInv'
    BY <2>1, DownStep DEF Stop
  <2>2. ASSUME NEW c \in Clients, StopClient(c), UNCHANGED databaseVars PROVE BoardInv'
    BY <2>2, StopClientStep
  <2>3. ASSUME NEW x \in Services, NEW q \in Queries, Expire(x, q),
               UNCHANGED databaseVars, UNCHANGED clientVars
        PROVE  BoardInv'
    BY <2>3, ExpireStep
  <2>4. "message" \in Services /\ "sanitization" \in Services /\ "database" \in Services
    BY DEF Services
  <2> QED BY <1>4, <2>1, <2>2, <2>3, <2>4
          DEF Faults, database_int_handler, sanitization_int_handler, message_int_handler
<1> QED BY <1>1, <1>2, <1>3, <1>4 DEF Next, Progress

(* The invariant of the board holds throughout.                            *)
LEMMA InvHolds == Spec => []BoardInv
<1> QED BY InitInv, StepInv, PTL DEF Spec
-----------------------------------------------------------------------------
(* The spans data_analysis/plot_utils.py draws nest, for any number of     *)
(* clients, calls and worker threads, whatever stops, expires or races.    *)
THEOREM SpansNestCorrect == Spec => []SpansNest
<1>1. BoardInv => SpansNest
  <2> SUFFICES ASSUME BoardInv, NEW q \in Queries
               PROVE  LET rows(p) == entries[p][q]
                      IN /\ rows("message") >= 1 => rows("client") >= 1
                         /\ rows("sanitization") >= 1 => q \in Sends /\ rows("message") >= 1
                         /\ rows("database") >= 1 => rows("message") >= 1
                         /\ rows("database") >= 1 /\ q \in Sends => rows("sanitization") >= 1
                         /\ rows("client") = 2 => rows("message") = 2
                         /\ rows("message") = 2 =>
                              \/ rows("database") = 2 /\ (q \in Sends => rows("sanitization") = 2)
                              \/ Refused(q) /\ rows("sanitization") = 1 /\ rows("database") = 0
                         /\ rows("sanitization") = 2 => rows("database") = 2
    BY DEF SpansNest
  <2>1. Local(q) /\ Typed
    BY DEF BoardInv
  <2>2. \A x \in Services : entries[x][q] \in Nat /\ (rpc[x][q] = "none" => entries[x][q] = 0)
    BY <2>1 DEF Typed, Local, RowsMatch
  <2>3. entries["client"][q] \in Nat /\ next[q[1]] \in Nat /\ q[2] \in Nat
    BY <2>1, QueryFacts DEF Typed
  <2> USE DEF Services
  <2>4. CallsNest(q) /\ AnswersNest(q)
    BY <2>1 DEF Local
  <2>5. entries["message"][q] >= 1 => entries["client"][q] >= 1
    BY <2>2, <2>3, <2>4 DEF CallsNest
  <2>6. /\ entries["sanitization"][q] >= 1 => q \in Sends /\ entries["message"][q] >= 1
        /\ entries["database"][q] >= 1 => entries["message"][q] >= 1
        /\ entries["database"][q] >= 1 /\ q \in Sends => entries["sanitization"][q] >= 1
    BY <2>2, <2>4 DEF CallsNest
  <2>7. entries["sanitization"][q] = 2 => entries["database"][q] = 2
    BY <2>4 DEF AnswersNest
  <2>8. entries["client"][q] = 2 => entries["message"][q] = 2
    BY <2>4 DEF AnswersNest
  <2>9. entries["message"][q] = 2 =>
          \/ entries["database"][q] = 2 /\ (q \in Sends => entries["sanitization"][q] = 2)
          \/ Refused(q) /\ entries["sanitization"][q] = 1 /\ entries["database"][q] = 0
    BY <2>2, <2>4, QueryFacts DEF CallsNest, AnswersNest, Callee
  <2> QED BY <2>5, <2>6, <2>7, <2>8, <2>9
<1> QED BY <1>1, InvHolds, PTL

(* What a client is told about a send is true of the database              *)
(* (src/MockDatabase/MockDatabase.cpp, src/MessageService and              *)
(* src/SanitizationService), unless accesses to the map raced; a refused   *)
(* message is never stored.                                                *)
THEOREM AckedIsStoredCorrect == Spec => []AckedIsStored
<1>1. BoardInv => AckedIsStored
  <2> SUFFICES ASSUME BoardInv, NEW q \in Sends
               PROVE  /\ rpc["message"][q] = "returned" => Holds("message", q)
                      /\ Refused(q) => q \notin stored
    BY DEF AckedIsStored, Holds
  <2>1. q \in Queries /\ Local(q)
    BY QueryFacts DEF BoardInv
  <2> QED BY <2>1 DEF Local, ResultsHold, CallsNest, Services
<1> QED BY <1>1, InvHolds, PTL
-----------------------------------------------------------------------------
(* The messages of the user of c.                                          *)
MessagesOf(u) == {message[c] : c \in {d \in Clients : client_id[d] = u}}

User(q) == client_id[q[1]]

(* A user with a stored message has one of his own messages in the map.    *)
StoredKept ==
  /\ stored \subseteq Sends
  /\ \A p \in stored : last_messages[User(p)] \in MessagesOf(User(p))

(* A find begun after an acknowledged send has found its user's message,   *)
(* as far as anything was found.                                           *)
FoundOwn(q) ==
  q \in acknowledged =>
    /\ q \in Finds
    /\ \E p \in stored : User(p) = User(q)
    /\ \A x \in Services :
         rpc[x][q] = "returned" \/ stage[x][q] = "accessed" =>
           result[x][q] \in MessagesOf(User(q))

ClientTyped ==
  /\ outcome \in [Queries -> {"none", "reply", "error"}]
  /\ success \in [Clients -> [{"send", "find"} -> Nat]]
  /\ loaded \in [Clients -> [CallbackThreads -> Nat]]

AckInv ==
  /\ \A q \in Queries : outcome[q] = "reply" => rpc["message"][q] = "returned"
  /\ acknowledged \subseteq Queries
  /\ ~raced => StoredKept /\ \A q \in Queries : FoundOwn(q)

(* The synchronous client: one call at a time, one callback at a time.     *)
SyncClient(c) ==
  /\ main[c] # "attach"
  /\ main[c] = "init" => next[c] = 0
  /\ running[c]["eb"] = NoCall
  /\ running[c]["main"] = IF main[c] = "callback" THEN Current(c) ELSE NoCall
  /\ main[c] = "callback" => loaded[c]["main"] = success[c][counter(Current(c))]
  /\ \A i \in 0 .. iterations - 1 :
       LET q == <<c, i>>
       IN /\ next[c] <= i => outcome[q] = "none"
          /\ i + 1 = next[c] /\ main[c] \in {"await", "callback"} => outcome[q] = "none"
          /\ i + 1 < next[c] => rpc["message"][q] = "returned"
          /\ i + 1 = next[c] /\ main[c] \in {"loop", "done"} => rpc["message"][q] = "returned"

CountedReplies(c) ==
  /\ success[c]["send"] = Replies(c, Sends)
  /\ success[c]["find"] = Replies(c, Finds)

SyncInv ==
  CLIENT_SYNC =>
    /\ attached = {}
    /\ \A c \in Clients : SyncClient(c) /\ CountedReplies(c)
    /\ Cardinality(Clients) = 1 => ~raced
-----------------------------------------------------------------------------
(* An answer stays an answer.                                              *)
LEMMA ReturnedStays ==
  ASSUME BoardInv, [Next]_vars, NEW q \in Queries, rpc["message"][q] = "returned"
  PROVE  rpc'["message"][q] = "returned"
<1>1. rpc \in [Services -> [Queries -> {"none", "pending", "returned", "failed"}]]
      /\ "message" \in Services
  BY DEF BoardInv, Typed, Services
<1>2. CASE rpc' = rpc
  BY <1>2
<1>3. ASSUME NEW x \in Services, NEW p \in Queries, NEW o, NEW v, Answer(x, p, o, v)
      PROVE  rpc'["message"][q] = "returned"
  <2>1. rpc' = [rpc EXCEPT ![x][p] = IF rpc[x][p] = "pending" THEN o ELSE rpc[x][p]]
    BY <1>3 DEF Answer
  <2> QED BY <1>1, <2>1
<1>4. ASSUME NEW y \in {"sanitization", "database"}, NEW x, NEW p \in Queries, NEW st, CallFrom(x, y, p, st)
      PROVE  rpc'["message"][q] = "returned"
  <2>1. PICK r \in {"pending", "failed"} : rpc' = [rpc EXCEPT ![y][p] = r]
    BY <1>4 DEF CallFrom
  <2> QED BY <1>1, <2>1 DEF Services
<1>5. ASSUME NEW x \in Services, NEW p \in Queries, Expire(x, p)
      PROVE  rpc'["message"][q] = "returned"
  BY <1>1, <1>5 DEF Expire
<1>6. ASSUME NEW x \in Services, Down(x) PROVE rpc'["message"][q] = "returned"
  BY <1>1, <1>6 DEF Down
<1>7. ASSUME NEW c \in Clients, SendCall(c) PROVE rpc'["message"][q] = "returned"
  <2>0. next[c] \in 0 .. iterations - 1
    BY <1>7, QueryFacts DEF SendCall, BoardInv, Typed
  <2>1. PICK p \in Queries : p = <<c, next[c]>>
    BY <2>0, QueryFacts
  <2>2. PICK r \in {"pending", "failed"} : rpc' = [rpc EXCEPT !["message"][p] = r]
    BY <1>7, <2>1 DEF SendCall, CallFrom
  <2>3. Local(p) /\ next[p[1]] <= p[2]
    BY <2>0, <2>1 DEF BoardInv
  <2>4. rpc["message"][p] = "none"
    BY <2>3 DEF Local, CallsNest
  <2> QED BY <1>1, <2>2, <2>4
<1>8. CASE Handlers
  <2>1. ASSUME NEW p \in Queries, sanitize_message(p) \/ find_last_message(p) \/ send_message(p)
        PROVE  rpc'["message"][q] = "returned"
    <3>1. CASE \E x \in Services : Begin(x, p)
      BY <1>2, <3>1 DEF Begin
    <3>2. CASE SanitizeCall(p) \/ MessageCall(p)
      BY <1>4, <3>2 DEF SanitizeCall, MessageCall, Callee
    <3>3. CASE SanitizeRefuse(p) \/ SanitizeReturn(p) \/ SanitizeThrow(p)
      BY <1>3, <3>3 DEF SanitizeRefuse, SanitizeReturn, SanitizeThrow, Return, Throw, Services
    <3>4. CASE MessageReturn(p) \/ MessageThrow(p)
      BY <1>3, <3>4 DEF MessageReturn, MessageThrow, Return, Throw, Services
    <3> QED BY <2>1, <3>1, <3>2, <3>3, <3>4
            DEF sanitize_message, find_last_message, send_message, Services
  <2>2. CASE DatabaseNext
    BY <1>2, <1>3, <1>6, <2>2, QueryFacts
    DEF DatabaseNext, db_find_last_message, db_store_message, Begin, AccessBegin, FindAccess,
        StoreAccess, DatabaseReturn, DatabaseCrash, Return, Services
  <2> QED BY <1>8, <2>1, <2>2 DEF Handlers
<1>9. ASSUME NEW c \in Clients, ClientStep(c) PROVE rpc'["message"][q] = "returned"
  BY <1>2, <1>7, <1>9
  DEF ClientStep, Connect, Finish, AttachWait, AttachReply, AttachError, AwaitReply, AwaitError,
      CallbackEnd, EventReply, EventError, rpcVars
<1>10. CASE Booting \/ Ended \/ UNCHANGED vars
  BY <1>2, <1>10
  DEF Booting, Ended, vars, rpcVars, Boot, database_main, sanitization_main, message_main
<1>11. CASE Faults
  BY <1>2, <1>5, <1>6, <1>11
  DEF Faults, database_int_handler, sanitization_int_handler, message_int_handler, Stop,
      StopClient, rpcVars, Services
<1> QED BY <1>8, <1>9, <1>10, <1>11 DEF Next, Progress, ClientProcess

(* What a client keeps has its type.                                       *)
LEMMA ClientTypes ==
  /\ Init => ClientTyped
  /\ BoardInv /\ ClientTyped /\ [Next]_vars => ClientTyped'
<1> USE DEF CallbackThreads
<1>1. Init => ClientTyped
  BY DEF Init, ClientInit, ClientTyped
<1>2. ASSUME BoardInv, ClientTyped, [Next]_vars PROVE ClientTyped'
  <2>1. CASE UNCHANGED clientVars
    BY <1>2, <2>1 DEF ClientTyped, clientVars
  <2>2. ASSUME NEW c \in Clients, StopClient(c) PROVE ClientTyped'
    BY <1>2, <2>2 DEF StopClient, ClientTyped
  <2>3. ASSUME NEW q, counter(q) \in {"send", "find"}, NEW c \in Clients,
               NEW th \in CallbackThreads, CallbackBegin(c, th, q), UNCHANGED <<success, outcome>>
        PROVE  ClientTyped'
    <3>1. success[c][counter(q)] \in Nat
      BY <1>2, <2>3 DEF ClientTyped
    <3> QED BY <1>2, <2>3, <3>1 DEF CallbackBegin, ClientTyped
  <2>4. ASSUME NEW c \in Clients, NEW th \in CallbackThreads, CallbackEnd(c, th)
        PROVE  ClientTyped'
    <3>1. /\ success' = [success EXCEPT ![c][counter(running[c][th])] = loaded[c][th] + 1]
          /\ outcome' = [outcome EXCEPT ![running[c][th]] = "reply"] /\ loaded' = loaded
      BY <2>4 DEF CallbackEnd
    <3>2. loaded[c][th] + 1 \in Nat
      BY <1>2 DEF ClientTyped
    <3> QED BY <1>2, <3>1, <3>2 DEF ClientTyped
  <2>5. \A q : counter(q) \in {"send", "find"}
    BY DEF counter
  <2>6. ASSUME NEW c \in Clients, ClientStep(c) PROVE ClientTyped'
    <3>1. CASE UNCHANGED <<loaded, success>> /\ \E p : outcome' = [outcome EXCEPT ![p] = "error"]
      BY <1>2, <3>1 DEF ClientTyped
    <3>2. CASE UNCHANGED <<loaded, success, outcome>>
      BY <1>2, <3>2 DEF ClientTyped
    <3>3. CASE AttachReply(c) \/ AwaitReply(c)
      BY <2>3, <2>5, <3>3 DEF AttachReply, AwaitReply
    <3>4. CASE \E q \in Queries : EventReply(c, q)
      BY <2>3, <2>5, <3>4 DEF EventReply
    <3>5. CASE AttachError(c) \/ AwaitError(c) \/ \E q \in Queries : EventError(c, q)
      BY <3>1, <3>5 DEF AttachError, AwaitError, EventError
    <3>6. CASE Connect(c) \/ SendCall(c) \/ Finish(c) \/ AttachWait(c)
      BY <3>2, <3>6 DEF Connect, SendCall, Finish, AttachWait
    <3> QED BY <2>4, <2>6, <3>3, <3>4, <3>5, <3>6 DEF ClientStep
  <2> QED BY <1>2, <2>1, <2>2, <2>6
          DEF Next, Progress, Booting, Handlers, Faults, Ended, vars, ClientProcess
<1> QED BY <1>1, <1>2
-----------------------------------------------------------------------------
(* Something was found for q at x.                                         *)
Found(x, q) == rpc[x][q] = "returned" \/ stage[x][q] = "accessed"

(* What is found for q at x after a step was found before it.              *)
Old(x, q) == Found(x, q)' => Found(x, q) /\ result'[x][q] = result[x][q]

Own(x, q) == ~raced' /\ q \in acknowledged => result'[x][q] \in MessagesOf(User(q))

(* What a step may do to keep AckInv.                                      *)
LEMMA AckKept ==
  ASSUME AckInv,
         raced => raced', ~raced' => StoredKept', stored \subseteq stored',
         \A q \in Queries, x \in Services : Old(x, q) \/ Own(x, q),
         \A q \in Queries : rpc["message"][q] = "returned" => rpc'["message"][q] = "returned",
         \A q \in Queries :
           outcome'[q] = "reply" => outcome[q] = "reply" \/ rpc["message"][q] = "returned",
         \A q \in acknowledged' :
           \/ q \in acknowledged
           \/ /\ q \in Finds /\ (~raced' => \E p \in stored : User(p) = User(q))
              /\ \A x \in Services : ~Found(x, q)'
  PROVE  AckInv'
<1>1. Finds \subseteq Queries
  BY QueryFacts
<1>2. \A q \in Queries : outcome'[q] = "reply" => rpc'["message"][q] = "returned"
  BY DEF AckInv
<1>3. (acknowledged \subseteq Queries)'
  BY <1>1 DEF AckInv
<1>4. ASSUME ~raced', NEW q \in Queries, q \in acknowledged' PROVE FoundOwn(q)'
  <2>1. CASE q \in acknowledged
    <3>1. FoundOwn(q)
      BY <1>4 DEF AckInv
    <3>2. q \in Finds /\ \E p \in stored' : User(p) = User(q)
      BY <2>1, <3>1 DEF FoundOwn
    <3>3. ASSUME NEW x \in Services, Found(x, q)' PROVE result'[x][q] \in MessagesOf(User(q))
      BY <1>4, <2>1, <3>1, <3>3 DEF Old, Own, Found, FoundOwn
    <3> QED BY <3>2, <3>3 DEF FoundOwn, User, Found
  <2>2. CASE q \notin acknowledged
    BY <1>4, <2>2 DEF FoundOwn, User, Found
  <2> QED BY <2>1, <2>2
<1>5. \A q \in Queries : ~raced' => FoundOwn(q)'
  BY <1>4 DEF FoundOwn
<1> QED BY <1>2, <1>3, <1>5 DEF AckInv

(* The answer of a handler brings news of one query at most.               *)
LEMMA AnswerNews ==
  ASSUME BoardInv, NEW x \in Services, NEW p \in Queries, NEW o, NEW v, Answer(x, p, o, v),
         stage[x][p] # "done",
         o # "returned" \/ Own(x, p) \/ (Found(x, p) /\ v = result[x][p])
  PROVE  \A q \in Queries, y \in Services : Old(y, q) \/ Own(y, q)
<1>1. \A q \in Queries, y \in Services :
        /\ rpc'[y][q] = IF y = x /\ q = p /\ rpc[y][q] = "pending" THEN o ELSE rpc[y][q]
        /\ stage'[y][q] = IF y = x /\ q = p THEN "done" ELSE stage[y][q]
        /\ result'[y][q] = IF y = x /\ q = p THEN v ELSE result[y][q]
  BY DEF Answer, BoardInv, Typed
<1>2. rpc[x][p] # "returned"
  BY DEF BoardInv, Local, RowsMatch
<1> QED BY <1>1, <1>2 DEF Old, Found

(* A step of a handler that leaves the database's map alone.               *)
LEMMA AckSame ==
  ASSUME BoardInv, AckInv, [Next]_vars, UNCHANGED <<databaseVars, outcome, acknowledged>>,
         \A q \in Queries, x \in Services : Old(x, q) \/ Own(x, q)
  PROVE  AckInv'
<1>1. ~raced' => StoredKept'
  BY DEF AckInv, StoredKept, databaseVars, User
<1>2. \A q \in Queries : rpc["message"][q] = "returned" => rpc'["message"][q] = "returned"
  BY ReturnedStays
<1> QED BY <1>1, <1>2, AckKept DEF databaseVars

(* The steps that end no handler and access nothing bring no news.         *)
LEMMA NoNews ==
  ASSUME BoardInv, NEW x \in Services, NEW y \in Services, NEW p \in Queries, NEW w,
         \/ UNCHANGED <<rpc, stage, result>>
         \/ Begin(x, p) \/ AccessBegin(p) \/ Expire(x, p) \/ Down(x)
         \/ CallFrom(w, y, p, stage) /\ UNCHANGED result
         \/ CallFrom(w, y, p, [stage EXCEPT ![x][p] = "called"]) /\ UNCHANGED result
  PROVE  \A q \in Queries, z \in Services : Old(z, q)
<1> USE DEF Old, Found
<1> SUFFICES ASSUME NEW q \in Queries, NEW z \in Services PROVE Old(z, q)
  OBVIOUS
<1>1. /\ rpc \in [Services -> [Queries -> {"none", "pending", "returned", "failed"}]]
      /\ stage \in [Services -> [Queries ->
           {"none", "queued", "begun", "called", "accessing", "accessed", "done", "lost"}]]
      /\ "database" \in Services
  BY DEF BoardInv, Typed, Services
<1>2. CASE UNCHANGED <<rpc, stage, result>>
  BY <1>2
<1>3. CASE Begin(x, p)
  BY <1>1, <1>3 DEF Begin
<1>4. CASE AccessBegin(p)
  BY <1>1, <1>4 DEF AccessBegin
<1>5. CASE Expire(x, p)
  BY <1>1, <1>5 DEF Expire
<1>6. CASE Down(x)
  BY <1>1, <1>6 DEF Down
<1>7. CASE CallFrom(w, y, p, stage) /\ UNCHANGED result
  <2>1. PICK r \in {"pending", "failed"} :
        /\ rpc' = [rpc EXCEPT ![y][p] = r]
        /\ stage' = [stage EXCEPT ![y][p] = "queued"] \/ stage' = stage
        /\ result' = result
    BY <1>7 DEF CallFrom
  <2>2. rpc'[z][q] = "returned" => rpc[z][q] = "returned"
    BY <1>1, <2>1
  <2>3. stage'[z][q] = "accessed" => stage[z][q] = "accessed"
    <3>1. CASE stage' = [stage EXCEPT ![y][p] = "queued"]
      BY <1>1, <3>1
    <3>2. CASE stage' = stage
      BY <3>2
    <3> QED BY <2>1, <3>1, <3>2
  <2> QED BY <2>1, <2>2, <2>3
<1>8. CASE CallFrom(w, y, p, [stage EXCEPT ![x][p] = "called"]) /\ UNCHANGED result
  <2> DEFINE mid == [stage EXCEPT ![x][p] = "called"]
  <2>1. /\ mid \in [Services -> [Queries ->
             {"none", "queued", "begun", "called", "accessing", "accessed", "done", "lost"}]]
        /\ mid[z][q] = "accessed" => stage[z][q] = "accessed"
    BY <1>1
  <2>2. PICK r \in {"pending", "failed"} :
        /\ rpc' = [rpc EXCEPT ![y][p] = r]
        /\ stage' = [mid EXCEPT ![y][p] = "queued"] \/ stage' = mid
        /\ result' = result
    BY <1>8 DEF CallFrom
  <2> HIDE DEF mid
  <2>3. rpc'[z][q] = "returned" => rpc[z][q] = "returned"
    BY <1>1, <2>2
  <2>4. stage'[z][q] = "accessed" => mid[z][q] = "accessed"
    <3>1. CASE stage' = [mid EXCEPT ![y][p] = "queued"]
      BY <2>1, <3>1
    <3>2. CASE stage' = mid
      BY <3>2
    <3> QED BY <2>2, <3>1, <3>2
  <2> QED BY <2>1, <2>2, <2>3, <2>4
<1> QED BY <1>2, <1>3, <1>4, <1>5, <1>6, <1>7, <1>8

(* An answer passed on is as true as the one received, and a refusal is    *)
(* not the answer of a find.                                               *)
LEMMA AckHandlerSteps ==
  ASSUME BoardInv, AckInv, [Next]_vars, UNCHANGED <<databaseVars, clientVars, acknowledged>>,
         NEW q \in Queries, sanitize_message(q) \/ find_last_message(q) \/ send_message(q)
  PROVE  AckInv'
<1>1. /\ "message" \in Services /\ "sanitization" \in Services /\ "database" \in Services
      /\ Callee(q) \in Services /\ outcome' = outcome /\ raced' = raced
  BY QueryFacts DEF Services, clientVars, databaseVars
<1>2. ASSUME NEW x \in Services, NEW y \in Services,
             Return(x, q, result[y][q]), rpc[y][q] = "returned", stage[x][q] = "called"
      PROVE  AckInv'
  <2>1. Own(x, q)
    <3>1. result'[x][q] = result[y][q]
      BY <1>2 DEF Return, Answer, BoardInv, Typed
    <3>2. ~raced => FoundOwn(q)
      BY DEF AckInv
    <3> QED BY <1>1, <1>2, <3>1, <3>2 DEF Own, FoundOwn
  <2>2. \A p \in Queries, z \in Services : Old(z, p) \/ Own(z, p)
    BY <1>2, <2>1, AnswerNews DEF Return
  <2> QED BY <1>1, <2>2, AckSame
<1>3. CASE SanitizeRefuse(q)
  <2>1. Own("sanitization", q)
    <3>1. Local(q) /\ stage["sanitization"][q] = "begun"
      BY <1>3 DEF SanitizeRefuse, BoardInv
    <3>2. q \notin Finds
      BY <1>1, <3>1, QueryFacts DEF Local, RowsMatch, CallsNest
    <3>3. ~raced => (q \in acknowledged => q \in Finds)
      BY DEF AckInv, FoundOwn
    <3> QED BY <1>1, <3>2, <3>3 DEF Own
  <2>2. \A p \in Queries, z \in Services : Old(z, p) \/ Own(z, p)
    BY <1>1, <1>3, <2>1, AnswerNews DEF SanitizeRefuse, Return
  <2> QED BY <1>1, <2>2, AckSame
<1>4. CASE SanitizeThrow(q) \/ MessageThrow(q)
  <2>1. \A p \in Queries, z \in Services : Old(z, p) \/ Own(z, p)
    BY <1>1, <1>4, AnswerNews DEF SanitizeThrow, MessageThrow, Throw
  <2> QED BY <1>1, <2>1, AckSame
<1>5. CASE SanitizeReturn(q)
  BY <1>1, <1>2, <1>5 DEF SanitizeReturn
<1>6. CASE MessageReturn(q)
  BY <1>1, <1>2, <1>6 DEF MessageReturn
<1>7. CASE Begin("message", q) \/ Begin("sanitization", q) \/ SanitizeCall(q) \/ MessageCall(q)
  <2>1. \A p \in Queries, z \in Services : Old(z, p)
    BY <1>1, <1>7, NoNews DEF SanitizeCall, MessageCall
  <2> QED BY <1>1, <2>1, AckSame
<1> QED BY <1>3, <1>4, <1>5, <1>6, <1>7 DEF sanitize_message, find_last_message, send_message

(* A find that does not race finds what the map holds, and a store puts a  *)
(* message of its user there.                                              *)
LEMMA AckDatabaseSteps ==
  ASSUME BoardInv, AckInv, [Next]_vars, DatabaseNext, UNCHANGED <<clientVars, acknowledged>>
  PROVE  AckInv'
<1>1. /\ "database" \in Services /\ Finds \subseteq Queries /\ Sends \subseteq Queries
      /\ UNCHANGED outcome
  BY QueryFacts DEF Services, clientVars
<1>2. \A q \in Queries : rpc["message"][q] = "returned" => rpc'["message"][q] = "returned"
  BY ReturnedStays
<1>3. CASE DatabaseCrash
  <2>1. \A p \in Queries, z \in Services : Old(z, p)
    BY <1>1, <1>3, NoNews, QueryFacts DEF DatabaseCrash
  <2> QED BY <1>1, <1>3, <2>1, AckSame DEF DatabaseCrash
<1>4. ASSUME NEW q \in Queries, Begin("database", q), UNCHANGED databaseVars PROVE AckInv'
  <2>1. \A p \in Queries, z \in Services : Old(z, p)
    BY <1>1, <1>4, NoNews
  <2> QED BY <1>1, <1>4, <2>1, AckSame
<1>5. ASSUME NEW q \in Queries, AccessBegin(q) PROVE AckInv'
  <2>1. \A p \in Queries, z \in Services : Old(z, p)
    BY <1>1, <1>5, NoNews
  <2>2. UNCHANGED <<last_messages, stored>> /\ (raced => raced')
    BY <1>5 DEF AccessBegin
  <2>3. ~raced' => StoredKept'
    BY <2>2 DEF AckInv, StoredKept, User
  <2> QED BY <1>1, <1>2, <2>1, <2>2, <2>3, AckKept
<1>6. ASSUME NEW q \in Queries, DatabaseReturn(q) PROVE AckInv'
  <2>1. \A p \in Queries, z \in Services : Old(z, p) \/ Own(z, p)
    BY <1>1, <1>6, AnswerNews DEF DatabaseReturn, Return, Found
  <2> QED BY <1>1, <1>6, <2>1, AckSame DEF DatabaseReturn
<1>7. ASSUME NEW q \in Finds, FindAccess(q) PROVE AckInv'
  <2>1. UNCHANGED <<rpc, last_messages, stored, raced>>
    BY <1>7 DEF FindAccess
  <2>2. PICK found \in IF q \in racing THEN Messages \cup {Warning}
                                       ELSE {last_messages[User(q)]} :
          result' = [result EXCEPT !["database"][q] = found]
    BY <1>7 DEF FindAccess, User
  <2>3. stage' = [stage EXCEPT !["database"][q] = "accessed"]
    BY <1>7 DEF FindAccess
  <2>4. Own("database", q)
    <3> SUFFICES ASSUME ~raced, q \in acknowledged PROVE found \in MessagesOf(User(q))
      BY <1>1, <2>1, <2>2 DEF Own, BoardInv, Typed
    <3>1. found = last_messages[User(q)]
      BY <2>2 DEF BoardInv, Typed
    <3>2. FoundOwn(q) /\ StoredKept
      BY <1>1 DEF AckInv
    <3>3. PICK p \in stored : User(p) = User(q)
      BY <3>2 DEF FoundOwn
    <3> QED BY <3>1, <3>2, <3>3 DEF StoredKept
  <2>5. \A p \in Queries, z \in Services : Old(z, p) \/ Own(z, p)
    <3> SUFFICES ASSUME NEW p \in Queries, NEW z \in Services, ~(z = "database" /\ p = q)
                 PROVE  Old(z, p)
      BY <2>4
    <3>1. stage'[z][p] = stage[z][p] /\ result'[z][p] = result[z][p]
      BY <1>1, <2>2, <2>3 DEF BoardInv, Typed
    <3> QED BY <2>1, <3>1 DEF Old, Found
  <2>6. ~raced' => StoredKept'
    BY <2>1 DEF AckInv, StoredKept, User
  <2> QED BY <1>1, <1>2, <2>1, <2>5, <2>6, AckKept
<1>8. ASSUME NEW q \in Sends, StoreAccess(q) PROVE AckInv'
  <2>1. /\ result' = [result EXCEPT !["database"][q] = "true"]
        /\ stage' = [stage EXCEPT !["database"][q] = "accessed"]
        /\ UNCHANGED <<rpc, raced>>
    BY <1>8 DEF StoreAccess
  <2>2. \/ /\ last_messages' = [last_messages EXCEPT ![User(q)] = message[q[1]]]
           /\ stored' = stored \cup {q}
        \/ UNCHANGED <<last_messages, stored>>
    BY <1>8 DEF StoreAccess, User
  <2>3. Own("database", q)
    BY <1>1, <2>1, QueryFacts DEF AckInv, FoundOwn, Own
  <2>4. \A p \in Queries, z \in Services : Old(z, p) \/ Own(z, p)
    <3> SUFFICES ASSUME NEW p \in Queries, NEW z \in Services, ~(z = "database" /\ p = q)
                 PROVE  Old(z, p)
      BY <2>3
    <3>1. stage'[z][p] = stage[z][p] /\ result'[z][p] = result[z][p]
      BY <1>1, <2>1 DEF BoardInv, Typed
    <3> QED BY <2>1, <3>1 DEF Old, Found
  <2>5. ~raced' => StoredKept'
    <3> SUFFICES ASSUME StoredKept PROVE StoredKept'
      BY <2>1 DEF AckInv
    <3>1. CASE UNCHANGED <<last_messages, stored>>
      BY <3>1 DEF StoredKept, User
    <3>2. CASE /\ last_messages' = [last_messages EXCEPT ![User(q)] = message[q[1]]]
               /\ stored' = stored \cup {q}
      <4>1. q[1] \in Clients /\ message[q[1]] \in MessagesOf(User(q))
        BY <1>1, QueryFacts DEF MessagesOf, User
      <4>2. \A p \in Sends : User(p) \in Users
        BY <1>1, QueryFacts DEF User, Users
      <4>3. \A p \in stored' : last_messages'[User(p)] \in MessagesOf(User(p))
        BY <3>2, <4>1, <4>2 DEF StoredKept, BoardInv, Typed
      <4> QED BY <3>2, <4>3 DEF StoredKept, User
    <3> QED BY <2>2, <3>1, <3>2
  <2> QED BY <1>1, <1>2, <2>1, <2>2, <2>4, <2>5, AckKept
<1> QED BY <1>3, <1>4, <1>5, <1>6, <1>7, <1>8, <1>1
        DEF DatabaseNext, db_find_last_message, db_store_message

(* A find that begins after an acknowledged send finds a stored message.   *)
LEMMA AckSendStep ==
  ASSUME BoardInv, AckInv, [Next]_vars, NEW c \in Clients, SendCall(c), RememberAcks(c),
         UNCHANGED databaseVars
  PROVE  AckInv'
<1>1. next[c] \in 0 .. iterations - 1 /\ next'[c] = next[c] + 1
  BY QueryFacts DEF SendCall, BoardInv, Typed
<1>2. PICK q \in Queries : q = <<c, next[c]>>
  BY <1>1, QueryFacts
<1>3. CallFrom(c, "message", q, stage) /\ result' = result /\ outcome' = outcome
  BY <1>2 DEF SendCall
<1>4. \A p \in Queries, z \in Services : Old(z, p)
  BY <1>3, NoNews DEF Services
<1>5. \A x \in Services : ~Found(x, q)
  <2>1. Local(q) /\ next[q[1]] <= q[2]
    BY <1>1, <1>2 DEF BoardInv
  <2>2. rpc["message"][q] = "none" /\ stage["message"][q] = "none"
    BY <2>1 DEF Local, CallsNest, RowsMatch, Services
  <2>3. rpc["sanitization"][q] = "none" /\ rpc["database"][q] = "none"
    BY <2>1, <2>2 DEF Local, CallsNest
  <2>4. stage["sanitization"][q] = "none" /\ stage["database"][q] = "none"
    BY <2>1, <2>3 DEF Local, RowsMatch, Services
  <2> QED BY <2>2, <2>3, <2>4 DEF Found, Services
<1>6. ASSUME NEW p \in acknowledged', p \notin acknowledged
      PROVE  /\ p \in Finds /\ (~raced' => \E s \in stored : User(s) = User(p))
             /\ \A x \in Services : ~Found(x, p)'
  <2>1. PICK s \in Queries : Acked(s) /\ client_id[s[1]] = client_id[c]
    BY <1>6 DEF RememberAcks
  <2>2. p \in Finds /\ p[1] = c /\ next[c] <= p[2] /\ p[2] < next'[c]
    BY <1>6 DEF RememberAcks
  <2>3. p = q
    BY <1>1, <1>2, <2>2, QueryFacts
  <2>4. s \in stored \/ raced
    <3>1. s \in Sends /\ rpc["message"][s] = "returned" /\ Local(s)
      BY <2>1 DEF Acked, AckInv, BoardInv
    <3>2. Holds("message", s)
      BY <3>1 DEF Local, ResultsHold, Services
    <3> QED BY <2>1, <3>2 DEF Holds, Acked
  <2>5. User(s) = User(p)
    BY <2>1, <2>2 DEF User
  <2> QED BY <1>4, <1>5, <2>2, <2>3, <2>4, <2>5 DEF Old, databaseVars
<1>7. ~raced' => StoredKept'
  BY DEF AckInv, StoredKept, databaseVars, User
<1>8. \A p \in Queries : rpc["message"][p] = "returned" => rpc'["message"][p] = "returned"
  BY ReturnedStays
<1>9. raced => raced' /\ stored \subseteq stored'
  BY DEF databaseVars
<1> QED BY <1>3, <1>4, <1>6, <1>7, <1>8, <1>9, AckKept DEF databaseVars

(* The other steps of a client: it counts a reply only of a call that      *)
(* returned.                                                               *)
LEMMA AckClientSteps ==
  ASSUME BoardInv, ClientTyped, AckInv, [Next]_vars, NEW c \in Clients,
         ClientStep(c), RememberAcks(c), UNCHANGED databaseVars
  PROVE  AckInv'
<1>1. CASE SendCall(c)
  BY <1>1, AckSendStep
<1>2. CASE ~SendCall(c)
  <2>1. UNCHANGED <<rpc, stage, result, next>>
    BY <1>2 DEF ClientStep, Connect, Finish, AttachWait, AttachReply, AttachError, AwaitReply,
                AwaitError, CallbackEnd, EventReply, EventError, rpcVars
  <2>2. ASSUME NEW q \in Queries, outcome'[q] = "reply"
        PROVE  outcome[q] = "reply" \/ rpc["message"][q] = "returned"
    <3>1. CASE outcome' = outcome
      BY <2>2, <3>1
    <3>2. CASE \E p : outcome' = [outcome EXCEPT ![p] = "error"]
      BY <2>2, <3>2 DEF ClientTyped
    <3>3. ASSUME NEW th \in CallbackThreads, CallbackEnd(c, th)
          PROVE  outcome[q] = "reply" \/ rpc["message"][q] = "returned"
      <4>1. outcome' = [outcome EXCEPT ![running[c][th]] = "reply"] /\ running[c][th] # NoCall
        BY <3>3 DEF CallbackEnd
      <4> QED BY <2>2, <4>1 DEF ClientTyped, BoardInv, ClientInv
    <3> QED BY <1>2, <3>1, <3>2, <3>3
            DEF ClientStep, Connect, Finish, AttachWait, AttachReply, AttachError, AwaitReply,
                AwaitError, EventReply, EventError
  <2>3. acknowledged' = acknowledged
    <3>1. next[c] \in Int /\ \A q \in Finds : q[2] \in Int
      BY QueryFacts DEF BoardInv, Typed
    <3> QED BY <2>1, <3>1 DEF RememberAcks
  <2>4. \A p \in Queries, z \in Services : Old(z, p)
    BY <2>1 DEF Old, Found
  <2>5. ~raced' => StoredKept'
    BY DEF AckInv, StoredKept, databaseVars, User
  <2> QED BY <2>1, <2>2, <2>3, <2>4, <2>5, AckKept DEF databaseVars
<1> QED BY <1>1, <1>2

(* Every step keeps what AckInv says of acknowledged sends.                *)
LEMMA AckStep == BoardInv /\ ClientTyped /\ AckInv /\ [Next]_vars => AckInv'
<1> SUFFICES ASSUME BoardInv, ClientTyped, AckInv, [Next]_vars PROVE AckInv'
  OBVIOUS
<1>1. CASE UNCHANGED vars \/ Booting \/ Ended
  <2>1. UNCHANGED <<rpc, stage, result, outcome, acknowledged, databaseVars>>
    BY <1>1 DEF vars, rpcVars, clientVars, Booting, Ended, Boot, database_main,
                sanitization_main, message_main
  <2>2. \A p \in Queries, z \in Services : Old(z, p)
    BY <2>1 DEF Old, Found
  <2> QED BY <2>1, <2>2, AckSame
<1>2. CASE Handlers
  BY <1>2, AckDatabaseSteps, AckHandlerSteps DEF Handlers
<1>3. ASSUME NEW c \in Clients, ClientProcess(c) PROVE AckInv'
  BY <1>3, AckClientSteps DEF ClientProcess
<1>4. CASE Faults
  <2>1. UNCHANGED <<outcome, acknowledged, databaseVars>>
    BY <1>4 DEF Faults, StopClient, clientVars
  <2>2. \A p \in Queries, z \in Services : Old(z, p)
    <3>1. ASSUME NEW x \in Services, NEW q \in Queries, Down(x) \/ Expire(x, q)
          PROVE  \A p \in Queries, z \in Services : Old(z, p)
      BY <3>1, NoNews
    <3>2. ASSUME NEW x \in Services, Down(x), Queries = {}
          PROVE  \A p \in Queries, z \in Services : Old(z, p)
      BY <3>2
    <3>3. ASSUME NEW c \in Clients, StopClient(c)
          PROVE  \A p \in Queries, z \in Services : Old(z, p)
      BY <3>3 DEF StopClient, rpcVars, Old, Found
    <3> QED BY <1>4, <3>1, <3>2, <3>3
            DEF Faults, database_int_handler, sanitization_int_handler, message_int_handler, Stop,
                Services
  <2> QED BY <2>1, <2>2, AckSame
<1> QED BY <1>1, <1>2, <1>3, <1>4 DEF Next, Progress

LEMMA AckHolds == Spec => [](BoardInv /\ ClientTyped /\ AckInv)
<1>1. Init => BoardInv /\ ClientTyped /\ AckInv
  <2>1. Init => AckInv
    BY QueryFacts DEF Init, RpcInit, DatabaseInit, ClientInit, AckInv, StoredKept, FoundOwn
  <2> QED BY <2>1, InitInv, ClientTypes
<1>2. BoardInv /\ ClientTyped /\ AckInv /\ [Next]_vars => (BoardInv /\ ClientTyped /\ AckInv)'
  BY StepInv, ClientTypes, AckStep
<1> QED BY <1>1, <1>2, PTL DEF Spec

(* What a client reads after a send of its user was acknowledged           *)
(* (MockDatabaseHandler::find_last_message and store_message), unless      *)
(* accesses to the unlocked map raced.                                     *)
THEOREM FindSeesAckedCorrect == Spec => []FindSeesAcked
<1>1. AckInv => FindSeesAcked
  <2> SUFFICES ASSUME AckInv, NEW q \in acknowledged, rpc["message"][q] = "returned", ~raced
               PROVE  \E c \in Clients : /\ client_id[c] = client_id[q[1]]
                                         /\ result["message"][q] = message[c]
    BY DEF FindSeesAcked
  <2>1. FoundOwn(q) /\ "message" \in Services
    BY DEF AckInv, Services
  <2>2. result["message"][q] \in MessagesOf(User(q))
    BY <2>1 DEF FoundOwn
  <2> QED BY <2>2 DEF MessagesOf, User
<1> QED BY <1>1, AckHolds, PTL
-----------------------------------------------------------------------------
(* What is counted of the replies.                                         *)
LEMMA QueriesFinite == IsFiniteSet(Queries)
<1>1. 0 \in Int /\ iterations - 1 \in Int /\ IsFiniteSet(Clients)
  BY RpcAssumption
<1>2. IsFiniteSet(0 .. iterations - 1)
  BY <1>1, FS_Interval
<1> QED BY <1>1, <1>2, FS_Product DEF Queries

Replied(c, Qs) == {q \in Qs : q[1] = c /\ outcome[q] = "reply"}

(* One more reply is one more in the count.                                *)
LEMMA OneMoreReply ==
  ASSUME NEW c \in Clients, NEW q \in Queries, q[1] = c,
         outcome \in [Queries -> {"none", "reply", "error"}], outcome[q] # "reply",
         outcome' = [outcome EXCEPT ![q] = "reply"]
  PROVE  /\ Replies(c, Sends)' = Replies(c, Sends) + (IF q \in Sends THEN 1 ELSE 0)
         /\ Replies(c, Finds)' = Replies(c, Finds) + (IF q \in Finds THEN 1 ELSE 0)
<1>1. ASSUME NEW Qs \in SUBSET Queries
      PROVE  Cardinality({p \in Qs : p[1] = c /\ outcome'[p] = "reply"})
               = Cardinality(Replied(c, Qs)) + (IF q \in Qs THEN 1 ELSE 0)
  <2>1. Replied(c, Qs) \subseteq Queries /\ q \notin Replied(c, Qs)
    BY DEF Replied
  <2>2. IsFiniteSet(Replied(c, Qs)) /\ Cardinality(Replied(c, Qs)) \in Nat
    BY <2>1, QueriesFinite, FS_Subset, FS_CardinalityType
  <2>3. {p \in Qs : p[1] = c /\ outcome'[p] = "reply"}
          = IF q \in Qs THEN Replied(c, Qs) \cup {q} ELSE Replied(c, Qs)
    BY DEF Replied
  <2>4. Cardinality(Replied(c, Qs) \cup {q}) = Cardinality(Replied(c, Qs)) + 1
    BY <2>1, <2>2, FS_AddElement
  <2>5. CASE q \in Qs
    BY <2>3, <2>4, <2>5
  <2>6. CASE q \notin Qs
    BY <2>2, <2>3, <2>6
  <2> QED BY <2>5, <2>6
<1>2. Sends \in SUBSET Queries /\ Finds \in SUBSET Queries
  BY QueryFacts
<1>3. Cardinality({p \in Sends : p[1] = c /\ outcome'[p] = "reply"})
        = Cardinality(Replied(c, Sends)) + (IF q \in Sends THEN 1 ELSE 0)
  BY <1>1, <1>2
<1>4. Cardinality({p \in Finds : p[1] = c /\ outcome'[p] = "reply"})
        = Cardinality(Replied(c, Finds)) + (IF q \in Finds THEN 1 ELSE 0)
  BY <1>1, <1>2
<1> QED BY <1>3, <1>4 DEF Replies, Replied

(* Without a reply the counts are the same.                                *)
LEMMA SameReplies ==
  ASSUME NEW c \in Clients,
         \A q \in Queries : q[1] = c => (outcome'[q] = "reply" <=> outcome[q] = "reply")
  PROVE  Replies(c, Sends)' = Replies(c, Sends) /\ Replies(c, Finds)' = Replies(c, Finds)
<1>1. /\ {q \in Sends : q[1] = c /\ outcome'[q] = "reply"}
          = {q \in Sends : q[1] = c /\ outcome[q] = "reply"}
      /\ {q \in Finds : q[1] = c /\ outcome'[q] = "reply"}
          = {q \in Finds : q[1] = c /\ outcome[q] = "reply"}
  BY QueryFacts
<1> QED BY <1>1 DEF Replies

(* A client that does nothing.                                             *)
LEMMA IdleClient ==
  ASSUME NEW c \in Clients, SyncClient(c), CountedReplies(c),
         main'[c] = main[c], next'[c] = next[c], running'[c] = running[c],
         loaded'[c] = loaded[c], success'[c] = success[c],
         \A q \in Queries : q[1] = c => outcome'[q] = outcome[q],
         \A q \in Queries : rpc["message"][q] = "returned" => rpc'["message"][q] = "returned"
  PROVE  SyncClient(c)' /\ CountedReplies(c)'
<1>1. \A i \in 0 .. iterations - 1 :
        /\ <<c, i>> \in Queries /\ outcome'[<<c, i>>] = outcome[<<c, i>>]
        /\ rpc["message"][<<c, i>>] = "returned" => rpc'["message"][<<c, i>>] = "returned"
  BY QueryFacts
<1>2. SyncClient(c)'
  BY <1>1 DEF SyncClient, Current
<1>3. CountedReplies(c)'
  BY SameReplies DEF CountedReplies
<1> QED BY <1>2, <1>3

(* A handler that works on last_messages works for a call that its client  *)
(* has made and that is not answered.                                      *)
LEMMA LiveIsOpen ==
  ASSUME BoardInv, NEW q \in Queries, stage["database"][q] \in {"begun", "accessing"}
  PROVE  rpc["message"][q] # "returned" /\ next[q[1]] > q[2]
<1>1. Local(q) /\ RowsMatch("message", q) /\ RowsMatch("sanitization", q) /\ RowsMatch("database", q)
  BY DEF BoardInv, Local, Services
<1>2. rpc["database"][q] \notin {"none", "returned"}
  BY <1>1 DEF RowsMatch
<1>3. rpc["message"][q] # "none"
  BY <1>1, <1>2 DEF Local, RowsMatch, CallsNest
<1>4. rpc["message"][q] # "returned"
  BY <1>1, <1>2, QueryFacts DEF Local, AnswersNest, CallsNest, Callee
<1>5. next[q[1]] \in Int /\ q[2] \in Int /\ ~(next[q[1]] <= q[2])
  BY <1>1, <1>3, QueryFacts DEF Local, CallsNest, BoardInv, Typed
<1> QED BY <1>4, <1>5

(* One synchronous client has one such call at most.                       *)
LEMMA OneLive ==
  ASSUME BoardInv, SyncInv, CLIENT_SYNC, Cardinality(Clients) = 1,
         NEW q \in Queries, stage["database"][q] \in {"begun", "accessing"},
         NEW p \in Queries, stage["database"][p] \in {"begun", "accessing"}
  PROVE  p = q
<1>1. p[1] = q[1] /\ q[1] \in Clients
  BY QueryFacts, FS_Singleton, RpcAssumption
<1>2. ASSUME NEW u \in Queries, stage["database"][u] \in {"begun", "accessing"}
      PROVE  u[2] + 1 = next[u[1]]
  <2>1. rpc["message"][u] # "returned" /\ next[u[1]] > u[2]
    BY <1>2, LiveIsOpen
  <2>2. u[1] \in Clients /\ u[2] \in 0 .. iterations - 1 /\ u = <<u[1], u[2]>> /\ iterations \in Nat
    BY QueryFacts
  <2>3. SyncClient(u[1]) /\ next[u[1]] \in Nat
    BY <2>2 DEF SyncInv, BoardInv, Typed
  <2>4. ~(u[2] + 1 < next[u[1]])
    BY <2>1, <2>2, <2>3 DEF SyncClient
  <2> QED BY <2>1, <2>2, <2>3, <2>4
<1>3. p[2] = q[2]
  <2>1. p[2] \in Int /\ q[2] \in Int
    BY QueryFacts
  <2> QED BY <1>1, <1>2, <2>1
<1> QED BY <1>1, <1>3, QueryFacts

(* A step of client c is none of another client.                           *)
OnlyClient(c) ==
  /\ \A d \in Clients \ {c} :
       /\ main'[d] = main[d] /\ next'[d] = next[d] /\ running'[d] = running[d]
       /\ loaded'[d] = loaded[d] /\ success'[d] = success[d]
  /\ \A q \in Queries : q[1] # c => outcome'[q] = outcome[q]

SyncOne(c) == attached' = {} /\ OnlyClient(c) /\ SyncClient(c)' /\ CountedReplies(c)'

(* The synchronous client makes its next call when it is done with the     *)
(* previous one.                                                           *)
LEMMA SyncSendStep ==
  ASSUME BoardInv, SyncInv, CLIENT_SYNC, [Next]_vars, NEW c \in Clients, SendCall(c)
  PROVE  SyncOne(c)
<1>1. /\ main[c] = "loop" /\ main' = [main EXCEPT ![c] = "await"]
      /\ next' = [next EXCEPT ![c] = @ + 1]
      /\ UNCHANGED <<attached, running, loaded, success, outcome>>
  BY DEF SendCall
<1>2. /\ main'[c] = "await" /\ next'[c] = next[c] + 1 /\ next[c] \in Nat
      /\ SyncClient(c) /\ CountedReplies(c) /\ attached = {}
  BY <1>1 DEF BoardInv, Typed, SyncInv
<1>3. OnlyClient(c)
  BY <1>1 DEF OnlyClient, BoardInv, Typed
<1>4. \A i \in 0 .. iterations - 1 :
        /\ i \in Nat
        /\ rpc["message"][<<c, i>>] = "returned" => rpc'["message"][<<c, i>>] = "returned"
  BY ReturnedStays, QueryFacts
<1>5. ASSUME NEW i \in 0 .. iterations - 1
      PROVE  /\ next[c] + 1 <= i => outcome[<<c, i>>] = "none"
             /\ i + 1 = next[c] + 1 => outcome[<<c, i>>] = "none"
             /\ i + 1 < next[c] + 1 => rpc'["message"][<<c, i>>] = "returned"
  <2>1. /\ next[c] <= i => outcome[<<c, i>>] = "none"
        /\ i + 1 < next[c] => rpc["message"][<<c, i>>] = "returned"
        /\ i + 1 = next[c] => rpc["message"][<<c, i>>] = "returned"
    BY <1>1, <1>2 DEF SyncClient
  <2> QED BY <1>2, <1>4, <2>1
<1>6. SyncClient(c)'
  BY <1>1, <1>2, <1>5 DEF SyncClient
<1>7. CountedReplies(c)'
  BY <1>1, <1>2, SameReplies DEF CountedReplies
<1> QED BY <1>1, <1>2, <1>3, <1>6, <1>7 DEF SyncOne

(* The callback of the synchronous client counts the reply it is for.      *)
LEMMA SyncCallbackStep ==
  ASSUME BoardInv, ClientTyped, SyncInv, CLIENT_SYNC, NEW c \in Clients,
         NEW th \in CallbackThreads, CallbackEnd(c, th)
  PROVE  SyncOne(c)
<1>1. SyncClient(c) /\ CountedReplies(c) /\ attached = {}
  BY DEF SyncInv
<1>2. th = "main" /\ main[c] = "callback" /\ running[c]["main"] = Current(c)
  BY <1>1 DEF CallbackEnd, SyncClient, CallbackThreads
<1>3. PICK q \in Queries : q = Current(c)
  BY <1>2, "main" \in CallbackThreads DEF CallbackEnd, BoardInv, Typed, CallbackThreads
<1>4. /\ q[1] = c /\ q[2] = next[c] - 1 /\ next[c] \in Nat /\ q[2] \in 0 .. iterations - 1
      /\ q = <<c, q[2]>>
  BY <1>3, QueryFacts DEF Current, BoardInv, Typed
<1>5. outcome[q] = "none" /\ loaded[c]["main"] = success[c][counter(q)]
  BY <1>1, <1>2, <1>3, <1>4 DEF SyncClient
<1>6. /\ success' = [success EXCEPT ![c][counter(q)] = loaded[c]["main"] + 1]
      /\ outcome' = [outcome EXCEPT ![q] = "reply"]
      /\ running' = [running EXCEPT ![c]["main"] = NoCall]
      /\ main' = [main EXCEPT ![c] = "loop"]
      /\ UNCHANGED <<rpc, next, attached, loaded>>
  BY <1>2, <1>3 DEF CallbackEnd
<1>7. OnlyClient(c)
  BY <1>4, <1>6 DEF OnlyClient, BoardInv, Typed, ClientTyped
<1>8. rpc["message"][q] = "returned"
  BY <1>2, <1>3, QueryFacts DEF BoardInv, ClientInv, CallbackThreads
<1>9. SyncClient(c)'
  <2>1. /\ main'[c] = "loop" /\ running'[c]["eb"] = running[c]["eb"]
        /\ running'[c]["main"] = NoCall
    BY <1>6 DEF BoardInv, Typed, CallbackThreads
  <2>2. ASSUME NEW i \in 0 .. iterations - 1
        PROVE  /\ next[c] <= i => outcome'[<<c, i>>] = "none"
               /\ i + 1 < next[c] => rpc["message"][<<c, i>>] = "returned"
               /\ i + 1 = next[c] => rpc["message"][<<c, i>>] = "returned"
    <3>1. /\ next[c] <= i => outcome[<<c, i>>] = "none"
          /\ i + 1 < next[c] => rpc["message"][<<c, i>>] = "returned"
      BY <1>1 DEF SyncClient
    <3>2. <<c, i>> \in Queries /\ iterations \in Nat /\ (<<c, i>> = q <=> i = q[2])
      BY <1>4, QueryFacts
    <3>3. next[c] <= i => outcome'[<<c, i>>] = outcome[<<c, i>>]
      BY <1>4, <1>6, <3>2 DEF ClientTyped
    <3> QED BY <1>4, <1>8, <3>1, <3>2, <3>3
  <2> QED BY <1>1, <1>6, <2>1, <2>2 DEF SyncClient
<1>10. CountedReplies(c)'
  <2>1. /\ Replies(c, Sends)' = Replies(c, Sends) + (IF q \in Sends THEN 1 ELSE 0)
        /\ Replies(c, Finds)' = Replies(c, Finds) + (IF q \in Finds THEN 1 ELSE 0)
    BY <1>4, <1>5, <1>6, OneMoreReply DEF ClientTyped
  <2>2. q \in Sends <=> q \notin Finds
    BY QueryFacts
  <2>3. /\ success[c]["send"] \in Nat /\ success[c]["find"] \in Nat
        /\ success[c]["send"] = Replies(c, Sends) /\ success[c]["find"] = Replies(c, Finds)
    BY <1>1 DEF ClientTyped, CountedReplies
  <2>4. CASE q \in Finds
    <3>1. success' = [success EXCEPT ![c]["find"] = success[c]["find"] + 1]
      BY <1>5, <1>6, <2>4 DEF counter
    <3>2. /\ success'[c]["find"] = success[c]["find"] + 1
          /\ success'[c]["send"] = success[c]["send"]
      BY <3>1 DEF ClientTyped
    <3> QED BY <2>1, <2>2, <2>3, <2>4, <3>2 DEF CountedReplies
  <2>5. CASE q \notin Finds
    <3>1. success' = [success EXCEPT ![c]["send"] = success[c]["send"] + 1]
      BY <1>5, <1>6, <2>5 DEF counter
    <3>2. /\ success'[c]["send"] = success[c]["send"] + 1
          /\ success'[c]["find"] = success[c]["find"]
      BY <3>1 DEF ClientTyped
    <3> QED BY <2>1, <2>2, <2>3, <2>5, <3>2 DEF CountedReplies
  <2> QED BY <2>4, <2>5
<1> QED BY <1>1, <1>6, <1>7, <1>9, <1>10 DEF SyncOne

(* Between the call and its callback nothing is counted.                   *)
LEMMA SyncQuietStep ==
  ASSUME BoardInv, ClientTyped, SyncInv, CLIENT_SYNC, NEW c \in Clients,
         Connect(c) \/ Finish(c) \/ AwaitReply(c) \/ AwaitError(c) \/ StopClient(c)
  PROVE  SyncOne(c)
<1>1. SyncClient(c) /\ CountedReplies(c) /\ attached = {} /\ c \in DOMAIN main
  BY DEF SyncInv, BoardInv, Typed
<1>2. next[c] \in Nat /\ "main" \in CallbackThreads /\ "eb" \in CallbackThreads
  BY DEF BoardInv, Typed, CallbackThreads
<1>3. /\ success' = success /\ next' = next /\ rpc' = rpc /\ attached' = {}
  BY <1>1 DEF Connect, Finish, AwaitReply, AwaitError, StopClient, rpcVars
<1>4. CASE Connect(c) \/ Finish(c)
  <2>1. UNCHANGED <<running, loaded, outcome>>
    BY <1>4 DEF Connect, Finish
  <2>2. \/ main[c] = "init" /\ main' = [main EXCEPT ![c] = "loop"]
        \/ main[c] = "loop" /\ main' = [main EXCEPT ![c] = "done"]
    BY <1>4 DEF Connect, Finish
  <2>3. SyncClient(c)'
    BY <1>1, <1>2, <1>3, <2>1, <2>2 DEF SyncClient, Current
  <2>4. OnlyClient(c)
    BY <1>3, <2>1, <2>2 DEF OnlyClient, BoardInv, Typed
  <2>5. CountedReplies(c)'
    BY <1>1, <1>3, <2>1, SameReplies DEF CountedReplies
  <2> QED BY <1>3, <2>3, <2>4, <2>5 DEF SyncOne
<1>5. CASE AwaitReply(c)
  <2>1. /\ main[c] = "await" /\ main' = [main EXCEPT ![c] = "callback"]
        /\ running' = [running EXCEPT ![c]["main"] = Current(c)]
        /\ loaded' = [loaded EXCEPT ![c]["main"] = success[c][counter(Current(c))]]
        /\ outcome' = outcome
    BY <1>5 DEF AwaitReply, CallbackBegin
  <2>2. /\ main'[c] = "callback" /\ running'[c]["eb"] = running[c]["eb"]
        /\ running'[c]["main"] = Current(c)
        /\ loaded'[c]["main"] = success[c][counter(Current(c))]
    BY <1>2, <2>1 DEF BoardInv, Typed, ClientTyped
  <2>3. Current(c)' = Current(c)
    BY <1>3 DEF Current
  <2>4. SyncClient(c)'
    BY <1>1, <1>2, <1>3, <2>1, <2>2, <2>3 DEF SyncClient, counter
  <2>5. OnlyClient(c)
    BY <1>3, <2>1 DEF OnlyClient, BoardInv, Typed, ClientTyped
  <2>6. CountedReplies(c)'
    BY <1>1, <1>3, <2>1, SameReplies DEF CountedReplies
  <2> QED BY <1>3, <2>4, <2>5, <2>6 DEF SyncOne
<1>6. CASE AwaitError(c)
  <2>1. /\ main[c] = "await" /\ main' = [main EXCEPT ![c] = "dead"]
        /\ outcome' = [outcome EXCEPT ![Current(c)] = "error"]
        /\ UNCHANGED <<running, loaded>>
    BY <1>6 DEF AwaitError
  <2>2. /\ main'[c] = "dead" /\ Current(c)[1] = c /\ Current(c)[2] = next[c] - 1
        /\ next[c] >= 1 /\ Current(c) \in Queries
    <3>1. next[c] >= 1 /\ next[c] \in 0 .. iterations
      BY <2>1 DEF BoardInv, ClientInv, Typed
    <3> QED BY <2>1, <3>1, QueryFacts DEF Current, BoardInv, Typed
  <2>3. outcome[Current(c)] = "none"
    <3>1. PICK i \in 0 .. iterations - 1 : Current(c) = <<c, i>> /\ i = next[c] - 1
      BY <2>2, QueryFacts DEF Current
    <3>2. i + 1 = next[c]
      BY <1>2, <3>1
    <3> QED BY <1>1, <2>1, <3>1, <3>2 DEF SyncClient
  <2>4. \A q \in Queries : outcome'[q] = IF q = Current(c) THEN "error" ELSE outcome[q]
    BY <2>1 DEF ClientTyped
  <2>5. SyncClient(c)'
    <3>1. ASSUME NEW i \in 0 .. iterations - 1
          PROVE  /\ next[c] <= i => outcome'[<<c, i>>] = "none"
                 /\ i + 1 < next[c] => rpc["message"][<<c, i>>] = "returned"
      <4>1. /\ next[c] <= i => outcome[<<c, i>>] = "none"
            /\ i + 1 < next[c] => rpc["message"][<<c, i>>] = "returned"
        BY <1>1 DEF SyncClient
      <4>2. <<c, i>> \in Queries /\ (next[c] <= i => <<c, i>> # Current(c))
        BY <1>2, <2>2, QueryFacts
      <4> QED BY <2>4, <4>1, <4>2
    <3> QED BY <1>1, <1>3, <2>1, <2>2, <3>1 DEF SyncClient
  <2>6. OnlyClient(c)
    BY <1>3, <2>1, <2>2, <2>4 DEF OnlyClient, BoardInv, Typed
  <2>7. CountedReplies(c)'
    BY <1>1, <1>3, <2>3, <2>4, SameReplies DEF CountedReplies
  <2> QED BY <1>3, <2>5, <2>6, <2>7 DEF SyncOne
<1>7. CASE StopClient(c)
  <2>1. /\ main' = [main EXCEPT ![c] = "dead"] /\ main[c] # "init"
        /\ running' = [running EXCEPT ![c] = [th \in CallbackThreads |-> NoCall]]
        /\ UNCHANGED <<loaded, outcome>>
    BY <1>7 DEF StopClient
  <2>2. /\ main'[c] = "dead" /\ running'[c]["eb"] = NoCall /\ running'[c]["main"] = NoCall
    BY <1>2, <2>1 DEF BoardInv, Typed
  <2>3. SyncClient(c)'
    BY <1>1, <1>2, <1>3, <2>1, <2>2 DEF SyncClient
  <2>4. OnlyClient(c)
    BY <1>3, <2>1 DEF OnlyClient, BoardInv, Typed
  <2>5. CountedReplies(c)'
    BY <1>1, <1>3, <2>1, SameReplies DEF CountedReplies
  <2> QED BY <1>3, <2>3, <2>4, <2>5 DEF SyncOne
<1> QED BY <1>4, <1>5, <1>6, <1>7

(* Whatever a client does, the invariant of the synchronous build holds.   *)
LEMMA SyncClientSteps ==
  ASSUME BoardInv, ClientTyped, SyncInv, CLIENT_SYNC, [Next]_vars, NEW c \in Clients,
         ClientStep(c) \/ StopClient(c), UNCHANGED databaseVars
  PROVE  SyncInv'
<1>1. SyncClient(c) /\ attached = {} /\ "eb" \in CallbackThreads
  BY DEF SyncInv, CallbackThreads
<1>2. ~(AttachWait(c) \/ AttachReply(c) \/ AttachError(c))
  BY <1>1 DEF SyncClient, AttachWait, AttachReply, AttachError
<1>3. \A q \in Queries : ~(EventReply(c, q) \/ EventError(c, q))
  BY <1>1 DEF EventReply, EventError
<1>4. SyncOne(c)
  BY <1>2, <1>3, SyncSendStep, SyncCallbackStep, SyncQuietStep DEF ClientStep
<1>5. \A q \in Queries : rpc["message"][q] = "returned" => rpc'["message"][q] = "returned"
  BY ReturnedStays
<1>6. ASSUME NEW d \in Clients PROVE SyncClient(d)' /\ CountedReplies(d)'
  BY <1>4, <1>5, <1>6, IdleClient DEF SyncOne, OnlyClient, SyncInv
<1> QED BY <1>4, <1>6 DEF SyncInv, SyncOne, databaseVars

(* Nor do the servers' steps disturb it: the one client has one handler at *)
(* work on last_messages.                                                  *)
LEMMA SyncStep == BoardInv /\ ClientTyped /\ SyncInv /\ [Next]_vars => SyncInv'
<1> SUFFICES ASSUME BoardInv, ClientTyped, SyncInv, [Next]_vars, CLIENT_SYNC PROVE SyncInv'
  BY DEF SyncInv
<1>1. CASE UNCHANGED clientVars
  <2>1. \A q \in Queries : rpc["message"][q] = "returned" => rpc'["message"][q] = "returned"
    BY ReturnedStays
  <2>2. \A d \in Clients : SyncClient(d)' /\ CountedReplies(d)'
    BY <1>1, <2>1, IdleClient DEF SyncInv, clientVars
  <2>3. raced' = raced \/ \E q \in Queries : AccessBegin(q)
    BY QueryFacts
    DEF Next, Progress, Booting, Handlers, Faults, Ended, ClientProcess, vars, databaseVars,
        DatabaseNext, db_find_last_message, db_store_message, FindAccess, StoreAccess,
        DatabaseReturn, DatabaseCrash
  <2>4. ASSUME NEW q \in Queries, AccessBegin(q), Cardinality(Clients) = 1
        PROVE  raced' = raced
    <3>1. stage["database"][q] = "begun" /\ raced' = (raced \/ Conflicts(q) # {})
      BY <2>4 DEF AccessBegin
    <3>2. ASSUME NEW p \in Conflicts(q) PROVE FALSE
      <4>1. p \in Queries /\ stage["database"][p] = "accessing"
        BY DEF Conflicts, Accessing
      <4>2. p = q
        BY <2>4, <3>1, <4>1, OneLive
      <4> QED BY <3>1, <4>1, <4>2
    <3>3. Conflicts(q) = {} /\ raced \in BOOLEAN
      BY <3>2 DEF BoardInv, Typed
    <3> QED BY <3>1, <3>3, Zenon
  <2>5. Cardinality(Clients) = 1 => ~raced'
    <3> SUFFICES ASSUME Cardinality(Clients) = 1 PROVE ~raced'
      OBVIOUS
    <3>1. raced' = raced
      BY <2>3, <2>4
    <3> QED BY <3>1 DEF SyncInv
  <2> QED BY <1>1, <2>2, <2>5 DEF SyncInv, clientVars
<1>2. ASSUME NEW c \in Clients, ClientStep(c) \/ StopClient(c), UNCHANGED databaseVars
      PROVE  SyncInv'
  BY <1>2, SyncClientSteps
<1> QED BY <1>1, <1>2
        DEF Next, Progress, Booting, Handlers, Faults, Ended, ClientProcess, vars

LEMMA SyncHolds == Spec => [](BoardInv /\ SyncInv)
<1>1. Init => SyncInv
  <2> SUFFICES ASSUME Init PROVE SyncInv
    OBVIOUS
  <2> USE DEF Init, RpcInit, DatabaseInit, ClientInit
  <2>1. ASSUME NEW c \in Clients PROVE SyncClient(c) /\ CountedReplies(c)
    <3>1. main[c] = "init" /\ next[c] = 0
      BY <2>1
    <3>2. running[c]["eb"] = NoCall /\ running[c]["main"] = NoCall
      BY <2>1 DEF CallbackThreads
    <3>3. \A q \in Queries : outcome[q] = "none"
      OBVIOUS
    <3>4. SyncClient(c)
      BY <3>1, <3>2, <3>3, QueryFacts DEF SyncClient
    <3>5. /\ {q \in Sends : q[1] = c /\ outcome[q] = "reply"} = {}
          /\ {q \in Finds : q[1] = c /\ outcome[q] = "reply"} = {}
      BY <3>3, QueryFacts
    <3>6. success[c]["send"] = 0 /\ success[c]["find"] = 0
      OBVIOUS
    <3> QED BY <3>4, <3>5, <3>6, FS_EmptySet DEF CountedReplies, Replies
  <2> QED BY <2>1 DEF SyncInv
<1>2. Init => BoardInv /\ ClientTyped /\ SyncInv
  BY <1>1, InitInv, ClientTypes
<1>3. BoardInv /\ ClientTyped /\ SyncInv /\ [Next]_vars => (BoardInv /\ ClientTyped /\ SyncInv)'
  BY StepInv, ClientTypes, SyncStep
<1> QED BY <1>2, <1>3, PTL DEF Spec

(* A single synchronous client (src/Client/Client.cpp) never makes two     *)
(* threads of the database access last_messages at once, whatever expires  *)
(* or stops while a handler is at work.                                    *)
THEOREM SequentialAccessCorrect == Spec => []SequentialAccess
<1>1. BoardInv /\ SyncInv => SequentialAccess
  <2> SUFFICES ASSUME BoardInv, SyncInv, CLIENT_SYNC, Cardinality(Clients) = 1
               PROVE  Cardinality(Accessing) <= 1 /\ ~raced
    BY DEF SequentialAccess
  <2>1. \A p, q \in Accessing : p = q
    BY OneLive DEF Accessing
  <2>2. Accessing = {} \/ \E q : Accessing = {q}
    BY <2>1
  <2>3. Cardinality(Accessing) \in {0, 1}
    <3>1. CASE Accessing = {}
      BY <3>1, FS_EmptySet
    <3>2. ASSUME NEW q, Accessing = {q} PROVE Cardinality(Accessing) = 1
      BY <3>2, FS_Singleton, Zenon
    <3> QED BY <2>2, <3>1, <3>2
  <2> QED BY <2>3 DEF SyncInv
<1> QED BY <1>1, SyncHolds, PTL

(* The counters the synchronous client prints (onSendReply, onFindReply)   *)
(* are exact, although the increment is no atomic operation.               *)
THEOREM CountersExactCorrect == Spec => [](CLIENT_SYNC => CountersExact)
<1>1. SyncInv => (CLIENT_SYNC => CountersExact)
  BY DEF SyncInv, CountedReplies, CountersExact
<1> QED BY <1>1, SyncHolds, PTL
=============================================================================
