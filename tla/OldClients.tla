----------------------------- MODULE OldClients -----------------------------
(***************************************************************************)
(* The clients of src/old/working_example, MockDatabase/old and            *)
(* SanitizationService/old, which share one scheme: main sends all calls,  *)
(* hands collectAll of their futures to a ThreadedExecutor and drives its  *)
(* own EventBase with loopForever; when every call has ended, a thread of  *)
(* the executor calls terminateLoopSoon.  The callbacks run on the main    *)
(* thread.  terminateLoopSoon sets the flag main looks at and then still   *)
(* uses the EventBase to wake main up, so main may be in its destructors   *)
(* by then; they run in the reverse order of the declarations.             *)
(* folly and fbthrift are external: the channel ends a call with a reply   *)
(* or, after its default timeout at the latest, with an error.             *)
(***************************************************************************)
EXTENDS Integers, FiniteSets

CONSTANT MaxIterations

(* The programs differ in the order of their declarations and in what the  *)
(* callback of a reply does.                                               *)
working_example           == [executorFirst |-> FALSE, counting |-> FALSE]
MockDatabaseClient        == [executorFirst |-> TRUE, counting |-> TRUE]
SanitizationServiceClient == [executorFirst |-> FALSE, counting |-> FALSE]

Programs == {working_example, MockDatabaseClient, SanitizationServiceClient}

VARIABLES
  program,
  iterations,
  main,       \* "send", "loop", "summary", "return" or "ended"
  futs,       \* futs[i]: "none", "sent", "reply" or "error"
  executor,   \* its thread: "none", "terminate", "wake" or "done"
  stop_,      \* the flag of the EventBase
  alive,      \* which of "eb" and "executor" are not destroyed yet
  find_success_counter, send_success_counter,
  dead        \* history: the EventBase was used after its destruction

counters == <<find_success_counter, send_success_counter>>
vars == <<program, iterations, main, futs, executor, stop_, alive, counters, dead>>

Init ==
  /\ program \in Programs
  /\ iterations \in 1..MaxIterations
  /\ main = "send"
  /\ futs = [i \in 0..iterations - 1 |-> "none"]
  /\ executor = "none"
  /\ stop_ = FALSE
  /\ alive = {"eb", "executor"}
  /\ find_success_counter = 0 /\ send_success_counter = 0
  /\ dead = FALSE

With(state)   == {i \in DOMAIN futs : futs[i] = state}
executorFirst == program.executorFirst
-----------------------------------------------------------------------------
(* The loop of main.  A call on a broken channel has failed at once.       *)
SendCall ==
  /\ main = "send"
  /\ \E i \in With("none"), s \in {"sent", "error"} :
       /\ \A k \in With("none") : i <= k
       /\ futs' = [futs EXCEPT ![i] = s]
  /\ UNCHANGED <<program, iterations, main, executor, stop_, alive, counters, dead>>

(* Mutant: collectAny.                                                     *)
CollectedAny(fs) == \E i \in DOMAIN fs : fs[i] \in {"reply", "error"}

(* Mutant: collect, whose value never comes when a call has failed.        *)
CollectedValues(fs) == \A i \in DOMAIN fs : fs[i] = "reply"

(* collectAll: every call has ended, onError made a value of an error.     *)
Collected(fs) == \A i \in DOMAIN fs : fs[i] \in {"reply", "error"}

Submit(fs) == executor' = IF executor = "none" /\ Collected(fs) THEN "terminate" ELSE executor

LoopForever ==
  /\ main = "send"
  /\ With("none") = {}
  /\ main' = "loop"
  /\ Submit(futs)
  /\ UNCHANGED <<program, iterations, futs, stop_, alive, counters, dead>>

onReply(i) ==
  IF program.counting
  THEN /\ find_success_counter' = find_success_counter + (i % 2)
       /\ send_success_counter' = send_success_counter + 1 - (i % 2)
  ELSE UNCHANGED counters

Callback(i) ==
  /\ main = "loop"
  /\ futs[i] = "sent"
  /\ \/ futs' = [futs EXCEPT ![i] = "reply"] /\ onReply(i)
     \/ futs' = [futs EXCEPT ![i] = "error"] /\ UNCHANGED counters
  /\ Submit(futs')
  /\ UNCHANGED <<program, iterations, main, stop_, alive, dead>>
-----------------------------------------------------------------------------
(* The lambda on the executor's thread.                                    *)
terminateLoopSoon ==
  /\ executor = "terminate"
  /\ stop_' = TRUE
  /\ executor' = "wake"
  /\ UNCHANGED <<program, iterations, main, futs, alive, counters, dead>>

Wake ==
  /\ executor = "wake"
  /\ executor' = "done"
  /\ dead' = ("eb" \notin alive)
  /\ UNCHANGED <<program, iterations, main, futs, stop_, alive, counters>>

LoopEnds ==
  /\ main = "loop"
  /\ stop_
  /\ main' = "summary"
  /\ UNCHANGED <<program, iterations, futs, executor, stop_, alive, counters, dead>>

client_summary ==
  /\ main = "summary"
  /\ main' = "return"
  /\ UNCHANGED <<program, iterations, futs, executor, stop_, alive, counters, dead>>

(* Mutant: the executor does not wait for its threads.                     *)
DestroyExecutorDetached ==
  /\ main = "return"
  /\ executorFirst => "eb" \notin alive
  /\ alive' = alive \ {"executor"}
  /\ UNCHANGED <<program, iterations, main, futs, executor, stop_, counters, dead>>

(* ~ThreadedExecutor joins its threads.                                    *)
DestroyExecutor ==
  /\ main = "return"
  /\ executorFirst => "eb" \notin alive
  /\ executor = "done"
  /\ alive' = alive \ {"executor"}
  /\ UNCHANGED <<program, iterations, main, futs, executor, stop_, counters, dead>>

DestroyEventBase ==
  /\ main = "return"
  /\ "eb" \in alive
  /\ executorFirst \/ "executor" \notin alive
  /\ alive' = alive \ {"eb"}
  /\ UNCHANGED <<program, iterations, main, futs, executor, stop_, counters, dead>>

Return ==
  /\ main = "return"
  /\ alive = {}
  /\ main' = "ended"
  /\ UNCHANGED <<program, iterations, futs, executor, stop_, alive, counters, dead>>

Next ==
  \/ SendCall \/ LoopForever \/ \E i \in DOMAIN futs : Callback(i)
  \/ terminateLoopSoon \/ Wake
  \/ LoopEnds \/ client_summary \/ DestroyExecutor \/ DestroyEventBase \/ Return

(* Next is fair: both threads are scheduled, and the channel ends every    *)
(* call.                                                                   *)
Spec == Init /\ [][Next]_vars
-----------------------------------------------------------------------------
(* When main prints its summary (MockDatabase/old/MockDatabaseClient.cpp:   *)
(* 108-137), every call has ended and the counters are the replies to the  *)
(* sends and to the finds, of at most as many as it prints.                *)
SummaryComplete ==
  main \in {"summary", "return", "ended"} =>
    /\ With("none") \cup With("sent") = {}
    /\ program.counting =>
         /\ find_success_counter = Cardinality({i \in With("reply") : i % 2 = 1})
         /\ send_success_counter + find_success_counter = Cardinality(With("reply"))
         /\ find_success_counter <= iterations \div 2
         /\ send_success_counter <= iterations - iterations \div 2

(* A program whose executor is declared after its EventBase                *)
(* (working_example/client.cpp:54-66) joins the thread that terminates the *)
(* loop before it destroys the EventBase that thread uses.  This is not so *)
(* in MockDatabaseClient.cpp:71-72, which declares them the other way.     *)
EventBaseAlive == ~executorFirst => ~dead

(* The program ends, also when calls fail before the loop begins.          *)
ProgramEnds == <>(main = "ended")
=============================================================================
