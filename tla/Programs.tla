------------------------------ MODULE Programs ------------------------------
(***************************************************************************)
(* Processes and programs that share nothing, side by side: a behaviour    *)
(* is one of them, chosen at the start, and the others stay as they are.   *)
(* The client maps are this module's own (EXTENDS), the rest instances.    *)
(***************************************************************************)
EXTENDS ClientMap

CONSTANTS
  (* StatsShutdown *)
  ExitThreads, MainThread, Rows,
  (* StatsStream *)
  entry_count, entry_test_number,
  (* AsyncHandler *)
  AsyncWorkers, AsyncCalls,
  (* PerfClient and PerfServer *)
  ClientThreads, FLAGS_transport, FLAGS_terminate_sec, FLAGS_stats_interval_sec,
  MaxTerminate, MaxInterval, Forever,
  (* EchoClient *)
  EchoPrograms,
  (* OldClients *)
  MaxIterations

(* main runs on one of the threads, buffers and flags have the sizes the   *)
(* code gives them, and no thread id is mistaken for a missing client or   *)
(* for the connection in the queue of an EventBase (Connection).           *)
ASSUME ProgramsAssumption ==
  /\ MainThread \in ExitThreads /\ Rows \in Nat
  /\ entry_count \in Nat \ {0} /\ entry_test_number \in Nat
  /\ FLAGS_terminate_sec \in Nat /\ FLAGS_stats_interval_sec \in Nat \ {0}
  /\ MaxTerminate \in Nat /\ MaxInterval \in Nat \ {0}
  /\ Forever \in Nat \ {0}
  /\ MaxIterations \in Nat \ {0}
  /\ Maps # {} /\ NoClient \notin Workers /\ "connect" \notin AsyncWorkers

VARIABLES
  chosen,
  (* StatsShutdown *)
  shut_pc, handling, own, freed, exiting, closed, ended,
  (* StatsStream *)
  erase_previous_file, overwrite, stream_pc, killed, call, entry_cursor, file, pending, limit,
  torn,
  (* AsyncHandler *)
  service_main, loop, queue, channel, sent, async_pc, f, async_calls,
  (* PerfClient *)
  FLAGS_sync, client_main, thread, client_elapsed, client_sleep, printed, crashed,
  (* PerfServer *)
  terminate_sec, stats_interval_sec, server_main, server, logger, server_elapsed,
  server_sleep, stopLost,
  (* EchoClient *)
  echo_main, ct, evb, owners, response, request, wrong,
  (* OldClients *)
  program, iterations, old_main, futs, executor, stop_, alive, find_success_counter,
  send_success_counter, dead

Shutdown == INSTANCE StatsShutdown WITH
  Threads <- ExitThreads, Main <- MainThread, pc <- shut_pc
Stream == INSTANCE StatsStream WITH
  pc <- stream_pc
Async == INSTANCE AsyncHandler WITH
  Workers <- AsyncWorkers, MaxCalls <- AsyncCalls,
  main <- service_main, pc <- async_pc, calls <- async_calls
Benchmark == INSTANCE PerfClient WITH
  Threads <- ClientThreads,
  main <- client_main, elapsedTimeSec <- client_elapsed, sleepTimeSec <- client_sleep
Server == INSTANCE PerfServer WITH
  main <- server_main, elapsedTimeSec <- server_elapsed, sleepTimeSec <- server_sleep
Echo == INSTANCE EchoClient WITH
  Programs <- EchoPrograms, main <- echo_main
Old == INSTANCE OldClients WITH
  main <- old_main

shutdownVars  == <<shut_pc, handling, own, freed, exiting, closed, ended>>
streamVars    == <<erase_previous_file, overwrite, stream_pc, killed, call, entry_cursor, file,
                   pending, limit, torn>>
asyncVars     == <<service_main, loop, queue, channel, sent, async_pc, f, async_calls>>
benchmarkVars == <<FLAGS_sync, client_main, thread, client_elapsed, client_sleep, printed,
                   crashed>>
serverVars    == <<terminate_sec, stats_interval_sec, server_main, server, logger,
                   server_elapsed, server_sleep, stopLost>>
echoVars      == <<echo_main, ct, evb, owners, response, request, wrong>>
oldVars       == <<program, iterations, old_main, futs, executor, stop_, alive,
                   find_success_counter, send_success_counter, dead>>
programVars   == <<chosen, vars, shutdownVars, streamVars, asyncVars, benchmarkVars,
                   serverVars, echoVars, oldVars>>

ProgramsInit ==
  /\ chosen \in {"shutdown", "stream", "async", "client_maps", "benchmark", "server",
                 "echo", "old"}
  /\ Shutdown!Init /\ Stream!Init /\ Async!Init /\ Init
  /\ Benchmark!Init /\ Server!Init /\ Echo!Init /\ Old!Init
  /\ chosen # "stream" => ~erase_previous_file /\ ~overwrite
  /\ chosen # "client_maps" => at = [t \in Workers |-> CHOOSE m \in Maps : TRUE]
  /\ chosen # "benchmark" => ~FLAGS_sync
  /\ chosen # "server" => terminate_sec = 0 /\ stats_interval_sec = 1
  /\ chosen # "old" => program = Old!working_example /\ iterations = 1

ProgramsNext ==
  /\ UNCHANGED chosen
  /\ IF chosen = "shutdown"    THEN Shutdown!Next   ELSE UNCHANGED shutdownVars
  /\ IF chosen = "stream"      THEN Stream!Next     ELSE UNCHANGED streamVars
  /\ IF chosen = "async"       THEN Async!Next      ELSE UNCHANGED asyncVars
  /\ IF chosen = "client_maps" THEN Next            ELSE UNCHANGED vars
  /\ IF chosen = "benchmark"   THEN Benchmark!Next  ELSE UNCHANGED benchmarkVars
  /\ IF chosen = "server"      THEN Server!Next     ELSE UNCHANGED serverVars
  /\ IF chosen = "echo"        THEN Echo!Next       ELSE UNCHANGED echoVars
  /\ IF chosen = "old"         THEN Old!Next        ELSE UNCHANGED oldVars

(* Each program's fairness, if it is the one that runs.                    *)
ProgramsSpec ==
  /\ ProgramsInit
  /\ [][ProgramsNext]_programVars
  /\ \A t \in ExitThreads :
       WF_shutdownVars(chosen = "shutdown" /\ Shutdown!Destructor(t))
  /\ WF_asyncVars(chosen = "async" /\ Async!MainStep)
  /\ WF_asyncVars(chosen = "async" /\ Async!loopForever)
  /\ WF_asyncVars(chosen = "async" /\ Async!LoopStep)
  /\ \A w \in AsyncWorkers :
       /\ WF_asyncVars(chosen = "async" /\ Async!Answer(w))
       /\ WF_asyncVars(chosen = "async" /\ Async!WorkerStep(w))
  /\ WF_benchmarkVars(chosen = "benchmark" /\ Benchmark!MainStep)
  /\ \A t \in ClientThreads : WF_benchmarkVars(chosen = "benchmark" /\ Benchmark!ThreadStep(t))
  /\ WF_serverVars(chosen = "server" /\ Server!MainStep)
  /\ WF_serverVars(chosen = "server" /\ Server!LoggerStep)
  /\ \A p \in EchoPrograms :
       /\ WF_echoVars(chosen = "echo" /\ Echo!MainStep(p))
       /\ WF_echoVars(chosen = "echo" /\ Echo!ThreadStep(p))
  /\ WF_oldVars(chosen = "old" /\ Old!Next)
-----------------------------------------------------------------------------
(* The properties of the programs.                                         *)

(* However many threads run the destructor, one dump is whole and closed   *)
(* before the process ends (src/shared/ServerStats.cpp, Client.cpp:32).    *)
FirstDumpWhole == Shutdown!FirstDumpWhole

(* The stream version loses only what its last flush left                  *)
(* (src/shared/ServerStats.cpp:156-162), and tears a line at the end only.  *)
LossBounded == Stream!LossBounded

(* A stop of the stream version implements StatsLog.                       *)
SavesAsLog == Stream!SavesAsLog

(* The asynchronous handlers implement RemoteCall                          *)
(* (src/SanitizationService/SanitizationService.cpp:37-44).                *)
IsRemoteCall == Async!IsRemoteCall

(* The sleeps of the benchmark's two mains: exactly terminate_sec, none    *)
(* empty (client/Client.cpp:118-133, server/Server.cpp:85-103).            *)
SleepsExact == Benchmark!SleepsExact /\ Server!StopOnTime

(* No EventBase is used after its destruction or by two threads at once in *)
(* the echo client and in the old clients that declare the EventBase first *)
(* (EchoClient.cpp:33, working_example/client.cpp:54-66).  It says nothing *)
(* of MockDatabase/old/MockDatabaseClient.cpp:71-72, where the executor    *)
(* comes first: there the model does reach a use after the destruction.    *)
NothingDangles == Echo!NoDanglingRefs /\ Old!EventBaseAlive

(* A summary is printed when every call has ended, and counts the replies. *)
SummaryComplete == Old!SummaryComplete

(* What is begun comes to an end: a shutdown, a call of a worker, and each *)
(* program, as its module says.                                            *)
ProgramsEnd ==
  /\ Shutdown!ShutdownEnds
  /\ Async!CallsAnswered
  /\ chosen = "benchmark" => Benchmark!SyncClientEnds
  /\ chosen = "server" => Server!ServerEnds
  /\ chosen = "echo" => Echo!EchoEnds
  /\ chosen = "old" => Old!ProgramEnds
=============================================================================
