----------------------------- MODULE PerfClient -----------------------------
(***************************************************************************)
(* main of the performance client (src/dep/perf/cpp2/client/Client.cpp) and *)
(* newClient (util/Util.h): the main thread starts the client threads,      *)
(* sleeps and prints until terminate_sec have passed, and joins the         *)
(* threads.  What a thread does between run() and the end of its loop is    *)
(* PerfRunner, how the threads count is QPSStats.  Time is the sum of the   *)
(* sleeps; the stand-in for infinite time is the constant Forever.          *)
(***************************************************************************)
EXTENDS Integers, FiniteSets

CONSTANTS
  Threads,              \* one per client; Threads = cores when num_clients is 0
  FLAGS_transport,
  FLAGS_terminate_sec,
  FLAGS_stats_interval_sec,
  Forever               \* 100000000 in the code

VARIABLES
  FLAGS_sync,       \* a flag of the command line
  main,             \* "spawn", "sleep", "print", "join" or "ended"
  thread,           \* thread[t]: "none", "connect", "run", "loop" or "ended"
  elapsedTimeSec,
  sleepTimeSec,
  printed,          \* history: the seconds the prints divided by
  crashed

vars == <<FLAGS_sync, main, thread, elapsedTimeSec, sleepTimeSec, printed, crashed>>

Init ==
  /\ FLAGS_sync \in BOOLEAN
  /\ main = "spawn"
  /\ thread = [t \in Threads |-> "none"]
  /\ elapsedTimeSec = 0 /\ sleepTimeSec = 0
  /\ printed = 0
  /\ crashed = FALSE

terminate_sec == IF FLAGS_terminate_sec = 0 THEN Forever ELSE FLAGS_terminate_sec

MinOf(a, b) == IF a <= b THEN a ELSE b

SpawnThread ==
  /\ main = "spawn"
  /\ \E t \in Threads : thread[t] = "none" /\ thread' = [thread EXCEPT ![t] = "connect"]
  /\ UNCHANGED <<FLAGS_sync, main, elapsedTimeSec, sleepTimeSec, printed, crashed>>

(* Mutant: every sleep is a whole interval, also the last one.             *)
SleepWhole ==
  /\ main = "sleep" \/ (main = "spawn" /\ \A t \in Threads : thread[t] # "none")
  /\ sleepTimeSec' = FLAGS_stats_interval_sec
  /\ main' = "print"
  /\ UNCHANGED <<FLAGS_sync, thread, elapsedTimeSec, printed, crashed>>

Sleep ==
  /\ main = "sleep" \/ (main = "spawn" /\ \A t \in Threads : thread[t] # "none")
  /\ sleepTimeSec' = MinOf(terminate_sec - elapsedTimeSec, FLAGS_stats_interval_sec)
  /\ main' = "print"
  /\ UNCHANGED <<FLAGS_sync, thread, elapsedTimeSec, printed, crashed>>

PrintStats ==
  /\ main = "print"
  /\ printed' = printed + sleepTimeSec
  /\ elapsedTimeSec' = elapsedTimeSec + sleepTimeSec
  /\ main' = IF elapsedTimeSec' >= terminate_sec THEN "join" ELSE "sleep"
  /\ UNCHANGED <<FLAGS_sync, thread, sleepTimeSec, crashed>>

Join ==
  /\ main = "join"
  /\ \A t \in Threads : thread[t] = "ended"
  /\ main' = "ended"
  /\ UNCHANGED <<FLAGS_sync, thread, elapsedTimeSec, sleepTimeSec, printed, crashed>>

(* newClient knows two transports; for another name there is no client.    *)
newClient(transport) == IF transport \in {"header", "rocket"} THEN "client" ELSE "nullptr"

(* The first call through a null client is undefined: here the end.        *)
ThreadConnect(t) ==
  /\ thread[t] = "connect"
  /\ thread' = [thread EXCEPT ![t] = "run"]
  /\ crashed' = (newClient(FLAGS_transport) = "nullptr")
  /\ UNCHANGED <<FLAGS_sync, main, elapsedTimeSec, sleepTimeSec, printed>>

(* Mutant: the event base loops also with FLAGS_sync.                      *)
ThreadLoopAlways(t) ==
  /\ thread[t] = "run"
  /\ thread' = [thread EXCEPT ![t] = "loop"]
  /\ UNCHANGED <<FLAGS_sync, main, elapsedTimeSec, sleepTimeSec, printed, crashed>>

(* run() returned and the event base loops forever.  With FLAGS_sync the   *)
(* lambda ends instead and destroys the runner while its calls are under   *)
(* way: their callbacks may still use it (undefined: the process may end). *)
ThreadLoop(t) ==
  /\ thread[t] = "run"
  /\ \/ ~FLAGS_sync /\ thread' = [thread EXCEPT ![t] = "loop"] /\ UNCHANGED crashed
     \/ FLAGS_sync /\ thread' = [thread EXCEPT ![t] = "ended"] /\ crashed' \in BOOLEAN
  /\ UNCHANGED <<FLAGS_sync, main, elapsedTimeSec, sleepTimeSec, printed>>

(* Both are fair: threads are scheduled and a sleep ends.                  *)
MainStep      == ~crashed /\ (SpawnThread \/ Sleep \/ PrintStats \/ Join)
ThreadStep(t) == ~crashed /\ (ThreadConnect(t) \/ ThreadLoop(t))

Next == MainStep \/ \E t \in Threads : ThreadStep(t)

Spec == Init /\ [][Next]_vars
-----------------------------------------------------------------------------
(* The sleeps (client/Client.cpp:118-133) are never empty, so a rate is    *)
(* never divided by zero, and they add up to exactly terminate_sec, also   *)
(* when that is no multiple of the interval.                               *)
SleepsExact ==
  /\ main = "print" => sleepTimeSec > 0
  /\ main \in {"join", "ended"} => printed = terminate_sec
  /\ printed <= terminate_sec

(* With FLAGS_sync main gets through its joins and ends, unless a callback *)
(* of a destroyed runner ends the process.                                 *)
SyncClientEnds == FLAGS_sync => <>(main = "ended" \/ crashed)
=============================================================================
