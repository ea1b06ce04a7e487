----------------------------- MODULE PerfServer -----------------------------
(***************************************************************************)
(* main of the performance server (src/dep/perf/cpp2/server/Server.cpp):   *)
(* the logger thread sleeps, prints and after terminate_sec stops the      *)
(* server; main serves and then joins the logger.  fbthrift is external:   *)
(* stop() ends a server that serves and is lost on one that does not serve *)
(* yet; HTTP2RoutingHandler's shutdownOn lets SIGINT and SIGTERM stop it.  *)
(* Time is the sum of the sleeps.  What the server does with requests is   *)
(* PerfBench.  Forever stands for the 100000000 seconds of the code.       *)
(***************************************************************************)
EXTENDS Integers

CONSTANTS
  MaxTerminate, MaxInterval,   \* bounds of the two flags
  Forever

VARIABLES
  terminate_sec, stats_interval_sec,   \* the flags
  main,              \* "setup", "serve", "join" or "ended"
  server,            \* "new", "serving" or "stopped"
  logger,            \* "none", "sleep", "print", "stop" or "done"
  elapsedTimeSec,
  sleepTimeSec,
  stopLost           \* history: stop() found a server that does not serve yet

flags == <<terminate_sec, stats_interval_sec>>
vars  == <<flags, main, server, logger, elapsedTimeSec, sleepTimeSec, stopLost>>

Init ==
  /\ terminate_sec \in 0..MaxTerminate
  /\ stats_interval_sec \in 1..MaxInterval
  /\ main = "setup" /\ server = "new" /\ logger = "none"
  /\ elapsedTimeSec = 0 /\ sleepTimeSec = 0
  /\ stopLost = FALSE

Limit == IF terminate_sec = 0 THEN Forever ELSE terminate_sec

MinOf(a, b) == IF a <= b THEN a ELSE b

StartLogger ==
  /\ main = "setup"
  /\ main' = "serve"
  /\ logger' = "sleep"
  /\ UNCHANGED <<flags, server, elapsedTimeSec, sleepTimeSec, stopLost>>

Serve ==
  /\ main = "serve" /\ server = "new"
  /\ server' = "serving"
  /\ UNCHANGED <<flags, main, logger, elapsedTimeSec, sleepTimeSec, stopLost>>

ServeReturns ==
  /\ main = "serve" /\ server = "stopped"
  /\ main' = "join"
  /\ UNCHANGED <<flags, server, logger, elapsedTimeSec, sleepTimeSec, stopLost>>

Join ==
  /\ main = "join" /\ logger = "done"
  /\ main' = "ended"
  /\ UNCHANGED <<flags, server, logger, elapsedTimeSec, sleepTimeSec, stopLost>>

(* Mutant: the sleep is cut to the whole time, not to what is left of it.  *)
SleepOver ==
  /\ logger = "sleep"
  /\ sleepTimeSec' = MinOf(Limit, stats_interval_sec)
  /\ logger' = "print"
  /\ UNCHANGED <<flags, main, server, elapsedTimeSec, stopLost>>

Sleep ==
  /\ logger = "sleep"
  /\ sleepTimeSec' = MinOf(Limit - elapsedTimeSec, stats_interval_sec)
  /\ logger' = "print"
  /\ UNCHANGED <<flags, main, server, elapsedTimeSec, stopLost>>

PrintStats ==
  /\ logger = "print"
  /\ elapsedTimeSec' = elapsedTimeSec + sleepTimeSec
  /\ logger' = IF elapsedTimeSec' >= Limit THEN "stop" ELSE "sleep"
  /\ UNCHANGED <<flags, main, server, sleepTimeSec, stopLost>>

(* Mutant: the logger leaves its loop without stopping the server.         *)
StopForgotten ==
  /\ logger = "stop"
  /\ logger' = "done"
  /\ UNCHANGED <<flags, main, server, elapsedTimeSec, sleepTimeSec, stopLost>>

Stop ==
  /\ logger = "stop"
  /\ logger' = "done"
  /\ server' = IF server = "serving" THEN "stopped" ELSE server
  /\ stopLost' = (server = "new")
  /\ UNCHANGED <<flags, main, elapsedTimeSec, sleepTimeSec>>

Signal ==
  /\ server = "serving"
  /\ server' = "stopped"
  /\ UNCHANGED <<flags, main, logger, elapsedTimeSec, sleepTimeSec, stopLost>>

MainStep   == StartLogger \/ Serve \/ ServeReturns \/ Join
LoggerStep == Sleep \/ PrintStats \/ Stop

Next == MainStep \/ LoggerStep \/ Signal

(* Fair are MainStep and LoggerStep: both threads are scheduled and a sleep *)
(* ends; nothing obliges a signal.                                         *)
Spec == Init /\ [][Next]_vars
-----------------------------------------------------------------------------
(* The logger (server/Server.cpp:85-103) stops the server after exactly    *)
(* terminate_sec, whatever the interval, and no print divides by zero.     *)
StopOnTime ==
  /\ logger = "print" => sleepTimeSec > 0
  /\ logger \in {"stop", "done"} => elapsedTimeSec = Limit

(* main ends after the logger: also when a signal stops the server first,  *)
(* and unless stop() came before serve() did.  After a signal it waits for *)
(* the rest of terminate_sec (or of the 100000000 seconds).                *)
ServerEnds == <>(main = "ended" \/ stopLost)
=============================================================================
