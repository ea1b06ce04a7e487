-------------------------------- MODULE Rpc --------------------------------
(***************************************************************************)
(* How the processes of the message board reach each other: a client       *)
(* process per member of Clients and three fbthrift servers                *)
(* (docker-compose.yml).  fbthrift itself is external; it is modelled from *)
(* the way src/shared/Utils.h and the handlers use it:                     *)
(*   - newRocketClient opens a channel once and never reopens it: a client *)
(*     when it starts, a server when it starts (one client that its        *)
(*     threads share) or, in the SYNC build, when one of its threads makes *)
(*     its first call (a client per thread);                               *)
(*   - the timeout argument is ignored (setTimeout(0)), so a caller waits  *)
(*     until it is answered or the channel breaks;                         *)
(*   - newServer leaves the server's default task expiry on, so a request  *)
(*     may be answered with an exception while its handler is still        *)
(*     queued or running;                                                  *)
(*   - a request waits in the server's queue until one of the Workers CPU  *)
(*     threads is free, and a handler keeps its thread until it returns;   *)
(*   - a handler that throws answers with an exception.                    *)
(* A query calls each service at most once, so the state of the call to    *)
(* service s on behalf of query q is rpc[s][q] for its caller and          *)
(* stage[s][q] for its handler.  Which of its threads a process calls from *)
(* is left open: any of them, busy or not.                                 *)
(***************************************************************************)
EXTENDS Integers, FiniteSets

CONSTANTS
  Clients,      \* the client processes
  iterations,   \* calls a client makes
  Workers,      \* CPU threads of a server
  SYNC,         \* the build option of the servers
  WaitReady,    \* a process starts only when the servers it calls are up
  MayStop,      \* processes that may be stopped (SIGINT) during the run
  MayExpire     \* whether a request may exceed the task expiry time

Services == {"message", "sanitization", "database"}

(* The calls of a client: even ones send a message, odd ones find the last *)
Queries == Clients \X (0 .. iterations - 1)
Finds   == {q \in Queries : q[2] % 2 = 1}
Sends   == Queries \ Finds

Channels == (Clients \X {"message"}) \cup
            {<<"message", "sanitization">>, <<"message", "database">>,
             <<"sanitization", "database">>}

Threads == 1 .. Workers

ASSUME RpcAssumption ==
  /\ IsFiniteSet(Clients)
  /\ iterations \in Nat
  /\ Workers \in Nat \ {0}
  /\ SYNC \in BOOLEAN
  /\ WaitReady \in BOOLEAN
  /\ MayStop \subseteq Services \cup Clients
  /\ MayExpire \in BOOLEAN

VARIABLES
  server,    \* server[s]: "starting", "up" or "stopped"
  channel,   \* channel[<<p, s>>][t]: p's channel to s on thread t: "none", "open" or "broken"
  rpc,       \* rpc[s][q]: "none", "pending", "returned" or "failed"
  stage,     \* stage[s][q]: how far the handler is; "lost" when its server stopped
  result,    \* result[s][q]: what the handler returned
  entries    \* entries[p][q]: rows process p recorded for q (ServerStatsManager)

rpcVars == <<server, channel, rpc, stage, result, entries>>

RpcInit ==
  /\ server = [s \in Services |-> "starting"]
  /\ channel = [ch \in Channels |-> [t \in Threads |-> "none"]]
  /\ rpc = [s \in Services |-> [q \in Queries |-> "none"]]
  /\ stage = [s \in Services |-> [q \in Queries |-> "none"]]
  /\ result = [s \in Services |-> [q \in Queries |-> "none"]]
  /\ entries = [p \in Services \cup {"client"} |-> [q \in Queries |-> 0]]

(* A channel opened now is of use if the server listens.                   *)
newRocketClient(s) == IF server[s] = "up" THEN "open" ELSE "broken"

(* The process p starts and opens its channels, all threads the same; a    *)
(* server of the SYNC build opens none yet.                                *)
Callees(p) == {ch[2] : ch \in {c \in Channels : c[1] = p}}
OpenChannels(p) ==
  /\ WaitReady => \A s \in Callees(p) : server[s] = "up"
  /\ channel' = [ch \in Channels |->
       IF ch[1] = p /\ (SYNC => p \in Clients)
       THEN [t \in Threads |-> newRocketClient(ch[2])]
       ELSE channel[ch]]

(* main of a server: the handler's constructor opens its channels, then    *)
(* the server listens.                                                     *)
Boot(s) ==
  /\ server[s] = "starting"
  /\ OpenChannels(s)
  /\ server' = [server EXCEPT ![s] = "up"]
  /\ UNCHANGED <<rpc, stage, result, entries>>

(* Process p records a row for q.                                          *)
add_entry(p, q) == entries' = [entries EXCEPT ![p][q] = @ + 1]

(* A thread of process p, where p's own handler, if any, is left in        *)
(* stages st, calls service s for q on its channel, opened now if it is    *)
(* the first call.                                                         *)
CallFrom(p, s, q, st) ==
  \E t \in Threads :
    LET ch  == <<p, s>>
        now == IF channel[ch][t] = "none" THEN newRocketClient(s) ELSE channel[ch][t]
    IN /\ channel' = [channel EXCEPT ![ch][t] = now]
       /\ IF now = "open" /\ server[s] = "up"
          THEN /\ rpc' = [rpc EXCEPT ![s][q] = "pending"]
               /\ stage' = [st EXCEPT ![s][q] = "queued"]
          ELSE /\ rpc' = [rpc EXCEPT ![s][q] = "failed"]
               /\ stage' = st

(* A free CPU thread takes q and its handler records its first row.        *)
Busy(s) == {q \in Queries : stage[s][q] \notin {"none", "queued", "done", "lost"}}
Begin(s, q) ==
  /\ stage[s][q] = "queued"
  /\ Cardinality(Busy(s)) < Workers
  /\ stage' = [stage EXCEPT ![s][q] = "begun"]
  /\ add_entry(s, q)
  /\ UNCHANGED <<server, channel, rpc, result>>

(* The handler is over: its answer reaches a caller that still waits.      *)
Answer(s, q, outcome, value) ==
  /\ stage' = [stage EXCEPT ![s][q] = "done"]
  /\ rpc' = [rpc EXCEPT ![s][q] = IF @ = "pending" THEN outcome ELSE @]
  /\ result' = [result EXCEPT ![s][q] = value]

Return(s, q, value) == Answer(s, q, "returned", value)
Throw(s, q)         == Answer(s, q, "failed", "none")

(* The task expiry timer answers before the handler does; a request that   *)
(* is still queued is not processed any more.                              *)
Expire(s, q) ==
  /\ MayExpire
  /\ rpc[s][q] = "pending"
  /\ rpc' = [rpc EXCEPT ![s][q] = "failed"]
  /\ stage' = [stage EXCEPT ![s][q] = IF @ = "queued" THEN "done" ELSE @]
  /\ UNCHANGED <<server, channel, result, entries>>

(* Server s ends: its handlers are gone and the channels to it break.      *)
Down(s) ==
  /\ server' = [server EXCEPT ![s] = "stopped"]
  /\ stage' = [stage EXCEPT ![s] =
                 [q \in Queries |-> IF @[q] \in {"none", "done"} THEN @[q] ELSE "lost"]]
  /\ rpc' = [rpc EXCEPT ![s] =
               [q \in Queries |-> IF @[q] = "pending" THEN "failed" ELSE @[q]]]
  /\ UNCHANGED <<channel, result, entries>>

(* int_handler: SIGINT ends the server after the dump of its statistics.   *)
Stop(s) ==
  /\ s \in MayStop
  /\ server[s] = "up"
  /\ Down(s)
=============================================================================
