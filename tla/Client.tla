------------------------------- MODULE Client -------------------------------
(***************************************************************************)
(* The client process (src/Client/Client.cpp).  main makes the calls, in   *)
(* the synchronous build (CLIENT_SYNC) waiting for each answer, in the     *)
(* asynchronous one attaching callbacks to a future.  The event base       *)
(* thread runs a callback when the answer arrives, or main does when the   *)
(* answer is there before the callback is attached, so two callbacks may   *)
(* run at once; their counter += 1 is a load and a store.                  *)
(***************************************************************************)
EXTENDS Rpc

CONSTANT CLIENT_SYNC    \* the build option

ASSUME ClientAssumption == CLIENT_SYNC \in BOOLEAN

VARIABLES
  main,      \* main[c]: where the main thread is
  next,      \* next[c]: the loop counter i
  attached,  \* calls whose callbacks wait for the answer
  running,   \* running[c][th]: the call whose callback thread th runs, or NoCall
  loaded,    \* loaded[c][th]: the counter value th loaded
  success,   \* success[c]: send_success_counter and find_success_counter
  outcome    \* outcome[q]: "none", "reply" or "error", as seen by the client

clientVars == <<main, next, attached, running, loaded, success, outcome>>

NoCall == <<>>
CallbackThreads == {"main", "eb"}

(* Mutant: onSendReply increments the other counter. *)
counterSame(q) == "find"

(* The counter the reply of q increments.                                  *)
counter(q) == IF q \in Finds THEN "find" ELSE "send"

ClientInit ==
  /\ main = [c \in Clients |-> "init"]
  /\ next = [c \in Clients |-> 0]
  /\ attached = {}
  /\ running = [c \in Clients |-> [th \in CallbackThreads |-> NoCall]]
  /\ loaded = [c \in Clients |-> [th \in CallbackThreads |-> 0]]
  /\ success = [c \in Clients |-> [k \in {"send", "find"} |-> 0]]
  /\ outcome = [q \in Queries |-> "none"]

Connect(c) ==
  /\ main[c] = "init"
  /\ OpenChannels(c)
  /\ main' = [main EXCEPT ![c] = "loop"]
  /\ UNCHANGED <<server, rpc, stage, result, entries,
                 next, attached, running, loaded, success, outcome>>

(* The body of the loop up to the request: the first row and the call.     *)
SendCall(c) ==
  /\ main[c] = "loop"
  /\ next[c] < iterations
  /\ add_entry("client", <<c, next[c]>>)
  /\ CallFrom(c, "message", <<c, next[c]>>, stage)
  /\ next' = [next EXCEPT ![c] = @ + 1]
  /\ main' = [main EXCEPT ![c] = IF CLIENT_SYNC THEN "await" ELSE "attach"]
  /\ UNCHANGED <<server, result, attached, running, loaded, success, outcome>>

Current(c) == <<c, next[c] - 1>>

(* onFindReply, onSendReply: load the counter ...                          *)
CallbackBegin(c, th, q) ==
  /\ rpc["message"][q] = "returned"
  /\ running' = [running EXCEPT ![c][th] = q]
  /\ loaded' = [loaded EXCEPT ![c][th] = success[c][counter(q)]]

(* ... store it incremented, record the second row.                        *)
CallbackEnd(c, th) ==
  LET q == running[c][th]
  IN /\ q # NoCall
     /\ success' = [success EXCEPT ![c][counter(q)] = loaded[c][th] + 1]
     /\ add_entry("client", q)
     /\ outcome' = [outcome EXCEPT ![q] = "reply"]
     /\ running' = [running EXCEPT ![c][th] = NoCall]
     /\ main' = IF th = "main" THEN [main EXCEPT ![c] = "loop"] ELSE main
     /\ UNCHANGED <<server, channel, rpc, stage, result, next, attached, loaded>>

(* thenValue and thenError: the answer is still to come, or it is there    *)
(* and main runs the callback itself.                                      *)
AttachWait(c) ==
  /\ main[c] = "attach"
  /\ attached' = attached \cup {Current(c)}
  /\ main' = [main EXCEPT ![c] = "loop"]
  /\ UNCHANGED <<rpcVars, next, running, loaded, success, outcome>>

AttachReply(c) ==
  /\ main[c] = "attach"
  /\ CallbackBegin(c, "main", Current(c))
  /\ main' = [main EXCEPT ![c] = "callback"]
  /\ UNCHANGED <<rpcVars, next, attached, success, outcome>>

AttachError(c) ==
  /\ main[c] = "attach"
  /\ rpc["message"][Current(c)] = "failed"
  /\ outcome' = [outcome EXCEPT ![Current(c)] = "error"]
  /\ main' = [main EXCEPT ![c] = "loop"]
  /\ UNCHANGED <<rpcVars, next, attached, running, loaded, success>>

EventReply(c, q) ==
  /\ q \in attached /\ q[1] = c
  /\ running[c]["eb"] = NoCall
  /\ CallbackBegin(c, "eb", q)
  /\ attached' = attached \ {q}
  /\ UNCHANGED <<rpcVars, main, next, success, outcome>>

(* onError: nothing is counted and no row recorded.                        *)
EventError(c, q) ==
  /\ q \in attached /\ q[1] = c
  /\ running[c]["eb"] = NoCall
  /\ rpc["message"][q] = "failed"
  /\ attached' = attached \ {q}
  /\ outcome' = [outcome EXCEPT ![q] = "error"]
  /\ UNCHANGED <<rpcVars, main, next, running, loaded, success>>

(* The synchronous build: main runs the callback, or the exception of the  *)
(* call is not caught and terminates the process.                          *)
AwaitReply(c) ==
  /\ main[c] = "await"
  /\ CallbackBegin(c, "main", Current(c))
  /\ main' = [main EXCEPT ![c] = "callback"]
  /\ UNCHANGED <<rpcVars, next, attached, success, outcome>>

(* Mutant: the synchronous client logs the exception and goes on. *)
AwaitErrorIgnored(c) ==
  /\ main[c] = "await"
  /\ rpc["message"][Current(c)] = "failed"
  /\ outcome' = [outcome EXCEPT ![Current(c)] = "error"]
  /\ main' = [main EXCEPT ![c] = "loop"]
  /\ UNCHANGED <<rpcVars, next, attached, running, loaded, success>>

AwaitError(c) ==
  /\ main[c] = "await"
  /\ rpc["message"][Current(c)] = "failed"
  /\ outcome' = [outcome EXCEPT ![Current(c)] = "error"]
  /\ main' = [main EXCEPT ![c] = "dead"]
  /\ UNCHANGED <<rpcVars, next, attached, running, loaded, success>>

(* collectAll: every future is complete; the summary is printed and the    *)
(* statistics are dumped.                                                  *)
Finish(c) ==
  /\ main[c] = "loop"
  /\ next[c] = iterations
  /\ \A i \in 0 .. iterations - 1 : outcome[<<c, i>>] # "none"
  /\ main' = [main EXCEPT ![c] = "done"]
  /\ UNCHANGED <<rpcVars, next, attached, running, loaded, success, outcome>>

(* int_handler: the statistics are dumped, the process ends.               *)
StopClient(c) ==
  /\ c \in MayStop
  /\ main[c] \notin {"init", "done", "dead"}
  /\ main' = [main EXCEPT ![c] = "dead"]
  /\ attached' = {q \in attached : q[1] # c}
  /\ running' = [running EXCEPT ![c] = [th \in CallbackThreads |-> NoCall]]
  /\ UNCHANGED <<rpcVars, next, loaded, success, outcome>>

ClientStep(c) ==
  \/ Connect(c) \/ SendCall(c) \/ Finish(c)
  \/ AttachWait(c) \/ AttachReply(c) \/ AttachError(c)
  \/ AwaitReply(c) \/ AwaitError(c)
  \/ \E th \in CallbackThreads : CallbackEnd(c, th)
  \/ \E q \in Queries : EventReply(c, q) \/ EventError(c, q)
=============================================================================
