---------------------------- MODULE AsyncHandler ----------------------------
(***************************************************************************)
(* How a handler of the asynchronous build makes its remote calls          *)
(* (SanitizationService.h:18-33 and .cpp:37-44; MessageService.h does the  *)
(* same for each of its two services).  The constructor makes one client   *)
(* on an EventBase that nothing drives yet, which only asks for the        *)
(* connection, and then starts a thread that drives the EventBase for      *)
(* ever.  The worker threads share the client: a future_ call queues the   *)
(* request on the EventBase and returns a future, the thread sleeps, and   *)
(* f.wait() and f.value() take the outcome.  Only the event loop connects, *)
(* sends, receives and settles futures.                                    *)
(* Bound: MaxCalls calls of each worker.                                   *)
(***************************************************************************)
EXTENDS Integers, Sequences, FiniteSets

CONSTANTS
  Workers,      \* the CPU threads of the server
  MaxCalls

VARIABLES
  main,         \* "client", "loop", "serve": the next step of the main thread
  loop,         \* mock_eb_loop_thread: "none", "started" or "looping"
  queue,        \* mock_eb: what was asked of it and not done yet, in order
  channel,      \* the connection: "opening", "open" or "broken"
  sent,         \* the workers whose request the other service has
  pc,           \* pc[w]: "idle", "sleep" or "wait"
  f,            \* f[w]: the future: "none", "pending", "returned" or "failed"
  calls

vars == <<main, loop, queue, channel, sent, pc, f, calls>>
mainVars   == <<main, loop>>
workerVars == <<pc, calls>>

Init ==
  /\ main = "client" /\ loop = "none"
  /\ queue = <<>> /\ channel = "opening" /\ sent = {}
  /\ pc = [w \in Workers |-> "idle"]
  /\ f = [w \in Workers |-> "none"]
  /\ calls = [w \in Workers |-> 0]

Connection == "connect"

newRocketClient ==
  /\ main = "client"
  /\ queue' = Append(queue, Connection)
  /\ main' = "loop"
  /\ UNCHANGED <<loop, channel, sent, f, workerVars>>

(* Mutant: the thread that drives the EventBase is forgotten.              *)
StartLoopNot ==
  /\ main = "loop"
  /\ main' = "serve"
  /\ UNCHANGED <<loop, queue, channel, sent, f, workerVars>>

(* The thread is detached; whether it runs yet is the scheduler's choice.  *)
StartLoop ==
  /\ main = "loop"
  /\ loop' = "started"
  /\ main' = "serve"
  /\ UNCHANGED <<queue, channel, sent, f, workerVars>>

loopForever ==
  /\ loop = "started"
  /\ loop' = "looping"
  /\ UNCHANGED <<main, queue, channel, sent, f, workerVars>>

FutureCall(w) ==
  /\ main = "serve"
  /\ pc[w] = "idle" /\ calls[w] < MaxCalls
  /\ f' = [f EXCEPT ![w] = "pending"]
  /\ queue' = Append(queue, w)
  /\ pc' = [pc EXCEPT ![w] = "sleep"]
  /\ calls' = [calls EXCEPT ![w] = @ + 1]
  /\ UNCHANGED <<mainVars, channel, sent>>

Sleep(w) ==
  /\ pc[w] = "sleep"
  /\ pc' = [pc EXCEPT ![w] = "wait"]
  /\ UNCHANGED <<mainVars, queue, channel, sent, f, calls>>

(* Mutant: the value is taken without f.wait(): the future is given up.    *)
WaitNot(w) ==
  /\ pc[w] = "wait"
  /\ f' = [f EXCEPT ![w] = "none"]
  /\ pc' = [pc EXCEPT ![w] = "idle"]
  /\ UNCHANGED <<mainVars, queue, channel, sent, calls>>

(* f.value() is the answer, or throws what the call failed with.           *)
Wait(w) ==
  /\ pc[w] = "wait"
  /\ f[w] \in {"returned", "failed"}
  /\ f' = [f EXCEPT ![w] = "none"]
  /\ pc' = [pc EXCEPT ![w] = "idle"]
  /\ UNCHANGED <<mainVars, queue, channel, sent, calls>>

(* The loop asks for the connection; other events tell how that ends, and  *)
(* the requests that follow wait in the channel until then.                *)
Connect ==
  /\ loop = "looping"
  /\ queue # <<>> /\ Head(queue) = Connection
  /\ queue' = Tail(queue)
  /\ channel' \in {"open", "broken"}
  /\ UNCHANGED <<mainVars, sent, f, workerVars>>

Send ==
  /\ loop = "looping"
  /\ queue # <<>> /\ Head(queue) # Connection
  /\ queue' = Tail(queue)
  /\ IF channel = "open"
     THEN sent' = sent \cup {Head(queue)} /\ UNCHANGED f
     ELSE f' = [f EXCEPT ![Head(queue)] = "failed"] /\ UNCHANGED sent
  /\ UNCHANGED <<mainVars, channel, workerVars>>

(* Answers come in any order.                                              *)
Answer(w) ==
  /\ loop = "looping"
  /\ w \in sent
  /\ sent' = sent \ {w}
  /\ f' = [f EXCEPT ![w] = "returned"]
  /\ UNCHANGED <<mainVars, queue, channel, workerVars>>

(* The other service ends; the handler never opens another channel.        *)
Break ==
  /\ loop = "looping"
  /\ channel = "open"
  /\ channel' = "broken"
  /\ sent' = {}
  /\ f' = [w \in Workers |-> IF w \in sent THEN "failed" ELSE f[w]]
  /\ UNCHANGED <<mainVars, queue, workerVars>>

(* Fair are the steps of each thread, and Answer: threads are scheduled,   *)
(* and the other service answers, or ends.                                 *)
MainStep      == newRocketClient \/ StartLoop
LoopStep      == Connect \/ Send
WorkerStep(w) == Sleep(w) \/ Wait(w)

Next ==
  \/ MainStep \/ loopForever \/ LoopStep \/ Break
  \/ \E w \in Workers : Answer(w) \/ FutureCall(w) \/ WorkerStep(w)

Spec == Init /\ [][Next]_vars
-----------------------------------------------------------------------------
(* The handler implements RemoteCall: whatever is asked of the EventBase   *)
(* before its thread runs, and whenever the channel breaks, an outcome     *)
(* reaches the worker that waits for it, and is the outcome of its call    *)
(* (SanitizationService.cpp:37-44; MessageService.cpp:31-38, 73-80).       *)
Remote == INSTANCE RemoteCall WITH call <- f

IsRemoteCall == Remote!Spec
CallsAnswered == Remote!Answered

=============================================================================
