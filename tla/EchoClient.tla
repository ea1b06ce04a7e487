----------------------------- MODULE EchoClient -----------------------------
(***************************************************************************)
(* The echo example: EchoClient.cpp (src/old/example/client), the          *)
(* ConnectionThread it uses (src/old/example/dep/perf/cpp2/util/Util.h)    *)
(* and EchoHandler.  main owns the EventBase evb, but the client on evb is *)
(* made and let go by the ConnectionThread ct, each time while main waits; *)
(* in between, sync_echo drives evb on the main thread.  The client is     *)
(* shared by main and ct; its last owner destroys it, which uses evb.      *)
(* Each program is a process; they share the server.                       *)
(***************************************************************************)
EXTENDS Integers, FiniteSets

CONSTANT Programs

VARIABLES
  main,       \* main[p]: "evb", "ct", "newSyncClient", "sync_echo", "wait", "return",
              \*          "~ct", "~evb", "ended" or "aborted"
  ct,         \* ct[p]: "none", "idle", "connect", "connected", "reset", "joined"
  evb,        \* evb[p]: the EventBase exists
  owners,     \* owners[p]: who holds the client: "main", "ct"
  response,   \* response[p]: "none", "echo" or the failure
  request,    \* request[p]: "none", "sent", "echoed"
  wrong       \* history: wrong[p]: evb was used by two threads at once or when gone

vars == <<main, ct, evb, owners, response, request, wrong>>

Init ==
  /\ main = [p \in Programs |-> "evb"]
  /\ ct = [p \in Programs |-> "none"]
  /\ evb = [p \in Programs |-> FALSE]
  /\ owners = [p \in Programs |-> {}]
  /\ response = [p \in Programs |-> "none"]
  /\ request = [p \in Programs |-> "none"]
  /\ wrong = [p \in Programs |-> FALSE]

Main(p, from, to) == main[p] = from /\ main' = [main EXCEPT ![p] = to]
Thread(p, from, to) == ct[p] = from /\ ct' = [ct EXCEPT ![p] = to]

(* The thread uses evb while main drives it, or after it is gone.          *)
Uses(p) == wrong' = [wrong EXCEPT ![p] = @ \/ ~evb[p] \/ main[p] = "wait"]

Construct(p) ==
  \/ /\ Main(p, "evb", "ct")
     /\ evb' = [evb EXCEPT ![p] = TRUE]
     /\ UNCHANGED <<ct, owners, response, request, wrong>>
  \/ /\ Main(p, "ct", "newSyncClient")
     /\ Thread(p, "none", "idle")
     /\ UNCHANGED <<evb, owners, response, request, wrong>>

(* runInEventBaseThreadAndWait: main asks, ct works, main goes on.         *)
newSyncClient(p) ==
  /\ main[p] = "newSyncClient" /\ Thread(p, "idle", "connect")
  /\ UNCHANGED <<main, evb, owners, response, request, wrong>>

Connect(p) ==
  /\ Thread(p, "connect", "connected")
  /\ owners' = [owners EXCEPT ![p] = @ \cup {"ct"}]
  /\ Uses(p)
  /\ UNCHANGED <<main, evb, response, request>>

TakeClient(p) ==
  /\ Main(p, "newSyncClient", "sync_echo")
  /\ ct[p] = "connected"
  /\ owners' = [owners EXCEPT ![p] = @ \cup {"main"}]
  /\ UNCHANGED <<ct, evb, response, request, wrong>>

sync_echo(p) ==
  /\ Main(p, "sync_echo", "wait")
  /\ request' = [request EXCEPT ![p] = "sent"]
  /\ UNCHANGED <<ct, evb, owners, response, wrong>>

(* EchoHandler::echo answers with the message.                             *)
echo(p) ==
  /\ request[p] = "sent"
  /\ request' = [request EXCEPT ![p] = "echoed"]
  /\ UNCHANGED <<main, ct, evb, owners, response, wrong>>

(* The answer, or a TTransportException, which is caught and logged;       *)
(* another exception is not caught and ends the process.                   *)
Answered(p) ==
  /\ \/ /\ request[p] = "echoed"
        /\ Main(p, "wait", "return")
        /\ response' = [response EXCEPT ![p] = "echo"]
     \/ /\ Main(p, "wait", "return")
        /\ response' = [response EXCEPT ![p] = "TTransportException"]
     \/ /\ Main(p, "wait", "aborted")
        /\ response' = [response EXCEPT ![p] = "exception"]
  /\ UNCHANGED <<ct, evb, owners, request, wrong>>

LetGo(p, o) == owners' = [owners EXCEPT ![p] = @ \ {o}]

(* Mutant: the EventBase was declared after the client and its thread.     *)
ReturnEvbFirst(p) ==
  /\ Main(p, "return", "~ct")
  /\ LetGo(p, "main")
  /\ evb' = [evb EXCEPT ![p] = FALSE]
  /\ UNCHANGED <<ct, response, request, wrong>>

(* return destroys client, ct and evb, in this order.                      *)
Return(p) ==
  /\ Main(p, "return", "~ct")
  /\ LetGo(p, "main")
  /\ UNCHANGED <<ct, evb, response, request, wrong>>

(* ~ConnectionThread: connection_.reset() on the thread, then it is joined. *)
DestroyCt(p) ==
  /\ main[p] = "~ct"
  /\ Thread(p, "connected", "reset")
  /\ UNCHANGED <<main, evb, owners, response, request, wrong>>

(* Mutant: the thread keeps its connection and the joining never ends.     *)
ResetNot(p) ==
  /\ Thread(p, "reset", "reset")
  /\ UNCHANGED <<main, evb, owners, response, request, wrong>>

Reset(p) ==
  /\ Thread(p, "reset", "joined")
  /\ LetGo(p, "ct")
  /\ IF owners[p] = {"ct"} THEN Uses(p) ELSE UNCHANGED wrong
  /\ UNCHANGED <<main, evb, response, request>>

DestroyEvb(p) ==
  /\ \/ ct[p] = "joined" /\ Main(p, "~ct", "~evb") /\ UNCHANGED evb
     \/ Main(p, "~evb", "ended") /\ evb' = [evb EXCEPT ![p] = FALSE]
  /\ UNCHANGED <<ct, owners, response, request, wrong>>

MainStep(p) ==
  \/ Construct(p) \/ newSyncClient(p) \/ TakeClient(p) \/ sync_echo(p)
  \/ Answered(p) \/ Return(p) \/ DestroyCt(p) \/ DestroyEvb(p)

ThreadStep(p) == Connect(p) \/ Reset(p)

Next == \E p \in Programs : MainStep(p) \/ ThreadStep(p) \/ echo(p)

(* Fair are MainStep and ThreadStep: threads are scheduled, and a call is  *)
(* answered or times out.                                                  *)
Spec == Init /\ [][Next]_vars
-----------------------------------------------------------------------------
(* "create eventbase first so no dangling stack refs on 'client' dealloc"  *)
(* (EchoClient.cpp:33): the EventBase of the client is used by one thread  *)
(* at a time, and only while it exists, also when the last owner lets the  *)
(* client go on the other thread.                                          *)
NoDanglingRefs ==
  \A p \in Programs :
    /\ ~wrong[p]
    /\ owners[p] # {} => evb[p]
    /\ "main" \in owners[p] => "ct" \in owners[p]

(* Main and its thread wait for each other in turns (Util.h:88-103), and   *)
(* still every program ends.                                               *)
EchoEnds == \A p \in Programs : <>(main[p] \in {"ended", "aborted"})
=============================================================================
