---------------------------- MODULE MessageBoard ----------------------------
(***************************************************************************)
(* The whole message board (docker-compose.yml): clients, message service, *)
(* sanitization service and mock database, composed.  The statistics of    *)
(* each process are abstracted to the rows it recorded for each query,     *)
(* which is what ServerStats promises (StatsLog).                          *)
(***************************************************************************)
EXTENDS MessageService, Client

VARIABLE acknowledged  \* history: finds begun after a send of their user was acknowledged

vars == <<rpcVars, databaseVars, clientVars, acknowledged>>

Init == RpcInit /\ DatabaseInit /\ ClientInit /\ acknowledged = {}

(* A send the client saw succeed.                                          *)
Acked(q) == q \in Sends /\ outcome[q] = "reply" /\ result["message"][q] = "true"

(* The finds of c that begin in a step that leads to next', if one of the  *)
(* sends of its user was acknowledged already.                             *)
RememberAcks(c) ==
  acknowledged' = acknowledged \cup
    {q \in Finds : /\ q[1] = c /\ next[c] <= q[2] /\ q[2] < next'[c]
                   /\ \E p \in Queries : Acked(p) /\ client_id[p[1]] = client_id[c]}

Handlers ==
  /\ \/ DatabaseNext
     \/ /\ \E q \in Queries :
             sanitize_message(q) \/ find_last_message(q) \/ send_message(q)
        /\ UNCHANGED databaseVars
  /\ UNCHANGED <<clientVars, acknowledged>>

ClientProcess(c) == ClientStep(c) /\ RememberAcks(c) /\ UNCHANGED databaseVars

Booting ==
  /\ database_main \/ sanitization_main \/ message_main
  /\ UNCHANGED <<databaseVars, clientVars, acknowledged>>

(* What happens to the system, which nothing obliges to happen.            *)
Faults ==
  \/ /\ \/ database_int_handler \/ sanitization_int_handler \/ message_int_handler
        \/ \E s \in Services, q \in Queries : Expire(s, q)
     /\ UNCHANGED <<databaseVars, clientVars, acknowledged>>
  \/ /\ \E c \in Clients : StopClient(c)
     /\ UNCHANGED <<databaseVars, acknowledged>>

(* Every client has ended and no handler is left.                          *)
Over ==
  /\ \A c \in Clients : main[c] \in {"done", "dead"}
  /\ \A s \in Services, q \in Queries : stage[s][q] \in {"none", "done", "lost"}

Ended == Over /\ UNCHANGED vars

Progress == Booting \/ Handlers \/ \E c \in Clients : ClientProcess(c)

Next == Progress \/ Faults \/ Ended

Spec == Init /\ [][Next]_vars

(* Fairness: every process is scheduled and every thread that can go on    *)
(* eventually does.  No step can be repeated, so it is enough that some    *)
(* thread goes on as long as one can.                                      *)
FairSpec == Spec /\ WF_vars(Progress)
-----------------------------------------------------------------------------
(* The spans of a query nest the way data_analysis/plot_utils.py draws     *)
(* them: a process has recorded the first row before the process it calls  *)
(* records its own, and records the second row only when the processes it  *)
(* called have recorded theirs -- or refused the message with one row --   *)
(* whatever stops or expires on the way.                                   *)
SpansNest ==
  \A q \in Queries :
    LET rows(p) == entries[p][q]
    IN /\ rows("message") >= 1 => rows("client") >= 1
       /\ rows("sanitization") >= 1 => q \in Sends /\ rows("message") >= 1
       /\ rows("database") >= 1 => rows("message") >= 1
       /\ rows("database") >= 1 /\ q \in Sends => rows("sanitization") >= 1
       /\ rows("client") = 2 => rows("message") = 2
       /\ rows("message") = 2 =>
            \/ rows("database") = 2 /\ (q \in Sends => rows("sanitization") = 2)
            \/ Refused(q) /\ rows("sanitization") = 1 /\ rows("database") = 0
       /\ rows("sanitization") = 2 => rows("database") = 2

(* A send answered true was stored, one answered false was not and never   *)
(* is; a send that failed may have been stored or not.  A refused message  *)
(* is never stored.                                                        *)
AckedIsStored ==
  \A q \in Sends :
    /\ rpc["message"][q] = "returned" =>
         \/ result["message"][q] = "true" /\ (q \in stored \/ raced)
         \/ result["message"][q] = "false" /\ Refused(q)
    /\ Refused(q) => q \notin stored

(* A find begun after a client of the same user saw a send succeed returns *)
(* a message of that user and not the warning, unless the unlocked map was *)
(* accessed concurrently.                                                  *)
FindSeesAcked ==
  \A q \in acknowledged :
    rpc["message"][q] = "returned" /\ ~raced =>
      \E c \in Clients : /\ client_id[c] = client_id[q[1]]
                         /\ result["message"][q] = message[c]

(* A single synchronous client never makes the database's threads access   *)
(* last_messages at once, even when a call fails whose handlers still run. *)
SequentialAccess ==
  CLIENT_SYNC /\ Cardinality(Clients) = 1 => Cardinality(Accessing) <= 1 /\ ~raced

(* When a client prints its summary, each counter is the number of replies *)
(* its callbacks received.                                                 *)
Replies(c, Qs) == Cardinality({q \in Qs : q[1] = c /\ outcome[q] = "reply"})
CountersExact ==
  \A c \in Clients : main[c] = "done" =>
    /\ success[c]["send"] = Replies(c, Sends)
    /\ success[c]["find"] = Replies(c, Finds)

(* When a client prints "Received n/m successful send message calls", n    *)
(* sends were successful.                                                  *)
CountedSendsSucceeded ==
  \A c \in Clients : main[c] = "done" =>
    success[c]["send"] = Cardinality({q \in Sends : q[1] = c /\ Acked(q)})

(* A client that started ends: no answer is waited for forever, although   *)
(* no call has a timeout.                                                  *)
ClientEnds == \A c \in Clients : main[c] = "loop" ~> main[c] \in {"done", "dead"}

(* A worker thread that runs a handler is free again some time later, so   *)
(* the pools cannot be exhausted for good by handlers that wait on another *)
(* service.                                                                *)
WorkersFreed ==
  \A s \in Services, q \in Queries :
    q \in Busy(s) ~> stage[s][q] \in {"done", "lost"}
=============================================================================
