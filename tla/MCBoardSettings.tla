--------------------------- MODULE MCBoardSettings ---------------------------
(* The message board in four settings, one of which a behaviour has: no    *)
(* more is in common between them than the variables.                      *)
EXTENDS BoardValues

VARIABLES
  setting,
  server, channel, rpc, stage, result, entries,
  last_messages, racing, raced, stored,
  main, next, attached, running, loaded, success, outcome, acknowledged

vars == <<setting, server, channel, rpc, stage, result, entries, last_messages, racing, raced,
          stored, main, next, attached, running, loaded, success, outcome, acknowledged>>

(* An asynchronous client: calls in flight at once, no fault.              *)
Async == INSTANCE MessageBoard WITH
  Clients <- {"c1"}, iterations <- 3, Workers <- 2, Forbidden <- {"Test*Message"},
  client_id <- OneId, message <- OneMessage,
  SYNC <- FALSE, CLIENT_SYNC <- FALSE, WaitReady <- TRUE, MayStop <- {}, MayExpire <- FALSE

(* Processes start in any order and stop, requests expire.                 *)
AsyncFaults == INSTANCE MessageBoard WITH
  Clients <- {"c1"}, iterations <- 2, Workers <- 1, Forbidden <- {"Test*Message"},
  client_id <- OneId, message <- OneMessage,
  SYNC <- FALSE, CLIENT_SYNC <- FALSE, WaitReady <- FALSE, MayExpire <- TRUE,
  MayStop <- {"message", "sanitization", "database", "c1"}

(* Two synchronous clients of one user; the messages of one are refused.   *)
Sync == INSTANCE MessageBoard WITH
  Clients <- {"c1", "c2"}, iterations <- 3, Workers <- 2, Forbidden <- {"Test*Message"},
  client_id <- SharedId,
  message <- TwoMessages,
  SYNC <- TRUE, CLIENT_SYNC <- TRUE, WaitReady <- TRUE, MayStop <- {}, MayExpire <- FALSE

(* One synchronous client, calls that fail while their handlers go on.     *)
SyncFaults == INSTANCE MessageBoard WITH
  Clients <- {"c1"}, iterations <- 4, Workers <- 2, Forbidden <- {"Test*Message"},
  client_id <- OneId, message <- OneMessage,
  SYNC <- TRUE, CLIENT_SYNC <- TRUE, WaitReady <- FALSE, MayStop <- {"sanitization", "message"},
  MayExpire <- TRUE

Init ==
  \/ setting = "async" /\ Async!Init
  \/ setting = "async_faults" /\ AsyncFaults!Init
  \/ setting = "sync" /\ Sync!Init
  \/ setting = "sync_faults" /\ SyncFaults!Init

Next ==
  /\ \/ setting = "async" /\ Async!Next
     \/ setting = "async_faults" /\ AsyncFaults!Next
     \/ setting = "sync" /\ Sync!Next
     \/ setting = "sync_faults" /\ SyncFaults!Next
  /\ UNCHANGED setting

Spec == Init /\ [][Next]_vars

(* FindSeesAcked of MessageBoard, in every setting.                        *)
FindSeesAcked ==
  CASE setting = "async" -> Async!FindSeesAcked
    [] setting = "async_faults" -> AsyncFaults!FindSeesAcked
    [] setting = "sync" -> Sync!FindSeesAcked
    [] setting = "sync_faults" -> SyncFaults!FindSeesAcked

(* CountersExact of MessageBoard, for the builds whose callbacks run one   *)
(* at a time.                                                              *)
CountersExact ==
  CASE setting = "sync" -> Sync!CountersExact
    [] setting = "sync_faults" -> SyncFaults!CountersExact
    [] OTHER -> TRUE

(* SequentialAccess of MessageBoard, with one synchronous client.          *)
SequentialAccess == setting = "sync_faults" => SyncFaults!SequentialAccess
=============================================================================
