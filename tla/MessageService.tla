--------------------------- MODULE MessageService ---------------------------
(***************************************************************************)
(* MessageServiceHandler (src/MessageService): find_last_message asks the  *)
(* database, send_message the sanitization service; both record a row,     *)
(* make their remote call, sleep, wait for the answer while they keep      *)
(* their thread, and record a second row.                                  *)
(***************************************************************************)
EXTENDS SanitizationService

Callee(q) == IF q \in Finds THEN "database" ELSE "sanitization"

MessageCall(q) ==
  /\ stage["message"][q] = "begun"
  /\ CallFrom("message", Callee(q), q, [stage EXCEPT !["message"][q] = "called"])
  /\ UNCHANGED <<server, result, entries>>

(* Mutant: the handler answers without f.wait(). *)
MessageReturnEarly(q) ==
  /\ stage["message"][q] = "called"
  /\ rpc[Callee(q)][q] # "failed"
  /\ add_entry("message", q)
  /\ Return("message", q, result[Callee(q)][q])
  /\ UNCHANGED <<server, channel>>

MessageReturn(q) ==
  /\ stage["message"][q] = "called"
  /\ rpc[Callee(q)][q] = "returned"
  /\ add_entry("message", q)
  /\ Return("message", q, result[Callee(q)][q])
  /\ UNCHANGED <<server, channel>>

(* Mutant: the exception is swallowed and res is true by default. *)
MessageThrowSwallowed(q) ==
  /\ stage["message"][q] = "called"
  /\ rpc[Callee(q)][q] = "failed"
  /\ Return("message", q, "true")
  /\ UNCHANGED <<server, channel, entries>>

MessageThrow(q) ==
  /\ stage["message"][q] = "called"
  /\ rpc[Callee(q)][q] = "failed"
  /\ Throw("message", q)
  /\ UNCHANGED <<server, channel, entries>>

find_last_message(q) ==
  /\ q \in Finds
  /\ Begin("message", q) \/ MessageCall(q) \/ MessageReturn(q) \/ MessageThrow(q)

send_message(q) ==
  /\ q \in Sends
  /\ Begin("message", q) \/ MessageCall(q) \/ MessageReturn(q) \/ MessageThrow(q)

message_main        == Boot("message")
message_int_handler == Stop("message")
=============================================================================
