------------------------ MODULE SanitizationService ------------------------
(***************************************************************************)
(* SanitizationHandler::sanitize_message (src/SanitizationService): a      *)
(* message with a forbidden character is refused at once, any other is     *)
(* passed on to the database.  In the synchronous and in the asynchronous  *)
(* build the handler makes one remote call and keeps its thread until it   *)
(* is answered.                                                            *)
(***************************************************************************)
EXTENDS MockDatabase

CONSTANT Forbidden    \* the messages the regular expression matches

Refused(q) == message[q[1]] \in Forbidden

(* The early return: no second row is recorded.                            *)
SanitizeRefuse(q) ==
  /\ stage["sanitization"][q] = "begun"
  /\ Refused(q)
  /\ Return("sanitization", q, "false")
  /\ UNCHANGED <<server, channel, entries>>

SanitizeCall(q) ==
  /\ stage["sanitization"][q] = "begun"
  /\ ~Refused(q)
  /\ CallFrom("sanitization", "database", q,
              [stage EXCEPT !["sanitization"][q] = "called"])
  /\ UNCHANGED <<server, result, entries>>

SanitizeReturn(q) ==
  /\ stage["sanitization"][q] = "called"
  /\ rpc["database"][q] = "returned"
  /\ add_entry("sanitization", q)
  /\ Return("sanitization", q, result["database"][q])
  /\ UNCHANGED <<server, channel>>

(* Mutant: a failed call is waited for forever. *)
SanitizeHang(q) == FALSE

(* f.value() throws, so does the handler.                                  *)
SanitizeThrow(q) ==
  /\ stage["sanitization"][q] = "called"
  /\ rpc["database"][q] = "failed"
  /\ Throw("sanitization", q)
  /\ UNCHANGED <<server, channel, entries>>

sanitize_message(q) ==
  \/ Begin("sanitization", q)
  \/ SanitizeRefuse(q)
  \/ SanitizeCall(q)
  \/ SanitizeReturn(q)
  \/ SanitizeThrow(q)

sanitization_main        == Boot("sanitization")
sanitization_int_handler == Stop("sanitization")
=============================================================================
