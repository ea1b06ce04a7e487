----------------------------- MODULE RemoteCall -----------------------------
(***************************************************************************)
(* What the handlers may rely on when they call another service through a  *)
(* client they share: the channel is opened once and, when it breaks,      *)
(* stays broken; a call returns only if the channel was open, fails only   *)
(* if it broke, and does one of the two.                                   *)
(***************************************************************************)
CONSTANT Workers

VARIABLES
  channel,    \* "opening", "open" or "broken"
  call        \* call[w]: "none", "pending", "returned" or "failed"

vars == <<channel, call>>

Init ==
  /\ channel = "opening"
  /\ call = [w \in Workers |-> "none"]

Pending == {w \in Workers : call[w] = "pending"}

Settle(ws, outcome) == call' = [w \in Workers |-> IF w \in ws THEN outcome ELSE call[w]]

Open == channel = "opening" /\ channel' = "open" /\ UNCHANGED call

(* The calls under way fail, those that are not sent yet may do so later.  *)
Break ==
  /\ channel # "broken" /\ channel' = "broken"
  /\ \E ws \in SUBSET Pending : Settle(ws, "failed")

Call(w) ==
  /\ call[w] = "none"
  /\ Settle({w}, "pending")
  /\ UNCHANGED channel

Return(w) ==
  /\ channel = "open" /\ w \in Pending
  /\ Settle({w}, "returned")
  /\ UNCHANGED channel

Fail(w) ==
  /\ channel = "broken" /\ w \in Pending
  /\ Settle({w}, "failed")
  /\ UNCHANGED channel

Done(w) == call[w] \in {"returned", "failed"} /\ Settle({w}, "none") /\ UNCHANGED channel

Next ==
  \/ Open \/ Break
  \/ \E w \in Workers : Call(w) \/ Return(w) \/ Fail(w) \/ Done(w)

Spec == Init /\ [][Next]_vars

(* No call is left without an outcome.                                     *)
Answered == \A w \in Workers : (call[w] = "pending") ~> (call[w] # "pending")
=============================================================================
