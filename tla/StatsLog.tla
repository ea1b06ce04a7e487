------------------------------ MODULE StatsLog ------------------------------
(***************************************************************************)
(* What ServerStatsManager promises its users: a call is recorded at most  *)
(* once, in a log that only grows, and when the process is stopped the log *)
(* as it was at that moment is saved, once, each call as a row whose two   *)
(* words (query id and time) belong to the same call.                      *)
(***************************************************************************)
EXTENDS Naturals, Sequences

CONSTANT Calls

VARIABLES
  log,     \* the calls recorded, in order
  limit,   \* length of the log when the save was asked for
  state,   \* "up", "stopping", "saved" or "lost"
  saved    \* the rows saved

vars == <<log, limit, state, saved>>

Init ==
  /\ log = << >>
  /\ limit = 0
  /\ state = "up"
  /\ saved = << >>

(* A call returns to its caller with its row recorded.                     *)
Record(c) ==
  /\ \A i \in 1 .. Len(log) : log[i] # c
  /\ log' = Append(log, c)
  /\ UNCHANGED <<limit, state, saved>>

(* The process is told to stop.                                            *)
Stop ==
  /\ state = "up"
  /\ state' = "stopping"
  /\ limit' = Len(log)
  /\ UNCHANGED <<log, saved>>

(* The file is complete.                                                   *)
Save ==
  /\ state = "stopping"
  /\ state' = "saved"
  /\ saved' = [i \in 1 .. limit |-> [id |-> log[i], time |-> log[i]]]
  /\ UNCHANGED <<log, limit>>

Next == (\E c \in Calls : Record(c)) \/ Stop \/ Save

Spec == Init /\ [][Next]_vars

FairSpec == Spec /\ WF_vars(Save)
=============================================================================
