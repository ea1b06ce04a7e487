----------------------------- MODULE ClientMap -----------------------------
(***************************************************************************)
(* The client maps of the SYNC build: MessageService.cpp (mock_map,        *)
(* sanit_map) and SanitizationService.cpp (mock_map).  A sync_ call drives *)
(* the EventBase of its client on the calling thread, so each worker keeps *)
(* a client of its own in a map keyed by its thread id.  The maps have no  *)
(* lock: find and insert take time, and an insert that overlaps another    *)
(* access of the map is a data race (undefined: a wrong result of the find *)
(* or a lost insertion, chosen here).                                      *)
(* Bound: MaxCalls calls of each worker.                                   *)
(***************************************************************************)
EXTENDS Integers, FiniteSets

CONSTANTS
  Workers,   \* the worker threads of the server
  Maps,      \* the maps of the handler; one for each service it calls
  MaxCalls

NoClient == "none"

VARIABLES
  map,       \* map[m][t]: the client under thread id t
  pc,        \* pc[t]: "idle", "find", "insert" or "call"
  at,        \* at[t]: the map it uses
  client,    \* client[t]: the client it found or made
  made,      \* history: made[m][t], the clients t made for m
  calls,
  raced      \* history: an insertion overlapped another access

vars == <<map, pc, at, client, made, calls, raced>>

Init ==
  /\ map = [m \in Maps |-> [t \in Workers |-> NoClient]]
  /\ pc = [t \in Workers |-> "idle"]
  /\ at \in [Workers -> Maps]
  /\ client = [t \in Workers |-> NoClient]
  /\ made = [m \in Maps |-> [t \in Workers |-> 0]]
  /\ calls = [t \in Workers |-> 0]
  /\ raced = FALSE

Accessing(t, m) == at[t] = m /\ pc[t] \in {"find", "insert"}
Overlaps(t, m)  == \E u \in Workers \ {t} : Accessing(u, m)
Inserts(t, m)   == \E u \in Workers \ {t} : at[u] = m /\ pc[u] = "insert"
Others(t, m)    == {map[m][u] : u \in Workers \ {t}}

FindBegin(t, m) ==
  /\ pc[t] = "idle"
  /\ calls[t] < MaxCalls
  /\ calls' = [calls EXCEPT ![t] = @ + 1]
  /\ at' = [at EXCEPT ![t] = m]
  /\ pc' = [pc EXCEPT ![t] = "find"]
  /\ raced' = (raced \/ Inserts(t, m))
  /\ UNCHANGED <<map, client, made>>

(* Mutant: every worker takes the first client of the map.                 *)
FindAny(t) ==
  LET m     == at[t]
      found == {map[m][u] : u \in Workers} \ {NoClient}
  IN  /\ pc[t] = "find"
      /\ \/ /\ found = {}
            /\ pc' = [pc EXCEPT ![t] = "insert"]
            /\ raced' = (raced \/ Overlaps(t, m))
            /\ UNCHANGED client
         \/ /\ found # {}
            /\ client' = [client EXCEPT ![t] = CHOOSE c \in found : TRUE]
            /\ pc' = [pc EXCEPT ![t] = "call"]
            /\ UNCHANGED raced
      /\ UNCHANGED <<map, at, made, calls>>

(* find returns: end(), and the worker makes a client and inserts it, or   *)
(* the client of this thread.                                              *)
FindEnd(t) ==
  LET m     == at[t]
      found == {map[m][t]} \cup (IF raced THEN Others(t, m) \cup {NoClient} ELSE {})
  IN  /\ pc[t] = "find"
      /\ \/ /\ NoClient \in found
            /\ pc' = [pc EXCEPT ![t] = "insert"]
            /\ raced' = (raced \/ Overlaps(t, m))
            /\ UNCHANGED client
         \/ /\ client' \in {[client EXCEPT ![t] = c] : c \in found \ {NoClient}}
            /\ pc' = [pc EXCEPT ![t] = "call"]
            /\ UNCHANGED raced
      /\ UNCHANGED <<map, at, made, calls>>

InsertEnd(t) ==
  LET m == at[t]
  IN  /\ pc[t] = "insert"
      /\ made' = [made EXCEPT ![m][t] = @ + 1]
      /\ client' = [client EXCEPT ![t] = IF map[m][t] = NoClient THEN t ELSE map[m][t]]
      /\ \/ map' = [map EXCEPT ![m][t] = client'[t]]
         \/ raced /\ UNCHANGED map
      /\ pc' = [pc EXCEPT ![t] = "call"]
      /\ UNCHANGED <<at, calls, raced>>

(* Mutant: a client whose call failed is taken out of the map.             *)
CallEndErase(t) ==
  /\ pc[t] = "call"
  /\ pc' = [pc EXCEPT ![t] = "idle"]
  /\ map' \in {map, [map EXCEPT ![at[t]][t] = NoClient]}
  /\ UNCHANGED <<at, client, made, calls, raced>>

(* The call returns or throws; the client stays where it is.               *)
CallEnd(t) ==
  /\ pc[t] = "call"
  /\ pc' = [pc EXCEPT ![t] = "idle"]
  /\ UNCHANGED <<map, at, client, made, calls, raced>>

Next == \E t \in Workers :
  \/ \E m \in Maps : FindBegin(t, m)
  \/ FindEnd(t) \/ InsertEnd(t) \/ CallEnd(t)

Spec == Init /\ [][Next]_vars
-----------------------------------------------------------------------------
(* What the maps are for (MessageService.cpp:17-25): unless accesses raced, *)
(* a worker calls through a client it made itself, so no two threads drive *)
(* the same EventBase, and it makes one client for each service.  What a   *)
(* race leads to is in the model, and is not covered: it breaks both.      *)
OwnClient ==
  ~raced => \A t \in Workers :
    /\ pc[t] = "call" => client[t] = t
    /\ \A m \in Maps : made[m][t] <= 1

(* Once every worker has its clients, the maps are only read, and no call  *)
(* can race any more: only the first calls of the workers are in danger,   *)
(* and that these can race is not denied.                                  *)
Warm == \A m \in Maps, t \in Workers : map[m][t] # NoClient /\ pc[t] # "insert"

WarmNeverRaces == [][Warm /\ ~raced => Warm' /\ ~raced']_vars

=============================================================================
