---------------------------- MODULE MockDatabase ----------------------------
(***************************************************************************)
(* MockDatabaseHandler (src/MockDatabase): last_messages, an unordered_map *)
(* from a client id to its last message, shared by the CPU threads of the  *)
(* server without a lock.  An access to it has a beginning and an end; a   *)
(* store that overlaps another access is a data race, whose outcome is     *)
(* undefined: the process crashes, or the store has no effect, or the find *)
(* returns any message or the warning.                                     *)
(***************************************************************************)
EXTENDS Rpc

CONSTANTS
  client_id,  \* client_id[c]: the user name client c sends
  message     \* message[c]: the text client c sends, every time

VARIABLES
  last_messages,  \* last_messages[u]: the message of user u, Warning if none
  racing,         \* accesses in progress that overlap a conflicting one
  raced,          \* history: a data race happened
  stored          \* history: the sends whose message was stored

databaseVars == <<last_messages, racing, raced, stored>>

Users    == {client_id[c] : c \in Clients}
Messages == {message[c] : c \in Clients}
Warning  == "WARNING: didn't post any message or doesn't exist"

ASSUME DatabaseAssumption ==
  /\ DOMAIN client_id = Clients /\ DOMAIN message = Clients
  /\ Warning \notin Messages

DatabaseInit ==
  /\ last_messages = [u \in Users |-> Warning]
  /\ racing = {}
  /\ raced = FALSE
  /\ stored = {}

(* After the sleep, the access to last_messages begins.                    *)
Accessing == {q \in Queries : stage["database"][q] = "accessing"}
Conflicts(q) == {p \in Accessing : p \in Sends \/ q \in Sends}

AccessBegin(q) ==
  /\ stage["database"][q] = "begun"
  /\ stage' = [stage EXCEPT !["database"][q] = "accessing"]
  /\ racing' = IF Conflicts(q) = {} THEN racing ELSE racing \cup Conflicts(q) \cup {q}
  /\ raced' = (raced \/ Conflicts(q) # {})
  /\ UNCHANGED <<server, channel, rpc, result, entries, last_messages, stored>>

FindAccess(q) ==
  /\ stage["database"][q] = "accessing"
  /\ \E found \in IF q \in racing THEN Messages \cup {Warning}
                                  ELSE {last_messages[client_id[q[1]]]} :
       result' = [result EXCEPT !["database"][q] = found]
  /\ stage' = [stage EXCEPT !["database"][q] = "accessed"]
  /\ racing' = racing \ {q}
  /\ UNCHANGED <<server, channel, rpc, entries, last_messages, raced, stored>>

(* Mutant: the message is stored into a copy of the map. *)
StoreAccessDropped(q) ==
  /\ stage["database"][q] = "accessing"
  /\ result' = [result EXCEPT !["database"][q] = "true"]
  /\ stage' = [stage EXCEPT !["database"][q] = "accessed"]
  /\ racing' = racing \ {q}
  /\ UNCHANGED <<server, channel, rpc, entries, last_messages, raced, stored>>

StoreAccess(q) ==
  /\ stage["database"][q] = "accessing"
  /\ \/ /\ last_messages' = [last_messages EXCEPT ![client_id[q[1]]] = message[q[1]]]
        /\ stored' = stored \cup {q}
     \/ /\ q \in racing
        /\ UNCHANGED <<last_messages, stored>>
  /\ result' = [result EXCEPT !["database"][q] = "true"]
  /\ stage' = [stage EXCEPT !["database"][q] = "accessed"]
  /\ racing' = racing \ {q}
  /\ UNCHANGED <<server, channel, rpc, entries, raced>>

(* The second row is recorded and the caller answered.                     *)
DatabaseReturn(q) ==
  /\ stage["database"][q] = "accessed"
  /\ add_entry("database", q)
  /\ Return("database", q, result["database"][q])
  /\ UNCHANGED <<server, channel, databaseVars>>

DatabaseCrash ==
  /\ racing # {}
  /\ server["database"] = "up"
  /\ Down("database")
  /\ UNCHANGED databaseVars

db_find_last_message(q) ==
  /\ q \in Finds
  /\ \/ Begin("database", q) /\ UNCHANGED databaseVars
     \/ AccessBegin(q)
     \/ FindAccess(q)
     \/ DatabaseReturn(q)

db_store_message(q) ==
  /\ q \in Sends
  /\ \/ Begin("database", q) /\ UNCHANGED databaseVars
     \/ AccessBegin(q)
     \/ StoreAccess(q)
     \/ DatabaseReturn(q)

DatabaseNext ==
  \/ \E q \in Queries : db_find_last_message(q) \/ db_store_message(q)
  \/ DatabaseCrash

database_main        == Boot("database")
database_int_handler == Stop("database")
=============================================================================
