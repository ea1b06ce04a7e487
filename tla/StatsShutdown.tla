--------------------------- MODULE StatsShutdown ---------------------------
(***************************************************************************)
(* The ends of the client process (src/Client/Client.cpp): main deletes    *)
(* client_stat_manager when it is done, and int_handler deletes it on      *)
(* SIGINT, on any thread that does not run the handler already (the signal *)
(* is blocked there).  So several threads may be in the destructor         *)
(* (src/shared/ServerStats.h:76-78) at once: each appends all rows to the  *)
(* same file, frees the buffers and goes on to end the process: an abort   *)
(* in the delete, or exit, or the return of main.  The latter two run the  *)
(* destructors of the static objects, and client_stat_manager is one: the  *)
(* first thread that comes there dumps it once more.  A row read after the *)
(* buffers were freed is garbage, or the process crashes.  No thread       *)
(* records any more; recording while a dump runs is ServerStats.           *)
(***************************************************************************)
EXTENDS Integers, Sequences

CONSTANTS
  Threads,
  Main,       \* the thread that returns from main
  Rows        \* the rows of the buffer

VARIABLES
  pc,         \* pc[t]: "run", "dump", "free" or "end"
  handling,   \* handling[t]: int_handler runs on t
  own,        \* own[t]: the rows t has written to the file it has open
  freed,      \* data_buffers was freed
  exiting,    \* exit, or the return of main, destroys the static objects
  closed,     \* history: the first dump whose file was closed, once there is one
  ended       \* "no", "exit", "abort" or "crash"

vars == <<pc, handling, own, freed, exiting, closed, ended>>

Init ==
  /\ pc = [t \in Threads |-> "run"]
  /\ handling = [t \in Threads |-> FALSE]
  /\ own = [t \in Threads |-> <<>>]
  /\ freed = FALSE
  /\ exiting = FALSE
  /\ closed = <<>>
  /\ ended = "no"

Garbage == 0
Whole   == [i \in 1..Rows |-> i]

Dump(t) ==
  /\ pc' = [pc EXCEPT ![t] = "dump"]
  /\ own' = [own EXCEPT ![t] = <<>>]

main ==
  /\ ended = "no"
  /\ pc[Main] = "run"
  /\ Dump(Main)
  /\ UNCHANGED <<handling, freed, exiting, closed, ended>>

(* Mutant: a handler that finds another dump under way only exits.         *)
int_handler_once(t) ==
  /\ ended = "no"
  /\ ~handling[t]
  /\ handling' = [handling EXCEPT ![t] = TRUE]
  /\ IF \E u \in Threads : pc[u] = "dump"
     THEN pc' = [pc EXCEPT ![t] = "end"] /\ UNCHANGED own
     ELSE Dump(t)
  /\ UNCHANGED <<freed, exiting, closed, ended>>

(* On the main thread it may interrupt main in its delete.                 *)
int_handler(t) ==
  /\ ended = "no"
  /\ ~handling[t]
  /\ handling' = [handling EXCEPT ![t] = TRUE]
  /\ Dump(t)
  /\ UNCHANGED <<freed, exiting, closed, ended>>

dump_matrix(t) ==
  /\ ended = "no"
  /\ pc[t] = "dump"
  /\ Len(own[t]) < Rows
  /\ \/ /\ \E row \in {Len(own[t]) + 1} \cup (IF freed THEN {Garbage} ELSE {}) :
             own' = [own EXCEPT ![t] = Append(@, row)]
        /\ UNCHANGED ended
     \/ freed /\ ended' = "crash" /\ UNCHANGED own
  /\ UNCHANGED <<pc, handling, freed, exiting, closed>>

CloseFile(t) ==
  /\ ended = "no"
  /\ pc[t] = "dump"
  /\ Len(own[t]) = Rows
  /\ closed' = IF closed = <<>> THEN <<own[t]>> ELSE closed
  /\ own' = [own EXCEPT ![t] = <<>>]
  /\ pc' = [pc EXCEPT ![t] = "free"]
  /\ UNCHANGED <<handling, freed, exiting, ended>>

(* The destructor of data_buffers, a second time for a second thread.      *)
FreeBuffers(t) ==
  /\ ended = "no"
  /\ pc[t] = "free"
  /\ freed' = TRUE
  /\ pc' = [pc EXCEPT ![t] = "end"]
  /\ ended' \in IF freed THEN {"no", "crash"} ELSE {"no"}
  /\ UNCHANGED <<handling, own, exiting, closed>>

(* exit, or the return of main: the first thread runs the destructor of    *)
(* the static object, the others find nothing left to destroy.             *)
exit(t) ==
  IF exiting
  THEN ended' = "exit" /\ UNCHANGED <<pc, own, exiting>>
  ELSE exiting' = TRUE /\ Dump(t) /\ UNCHANGED ended

(* Mutant: int_handler returns instead of calling exit.                    *)
EndProcessReturns(t) ==
  /\ ended = "no"
  /\ pc[t] = "end"
  /\ IF handling[t]
     THEN pc' = [pc EXCEPT ![t] = "run"] /\ UNCHANGED <<own, exiting, ended>>
     ELSE exit(t)
  /\ UNCHANGED <<handling, freed, closed>>

(* The delete of memory that new did not return, and exit if it returns.   *)
EndProcess(t) ==
  /\ ended = "no"
  /\ pc[t] = "end"
  /\ \/ ended' = "abort" /\ UNCHANGED <<pc, own, exiting>>
     \/ exit(t)
  /\ UNCHANGED <<handling, freed, closed>>

(* Every thread of the process is scheduled: the steps of a destructor are *)
(* fair; no signal has to come.                                            *)
Destructor(t) == dump_matrix(t) \/ CloseFile(t) \/ FreeBuffers(t) \/ EndProcess(t)

Next == main \/ \E t \in Threads : int_handler(t) \/ Destructor(t)

Spec == Init /\ [][Next]_vars
-----------------------------------------------------------------------------
(* However many threads run the destructor (Client.cpp:32, 148), and       *)
(* wherever they interrupt one another, the process does not end before    *)
(* one dump is whole and closed: the first one that is closed.             *)
FirstDumpWhole ==
  /\ closed # <<>> => closed[1] = Whole
  /\ ended # "no" => closed # <<>>

(* A process that begins to shut down ends.                                *)
ShutdownEnds == (\E t \in Threads : pc[t] # "run") ~> (ended # "no")
=============================================================================
