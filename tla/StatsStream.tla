---------------------------- MODULE StatsStream ----------------------------
(***************************************************************************)
(* The other ServerStatsManager (src/shared/ServerStats.h:86-118), built   *)
(* when VECTOR_BUFFER_VERSION is not defined: a row is inserted in an      *)
(* ofstream as it comes and the stream is flushed every entry_count rows.  *)
(* It is driven by the program that src/shared/ServerStats.cpp:8-53 keeps  *)
(* for it: one thread, server_stats_stress.  The process may be stopped    *)
(* inside a row, by SIGINT (int_handler, which closes the stream) or by a  *)
(* signal that leaves the stream's buffer behind.  A row is two pieces     *)
(* here, the id with its comma and the time with its newline.              *)
(***************************************************************************)
EXTENDS Integers, Sequences, SequencesExt

CONSTANTS
  entry_count,
  entry_test_number

(* The calls of add_entry, in order: two for each i.                       *)
Calls == 1 .. 2 * entry_test_number

(* A row is made by the call it records; 0 is a call of an earlier run.    *)
Pieces(c) == <<[word |-> "id", call |-> c], [word |-> "time", call |-> c]>>

VARIABLES
  erase_previous_file, overwrite,   \* arguments of the constructor
  pc,            \* "construct", "check", "id", "time", "stop" or "closed"
  killed,        \* the process ended without the destructor
  call,          \* the call of add_entry that is made
  entry_cursor,
  file,          \* the pieces in the file
  pending,       \* the pieces in the stream's buffer
  limit,         \* history: rows recorded when SIGINT came
  torn           \* history: SIGINT came inside a row

arguments == <<erase_previous_file, overwrite>>
vars == <<arguments, pc, killed, call, entry_cursor, file, pending, limit, torn>>

Init ==
  /\ erase_previous_file \in BOOLEAN /\ overwrite \in BOOLEAN
  /\ pc = "construct"
  /\ killed = FALSE
  /\ call = 1
  /\ entry_cursor = 0
  /\ file = Pieces(0) /\ pending = <<>>
  /\ limit = 0
  /\ torn = FALSE

Construct ==
  /\ pc = "construct"
  /\ file' = IF erase_previous_file \/ overwrite THEN <<>> ELSE file
  /\ pc' = "check"
  /\ UNCHANGED <<call, entry_cursor, pending, limit, torn>>

flush == file' = file \o pending /\ pending' = <<>>

(* Mutant: the comparison with entry_count is off by one.                  *)
CheckLate ==
  /\ pc = "check" /\ call \in Calls
  /\ IF entry_cursor > entry_count
     THEN flush /\ entry_cursor' = 0
     ELSE UNCHANGED <<file, pending, entry_cursor>>
  /\ pc' = "id"
  /\ UNCHANGED <<call, limit, torn>>

Check ==
  /\ pc = "check" /\ call \in Calls
  /\ IF entry_cursor >= entry_count
     THEN flush /\ entry_cursor' = 0
     ELSE UNCHANGED <<file, pending, entry_cursor>>
  /\ pc' = "id"
  /\ UNCHANGED <<call, limit, torn>>

InsertId ==
  /\ pc = "id"
  /\ pending' = Append(pending, [word |-> "id", call |-> call])
  /\ pc' = "time"
  /\ UNCHANGED <<call, entry_cursor, file, limit, torn>>

(* The row ends; server_stats_stress sleeps or goes on with the next i.    *)
InsertTime ==
  /\ pc = "time"
  /\ pending' = Append(pending, [word |-> "time", call |-> call])
  /\ entry_cursor' = entry_cursor + 1
  /\ call' = call + 1
  /\ pc' = "check"
  /\ UNCHANGED <<file, limit, torn>>

(* The stream writes its buffer when it likes to.                          *)
Overflow ==
  /\ pc \in {"id", "time", "check"} /\ pending # <<>>
  /\ flush
  /\ UNCHANGED <<pc, call, entry_cursor, limit, torn>>

(* The program is done, or SIGINT interrupts it.                           *)
Stop ==
  /\ pc \in {"id", "time", "check"}
  /\ limit' = call - 1
  /\ torn' = (pc = "time")
  /\ pc' = "stop"
  /\ UNCHANGED <<call, entry_cursor, file, pending>>

(* Mutant: the file is given up without what is still in the buffer.       *)
CloseUnflushed ==
  /\ pc = "stop"
  /\ pending' = <<>>
  /\ pc' = "closed"
  /\ UNCHANGED <<call, entry_cursor, file, limit, torn>>

(* ~ServerStatsManager: close writes what is in the buffer.                *)
Close ==
  /\ pc = "stop"
  /\ flush
  /\ pc' = "closed"
  /\ UNCHANGED <<call, entry_cursor, limit, torn>>

(* The process ends without the destructor.                                *)
Kill ==
  /\ pc # "closed"
  /\ killed' = TRUE
  /\ pending' = <<>>
  /\ UNCHANGED <<pc, call, entry_cursor, file, limit, torn>>

server_stats_stress == Check \/ InsertId \/ InsertTime

Next ==
  /\ ~killed
  /\ \/ Kill
     \/ UNCHANGED killed /\ (Construct \/ server_stats_stress \/ Overflow \/ Stop \/ Close)
  /\ UNCHANGED arguments

Spec == Init /\ [][Next]_vars
-----------------------------------------------------------------------------
(* What is this run's in the file: the whole rows, and the id of a torn    *)
(* last line.                                                              *)
Before       == IF erase_previous_file \/ overwrite THEN <<>> ELSE Pieces(0)
RowsOf(pieces) == [i \in 1 .. (Len(pieces) - Len(Before)) \div 2 |->
                   LET at == Len(Before) + 2 * i
                   IN  [id |-> pieces[at - 1].call, time |-> pieces[at].call]]
TornOf(pieces) == IF (Len(pieces) - Len(Before)) % 2 = 1
                  THEN <<pieces[Len(pieces)].call>> ELSE <<>>

(* What a kill at this moment loses (ServerStats.cpp:156-162): at most the *)
(* last entry_count rows, never one from the middle of the file nor one of *)
(* an earlier run whose file was to be kept.  A line is torn only at the   *)
(* end, and the close after SIGINT leaves one just when SIGINT came inside *)
(* a row (ServerStats.cpp:161).                                            *)
LossBounded ==
  pc # "construct" =>
    /\ Len(pending) <= 2 * entry_count
    /\ IsPrefix(Before, file)
    /\ ~killed =>
         /\ RowsOf(file \o pending) = [i \in 1 .. call - 1 |-> [id |-> i, time |-> i]]
         /\ TornOf(file \o pending) = IF torn \/ pc = "time" THEN <<call>> ELSE <<>>

(* This manager keeps the promise StatsLog makes, as the buffers do, but   *)
(* without a capacity: the whole rows of the file that is closed are every *)
(* row, in order (LossBounded says when a torn line follows them).  A      *)
(* process that is killed never comes to save.                             *)
Log == INSTANCE StatsLog WITH
  log   <- [i \in 1 .. call - 1 |-> i],
  state <- IF pc = "stop" THEN "stopping" ELSE IF pc = "closed" THEN "saved" ELSE "up",
  saved <- IF pc = "closed" THEN RowsOf(file) ELSE <<>>

SavesAsLog == Log!Spec
=============================================================================
