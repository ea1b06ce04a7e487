---------------------------- MODULE ServerStats ----------------------------
(***************************************************************************)
(* ServerStatsManager (src/shared/ServerStats.h, ServerStats.cpp, the      *)
(* VECTOR_BUFFER_VERSION that is compiled): every process of the message   *)
(* board owns one.  The threads of the process call add_entry, which       *)
(* stores a (query_id, time) row into the active one of buffer_count       *)
(* in-memory buffers; the destructor, run by the SIGINT handler (or at the *)
(* end of the client's main), writes the active buffer to a csv file.      *)
(*                                                                         *)
(* A step is one access to shared memory.  The wrap test, the reset of the *)
(* cursor and the rotation of the active buffer are made without the       *)
(* mutex, so they are steps of their own; entry_cursor += 1 and            *)
(* active_buffer = (active_buffer + 1) % buffer_count are a load and a     *)
(* store.  The accesses are atomic words in program order: the default     *)
(* build has no optimisation option (OPTI3 is OFF).                        *)
(*                                                                         *)
(* The k-th call of add_entry is the number k and stands for both words of *)
(* the row it writes, so a row whose words differ is a torn row and 0 is   *)
(* the word the constructor fills the buffers with.                        *)
(***************************************************************************)
EXTENDS Integers, Sequences, FiniteSets

CONSTANTS
  Threads,        \* the threads of the process that call add_entry
  NoThread,       \* nobody: the owner of a free mutex, no handler running
  MainThread,     \* the thread blocked in serve(), which calls no add_entry
  entry_count,    \* rows of a buffer
  buffer_count,   \* number of buffers
  MaxCalls        \* bound on the calls of add_entry in a behaviour

ASSUME ThreadsAssumption ==
  /\ IsFiniteSet(Threads)
  /\ NoThread \notin Threads \cup {MainThread}
  /\ MainThread \notin Threads

ASSUME CountsAssumption ==
  /\ entry_count \in Nat \ {0}
  /\ buffer_count \in Nat \ {0}
  /\ MaxCalls \in Nat

VARIABLES
  data_buffers,        \* data_buffers[b][r]: row r of buffer b
  active_buffer,
  entry_cursor,
  entry_saving_mutex,  \* the thread that holds it, or NoThread
  pc,                  \* where each thread is in add_entry
  call,                \* the call each thread is executing
  buffer,              \* the value of active_buffer each thread loaded, ...
  register,            \* ... and of entry_cursor (of active_buffer to rotate)
  started,             \* number of calls of add_entry begun
  process,             \* "up", "stopping", "dumping", "freed", "exited", or
                       \* "crashed" before the file was complete
  handler,             \* the thread that runs the destructor, or NoThread
  until,               \* argument of the dump: entry_cursor when it began
  dump_buffer,         \* the buffer that is dumped
  file,                \* rows of the csv file, truncated by the constructor
  recorded,            \* history: the calls in the order they were counted
  oob,                 \* history: a row outside the buffer was accessed
  crowded,             \* history: a call began when those in flight could
                       \* fill the buffer, or while another one wrapped
  disturbed            \* history: the cursor was reset after the dump began

threadVars == <<pc, call, buffer, register, started>>
historyVars == <<recorded, oob, crowded, disturbed>>
dumpVars   == <<process, handler, until, dump_buffer, file>>
vars == <<data_buffers, active_buffer, entry_cursor, entry_saving_mutex,
          threadVars, dumpVars, historyVars>>

Rows    == 0 .. entry_count - 1
Buffers == 0 .. buffer_count - 1
Row     == [id : 0 .. MaxCalls, time : 0 .. MaxCalls]

Critical == {"id_buffer", "id_cursor", "write_id",
             "time_buffer", "time_cursor", "write_time",
             "inc_load", "inc_store", "unlock"}
Unlocked == {"reset", "rotate_load", "rotate_store", "lock"}
PcValues == {"idle"} \cup Unlocked \cup Critical
-----------------------------------------------------------------------------
(* The constructor: zeroed buffers, cursor and active buffer 0, the        *)
(* previous file erased.                                                   *)
Init ==
  /\ data_buffers = [b \in Buffers |-> [r \in Rows |-> [id |-> 0, time |-> 0]]]
  /\ active_buffer = 0
  /\ entry_cursor = 0
  /\ entry_saving_mutex = NoThread
  /\ pc = [t \in Threads |-> "idle"]
  /\ call = [t \in Threads |-> 0]
  /\ buffer = [t \in Threads |-> 0]
  /\ register = [t \in Threads |-> 0]
  /\ started = 0
  /\ process = "up"
  /\ handler = NoThread
  /\ until = 0
  /\ dump_buffer = 0
  /\ file = << >>
  /\ recorded = << >>
  /\ oob = FALSE
  /\ crowded = FALSE
  /\ disturbed = FALSE

(* A thread runs until the process ends, except the one the signal         *)
(* interrupted: it is inside the handler and never returns from it.        *)
Running(t) == process \notin {"exited", "crashed"} /\ handler # t

Goto(t, from, to) ==
  /\ Running(t)
  /\ pc[t] = from
  /\ pc' = [pc EXCEPT ![t] = to]

-----------------------------------------------------------------------------
(* add_entry, from its first shared access, the wrap test, to its last.    *)

(* Calls whose row is not counted by entry_cursor yet.                     *)
InFlight == {t \in Threads : pc[t] \notin {"idle", "unlock"}}

Wrapping == \E t \in Threads : pc[t] \in {"reset", "rotate_load", "rotate_store"}

(* A call that begins now may meet others at the end of the buffer.        *)
Crowd == /\ InFlight # {}
         /\ Wrapping \/ entry_cursor + Cardinality(InFlight) >= entry_count

(* Mutant: the last row of a buffer is never used. *)
CheckEarly(t) ==
  /\ started < MaxCalls
  /\ Goto(t, "idle", IF entry_cursor + 1 >= entry_count THEN "reset" ELSE "lock")
  /\ started' = started + 1
  /\ call' = [call EXCEPT ![t] = started + 1]
  /\ crowded' = (crowded \/ Crowd)
  /\ UNCHANGED <<data_buffers, active_buffer, entry_cursor, entry_saving_mutex,
                 buffer, register, dumpVars, recorded, oob, disturbed>>

Check(t) ==
  /\ started < MaxCalls
  /\ Goto(t, "idle", IF entry_cursor >= entry_count THEN "reset" ELSE "lock")
  /\ started' = started + 1
  /\ call' = [call EXCEPT ![t] = started + 1]
  /\ crowded' = (crowded \/ Crowd)
  /\ UNCHANGED <<data_buffers, active_buffer, entry_cursor, entry_saving_mutex,
                 buffer, register, dumpVars, recorded, oob, disturbed>>

ResetCursor(t) ==
  /\ Goto(t, "reset", "rotate_load")
  /\ entry_cursor' = 0
  /\ disturbed' = (disturbed \/ process \in {"stopping", "dumping"})
  /\ UNCHANGED <<data_buffers, active_buffer, entry_saving_mutex, call, buffer,
                 register, started, dumpVars, recorded, oob, crowded>>

RotateLoad(t) ==
  /\ Goto(t, "rotate_load", "rotate_store")
  /\ register' = [register EXCEPT ![t] = active_buffer]
  /\ UNCHANGED <<data_buffers, active_buffer, entry_cursor, entry_saving_mutex,
                 call, buffer, started, dumpVars, historyVars>>

(* Mutant: the next buffer is not taken modulo buffer_count. *)
RotateStoreUnbounded(t) ==
  /\ Goto(t, "rotate_store", "lock")
  /\ active_buffer' = register[t] + 1
  /\ UNCHANGED <<data_buffers, entry_cursor, entry_saving_mutex, call,
                 buffer, register, started, dumpVars, historyVars>>

RotateStore(t) ==
  /\ Goto(t, "rotate_store", "lock")
  /\ active_buffer' = (register[t] + 1) % buffer_count
  /\ UNCHANGED <<data_buffers, entry_cursor, entry_saving_mutex, call,
                 buffer, register, started, dumpVars, historyVars>>

(* Mutant: defer_lock without the call of lock(). *)
LockDeferred(t) ==
  /\ Goto(t, "lock", "id_buffer")
  /\ entry_saving_mutex' = t
  /\ UNCHANGED <<data_buffers, active_buffer, entry_cursor, call, buffer, register,
                 started, dumpVars, historyVars>>

Lock(t) ==
  /\ entry_saving_mutex = NoThread
  /\ Goto(t, "lock", "id_buffer")
  /\ entry_saving_mutex' = t
  /\ UNCHANGED <<data_buffers, active_buffer, entry_cursor, call, buffer, register,
                 started, dumpVars, historyVars>>

(* data_buffers[active_buffer][entry_cursor][0] = query_id: active_buffer   *)
(* and entry_cursor are loaded one after the other, for each word again.   *)
LoadBuffer(t) ==
  /\ Goto(t, "id_buffer", "id_cursor") \/ Goto(t, "time_buffer", "time_cursor")
  /\ buffer' = [buffer EXCEPT ![t] = active_buffer]
  /\ UNCHANGED <<data_buffers, active_buffer, entry_cursor, entry_saving_mutex,
                 call, register, started, dumpVars, historyVars>>

LoadCursor(t) ==
  /\ Goto(t, "id_cursor", "write_id") \/ Goto(t, "time_cursor", "write_time")
  /\ register' = [register EXCEPT ![t] = entry_cursor]
  /\ UNCHANGED <<data_buffers, active_buffer, entry_cursor, entry_saving_mutex,
                 call, buffer, started, dumpVars, historyVars>>

(* The store of a word to the row that was loaded.  Past the last row it   *)
(* is undefined: the process crashes, or memory that is not a buffer is    *)
(* overwritten and the entry is lost.  So it is once the destructor has    *)
(* freed the buffers, but then the file is complete.                       *)
StoreWord(field, t) ==
  \/ /\ process # "freed"
     /\ register[t] \in Rows
     /\ data_buffers' =
          [data_buffers EXCEPT ![buffer[t]][register[t]][field] = call[t]]
     /\ UNCHANGED <<process, oob>>
  \/ /\ process # "freed"
     /\ register[t] \notin Rows
     /\ oob' = TRUE
     /\ process' \in {process, "crashed"}
     /\ UNCHANGED data_buffers
  \/ /\ process = "freed"
     /\ process' \in {"freed", "exited"}
     /\ UNCHANGED <<data_buffers, oob>>

WriteId(t) ==
  /\ Goto(t, "write_id", "time_buffer")
  /\ StoreWord("id", t)
  /\ UNCHANGED <<active_buffer, entry_cursor, entry_saving_mutex, call, buffer, register,
                 started, handler, until, dump_buffer, file, recorded, crowded, disturbed>>

WriteTime(t) ==
  /\ Goto(t, "write_time", "inc_load")
  /\ StoreWord("time", t)
  /\ UNCHANGED <<active_buffer, entry_cursor, entry_saving_mutex, call, buffer, register,
                 started, handler, until, dump_buffer, file, recorded, crowded, disturbed>>

IncLoad(t) ==
  /\ Goto(t, "inc_load", "inc_store")
  /\ register' = [register EXCEPT ![t] = entry_cursor]
  /\ UNCHANGED <<data_buffers, active_buffer, entry_cursor, entry_saving_mutex,
                 call, buffer, started, dumpVars, historyVars>>

IncStore(t) ==
  /\ Goto(t, "inc_store", "unlock")
  /\ entry_cursor' = register[t] + 1
  /\ recorded' = Append(recorded, call[t])
  /\ UNCHANGED <<data_buffers, active_buffer, entry_saving_mutex, call, buffer,
                 register, started, dumpVars, oob, crowded, disturbed>>

(* Mutant: add_entry returns without unlocking the mutex. *)
UnlockForgotten(t) ==
  /\ Goto(t, "unlock", "idle")
  /\ UNCHANGED <<data_buffers, active_buffer, entry_cursor, entry_saving_mutex,
                 call, buffer, register, started, dumpVars, historyVars>>

Unlock(t) ==
  /\ Goto(t, "unlock", "idle")
  /\ entry_saving_mutex' = NoThread
  /\ UNCHANGED <<data_buffers, active_buffer, entry_cursor, call, buffer, register,
                 started, dumpVars, historyVars>>

add_entry(t) ==
  \/ Check(t) \/ ResetCursor(t) \/ RotateLoad(t) \/ RotateStore(t) \/ Lock(t)
  \/ LoadBuffer(t) \/ LoadCursor(t) \/ WriteId(t) \/ WriteTime(t)
  \/ IncLoad(t) \/ IncStore(t) \/ Unlock(t)
-----------------------------------------------------------------------------
(* Mutant: the destructor passes no row count, so every row is dumped. *)
BeginDumpAll(h) ==
  /\ process = "up"
  /\ process' = "stopping"
  /\ handler' = h
  /\ until' = entry_count
  /\ UNCHANGED <<data_buffers, active_buffer, entry_cursor, entry_saving_mutex,
                 threadVars, dump_buffer, file, historyVars>>

(* SIGINT reaches some thread h of the process (or the client's main ends  *)
(* and deletes its manager): the destructor evaluates its argument         *)
(* entry_cursor, then dump_server_stats evaluates active_buffer, and       *)
(* dump_matrix writes the rows.  No lock is taken: the other threads keep  *)
(* calling add_entry.                                                      *)
BeginDump(h) ==
  /\ process = "up"
  /\ process' = "stopping"
  /\ handler' = h
  /\ until' = entry_cursor
  /\ UNCHANGED <<data_buffers, active_buffer, entry_cursor, entry_saving_mutex,
                 threadVars, dump_buffer, file, historyVars>>

(* Mutant: dump_server_stats waits for entry_saving_mutex. *)
SelectBufferLocked ==
  /\ process = "stopping"
  /\ entry_saving_mutex = NoThread
  /\ process' = "dumping"
  /\ dump_buffer' = active_buffer
  /\ UNCHANGED <<data_buffers, active_buffer, entry_cursor, entry_saving_mutex,
                 threadVars, handler, until, file, historyVars>>

SelectBuffer ==
  /\ process = "stopping"
  /\ process' = "dumping"
  /\ dump_buffer' = active_buffer
  /\ UNCHANGED <<data_buffers, active_buffer, entry_cursor, entry_saving_mutex,
                 threadVars, handler, until, file, historyVars>>

(* Mutant: until is ignored. *)
RowCountAll(u) == entry_count

(* Mutant: the row at the cursor is dumped too. *)
RowCountInclusive(u) == IF u >= 0 /\ u < entry_count THEN u + 1 ELSE entry_count

(* row_count of dump_matrix: until when it is in range, else every row.    *)
RowCount(u) == IF u >= 0 /\ u < entry_count THEN u ELSE entry_count

DumpRow ==
  /\ process = "dumping"
  /\ Len(file) < RowCount(until)
  /\ file' = Append(file, data_buffers[dump_buffer][Len(file)])
  /\ UNCHANGED <<data_buffers, active_buffer, entry_cursor, entry_saving_mutex,
                 threadVars, process, handler, until, dump_buffer, historyVars>>

(* The file is closed and the members of the manager are destroyed.        *)
Destroy ==
  /\ process = "dumping"
  /\ Len(file) >= RowCount(until)
  /\ process' = "freed"
  /\ UNCHANGED <<data_buffers, active_buffer, entry_cursor, entry_saving_mutex,
                 threadVars, handler, until, dump_buffer, file, historyVars>>

(* The delete of memory that new did not return aborts the process, or     *)
(* else the handler's exit(1) ends it.                                     *)
Exit ==
  /\ process = "freed"
  /\ process' = "exited"
  /\ UNCHANGED <<data_buffers, active_buffer, entry_cursor, entry_saving_mutex,
                 threadVars, handler, until, dump_buffer, file, historyVars>>

dump_server_stats == SelectBuffer \/ DumpRow \/ Destroy \/ Exit

Ended == process \in {"exited", "crashed"} /\ UNCHANGED vars

Next ==
  \/ \E t \in Threads : add_entry(t)
  \/ \E h \in Threads \cup {MainThread} : BeginDump(h)
  \/ dump_server_stats
  \/ Ended

Spec == Init /\ [][Next]_vars
-----------------------------------------------------------------------------
(* Fairness: the scheduler runs every thread that can run, so a call in    *)
(* progress goes on (beginning a call is the thread's choice) and so does  *)
(* the handler.  A behaviour has finitely many calls, as every workload of *)
(* the repository has, so nobody is starved of the mutex.                  *)
InCall(t) == pc[t] # "idle" /\ add_entry(t)

FairSpec ==
  /\ Spec
  /\ \A t \in Threads : WF_vars(InCall(t))
  /\ WF_vars(dump_server_stats)
-----------------------------------------------------------------------------
(* The destructor has not freed the buffers.                               *)
Allocated == process \in {"up", "stopping", "dumping"}

Entry(c) == [id |-> c, time |-> c]

(* The member variables of the manager and the program counters have the   *)
(* types of the declarations; the dump never has more rows than a buffer,  *)
(* however far the cursor ran past it (the clamp of dump_matrix).          *)
TypeOK ==
  /\ data_buffers \in [Buffers -> [Rows -> Row]]
  /\ active_buffer \in Buffers
  /\ entry_cursor \in 0 .. MaxCalls
  /\ entry_saving_mutex \in Threads \cup {NoThread}
  /\ pc \in [Threads -> PcValues]
  /\ call \in [Threads -> 0 .. MaxCalls]
  /\ buffer \in [Threads -> Buffers]
  /\ register \in [Threads -> Nat]
  /\ started \in 0 .. MaxCalls
  /\ process \in {"up", "stopping", "dumping", "freed", "exited", "crashed"}
  /\ handler \in Threads \cup {NoThread, MainThread}
  /\ until \in 0 .. MaxCalls
  /\ dump_buffer \in Buffers
  /\ file \in Seq(Row) /\ Len(file) <= entry_count
  /\ recorded \in Seq(1 .. MaxCalls)
  /\ oob \in BOOLEAN /\ crowded \in BOOLEAN /\ disturbed \in BOOLEAN

(* entry_saving_mutex: a thread is between lock() and unlock() exactly     *)
(* when it owns the mutex, so two calls never store rows at once.          *)
MutualExclusion ==
  \A t \in Threads : pc[t] \in Critical <=> entry_saving_mutex = t

(* While no more calls were made than a buffer has rows, the unlocked wrap *)
(* test of add_entry does no harm whatever the interleaving: no row        *)
(* outside the buffer is touched, and the rows below the cursor are the    *)
(* calls in the order they took the mutex, none lost, none torn.           *)
EntriesPreserved ==
  started <= entry_count /\ Allocated =>
    /\ ~oob
    /\ active_buffer = 0
    /\ entry_cursor = Len(recorded)
    /\ \A r \in 0 .. entry_cursor - 1 : data_buffers[0][r] = Entry(recorded[r + 1])

(* ... and the file the SIGINT handler writes while other threads go on    *)
(* recording has exactly the rows counted when the dump began.             *)
DumpFaithful ==
  started <= entry_count =>
    /\ process # "crashed"
    /\ Len(file) <= until /\ until <= Len(recorded)
    /\ \A i \in 1 .. Len(file) : file[i] = Entry(recorded[i])
    /\ process \in {"freed", "exited"} => Len(file) = until

(* Where a call holds what it loaded, and what it has stored.              *)
HasBuffer == {"id_cursor", "write_id", "time_cursor", "write_time"}
HasCursor == {"write_id", "write_time", "inc_store"}
IdStored  == {"time_buffer", "time_cursor", "write_time", "inc_load", "inc_store"}
BothStored == {"inc_load", "inc_store"}

(* Every call begun is counted once or still in flight, and the cursor is  *)
(* never ahead of the calls counted, even when a stale register brings     *)
(* back a value from before a reset.                                       *)
CountInv ==
  /\ Len(recorded) + Cardinality(InFlight) = started
  /\ entry_cursor <= Len(recorded)
  /\ until <= Len(recorded)
  /\ \A t \in Threads :
       /\ pc[t] # "idle" => call[t] >= 1
       /\ pc[t] = "inc_store" => register[t] <= Len(recorded)

(* Why EntriesPreserved and DumpFaithful hold: before the buffer is full   *)
(* no thread takes the wrap branch, the owner of the mutex has its own row *)
(* at the cursor, the rows below the cursor are final, and the file is     *)
(* made of such rows.                                                      *)
NoWrap ==
  /\ ~oob
  /\ process # "crashed"
  /\ active_buffer = 0
  /\ dump_buffer = 0
  /\ entry_cursor = Len(recorded)
  /\ \A t \in Threads :
       /\ pc[t] \notin {"reset", "rotate_load", "rotate_store"}
       /\ pc[t] \in HasBuffer => buffer[t] = active_buffer
       /\ pc[t] \in HasCursor => register[t] = entry_cursor

RowsFinal ==
  Allocated => \A r \in 0 .. entry_cursor - 1 :
                 data_buffers[0][r] = Entry(recorded[r + 1])

OwnerRow ==
  Allocated => \A t \in Threads :
    /\ pc[t] \in IdStored => data_buffers[0][entry_cursor].id = call[t]
    /\ pc[t] \in BothStored =>
         data_buffers[0][entry_cursor].time = call[t]

FileInv == (process = "up" => file = << >>) /\ DumpFaithful

RecordingInv ==
  started <= entry_count => NoWrap /\ RowsFinal /\ OwnerRow /\ FileInv

(* The wrap branch is safe, too, as long as no call begins when those in   *)
(* flight could fill the buffer (crowded): a call that finds the buffer    *)
(* full is then alone.  The cursor stays within the buffer, the rows below *)
(* it are the calls of this lap in the order they took the mutex, none     *)
(* lost, none torn, and while a lap is recorded the previous buffer still  *)
(* holds the whole lap before it; ...                                      *)
LapPreserved ==
  Allocated =>
    /\ ~oob
    /\ entry_cursor <= entry_count
    /\ (\A t \in Threads : pc[t] \notin {"rotate_load", "rotate_store"}) =>
         LET n == Len(recorded) - entry_cursor
         IN /\ n >= 0 /\ n % entry_count = 0
            /\ \A r \in 0 .. entry_cursor - 1 :
                 data_buffers[active_buffer][r] = Entry(recorded[n + r + 1])
            /\ n > 0 /\ buffer_count > 1 =>
                 LET previous == (active_buffer + buffer_count - 1) % buffer_count
                 IN \A r \in Rows :
                      data_buffers[previous][r] =
                        Entry(recorded[n - entry_count + r + 1])

(* ... and the file the signal handler writes while the others go on has   *)
(* the rows of the lap in progress when it began, all of one lap, unless   *)
(* the cursor was reset meanwhile (disturbed).                             *)
LapDumped ==
  process \in {"freed", "exited"} =>
    \E n \in 0 .. Len(recorded) - until :
      n % entry_count = 0 /\ file = [i \in 1 .. until |-> Entry(recorded[n + i])]

(* Before the buffer is full and after it, one caller or many: what loses, *)
(* tears or overruns rows is a call that begins when those in flight may   *)
(* fill the buffer, and nothing else; and what mixes two laps in the file  *)
(* is a wrap during the dump (src/shared/ServerStats.cpp:135-148).         *)
LapsKept == ~crowded => LapPreserved /\ (~disturbed => LapDumped)

(* Why LapsKept holds.  Each call in flight has a row to fill; the wrap    *)
(* branch is taken exactly when the cursor is at entry_count, by a call    *)
(* that is alone, and what a call loaded is never stale; ...               *)
Rotating == \E t \in Threads : pc[t] \in {"rotate_load", "rotate_store"}

RoomForAll ==
  IF Wrapping THEN Cardinality(InFlight) = 1
              ELSE entry_cursor + Cardinality(InFlight) <= entry_count

LapCursor ==
  /\ ~oob
  /\ process # "crashed"
  /\ entry_cursor <= entry_count
  /\ (Len(recorded) - entry_cursor) % entry_count = 0
  /\ \A t \in Threads :
       /\ pc[t] = "reset" => entry_cursor = entry_count
       /\ pc[t] \in {"rotate_load", "rotate_store"} =>
            entry_cursor = 0 /\ Len(recorded) >= entry_count
       /\ pc[t] = "rotate_store" => register[t] = active_buffer
       /\ pc[t] \in HasBuffer => buffer[t] = active_buffer
       /\ pc[t] \in HasCursor => register[t] = entry_cursor

(* ... the lap in progress is in the rows below the cursor, the lap before *)
(* it in the buffer before (in the active one until it is rotated), and    *)
(* the words of the owner of the mutex at the cursor; ...                  *)
Holds(b, n, base) == \A r \in 0 .. n - 1 : data_buffers[b][r] = Entry(recorded[base + r + 1])

LapRows ==
  Allocated =>
    LET base == Len(recorded) - entry_cursor
        previous == (active_buffer + buffer_count - 1) % buffer_count
    IN /\ Rotating => Holds(active_buffer, entry_count, base - entry_count)
       /\ ~Rotating => Holds(active_buffer, entry_cursor, base)
       /\ ~Rotating /\ base > 0 /\ buffer_count > 1 =>
            Holds(previous, entry_count, base - entry_count)

LapOwner ==
  Allocated => \A t \in Threads :
    /\ pc[t] \in IdStored => data_buffers[active_buffer][entry_cursor].id = call[t]
    /\ pc[t] \in BothStored => data_buffers[active_buffer][entry_cursor].time = call[t]

(* ... and until the cursor is reset, the dump finds the lap it began with *)
(* where it was.                                                           *)
LapFile ==
  /\ process \in {"up", "stopping"} => file = << >>
  /\ process \in {"stopping", "dumping"} /\ ~disturbed =>
       /\ until <= entry_cursor
       /\ process = "dumping" /\ until > 0 => dump_buffer = active_buffer
  /\ ~disturbed /\ process # "up" =>
       /\ Len(file) <= until
       /\ \E n \in 0 .. Len(recorded) - until :
            /\ n % entry_count = 0
            /\ Allocated => n = Len(recorded) - entry_cursor
            /\ \A i \in 1 .. Len(file) : file[i] = Entry(recorded[n + i])
       /\ process \in {"freed", "exited"} => Len(file) = until

LapInv == ~crowded => RoomForAll /\ LapCursor /\ LapRows /\ LapOwner /\ LapFile

(* Why the log of calls is a log: a call is counted once, so the calls in  *)
(* flight are neither in it nor shared by two threads.                     *)
RecordedOnce ==
  /\ \A i \in 1 .. Len(recorded) : recorded[i] <= started
  /\ \A i, j \in 1 .. Len(recorded) : recorded[i] = recorded[j] => i = j
  /\ \A t \in InFlight :
       /\ call[t] <= started
       /\ \A i \in 1 .. Len(recorded) : recorded[i] # call[t]
       /\ \A u \in InFlight : call[u] = call[t] => u = t

(* A call of add_entry returns, unless the process is being stopped.       *)
CallReturns ==
  \A t \in Threads : pc[t] # "idle" ~> pc[t] = "idle" \/ process # "up"

(* Once SIGINT is delivered the process ends, even when the handler        *)
(* interrupted the thread that owns entry_saving_mutex: no step of the     *)
(* handler needs that mutex.  (The locks of malloc and of the file stream, *)
(* which it takes too, are not modelled.)                                  *)
StopCompletes == process = "stopping" ~> process \in {"exited", "crashed"}
-----------------------------------------------------------------------------
(* What the manager promises (StatsLog), as long as the calls fit a buffer *)
log == recorded
Log == INSTANCE StatsLog WITH
         Calls <- 1 .. MaxCalls,
         limit <- until,
         state <- CASE process = "up" -> "up"
                    [] process \in {"stopping", "dumping"} -> "stopping"
                    [] process \in {"freed", "exited"} -> "saved"
                    [] process = "crashed" -> "lost",
         saved <- IF process \in {"freed", "exited"} THEN file ELSE << >>

(* The threads and the handler together implement the append-only log      *)
(* that is saved once, up to its length when the save was asked for, and   *)
(* eventually is saved.                                                    *)
LogSpec == Log!FairSpec
=============================================================================
