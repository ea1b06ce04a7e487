--------------------------- MODULE TraceAnalysis ---------------------------
(***************************************************************************)
(* What data_analysis/plot_utils.py makes of the files the processes write. *)
(* Queries are followed through two processes, the client and the          *)
(* sanitization service, which measure the time at the begin and at the    *)
(* end of a query and then record it: other queries measure and record in  *)
(* between, so the rows of a file are not in the order of their times.  A  *)
(* refused query has no second row in the service; a query that fails has  *)
(* no further row in the client; a process may be stopped at any time; a   *)
(* file may have rows of zeros (ServerStats).  Every measurement takes a   *)
(* tick of the clock, which the processes share and which never runs back. *)
(* A time is a word of EpochSize values (2^64 nanoseconds in the code).    *)
(* Bounds: MaxZeros rows of zeros; the clock does not come round.          *)
(***************************************************************************)
EXTENDS QueryUid, Sequences, FiniteSetsExt

CONSTANTS
  Queries,      \* some of the queries of the run
  Hosts,        \* records of an address, is, and random bits
  Numbers,      \* the numbers the queries may have
  EpochSize,    \* how many values a time has
  MaxZeros

ASSUME ZerosAssumption == MaxZeros \in Nat

ASSUME EpochAssumption == EpochSize \in Nat \ {0}

ASSUME HostsAssumption ==
  Hosts \subseteq [is : [0..3 -> Octets], random : Randoms] /\ Numbers \subseteq Nat

Files == {"client", "sanit"}

VARIABLES
  host, number,   \* of each query
  pc,             \* pc[q]: the steps q has done
  over,           \* over[q]: "refused", "failed"
  time,           \* time[q][i]: what q measured at its i-th step, or None
  clock,
  file            \* file[f]: rows <<query_uid, epoch_time>>

vars == <<host, number, pc, over, time, clock, file>>

None == -1   \* np.nan

(* The steps of a query: begin in the client, begin and end in the         *)
(* service, end in the client; each is a measurement and a row.            *)
Steps      == 1..8
Measures   == {1, 3, 5, 7}
FileOf(i)  == IF i \in {3, 4, 5, 6} THEN "sanit" ELSE "client"

Init ==
  /\ host \in [Queries -> Hosts]
  /\ number \in [Queries -> Numbers]
  /\ \A q, r \in Queries : q # r => <<host[q], number[q]>> # <<host[r], number[r]>>
  /\ pc = [q \in Queries |-> 0]
  /\ over = [q \in Queries |-> {}]
  /\ time = [q \in Queries |-> [i \in Measures |-> None]]
  /\ clock = 0
  /\ file = [f \in Files |-> <<>>]

uid(q) == get_query_uid(generate_local_uid(host[q].is, host[q].random), number[q])
-----------------------------------------------------------------------------
Measure(q) ==
  LET i == pc[q] + 1
  IN  /\ i \in Measures
      /\ clock + 1 < EpochSize
      /\ pc' = [pc EXCEPT ![q] = i]
      /\ clock' = clock + 1
      /\ time' = [time EXCEPT ![q][i] = clock']
      /\ UNCHANGED <<host, number, over, file>>

add_entry(q) ==
  LET i == pc[q] + 1
  IN  /\ i \in Steps \ Measures
      /\ pc' = [pc EXCEPT ![q] = i]
      /\ file' = [file EXCEPT ![FileOf(i)] = Append(@, <<uid(q), time[q][i - 1]>>)]
      /\ UNCHANGED <<host, number, over, time, clock>>

(* The service refuses the message and answers without a second row.       *)
Refuse(q) ==
  /\ pc[q] = 4
  /\ pc' = [pc EXCEPT ![q] = 6]
  /\ over' = [over EXCEPT ![q] = @ \cup {"refused"}]
  /\ UNCHANGED <<host, number, time, clock, file>>

(* The caller hears of an error: the client has no second row.             *)
Fail(q) ==
  /\ pc[q] = 6
  /\ pc' = [pc EXCEPT ![q] = 8]
  /\ over' = [over EXCEPT ![q] = @ \cup {"failed"}]
  /\ UNCHANGED <<host, number, time, clock, file>>

ZeroRow(f) ==
  /\ Len(SelectSeq(file["client"] \o file["sanit"], LAMBDA row : row = <<0, 0>>)) < MaxZeros
  /\ file' = [file EXCEPT ![f] = Append(@, <<0, 0>>)]
  /\ UNCHANGED <<host, number, pc, over, time, clock>>

Next ==
  \/ \E q \in Queries : Measure(q) \/ add_entry(q) \/ Refuse(q) \/ Fail(q)
  \/ \E f \in Files : ZeroRow(f)

Spec == Init /\ [][Next]_vars
-----------------------------------------------------------------------------
(* plot_utils.py                                                           *)

(* Where the rows of an id are in a file.                                  *)
Rows(f, u) == {i \in DOMAIN file[f] : file[f][i][1] = u}

(* The earliest time in the file of the client.                            *)
time_start == Min({file["client"][i][2] : i \in DOMAIN file["client"]})

(* df["epoch_time"] -= time_start: the column holds unsigned words, and    *)
(* nothing is left of a time when the client has no row.                   *)
Since(t) == IF file["client"] = <<>> THEN None ELSE (t - time_start) % EpochSize

(* The time of the first of these rows, if there is one.                   *)
TimeOfFirst(f, rows) == IF rows = {} THEN None ELSE Since(file[f][Min(rows)][2])

(* Mutant: .agg(['min', 'max']), which line 31 has as a comment.           *)
treat_data_minmax(f, u) ==
  LET rows  == Rows(f, u)
      times == {Since(file[f][i][2]) : i \in rows}
  IN  [start |-> IF rows = {} THEN None ELSE Min(times),
       end   |-> IF rows = {} THEN None ELSE Max(times)]

(* The group of an id: the times of its first and of its second row.  The  *)
(* result of sort_values is dropped: rows are in the order of the file.    *)
treat_data(f, u) ==
  LET rows == Rows(f, u)
  IN  [start |-> TimeOfFirst(f, rows),
       end   |-> TimeOfFirst(f, {i \in rows : \E j \in rows : j < i})]

(* The outer merge of the files: one row for each id of any of them.       *)
all ==
  {[query_uid |-> u, client |-> treat_data("client", u), sanit |-> treat_data("sanit", u)] :
     u \in UNION {{file[f][i][1] : i \in DOMAIN file[f]} : f \in Files}}

Shared(q)  == \E r \in Queries \ {q} : uid(r) = uid(q)

(* The loop over the clients leaves out the client with the id 0.          *)
traced(traces) == {t \in traces : client_uid(t.query_uid) # 0}

(* Before a client's figure is shown, start_client[0] asks for the row     *)
(* with label 0, which is the least id of all: for a client that does not  *)
(* have it this is a KeyError, which ends the script.  The clients come in *)
(* the order of their ids.                                                 *)
plotted(traces) ==
  {t \in traced(traces) : \A u \in traces : client_uid(t.query_uid) <= client_uid(u.query_uid)}
-----------------------------------------------------------------------------
(* A trace shows one query as it was: every time it has is the one         *)
(* measured for that end of the query, counted from the earliest time in   *)
(* the client's file, in whatever order the rows were recorded, and a time *)
(* that was never recorded is missing, unless two of the queries share an  *)
(* id.  In particular no subtraction wraps (lines 26, 32, 33).             *)
SpansTrue ==
  \A t \in traced(all), q \in Queries :
    uid(q) = t.query_uid /\ ~Shared(q) =>
      LET shown(i, recorded) ==
            IF pc[q] > i /\ recorded THEN time[q][i] - time_start ELSE None
      IN  t.client = [start |-> shown(1, TRUE), end |-> shown(7, "failed" \notin over[q])]
          /\ t.sanit = [start |-> shown(3, TRUE), end |-> shown(5, "refused" \notin over[q])]

(* Rows of zeros, which a dump may contain, never show up as a trace, so   *)
(* every trace is one of a query, and the figures shown before the script  *)
(* ends are of one client (lines 75-78, 97).                               *)
PlottedAreQueries ==
  /\ \A t \in traced(all) : \E q \in Queries : uid(q) = t.query_uid
  /\ \A t, u \in plotted(all) : client_uid(t.query_uid) = client_uid(u.query_uid)
=============================================================================
