--------------------------- MODULE ProgramsProofs ---------------------------
(***************************************************************************)
(* Proofs about the processes and programs of Programs, for every set of   *)
(* threads, buffer size and flag.  A program that is not the chosen one    *)
(* stutters, so in every behaviour each of them starts in its initial      *)
(* state and makes its own steps.                                          *)
(***************************************************************************)
EXTENDS Programs, SequenceTheorems, FiniteSetTheorems, TLAPS

(* Every step of the programs is one of ClientMap or leaves its variables. *)
LEMMA MapsRun == ProgramsSpec => Init /\ [][Next]_vars
<1>1. ProgramsInit => Init
  BY DEF ProgramsInit
<1>2. [ProgramsNext]_programVars => [Next]_vars
  BY Zenon DEF ProgramsNext, programVars
<1> QED BY <1>1, <1>2, PTL DEF ProgramsSpec

(* The same of the threads that destroy the statistics (StatsShutdown),    *)
LEMMA ShutdownRuns == ProgramsSpec => Shutdown!Init /\ [][Shutdown!Next]_shutdownVars
<1>1. ProgramsInit => Shutdown!Init
  BY DEF ProgramsInit
<1>2. [ProgramsNext]_programVars => [Shutdown!Next]_shutdownVars
  BY Zenon DEF ProgramsNext, programVars, shutdownVars
<1> QED BY <1>1, <1>2, PTL DEF ProgramsSpec

(* of the stream that save and log write to (StatsStream),                 *)
LEMMA StreamRuns == ProgramsSpec => Stream!Init /\ [][Stream!Next]_streamVars
<1>1. ProgramsInit => Stream!Init
  BY DEF ProgramsInit
<1>2. [ProgramsNext]_programVars => [Stream!Next]_streamVars
  BY Zenon DEF ProgramsNext, programVars, streamVars
<1> QED BY <1>1, <1>2, PTL DEF ProgramsSpec

(* of the workers of an asynchronous handler (AsyncHandler),               *)
LEMMA HandlersRun == ProgramsSpec => Async!Init /\ [][Async!Next]_asyncVars
<1>1. ProgramsInit => Async!Init
  BY DEF ProgramsInit
<1>2. [ProgramsNext]_programVars => [Async!Next]_asyncVars
  BY Zenon DEF ProgramsNext, programVars, asyncVars
<1> QED BY <1>1, <1>2, PTL DEF ProgramsSpec

(* of the main and the logger of the benchmark's client (PerfRunner),      *)
LEMMA BenchmarkRuns == ProgramsSpec => Benchmark!Init /\ [][Benchmark!Next]_benchmarkVars
<1>1. ProgramsInit => Benchmark!Init
  BY DEF ProgramsInit
<1>2. [ProgramsNext]_programVars => [Benchmark!Next]_benchmarkVars
  BY Zenon DEF ProgramsNext, programVars, benchmarkVars
<1> QED BY <1>1, <1>2, PTL DEF ProgramsSpec

(* of those of its server (PerfServer),                                    *)
LEMMA ServerRuns == ProgramsSpec => Server!Init /\ [][Server!Next]_serverVars
<1>1. ProgramsInit => Server!Init
  BY DEF ProgramsInit
<1>2. [ProgramsNext]_programVars => [Server!Next]_serverVars
  BY Zenon DEF ProgramsNext, programVars, serverVars
<1> QED BY <1>1, <1>2, PTL DEF ProgramsSpec

(* of the echo clients (EchoClient),                                       *)
LEMMA EchoRuns == ProgramsSpec => Echo!Init /\ [][Echo!Next]_echoVars
<1>1. ProgramsInit => Echo!Init
  BY DEF ProgramsInit
<1>2. [ProgramsNext]_programVars => [Echo!Next]_echoVars
  BY Zenon DEF ProgramsNext, programVars, echoVars
<1> QED BY <1>1, <1>2, PTL DEF ProgramsSpec

(* and of the superseded clients (OldClients).                             *)
LEMMA OldRuns == ProgramsSpec => Old!Init /\ [][Old!Next]_oldVars
<1>1. ProgramsInit => Old!Init
  BY DEF ProgramsInit
<1>2. [ProgramsNext]_programVars => [Old!Next]_oldVars
  BY Zenon DEF ProgramsNext, programVars, oldVars
<1> QED BY <1>1, <1>2, PTL DEF ProgramsSpec

-----------------------------------------------------------------------------
(* The client maps of the SYNC build.                                      *)

MapsTyped ==
  /\ map \in [Maps -> [Workers -> Workers \cup {NoClient}]]
  /\ pc \in [Workers -> {"idle", "find", "insert", "call"}]
  /\ at \in [Workers -> Maps]
  /\ client \in [Workers -> Workers \cup {NoClient}]
  /\ made \in [Maps -> [Workers -> Nat]]

(* Until accesses race, an entry of a map is the client of its own key,    *)
(* made once; a worker that inserts has no client in that map yet.         *)
Own(t) ==
  /\ \A m \in Maps : /\ map[m][t] \in {t, NoClient}
                     /\ map[m][t] = NoClient => made[m][t] = 0
                     /\ made[m][t] <= 1
  /\ pc[t] = "insert" => map[at[t]][t] = NoClient
  /\ pc[t] = "call" => client[t] = t

MapInv == MapsTyped /\ (~raced => \A t \in Workers : Own(t))

-----------------------------------------------------------------------------
(* The maps are empty in the beginning.                                    *)
LEMMA MapsInit == Init => MapInv
BY DEF Init, MapInv, MapsTyped, Own

(* A race that has happened is not forgotten.                              *)
LEMMA RacedStays ==
  ASSUME NEW t \in Workers,
         (\E m \in Maps : FindBegin(t, m)) \/ FindEnd(t) \/ InsertEnd(t) \/ CallEnd(t),
         raced
  PROVE  raced'
<1>1. CASE \E m \in Maps : FindBegin(t, m)
  BY <1>1, Zenon DEF FindBegin
<1>2. CASE FindEnd(t)
  BY <1>2, Zenon DEF FindEnd
<1>3. CASE InsertEnd(t) \/ CallEnd(t)
  BY <1>3, Zenon DEF InsertEnd, CallEnd
<1> QED BY <1>1, <1>2, <1>3

(* A lookup begins: only the place of the worker changes.                  *)
LEMMA FindBeginStep ==
  ASSUME MapInv, NEW t \in Workers, NEW m \in Maps, FindBegin(t, m)
  PROVE  MapInv'
<1>1. MapsTyped'
  BY DEF MapInv, MapsTyped, FindBegin
<1>2. ASSUME ~raced' PROVE \A u \in Workers : Own(u)'
  <2>1. \A u \in Workers : Own(u)
    BY <1>2, RacedStays DEF MapInv
  <2> QED BY <2>1 DEF MapInv, MapsTyped, Own, FindBegin
<1> QED BY <1>1, <1>2 DEF MapInv

(* A lookup ends, undisturbed: with the client of the worker itself, or    *)
(* with none.                                                              *)
LEMMA FindEndStep ==
  ASSUME MapInv, NEW t \in Workers, FindEnd(t)
  PROVE  MapInv'
<1>1. MapsTyped'
  <2> DEFINE found == {map[at[t]][t]} \cup (IF raced THEN Others(t, at[t]) \cup {NoClient} ELSE {})
  <2>1. client' = client \/ \E c \in found : client' = [client EXCEPT ![t] = c]
    <3>1. client' = client \/ client' \in {[client EXCEPT ![t] = c] : c \in found \ {NoClient}}
      BY Zenon DEF FindEnd
    <3> HIDE DEF found
    <3> QED BY <3>1
  <2>2. found \subseteq Workers \cup {NoClient}
    BY DEF MapInv, MapsTyped, Others
  <2> HIDE DEF found
  <2>3. client' \in [Workers -> Workers \cup {NoClient}]
    BY <2>1, <2>2 DEF MapInv, MapsTyped
  <2>4. pc' = [pc EXCEPT ![t] = "insert"] \/ pc' = [pc EXCEPT ![t] = "call"]
    BY Zenon DEF FindEnd
  <2> QED BY <2>3, <2>4 DEF MapInv, MapsTyped, FindEnd
<1>2. ASSUME ~raced' PROVE \A u \in Workers : Own(u)'
  <2>1. ~raced /\ \A u \in Workers : Own(u)
    BY <1>2, RacedStays DEF MapInv
  <2>2. \/ map[at[t]][t] = NoClient /\ pc' = [pc EXCEPT ![t] = "insert"] /\ UNCHANGED client
        \/ /\ map[at[t]][t] # NoClient
           /\ client' = [client EXCEPT ![t] = map[at[t]][t]]
           /\ pc' = [pc EXCEPT ![t] = "call"]
    BY <2>1 DEF FindEnd
  <2>3. UNCHANGED <<map, at, made>>
    BY DEF FindEnd
  <2> QED BY <2>1, <2>2, <2>3 DEF MapInv, MapsTyped, Own
<1> QED BY <1>1, <1>2 DEF MapInv

(* An insertion, undisturbed: the worker had no client in the map and has  *)
(* made none for it.                                                       *)
LEMMA InsertEndStep ==
  ASSUME MapInv, NEW t \in Workers, InsertEnd(t)
  PROVE  MapInv'
<1> DEFINE c == IF map[at[t]][t] = NoClient THEN t ELSE map[at[t]][t]
<1>1. /\ client' = [client EXCEPT ![t] = c]
      /\ made' = [made EXCEPT ![at[t]][t] = @ + 1]
      /\ pc' = [pc EXCEPT ![t] = "call"]
      /\ at' = at
  BY DEF InsertEnd
<1>2. client'[t] = c /\ c \in Workers \cup {NoClient} /\ at[t] \in Maps
  BY <1>1 DEF MapInv, MapsTyped
<1>3. map' = [map EXCEPT ![at[t]][t] = c] \/ (raced /\ map' = map)
  BY <1>2 DEF InsertEnd
<1>4. MapsTyped'
  <2> HIDE DEF c
  <2>1. map' \in [Maps -> [Workers -> Workers \cup {NoClient}]]
    <3>1. map' = [map EXCEPT ![at[t]][t] = c] \/ map' = map
      BY <1>3, Zenon
    <3>2. map \in [Maps -> [Workers -> Workers \cup {NoClient}]]
      BY DEF MapInv, MapsTyped
    <3> QED BY <1>2, <3>1, <3>2
  <2>2. made' \in [Maps -> [Workers -> Nat]]
    BY <1>1, <1>2 DEF MapInv, MapsTyped
  <2> QED BY <1>1, <1>2, <2>1, <2>2 DEF MapInv, MapsTyped
<1>5. ASSUME ~raced' PROVE \A u \in Workers : Own(u)'
  <2>1. ~raced /\ \A u \in Workers : Own(u)
    BY <1>5, RacedStays DEF MapInv
  <2>2. map[at[t]][t] = NoClient /\ c = t
    BY <2>1 DEF Own, InsertEnd
  <2>3. map' = [map EXCEPT ![at[t]][t] = t]
    BY <1>3, <2>1, <2>2
  <2> SUFFICES ASSUME NEW u \in Workers PROVE Own(u)'
    OBVIOUS
  <2>4. CASE u = t
    <3>1. /\ pc'[t] = "call" /\ client'[t] = t
      BY <1>1, <2>2 DEF MapInv, MapsTyped
    <3>2. ASSUME NEW m \in Maps
          PROVE  /\ map'[m][t] \in {t, NoClient}
                 /\ map'[m][t] = NoClient => made'[m][t] = 0
                 /\ made'[m][t] <= 1
      <4>1. CASE m = at[t]
        <5>1. map'[m][t] = t /\ made'[m][t] = made[m][t] + 1
          BY <1>1, <2>3, <4>1 DEF MapInv, MapsTyped
        <5>2. made[m][t] = 0
          BY <2>1, <2>2, <4>1 DEF Own
        <5>3. t # NoClient
          BY ProgramsAssumption
        <5> QED BY <5>1, <5>2, <5>3
      <4>2. CASE m # at[t]
        BY <1>1, <2>1, <2>3, <4>2 DEF MapInv, MapsTyped, Own
      <4> QED BY <4>1, <4>2
    <3> QED BY <2>4, <3>1, <3>2 DEF Own
  <2>5. CASE u # t
    BY <1>1, <2>1, <2>3, <2>5 DEF MapInv, MapsTyped, Own
  <2> QED BY <2>4, <2>5
<1> QED BY <1>4, <1>5 DEF MapInv

(* The end of a call changes nothing of this.                              *)
LEMMA CallEndStep ==
  ASSUME MapInv, NEW t \in Workers, CallEnd(t)
  PROVE  MapInv'
<1>1. MapsTyped'
  BY DEF MapInv, MapsTyped, CallEnd
<1>2. ASSUME ~raced' PROVE \A u \in Workers : Own(u)'
  <2>1. \A u \in Workers : Own(u)
    BY <1>2, RacedStays DEF MapInv
  <2> QED BY <2>1 DEF MapInv, MapsTyped, Own, CallEnd
<1> QED BY <1>1, <1>2 DEF MapInv

(* Every step preserves the invariant.                                     *)
LEMMA MapsStep == MapInv /\ [Next]_vars => MapInv'
<1> SUFFICES ASSUME MapInv, [Next]_vars PROVE MapInv'
  OBVIOUS
<1>1. CASE UNCHANGED vars
  BY <1>1 DEF vars, MapInv, MapsTyped, Own
<1>2. CASE Next
  BY <1>2, FindBeginStep, FindEndStep, InsertEndStep, CallEndStep DEF Next
<1> QED BY <1>1, <1>2

(* The invariant of the maps holds throughout.                             *)
LEMMA MapsHold == ProgramsSpec => []MapInv
<1>1. MapInv /\ [Next]_vars => MapInv'
  BY MapsStep
<1> QED BY <1>1, MapsInit, MapsRun, PTL

(* Unless accesses to a map raced, every worker calls through a client it  *)
(* made itself, and makes one for each service                             *)
(* (src/MessageService/MessageService.cpp:17-25).                          *)
THEOREM OwnClientCorrect == ProgramsSpec => []OwnClient
<1>1. MapInv => OwnClient
  BY DEF MapInv, Own, OwnClient
<1> QED BY <1>1, MapsHold, PTL

(* Once every worker has its clients no insertion begins, so nothing can   *)
(* race from then on, however many calls follow.                           *)
THEOREM WarmNeverRacesCorrect == ProgramsSpec => WarmNeverRaces
<1>1. MapInv /\ [Next]_vars => (Warm /\ ~raced => Warm' /\ ~raced')
  <2> SUFFICES ASSUME MapInv, [Next]_vars, Warm, ~raced
               PROVE  Warm' /\ ~raced'
    OBVIOUS
  <2>1. CASE UNCHANGED vars
    BY <2>1 DEF vars, Warm
  <2>2. ASSUME NEW t \in Workers, NEW m \in Maps, FindBegin(t, m)
        PROVE  Warm' /\ ~raced'
    <3>1. ~Inserts(t, m)
      BY <2>2 DEF Warm, Inserts
    <3>2. ~raced'
      BY <2>2, <3>1, Zenon DEF FindBegin
    <3>3. Warm'
      BY <2>2 DEF Warm, FindBegin, MapInv, MapsTyped
    <3> QED BY <3>2, <3>3
  <2>3. ASSUME NEW t \in Workers, FindEnd(t) PROVE Warm' /\ ~raced'
    <3>1. map[at[t]][t] # NoClient
      BY DEF Warm, MapInv, MapsTyped
    <3>2. pc' = [pc EXCEPT ![t] = "call"] /\ UNCHANGED <<map, raced>>
      BY <2>3, <3>1 DEF FindEnd
    <3> QED BY <3>2 DEF Warm, MapInv, MapsTyped
  <2>4. ASSUME NEW t \in Workers, InsertEnd(t) PROVE FALSE
    BY <2>4 DEF Warm, InsertEnd, MapInv, MapsTyped
  <2>5. ASSUME NEW t \in Workers, CallEnd(t) PROVE Warm' /\ ~raced'
    BY <2>5 DEF Warm, CallEnd, MapInv, MapsTyped
  <2> QED BY <2>1, <2>2, <2>3, <2>4, <2>5 DEF Next
<1> QED BY <1>1, MapsHold, MapsRun, PTL DEF WarmNeverRaces
-----------------------------------------------------------------------------
(* The ends of the client process.                                         *)

ShutTyped ==
  /\ shut_pc \in [ExitThreads -> {"run", "dump", "free", "end"}]
  /\ handling \in [ExitThreads -> BOOLEAN]
  /\ own \in [ExitThreads -> Seq(Nat)]
  /\ closed \in Seq(Seq(Nat))

(* Until the first file is closed, nobody has freed anything or got past   *)
(* its dump, and whoever dumps has written the rows in order.              *)
FirstDump ==
  \/ closed # <<>> /\ closed[1] = Shutdown!Whole
  \/ /\ closed = <<>> /\ ~freed /\ ended = "no"
     /\ \A t \in ExitThreads :
          /\ shut_pc[t] \in {"run", "dump"}
          /\ Len(own[t]) <= Rows
          /\ \A i \in 1..Len(own[t]) : own[t][i] = i

DumpInv == ShutTyped /\ FirstDump

(* A thread that begins a dump, from the beginning or anew, has no rows.   *)
LEMMA DumpStep ==
  ASSUME DumpInv, NEW t \in ExitThreads, Shutdown!Dump(t),
         handling' \in [ExitThreads -> BOOLEAN], UNCHANGED <<freed, closed, ended>>
  PROVE  DumpInv'
<1>1. ShutTyped'
  <2>1. shut_pc' \in [ExitThreads -> {"run", "dump", "free", "end"}]
    BY DEF DumpInv, ShutTyped, Shutdown!Dump
  <2>2. own' \in [ExitThreads -> Seq(Nat)]
    <3>1. <<>> \in Seq(Nat) /\ own \in [ExitThreads -> Seq(Nat)]
      BY DEF DumpInv, ShutTyped
    <3> QED BY <3>1 DEF Shutdown!Dump
  <2> QED BY <2>1, <2>2 DEF DumpInv, ShutTyped
<1>2. FirstDump'
  <2>1. CASE closed # <<>>
    BY <2>1 DEF DumpInv, FirstDump, Shutdown!Whole
  <2>2. CASE closed = <<>>
    <3> SUFFICES ASSUME NEW u \in ExitThreads
                 PROVE  /\ shut_pc'[u] \in {"run", "dump"}
                        /\ Len(own'[u]) <= Rows
                        /\ \A i \in 1..Len(own'[u]) : own'[u][i] = i
      BY <2>2 DEF DumpInv, FirstDump
    <3>1. CASE u = t
      <4>1. own'[u] = <<>> /\ shut_pc'[u] = "dump"
        BY <3>1 DEF Shutdown!Dump, DumpInv, ShutTyped
      <4> QED BY <4>1, ProgramsAssumption
    <3>2. CASE u # t
      BY <2>2, <3>2 DEF Shutdown!Dump, DumpInv, ShutTyped, FirstDump
    <3> QED BY <3>1, <3>2
  <2> QED BY <2>1, <2>2
<1> QED BY <1>1, <1>2 DEF DumpInv

(* A row is garbage, or crashes the process, only after a file was closed. *)
LEMMA RowStep ==
  ASSUME DumpInv, NEW t \in ExitThreads, Shutdown!dump_matrix(t)
  PROVE  DumpInv'
<1> USE DEF DumpInv, Shutdown!dump_matrix
<1>1. ShutTyped'
  <2>1. own' = own \/ \E row \in Nat : own' = [own EXCEPT ![t] = Append(@, row)]
    <3>1. Len(own[t]) + 1 \in Nat /\ Shutdown!Garbage \in Nat
      BY DEF ShutTyped, Shutdown!Garbage
    <3> QED BY <3>1
  <2>2. own' \in [ExitThreads -> Seq(Nat)]
    <3>1. own \in [ExitThreads -> Seq(Nat)]
      BY DEF ShutTyped
    <3>2. ASSUME NEW row \in Nat PROVE Append(own[t], row) \in Seq(Nat)
      BY <3>1
    <3> HIDE DEF Shutdown!dump_matrix, DumpInv
    <3> QED BY <2>1, <3>1, <3>2
  <2> QED BY <2>2 DEF ShutTyped
<1>2. FirstDump'
  <2>1. CASE closed # <<>>
    BY <2>1 DEF FirstDump, Shutdown!Whole
  <2>2. CASE closed = <<>>
    <3>1. ~freed /\ ended = "no"
      BY <2>2 DEF FirstDump
    <3>2. own' = [own EXCEPT ![t] = Append(own[t], Len(own[t]) + 1)] /\ ended' = ended
      BY <3>1
    <3> SUFFICES ASSUME NEW u \in ExitThreads
                 PROVE  /\ Len(own'[u]) <= Rows
                        /\ \A i \in 1..Len(own'[u]) : own'[u][i] = i
      BY <2>2, <3>1, <3>2 DEF FirstDump
    <3>3. CASE u = t
      <4>1. own'[u] = Append(own[t], Len(own[t]) + 1)
        BY <3>2, <3>3 DEF ShutTyped
      <4>2. Len(own[t]) < Rows /\ own[t] \in Seq(Nat)
        BY DEF ShutTyped
      <4>3. \A i \in 1..Len(own[t]) : own[t][i] = i
        BY <2>2 DEF FirstDump
      <4> QED BY <4>1, <4>2, <4>3, ProgramsAssumption
    <3>4. CASE u # t
      BY <2>2, <3>2, <3>4 DEF ShutTyped, FirstDump
    <3> QED BY <3>3, <3>4
  <2> QED BY <2>1, <2>2
<1> QED BY <1>1, <1>2

(* The first file that is closed holds every row; a later one may not.     *)
LEMMA CloseStep ==
  ASSUME DumpInv, NEW t \in ExitThreads, Shutdown!CloseFile(t)
  PROVE  DumpInv'
<1>1. own[t] \in Seq(Nat) /\ Len(own[t]) = Rows /\ closed \in Seq(Seq(Nat))
  BY DEF DumpInv, ShutTyped, Shutdown!CloseFile
<1>2. closed' = IF closed = <<>> THEN <<own[t]>> ELSE closed
  BY DEF Shutdown!CloseFile
<1>3. ShutTyped'
  <2>1. <<>> \in Seq(Nat) /\ own \in [ExitThreads -> Seq(Nat)]
    BY DEF DumpInv, ShutTyped
  <2>2. own' \in [ExitThreads -> Seq(Nat)]
    BY <2>1 DEF Shutdown!CloseFile
  <2>3. closed' \in Seq(Seq(Nat))
    <3>1. <<own[t]>> \in Seq(Seq(Nat))
      BY <1>1
    <3> QED BY <1>1, <1>2, <3>1
  <2> QED BY <2>2, <2>3 DEF DumpInv, ShutTyped, Shutdown!CloseFile
<1>4. closed' # <<>> /\ closed'[1] = Shutdown!Whole
  <2>1. CASE closed # <<>>
    BY <1>2, <2>1 DEF DumpInv, FirstDump
  <2>2. CASE closed = <<>>
    <3>1. closed' = <<own[t]>>
      BY <1>2, <2>2
    <3>2. \A i \in 1..Rows : own[t][i] = i
      BY <1>1, <2>2 DEF DumpInv, FirstDump
    <3>3. own[t] = [i \in 1..Rows |-> i]
      <4>1. own[t] \in [1..Rows -> Nat]
        BY <1>1, LenProperties
      <4> QED BY <3>2, <4>1
    <3>4. closed'[1] = own[t] /\ closed' # <<>>
      BY <3>1
    <3> QED BY <3>3, <3>4 DEF Shutdown!Whole
  <2> QED BY <2>1, <2>2
<1>5. Shutdown!Whole' = Shutdown!Whole
  BY DEF Shutdown!Whole
<1> QED BY <1>3, <1>4, <1>5 DEF DumpInv, FirstDump

(* The buffers are freed, and the process ends, after a file was closed.   *)
LEMMA EndStep ==
  ASSUME DumpInv, NEW t \in ExitThreads, Shutdown!FreeBuffers(t) \/ Shutdown!EndProcess(t)
  PROVE  DumpInv'
<1>1. closed # <<>>
  BY DEF DumpInv, FirstDump, Shutdown!FreeBuffers, Shutdown!EndProcess
<1>2. closed' = closed /\ handling' = handling
  BY DEF Shutdown!FreeBuffers, Shutdown!EndProcess
<1>3. \/ UNCHANGED own /\ shut_pc' \in {shut_pc, [shut_pc EXCEPT ![t] = "end"]}
      \/ Shutdown!Dump(t)
  BY DEF Shutdown!FreeBuffers, Shutdown!EndProcess, Shutdown!exit
<1>4. shut_pc' \in [ExitThreads -> {"run", "dump", "free", "end"}]
  BY <1>3 DEF DumpInv, ShutTyped, Shutdown!Dump
<1>5. own' \in [ExitThreads -> Seq(Nat)]
  <2>1. <<>> \in Seq(Nat) /\ own \in [ExitThreads -> Seq(Nat)]
    BY DEF DumpInv, ShutTyped
  <2> QED BY <1>3, <2>1 DEF Shutdown!Dump
<1> QED BY <1>1, <1>2, <1>4, <1>5 DEF DumpInv, ShutTyped, FirstDump, Shutdown!Whole

(* Every step preserves the invariant.                                     *)
LEMMA DumpsStep == DumpInv /\ [Shutdown!Next]_shutdownVars => DumpInv'
<1> SUFFICES ASSUME DumpInv, [Shutdown!Next]_shutdownVars PROVE DumpInv'
  OBVIOUS
<1>1. CASE UNCHANGED shutdownVars
  BY <1>1 DEF shutdownVars, DumpInv, ShutTyped, FirstDump, Shutdown!Whole
<1>2. CASE Shutdown!main
  BY <1>2, DumpStep, ProgramsAssumption DEF Shutdown!main, DumpInv, ShutTyped
<1>3. ASSUME NEW t \in ExitThreads, Shutdown!int_handler(t) PROVE DumpInv'
  <2>1. handling' \in [ExitThreads -> BOOLEAN]
    BY <1>3 DEF Shutdown!int_handler, DumpInv, ShutTyped
  <2> QED BY <1>3, <2>1, DumpStep DEF Shutdown!int_handler
<1>4. ASSUME NEW t \in ExitThreads, Shutdown!Destructor(t) PROVE DumpInv'
  BY <1>4, RowStep, CloseStep, EndStep DEF Shutdown!Destructor
<1> QED BY <1>1, <1>2, <1>3, <1>4 DEF Shutdown!Next

(* The destructor may run on any number of threads at once                 *)
(* (src/Client/Client.cpp:32, 148): the process does not end before one of *)
(* them has saved every row, and the first file closed is that one.        *)
THEOREM FirstDumpWholeCorrect == ProgramsSpec => []FirstDumpWhole
<1>1. Shutdown!Init => DumpInv
  BY ProgramsAssumption DEF Shutdown!Init, DumpInv, ShutTyped, FirstDump
<1>2. DumpInv /\ [Shutdown!Next]_shutdownVars => DumpInv'
  BY DumpsStep
<1>3. DumpInv => FirstDumpWhole
  BY DEF DumpInv, FirstDump, FirstDumpWhole, Shutdown!FirstDumpWhole
<1> QED BY <1>1, <1>2, <1>3, ShutdownRuns, PTL
-----------------------------------------------------------------------------
(* The stream version of ServerStatsManager.                               *)

Piece == [word : {"id", "time"}, call : Nat]

(* What the stream was given: the file and then the buffer.                *)
Written == file \o pending

StreamTyped ==
  /\ stream_pc \in {"construct", "check", "id", "time", "stop", "closed"}
  /\ killed \in BOOLEAN
  /\ call \in Nat \ {0}
  /\ entry_cursor \in Nat /\ entry_cursor <= entry_count
  /\ file \in Seq(Piece) /\ pending \in Seq(Piece)
  /\ limit \in Nat /\ torn \in BOOLEAN

(* The rows of an earlier run are still where they were.                   *)
Kept == \A i \in 1..Len(Stream!Before) : i <= Len(file) /\ file[i] = Stream!Before[i]

(* After these rows come the rows of the calls in order, each its two      *)
(* pieces, and the first piece of a row under way.                         *)
RowsGiven(half) ==
  /\ half \in {0, 1}
  /\ Len(Written) = Len(Stream!Before) + 2 * (call - 1) + half
  /\ \A i \in 1..call - 1 : /\ Written[Len(Stream!Before) + 2 * i - 1].call = i
                            /\ Written[Len(Stream!Before) + 2 * i].call = i
  /\ half = 1 => Written[Len(Stream!Before) + 2 * call - 1].call = call

(* The buffer never holds more than the rows since the last flush.         *)
BufferBound ==
  /\ Len(pending) <= 2 * entry_count
  /\ stream_pc = "check" => Len(pending) <= 2 * entry_cursor
  /\ stream_pc = "id" => entry_cursor < entry_count /\ Len(pending) <= 2 * entry_cursor
  /\ stream_pc = "time" => entry_cursor < entry_count /\ Len(pending) <= 2 * entry_cursor + 1

StreamInv ==
  /\ StreamTyped
  /\ BufferBound
  /\ stream_pc = "construct" => call = 1 /\ pending = <<>> /\ file = Stream!Pieces(0)
  /\ stream_pc \in {"id", "time"} => call \in Stream!Calls
  /\ IF stream_pc \in {"stop", "closed"} THEN limit = call - 1 ELSE ~torn
  /\ stream_pc # "construct" =>
       /\ Kept
       /\ ~killed => \E half \in {0, 1} :
            /\ RowsGiven(half)
            /\ stream_pc \in {"check", "id"} => half = 0
            /\ stream_pc = "time" => half = 1
            /\ stream_pc \in {"stop", "closed"} => half = IF torn THEN 1 ELSE 0
       /\ ~killed /\ stream_pc = "closed" => pending = <<>>

(* A flush moves the buffer to the file and changes nothing of what was    *)
(* given to the stream.                                                    *)
LEMMA FlushKeeps ==
  ASSUME StreamTyped, Stream!flush
  PROVE  /\ file' \in Seq(Piece) /\ pending' = <<>>
         /\ Written' = Written
         /\ Len(file') = Len(file) + Len(pending)
         /\ \A i \in 1..Len(file) : file'[i] = file[i]
<1>1. file \in Seq(Piece) /\ pending \in Seq(Piece)
  BY DEF StreamTyped
<1>2. /\ file \o pending \in Seq(Piece)
      /\ Len(file \o pending) = Len(file) + Len(pending)
      /\ \A i \in 1..Len(file) + Len(pending) :
           (file \o pending)[i] = IF i <= Len(file) THEN file[i] ELSE pending[i - Len(file)]
  BY <1>1, ConcatProperties
<1>3. file' = file \o pending /\ pending' = <<>>
  BY DEF Stream!flush
<1>4. file' \o pending' = file \o pending
  BY <1>2, <1>3, ConcatEmptySeq
<1> QED BY <1>1, <1>2, <1>3, <1>4 DEF Written

(* A piece more in the buffer is a piece more of what was given.           *)
LEMMA PieceGiven ==
  ASSUME StreamTyped, NEW piece \in Piece, pending' = Append(pending, piece), file' = file
  PROVE  /\ pending' \in Seq(Piece) /\ Len(pending') = Len(pending) + 1
         /\ Written \in Seq(Piece)
         /\ Len(Written') = Len(Written) + 1
         /\ \A i \in 1..Len(Written) : Written'[i] = Written[i]
         /\ Written'[Len(Written) + 1] = piece
<1>1. file \in Seq(Piece) /\ pending \in Seq(Piece)
  BY DEF StreamTyped
<1>2. pending' \in Seq(Piece) /\ Len(pending') = Len(pending) + 1
  BY <1>1
<1>3. /\ \A i \in 1..Len(pending) : pending'[i] = pending[i]
      /\ pending'[Len(pending) + 1] = piece
  BY <1>1
<1>4. /\ Written \in Seq(Piece) /\ Len(Written) = Len(file) + Len(pending)
      /\ \A i \in 1..Len(file) + Len(pending) :
           Written[i] = IF i <= Len(file) THEN file[i] ELSE pending[i - Len(file)]
  BY <1>1, ConcatProperties DEF Written
<1>5. /\ Written' \in Seq(Piece) /\ Len(Written') = Len(file) + Len(pending')
      /\ \A i \in 1..Len(file) + Len(pending') :
           Written'[i] = IF i <= Len(file) THEN file[i] ELSE pending'[i - Len(file)]
  BY <1>1, <1>2, ConcatProperties DEF Written
<1>6. Len(file) \in Nat /\ Len(pending) \in Nat
  BY <1>1
<1>7. ASSUME NEW i \in 1..Len(Written) PROVE Written'[i] = Written[i]
  <2>1. CASE i <= Len(file)
    BY <1>2, <1>4, <1>5, <1>6, <2>1
  <2>2. CASE i > Len(file)
    <3>1. i - Len(file) \in 1..Len(pending)
      BY <1>4, <1>6, <2>2
    <3> QED BY <1>2, <1>3, <1>4, <1>5, <1>6, <2>2, <3>1
  <2> QED BY <1>4, <1>6, <2>1, <2>2
<1>8. Written'[Len(Written) + 1] = piece
  BY <1>2, <1>3, <1>4, <1>5, <1>6
<1> QED BY <1>2, <1>4, <1>5, <1>6, <1>7, <1>8

(* The rows of an earlier run are one row, or none.                        *)
LEMMA BeforeIs ==
  /\ Stream!Before \in Seq(Piece) /\ Len(Stream!Before) \in {0, 2}
  /\ Stream!Pieces(0) \in Seq(Piece)
<1>1. Stream!Pieces(0) \in Seq(Piece) /\ Len(Stream!Pieces(0)) = 2
  <2>1. [word |-> "id", call |-> 0] \in Piece /\ [word |-> "time", call |-> 0] \in Piece
    BY DEF Piece
  <2> QED BY <2>1 DEF Stream!Pieces
<1>2. <<>> \in Seq(Piece) /\ Len(<<>>) = 0
  OBVIOUS
<1> QED BY <1>1, <1>2 DEF Stream!Before

(* In the beginning nothing was given to the stream.                       *)
LEMMA StreamInit == Stream!Init => StreamInv
<1> SUFFICES ASSUME Stream!Init PROVE StreamInv
  OBVIOUS
<1>1. <<>> \in Seq(Piece) /\ Len(<<>>) = 0
  OBVIOUS
<1>2. StreamTyped
  <2>1. file \in Seq(Piece) /\ pending \in Seq(Piece)
    BY <1>1, BeforeIs DEF Stream!Init
  <2>2. 0 \in Nat /\ 0 <= entry_count
    BY ProgramsAssumption
  <2>3. /\ stream_pc = "construct" /\ killed = FALSE /\ call = 1 /\ entry_cursor = 0 /\ limit = 0
        /\ torn = FALSE
    BY DEF Stream!Init
  <2>4. killed \in BOOLEAN /\ torn \in BOOLEAN
    BY <2>3, Zenon
  <2>5. /\ call \in Nat \ {0} /\ limit \in Nat
        /\ stream_pc \in {"construct", "check", "id", "time", "stop", "closed"}
        /\ entry_cursor \in Nat /\ entry_cursor <= entry_count
    BY <2>2, <2>3
  <2> QED BY <2>1, <2>4, <2>5 DEF StreamTyped
<1>3. BufferBound
  BY <1>1, ProgramsAssumption DEF Stream!Init, BufferBound
<1> QED BY <1>2, <1>3 DEF Stream!Init, StreamInv

(* The constructor keeps the file of an earlier run, or empties it.        *)
LEMMA ConstructStep ==
  ASSUME StreamInv, Stream!Construct, UNCHANGED <<killed, erase_previous_file, overwrite>>
  PROVE  StreamInv'
<1>1. file' = Stream!Before /\ pending = <<>> /\ pending' = <<>> /\ call' = 1 /\ call = 1
  BY DEF StreamInv, Stream!Construct, Stream!Before
<1>2. Stream!Before' = Stream!Before
  BY DEF Stream!Before
<1>3. Written' = Stream!Before
  BY <1>1, BeforeIs, ConcatEmptySeq DEF Written
<1>4. RowsGiven(0)'
  BY <1>1, <1>2, <1>3, BeforeIs DEF RowsGiven
<1>5. StreamTyped'
  BY <1>1, BeforeIs DEF StreamInv, StreamTyped, Stream!Construct
<1>6. Kept'
  BY <1>1, <1>2, BeforeIs DEF Kept
<1>7. BufferBound'
  BY <1>1, ProgramsAssumption DEF StreamInv, StreamTyped, BufferBound, Stream!Construct
<1>8. stream_pc' = "check" /\ 0 \in {0, 1} /\ ~torn'
  BY DEF StreamInv, Stream!Construct
<1> QED BY <1>4, <1>5, <1>6, <1>7, <1>8 DEF StreamInv

(* After a flush the file still begins with what it began with, and what   *)
(* was given is as it was.                                                 *)
LEMMA FlushStep ==
  ASSUME StreamInv, stream_pc # "construct", Stream!flush,
         UNCHANGED <<call, erase_previous_file, overwrite>>
  PROVE  /\ file' \in Seq(Piece) /\ pending' = <<>> /\ Len(pending') = 0
         /\ Kept' /\ \A half \in {0, 1} : RowsGiven(half) => RowsGiven(half)'
<1>1. Stream!Before' = Stream!Before
  BY DEF Stream!Before
<1>2. /\ file' \in Seq(Piece) /\ pending' = <<>> /\ Written' = Written
      /\ Len(file') = Len(file) + Len(pending)
      /\ \A i \in 1..Len(file) : file'[i] = file[i]
  BY FlushKeeps DEF StreamInv
<1>3. Len(file) \in Nat /\ Len(pending) \in Nat
  BY DEF StreamInv, StreamTyped
<1>4. Kept'
  BY <1>1, <1>2, <1>3, BeforeIs DEF StreamInv, Kept
<1>5. \A half \in {0, 1} : RowsGiven(half) => RowsGiven(half)'
  BY <1>1, <1>2 DEF RowsGiven
<1> QED BY <1>2, <1>4, <1>5

(* The check flushes the stream every entry_count rows.                    *)
LEMMA CheckStep ==
  ASSUME StreamInv, Stream!Check, UNCHANGED <<killed, erase_previous_file, overwrite>>
  PROVE  StreamInv'
<1>1. /\ stream_pc = "check" /\ stream_pc' = "id" /\ call \in Stream!Calls
      /\ UNCHANGED <<call, limit, torn, killed>>
  BY DEF Stream!Check
<1>2. Stream!Calls' = Stream!Calls /\ Stream!Before' = Stream!Before
  BY DEF Stream!Calls, Stream!Before
<1>3. CASE Stream!flush /\ entry_cursor' = 0
  <2>1. /\ file' \in Seq(Piece) /\ pending' = <<>> /\ Len(pending') = 0
        /\ Kept' /\ \A half \in {0, 1} : RowsGiven(half) => RowsGiven(half)'
    BY <1>1, <1>3, FlushStep
  <2>2. StreamTyped' /\ BufferBound'
    BY <1>1, <1>3, <2>1, ProgramsAssumption DEF StreamInv, StreamTyped, BufferBound
  <2> QED BY <1>1, <1>2, <2>1, <2>2 DEF StreamInv
<1>4. CASE entry_cursor < entry_count /\ UNCHANGED <<file, pending, entry_cursor>>
  <2>1. StreamTyped' /\ BufferBound'
    BY <1>1, <1>4 DEF StreamInv, StreamTyped, BufferBound
  <2>2. Kept' /\ \A half \in {0, 1} : RowsGiven(half) => RowsGiven(half)'
    BY <1>1, <1>2, <1>4 DEF StreamInv, Kept, RowsGiven, Written
  <2> QED BY <1>1, <1>2, <2>1, <2>2 DEF StreamInv
<1>5. entry_cursor < entry_count \/ entry_cursor >= entry_count
  BY ProgramsAssumption DEF StreamInv, StreamTyped
<1>6. \/ Stream!flush /\ entry_cursor' = 0
      \/ ~(entry_cursor >= entry_count) /\ UNCHANGED <<file, pending, entry_cursor>>
  BY DEF Stream!Check
<1>7. ~(entry_cursor >= entry_count) => entry_cursor < entry_count
  BY <1>5
<1> QED BY <1>3, <1>4, <1>6, <1>7

(* The first piece of a row.                                               *)
LEMMA IdStep ==
  ASSUME StreamInv, Stream!InsertId, UNCHANGED <<killed, erase_previous_file, overwrite>>
  PROVE  StreamInv'
<1> DEFINE piece == [word |-> "id", call |-> call]
<1>1. /\ stream_pc = "id" /\ stream_pc' = "time"
      /\ pending' = Append(pending, piece)
      /\ UNCHANGED <<call, entry_cursor, file, limit, torn, killed>>
  BY DEF Stream!InsertId
<1>2. piece \in Piece /\ piece.call = call /\ call \in Nat \ {0}
  BY DEF StreamInv, StreamTyped, Piece
<1> HIDE DEF piece
<1>3. Stream!Calls' = Stream!Calls /\ Stream!Before' = Stream!Before
  BY DEF Stream!Calls, Stream!Before
<1>4. /\ pending' \in Seq(Piece) /\ Len(pending') = Len(pending) + 1
      /\ Written \in Seq(Piece) /\ Len(Written') = Len(Written) + 1
      /\ \A i \in 1..Len(Written) : Written'[i] = Written[i]
      /\ Written'[Len(Written) + 1] = piece
  BY <1>1, <1>2, PieceGiven DEF StreamInv
<1>5. StreamTyped' /\ BufferBound'
  BY <1>1, <1>4, ProgramsAssumption DEF StreamInv, StreamTyped, BufferBound
<1>6. Kept'
  BY <1>1, <1>3 DEF StreamInv, Kept
<1>7. ASSUME RowsGiven(0) PROVE RowsGiven(1)'
  <2>1. Len(Stream!Before) \in {0, 2} /\ Len(Written) = Len(Stream!Before) + 2 * (call - 1)
    <3>1. Len(Stream!Before) \in {0, 2}
      BY BeforeIs
    <3>2. Len(Written) = Len(Stream!Before) + 2 * (call - 1) + 0
      BY <1>7 DEF RowsGiven
    <3> QED BY <1>2, <3>1, <3>2
  <2>2. Len(Written') = Len(Stream!Before) + 2 * (call - 1) + 1
    BY <1>4, <2>1, <1>2
  <2>3. Written'[Len(Stream!Before) + 2 * call - 1].call = call
    BY <1>2, <1>4, <2>1
  <2>4. ASSUME NEW i \in 1..call - 1
        PROVE  /\ Written'[Len(Stream!Before) + 2 * i - 1].call = i
               /\ Written'[Len(Stream!Before) + 2 * i].call = i
    <3>1. /\ Len(Stream!Before) + 2 * i - 1 \in 1..Len(Written)
          /\ Len(Stream!Before) + 2 * i \in 1..Len(Written)
      BY <1>2, <2>1
    <3> QED BY <1>4, <1>7, <3>1 DEF RowsGiven
  <2> QED BY <1>1, <1>3, <2>2, <2>3, <2>4 DEF RowsGiven
<1> QED BY <1>1, <1>3, <1>5, <1>6, <1>7 DEF StreamInv

(* The second piece; the row is complete.                                  *)
LEMMA TimeStep ==
  ASSUME StreamInv, Stream!InsertTime, UNCHANGED <<killed, erase_previous_file, overwrite>>
  PROVE  StreamInv'
<1> DEFINE piece == [word |-> "time", call |-> call]
<1>1. /\ stream_pc = "time" /\ stream_pc' = "check"
      /\ pending' = Append(pending, piece)
      /\ entry_cursor' = entry_cursor + 1 /\ call' = call + 1
      /\ UNCHANGED <<file, limit, torn, killed>>
  BY DEF Stream!InsertTime
<1>2. piece \in Piece /\ piece.call = call /\ call \in Nat \ {0}
  BY DEF StreamInv, StreamTyped, Piece
<1> HIDE DEF piece
<1>3. Stream!Before' = Stream!Before
  BY DEF Stream!Before
<1>4. /\ pending' \in Seq(Piece) /\ Len(pending') = Len(pending) + 1
      /\ Written \in Seq(Piece) /\ Len(Written') = Len(Written) + 1
      /\ \A i \in 1..Len(Written) : Written'[i] = Written[i]
      /\ Written'[Len(Written) + 1] = piece
  BY <1>1, <1>2, PieceGiven DEF StreamInv
<1>5. StreamTyped' /\ BufferBound'
  BY <1>1, <1>2, <1>4, ProgramsAssumption DEF StreamInv, StreamTyped, BufferBound
<1>6. Kept'
  BY <1>1, <1>3 DEF StreamInv, Kept
<1>7. ASSUME RowsGiven(1) PROVE RowsGiven(0)'
  <2>1. Len(Stream!Before) \in {0, 2} /\ Len(Written) = Len(Stream!Before) + 2 * call - 1
    BY <1>2, <1>7, BeforeIs DEF RowsGiven
  <2>2. Len(Written') = Len(Stream!Before) + 2 * call
    BY <1>4, <2>1, <1>2
  <2>3. /\ Written'[Len(Stream!Before) + 2 * call].call = call
        /\ Written'[Len(Stream!Before) + 2 * call - 1].call = call
    <3>1. Len(Stream!Before) + 2 * call - 1 \in 1..Len(Written)
      BY <1>2, <2>1
    <3>2. Written[Len(Stream!Before) + 2 * call - 1].call = call
      BY <1>7 DEF RowsGiven
    <3>3. Len(Stream!Before) + 2 * call = Len(Written) + 1
      BY <1>2, <2>1
    <3> QED BY <1>2, <1>4, <3>1, <3>2, <3>3
  <2>4. ASSUME NEW i \in 1..call - 1
        PROVE  /\ Written'[Len(Stream!Before) + 2 * i - 1].call = i
               /\ Written'[Len(Stream!Before) + 2 * i].call = i
    <3>1. /\ Len(Stream!Before) + 2 * i - 1 \in 1..Len(Written)
          /\ Len(Stream!Before) + 2 * i \in 1..Len(Written)
      BY <1>2, <2>1
    <3> QED BY <1>4, <1>7, <3>1 DEF RowsGiven
  <2>5. \A i \in 1..call' - 1 : /\ Written'[Len(Stream!Before) + 2 * i - 1].call = i
                                /\ Written'[Len(Stream!Before) + 2 * i].call = i
    <3>1. \A i \in 1..call' - 1 : i = call \/ i \in 1..call - 1
      BY <1>1, <1>2
    <3> QED BY <2>3, <2>4, <3>1
  <2>6. Len(Written') = Len(Stream!Before) + 2 * (call' - 1) + 0
    BY <1>1, <1>2, <2>1, <2>2
  <2> QED BY <1>3, <2>5, <2>6 DEF RowsGiven
<1> QED BY <1>1, <1>3, <1>5, <1>6, <1>7 DEF StreamInv

(* The stream writes its buffer when it likes to.                          *)
LEMMA OverflowStep ==
  ASSUME StreamInv, Stream!Overflow, UNCHANGED <<killed, erase_previous_file, overwrite>>
  PROVE  StreamInv'
<1>1. /\ stream_pc \in {"id", "time", "check"} /\ Stream!flush
      /\ UNCHANGED <<stream_pc, call, entry_cursor, limit, torn, killed>>
  BY DEF Stream!Overflow
<1>2. Stream!Calls' = Stream!Calls /\ Stream!Before' = Stream!Before
  BY DEF Stream!Calls, Stream!Before
<1>3. /\ file' \in Seq(Piece) /\ pending' = <<>> /\ Len(pending') = 0
      /\ Kept' /\ \A half \in {0, 1} : RowsGiven(half) => RowsGiven(half)'
  BY <1>1, FlushStep
<1>4. StreamTyped' /\ BufferBound'
  BY <1>1, <1>3, ProgramsAssumption DEF StreamInv, StreamTyped, BufferBound
<1> QED BY <1>1, <1>2, <1>3, <1>4 DEF StreamInv

(* The program is stopped, maybe inside a row.                             *)
LEMMA StopStep ==
  ASSUME StreamInv, Stream!Stop, UNCHANGED <<killed, erase_previous_file, overwrite>>
  PROVE  StreamInv'
<1>1. /\ stream_pc \in {"id", "time", "check"} /\ stream_pc' = "stop"
      /\ limit' = call - 1 /\ (torn' <=> stream_pc = "time") /\ torn' \in BOOLEAN
      /\ UNCHANGED <<call, entry_cursor, file, pending, killed>>
  BY DEF Stream!Stop
<1>2. Stream!Before' = Stream!Before
  BY DEF Stream!Before
<1>3. StreamTyped' /\ BufferBound'
  BY <1>1 DEF StreamInv, StreamTyped, BufferBound
<1>4. Kept' /\ \A half \in {0, 1} : RowsGiven(half) => RowsGiven(half)'
  BY <1>1, <1>2 DEF StreamInv, Kept, RowsGiven, Written
<1> QED BY <1>1, <1>2, <1>3, <1>4 DEF StreamInv

(* The destructor writes the rest.                                         *)
LEMMA CloseStreamStep ==
  ASSUME StreamInv, Stream!Close, UNCHANGED <<killed, erase_previous_file, overwrite>>
  PROVE  StreamInv'
<1>1. /\ stream_pc = "stop" /\ stream_pc' = "closed" /\ Stream!flush
      /\ UNCHANGED <<call, entry_cursor, limit, torn, killed>>
  BY DEF Stream!Close
<1>2. Stream!Before' = Stream!Before
  BY DEF Stream!Before
<1>3. /\ file' \in Seq(Piece) /\ pending' = <<>> /\ Len(pending') = 0
      /\ Kept' /\ \A half \in {0, 1} : RowsGiven(half) => RowsGiven(half)'
  BY <1>1, FlushStep
<1>4. StreamTyped' /\ BufferBound'
  BY <1>1, <1>3, ProgramsAssumption DEF StreamInv, StreamTyped, BufferBound
<1> QED BY <1>1, <1>2, <1>3, <1>4 DEF StreamInv

(* A killed process loses the buffer and nothing else.                     *)
LEMMA KillStep ==
  ASSUME StreamInv, Stream!Kill, UNCHANGED <<erase_previous_file, overwrite>>
  PROVE  StreamInv'
<1>1. /\ killed' = TRUE /\ pending' = <<>>
      /\ UNCHANGED <<stream_pc, call, entry_cursor, file, limit, torn>>
  BY DEF Stream!Kill
<1>2. Stream!Calls' = Stream!Calls /\ Stream!Before' = Stream!Before
  BY DEF Stream!Calls, Stream!Before
<1>3. pending' \in Seq(Piece) /\ Len(pending') = 0
  BY <1>1
<1>4. StreamTyped' /\ BufferBound'
  BY <1>1, <1>3, ProgramsAssumption DEF StreamInv, StreamTyped, BufferBound
<1>5. Kept => Kept'
  BY <1>1, <1>2 DEF Kept
<1> QED BY <1>1, <1>2, <1>4, <1>5 DEF StreamInv

(* Every step preserves the invariant.                                     *)
LEMMA StreamStep == StreamInv /\ [Stream!Next]_streamVars => StreamInv'
<1> SUFFICES ASSUME StreamInv, [Stream!Next]_streamVars PROVE StreamInv'
  OBVIOUS
<1>1. CASE UNCHANGED streamVars
  <2>1. Stream!Calls' = Stream!Calls /\ Stream!Before' = Stream!Before
    BY <1>1 DEF streamVars, Stream!Calls, Stream!Before
  <2>2. StreamTyped' /\ BufferBound'
    BY <1>1 DEF streamVars, StreamInv, StreamTyped, BufferBound
  <2>3. (Kept => Kept') /\ \A half \in {0, 1} : RowsGiven(half) => RowsGiven(half)'
    BY <1>1, <2>1 DEF streamVars, Kept, RowsGiven, Written
  <2> QED BY <1>1, <2>1, <2>2, <2>3 DEF streamVars, StreamInv
<1>2. CASE Stream!Next
  <2>1. UNCHANGED <<erase_previous_file, overwrite>>
    BY <1>2 DEF Stream!Next, Stream!arguments
  <2>2. CASE Stream!Kill
    BY <2>1, <2>2, KillStep
  <2>3. CASE /\ UNCHANGED killed
             /\ \/ Stream!Construct \/ Stream!server_stats_stress
                \/ Stream!Overflow \/ Stream!Stop \/ Stream!Close
    BY <2>1, <2>3, ConstructStep, CheckStep, IdStep, TimeStep, OverflowStep, StopStep,
       CloseStreamStep DEF Stream!server_stats_stress
  <2> QED BY <1>2, <2>2, <2>3 DEF Stream!Next
<1> QED BY <1>1, <1>2

(* The invariant of the stream holds throughout.                           *)
LEMMA StreamHolds == ProgramsSpec => []StreamInv
<1>1. StreamInv /\ [Stream!Next]_streamVars => StreamInv'
  BY StreamStep
<1> QED BY <1>1, StreamInit, StreamRuns, PTL

(* What was given reads as the rows of the calls made, in order: a piece   *)
(* of the row under way is not counted.                                    *)
LEMMA RowsAre ==
  ASSUME call \in Nat \ {0}, NEW half \in {0, 1}, RowsGiven(half)
  PROVE  Stream!RowsOf(Written) = [i \in 1 .. call - 1 |-> [id |-> i, time |-> i]]
<1> DEFINE b == Len(Stream!Before)
<1>1. b \in {0, 2} /\ half \in {0, 1}
  BY BeforeIs
<1>2. Len(Written) = b + 2 * (call - 1) + half
  BY DEF RowsGiven
<1>3. ASSUME NEW i \in 1..call - 1
      PROVE  Written[b + 2 * i - 1].call = i /\ Written[b + 2 * i].call = i
  BY DEF RowsGiven
<1>4. Stream!RowsOf(Written) = [i \in 1 .. (Len(Written) - b) \div 2 |->
                                [id |-> Written[b + 2 * i - 1].call, time |-> Written[b + 2 * i].call]]
  BY DEF Stream!RowsOf
<1> HIDE DEF b
<1>5. (Len(Written) - b) \div 2 = call - 1
  <2>1. Len(Written) - b = 2 * (call - 1) + half
    BY <1>1, <1>2
  <2> QED BY <1>1, <2>1
<1> QED BY <1>3, <1>4, <1>5

(* A torn line is the first piece of the row under way.                    *)
LEMMA TornIs ==
  ASSUME call \in Nat \ {0}, NEW half \in {0, 1}, RowsGiven(half)
  PROVE  Stream!TornOf(Written) = IF half = 1 THEN <<call>> ELSE <<>>
<1> DEFINE b == Len(Stream!Before)
<1>1. b \in {0, 2} /\ half \in {0, 1}
  BY BeforeIs
<1>2. Len(Written) = b + 2 * (call - 1) + half
  BY DEF RowsGiven
<1>3. half = 1 => Written[b + 2 * call - 1].call = call
  BY DEF RowsGiven
<1>4. Stream!TornOf(Written) = IF (Len(Written) - b) % 2 = 1
                               THEN <<Written[Len(Written)].call>> ELSE <<>>
  BY DEF Stream!TornOf
<1> HIDE DEF b
<1>5. (Len(Written) - b) % 2 = half
  BY <1>1, <1>2
<1>6. half = 1 => Len(Written) = b + 2 * call - 1
  BY <1>1, <1>2
<1> QED BY <1>1, <1>3, <1>4, <1>5, <1>6

(* Before is still at the beginning of the file.                           *)
LEMMA StillPrefix ==
  ASSUME StreamTyped, Kept
  PROVE  Stream!IsPrefix(Stream!Before, file)
<1> DEFINE b == Stream!Before
<1>1. b \in Seq(Piece) /\ Len(b) \in {0, 2}
  BY BeforeIs
<1>2. file \in Seq(Piece) /\ Len(file) \in Nat
  BY DEF StreamTyped
<1>3. \A i \in 1..Len(b) : i <= Len(file) /\ file[i] = b[i]
  BY DEF Kept
<1> HIDE DEF b
<1>4. Len(b) <= Len(file)
  BY <1>1, <1>2, <1>3
<1>5. \A i \in 1..Len(b) : file[i] \in Piece /\ b[i] \in Piece
  BY <1>1, <1>3
<1>6. /\ SubSeq(b, 1, Len(b)) \in Seq(Piece)
      /\ Len(SubSeq(b, 1, Len(b))) = IF 1 <= Len(b) THEN Len(b) - 1 + 1 ELSE 0
      /\ \A i \in 1..Len(b) - 1 + 1 : SubSeq(b, 1, Len(b))[i] = b[1 + i - 1]
  BY <1>1, <1>5, SubSeqProperties
<1>7. /\ SubSeq(file, 1, Len(b)) \in Seq(Piece)
      /\ Len(SubSeq(file, 1, Len(b))) = IF 1 <= Len(b) THEN Len(b) - 1 + 1 ELSE 0
      /\ \A i \in 1..Len(b) - 1 + 1 : SubSeq(file, 1, Len(b))[i] = file[1 + i - 1]
  BY <1>1, <1>5, SubSeqProperties
<1>8. \A i \in 1..Len(SubSeq(b, 1, Len(b))) : SubSeq(b, 1, Len(b))[i] = SubSeq(file, 1, Len(b))[i]
  BY <1>1, <1>3, <1>6, <1>7
<1>9. SubSeq(b, 1, Len(b)) = SubSeq(file, 1, Len(b))
  BY <1>6, <1>7, <1>8, SeqEqual
<1> QED BY <1>4, <1>9 DEF b, Stream!IsPrefix

(* At any moment a kill loses at most the last entry_count rows, none of   *)
(* an earlier run that was to be kept and none from the middle; a line is  *)
(* torn at the end only, and by a stop only if it came inside a row        *)
(* (src/shared/ServerStats.cpp:156-162), for every entry_count.            *)
THEOREM LossBoundedCorrect == ProgramsSpec => []LossBounded
<1>1. ASSUME StreamInv, stream_pc # "construct", ~killed
      PROVE  /\ Stream!RowsOf(file \o pending) = [i \in 1 .. call - 1 |-> [id |-> i, time |-> i]]
             /\ Stream!TornOf(file \o pending) =
                  IF torn \/ stream_pc = "time" THEN <<call>> ELSE <<>>
  <2>1. PICK half \in {0, 1} :
          /\ RowsGiven(half)
          /\ stream_pc \in {"check", "id"} => half = 0
          /\ stream_pc = "time" => half = 1
          /\ stream_pc \in {"stop", "closed"} => half = IF torn THEN 1 ELSE 0
    BY <1>1 DEF StreamInv
  <2>2. half = IF torn \/ stream_pc = "time" THEN 1 ELSE 0
    BY <1>1, <2>1 DEF StreamInv, StreamTyped
  <2>3. half = 1 <=> torn \/ stream_pc = "time"
    BY <2>2
  <2> QED BY <1>1, <2>1, <2>3, RowsAre, TornIs DEF StreamInv, StreamTyped, Written
<1>2. StreamInv => LossBounded
  <2>1. ASSUME StreamInv, stream_pc # "construct"
        PROVE  Stream!IsPrefix(Stream!Before, file) /\ Len(pending) <= 2 * entry_count
    BY <2>1, StillPrefix DEF StreamInv, BufferBound
  <2> QED BY <1>1, <2>1, Zenon DEF LossBounded, Stream!LossBounded
<1> QED BY <1>2, StreamHolds, PTL

(* The rows recorded so far, the state and the file of StatsLog.           *)
Recorded(c) == [i \in 1 .. c - 1 |-> i]
LogState    == IF stream_pc = "stop" THEN "stopping"
               ELSE IF stream_pc = "closed" THEN "saved" ELSE "up"
SavedRows   == IF stream_pc = "closed" THEN Stream!RowsOf(file) ELSE <<>>

(* A row given to the stream is recorded.                                  *)
LEMMA RecordedGrows ==
  ASSUME NEW c \in Nat \ {0}
  PROVE  /\ Len(Recorded(c)) = c - 1
         /\ \A i \in 1..Len(Recorded(c)) : Recorded(c)[i] = i
         /\ Recorded(c + 1) = Append(Recorded(c), c)
<1>1. Recorded(c) \in Seq(Nat) /\ Len(Recorded(c)) = c - 1
  BY DEF Recorded
<1>2. Recorded(c + 1) \in Seq(Nat) /\ Len(Recorded(c + 1)) = c
  BY DEF Recorded
<1>3. \A i \in 1..c - 1 : Recorded(c)[i] = i
  BY DEF Recorded
<1>4. \A i \in 1..c : Recorded(c + 1)[i] = i
  BY DEF Recorded
<1>5. Append(Recorded(c), c) = Recorded(c + 1)
  <2>1. Append(Recorded(c), c) \in Seq(Nat) /\ Len(Append(Recorded(c), c)) = c
    BY <1>1, AppendProperties
  <2>2. \A i \in 1..c : Append(Recorded(c), c)[i] = i
    BY <1>1, <1>3, AppendProperties
  <2> QED BY <1>2, <1>4, <2>1, <2>2, SeqEqual
<1> QED BY <1>1, <1>3, <1>5

(* Every step of the stream is a step of StatsLog, or none: a row is       *)
(* recorded when its second piece is given, and saved with the close.      *)
LEMMA StreamRefines ==
  StreamInv /\ [Stream!Next]_streamVars => [Stream!Log!Next]_(Stream!Log!vars)
<1> SUFFICES ASSUME StreamInv, [Stream!Next]_streamVars
             PROVE  Stream!Log!Next \/ UNCHANGED Stream!Log!vars
  OBVIOUS
<1>0. call \in Nat \ {0} /\ limit \in Nat
  BY DEF StreamInv, StreamTyped
<1>1. Stream!Log!vars = <<Recorded(call), limit, LogState, SavedRows>>
  BY DEF Stream!Log!vars, Recorded, LogState, SavedRows
<1>2. ASSUME UNCHANGED <<call, limit, LogState, SavedRows>> PROVE UNCHANGED Stream!Log!vars
  BY <1>2 DEF Stream!Log!vars, Recorded, LogState, SavedRows
<1>3. ASSUME UNCHANGED <<erase_previous_file, overwrite>>, UNCHANGED <<file>>
      PROVE  Stream!RowsOf(file)' = Stream!RowsOf(file)
  BY <1>3 DEF Stream!RowsOf, Stream!Before
<1>4. CASE UNCHANGED streamVars
  BY <1>2, <1>3, <1>4 DEF streamVars, LogState, SavedRows
<1>5. ASSUME Stream!Next PROVE UNCHANGED <<erase_previous_file, overwrite>>
  BY <1>5 DEF Stream!Next, Stream!arguments
<1>6. ASSUME Stream!Next, stream_pc' = stream_pc, UNCHANGED <<call, limit, file>>
      PROVE  UNCHANGED Stream!Log!vars
  BY <1>2, <1>3, <1>5, <1>6 DEF LogState, SavedRows
<1>7. ASSUME stream_pc \in {"construct", "check", "id", "time"}, UNCHANGED <<call, limit>>,
             stream_pc' \in {"construct", "check", "id", "time"}
      PROVE  UNCHANGED Stream!Log!vars
  BY <1>2, <1>7 DEF LogState, SavedRows
<1>8. CASE Stream!Next /\ Stream!Kill
  BY <1>6, <1>8 DEF Stream!Kill
<1>9. CASE Stream!Construct \/ Stream!Check \/ Stream!InsertId \/ Stream!Overflow
  BY <1>7, <1>9 DEF Stream!Construct, Stream!Check, Stream!InsertId, Stream!Overflow
<1>10. CASE Stream!InsertTime
  <2>1. /\ stream_pc = "time" /\ stream_pc' = "check"
        /\ call' = call + 1 /\ limit' = limit /\ call \in Stream!Calls
    BY <1>10 DEF StreamInv, Stream!InsertTime
  <2>2. UNCHANGED <<LogState, SavedRows>>
    BY <2>1 DEF LogState, SavedRows
  <2>3. /\ Recorded(call)' = Append(Recorded(call), call)
        /\ \A i \in 1..Len(Recorded(call)) : Recorded(call)[i] # call
    <3>1. Recorded(call)' = Recorded(call + 1)
      BY <2>1 DEF Recorded
    <3>2. /\ Len(Recorded(call)) = call - 1
          /\ \A i \in 1..Len(Recorded(call)) : Recorded(call)[i] = i
          /\ Recorded(call + 1) = Append(Recorded(call), call)
      BY <1>0, RecordedGrows
    <3>3. \A i \in 1..call - 1 : i # call
      BY <1>0
    <3> QED BY <3>1, <3>2, <3>3
  <2>4. \E c \in Stream!Calls : Stream!Log!Record(c)
    <3>1. PICK c \in Stream!Calls : c = call
      BY <2>1
    <3>2. Stream!Log!Record(c)
      BY <2>1, <2>2, <2>3, <3>1 DEF Stream!Log!Record, Recorded, LogState, SavedRows
    <3> QED BY <3>2
  <2> QED BY <2>4 DEF Stream!Log!Next
<1>11. CASE Stream!Stop
  <2>1. /\ stream_pc \in {"id", "time", "check"} /\ stream_pc' = "stop"
        /\ limit' = call - 1 /\ call' = call
    BY <1>11 DEF Stream!Stop
  <2>2. LogState = "up" /\ LogState' = "stopping" /\ UNCHANGED SavedRows
    BY <2>1 DEF LogState, SavedRows
  <2>3. limit' = Len(Recorded(call)) /\ UNCHANGED Recorded(call)
    BY <1>0, <2>1, RecordedGrows DEF Recorded
  <2>4. Stream!Log!Stop
    BY <2>2, <2>3 DEF Stream!Log!Stop, Recorded, LogState, SavedRows
  <2> QED BY <2>4 DEF Stream!Log!Next
<1>12. CASE Stream!Next /\ Stream!Close /\ ~killed
  <2>1. /\ stream_pc = "stop" /\ stream_pc' = "closed" /\ limit = call - 1
        /\ UNCHANGED <<call, limit>> /\ Stream!flush
    BY <1>12 DEF StreamInv, Stream!Close
  <2>2. Stream!RowsOf(file)' = Stream!RowsOf(Written)
    <3>1. file' = Written
      BY <2>1 DEF Stream!flush, Written
    <3> QED BY <1>5, <1>12, <3>1 DEF Stream!RowsOf, Stream!Before
  <2>3. PICK half \in {0, 1} : RowsGiven(half)
    BY <1>12, <2>1 DEF StreamInv
  <2>4. Stream!RowsOf(file)' = [i \in 1 .. limit |-> [id |-> Recorded(call)[i], time |-> Recorded(call)[i]]]
    <3>1. Stream!RowsOf(file)' = [i \in 1 .. call - 1 |-> [id |-> i, time |-> i]]
      BY <1>0, <2>2, <2>3, RowsAre
    <3>2. \A i \in 1..call - 1 : Recorded(call)[i] = i
      BY <1>0, RecordedGrows
    <3> QED BY <2>1, <3>1, <3>2
  <2>5. /\ LogState = "stopping" /\ LogState' = "saved"
        /\ SavedRows' = Stream!RowsOf(file)' /\ UNCHANGED Recorded(call)
    BY <2>1 DEF LogState, SavedRows, Recorded
  <2>6. Stream!Log!Save
    BY <2>1, <2>4, <2>5 DEF Stream!Log!Save, Recorded, LogState, SavedRows
  <2> QED BY <2>6 DEF Stream!Log!Next
<1>13. CASE Stream!Next
  BY <1>8, <1>9, <1>10, <1>11, <1>12, <1>13 DEF Stream!Next, Stream!server_stats_stress
<1> QED BY <1>4, <1>13

(* The stream version of ServerStatsManager implements StatsLog: what is   *)
(* in the file when it is closed is every row recorded before SIGINT, in   *)
(* order, each id with its own time (src/shared/ServerStats.cpp:112-190).  *)
THEOREM SavesAsLogCorrect == ProgramsSpec => SavesAsLog
<1>1. Stream!Init => Stream!Log!Init
  <2>1. SUFFICES ASSUME Stream!Init PROVE Stream!Log!Init
    OBVIOUS
  <2>2. call = 1 /\ limit = 0 /\ LogState = "up" /\ SavedRows = <<>>
    BY <2>1 DEF Stream!Init, LogState, SavedRows
  <2>3. Recorded(call) = <<>>
    BY <2>2 DEF Recorded
  <2> QED BY <2>2, <2>3 DEF Stream!Log!Init, Recorded, LogState, SavedRows
<1>2. StreamInv /\ [Stream!Next]_streamVars => [Stream!Log!Next]_(Stream!Log!vars)
  BY StreamRefines
<1> QED BY <1>1, <1>2, StreamRuns, StreamHolds, PTL DEF SavesAsLog, Stream!SavesAsLog, Stream!Log!Spec

-----------------------------------------------------------------------------
(* The asynchronous handlers' calls through a client they share.           *)

(* What the queue of the EventBase says of the connection is no worker.    *)
LEMMA ConnectionIsNoWorker == Async!Connection \notin AsyncWorkers
BY ProgramsAssumption DEF Async!Connection

Outcomes == {"none", "pending", "returned", "failed"}

AsyncTyped ==
  /\ queue \in Seq(AsyncWorkers \cup {Async!Connection})
  /\ sent \in SUBSET AsyncWorkers
  /\ async_pc \in [AsyncWorkers -> {"idle", "sleep", "wait"}]
  /\ f \in [AsyncWorkers -> Outcomes]
  /\ channel \in {"opening", "open", "broken"}

(* A request is queued once, and its call is pending until it is settled.  *)
Requests ==
  /\ \A i \in 1..Len(queue) :
       queue[i] \in AsyncWorkers => f[queue[i]] = "pending" /\ queue[i] \notin sent
  /\ \A i, j \in 1..Len(queue) : queue[i] = queue[j] => i = j
  /\ \A w \in sent : f[w] = "pending"
  /\ \A w \in AsyncWorkers : async_pc[w] = "idle" => f[w] = "none"

(* The connection is asked for before anything else, and only an open one  *)
(* has requests under way.                                                 *)
Connecting ==
  /\ service_main = "client" => queue = <<>> /\ channel = "opening"
  /\ service_main # "client" /\ channel = "opening" => queue # <<>> /\ queue[1] = Async!Connection
  /\ channel # "opening" => \A i \in 1..Len(queue) : queue[i] # Async!Connection
  /\ sent # {} => channel = "open"

HandlerInv == AsyncTyped /\ Requests /\ Connecting

(* What is appended comes last, and the others keep their places.          *)
LEMMA Appended ==
  ASSUME NEW S, NEW s \in Seq(S), NEW e \in S
  PROVE  /\ Append(s, e) \in Seq(S) /\ Append(s, e) # <<>>
         /\ Len(Append(s, e)) = Len(s) + 1 /\ Len(s) \in Nat
         /\ \A i \in 1..Len(s) : Append(s, e)[i] = s[i]
         /\ Append(s, e)[Len(s) + 1] = e
OBVIOUS

(* What is taken from the front was first, and the others move up.         *)
LEMMA Taken ==
  ASSUME NEW S, NEW s \in Seq(S), s # <<>>
  PROVE  /\ Tail(s) \in Seq(S) /\ Head(s) = s[1] /\ Head(s) \in S
         /\ Len(s) \in Nat /\ Len(s) >= 1 /\ Len(Tail(s)) = Len(s) - 1
         /\ \A i \in 1..Len(Tail(s)) : Tail(s)[i] = s[i + 1]
OBVIOUS
-----------------------------------------------------------------------------
(* The handler's constructor asks for the connection.                      *)
LEMMA ClientStep ==
  ASSUME HandlerInv, Async!newRocketClient
  PROVE  HandlerInv'
<1>1. /\ queue = <<>> /\ queue' = <<Async!Connection>> /\ service_main' # "client"
      /\ UNCHANGED <<channel, sent, f, async_pc>> /\ channel = "opening"
  BY DEF Async!newRocketClient, HandlerInv, Connecting, Async!workerVars
<1>2. /\ queue' \in Seq(AsyncWorkers \cup {Async!Connection})
      /\ Len(queue') = 1 /\ queue'[1] = Async!Connection /\ queue' # <<>>
  BY <1>1
<1>3. AsyncTyped'
  BY <1>1, <1>2 DEF HandlerInv, AsyncTyped
<1>4. Requests'
  BY <1>1, <1>2, ConnectionIsNoWorker DEF HandlerInv, Requests
<1>5. Connecting'
  BY <1>1, <1>2 DEF HandlerInv, Connecting
<1> QED BY <1>3, <1>4, <1>5 DEF HandlerInv

(* The start of the loop, and a worker that sleeps, change nothing of it.  *)
LEMMA QuietStep ==
  ASSUME HandlerInv,
         \/ Async!StartLoop \/ Async!loopForever \/ \E w \in AsyncWorkers : Async!Sleep(w)
         \/ UNCHANGED asyncVars
  PROVE  HandlerInv' /\ UNCHANGED <<channel, f>>
<1>1. UNCHANGED <<queue, sent, f, channel>> /\ (service_main' = "client" <=> service_main = "client")
  BY DEF Async!StartLoop, Async!loopForever, Async!Sleep, asyncVars, Async!mainVars, Async!workerVars
<1>2. async_pc' = async_pc \/ \E w \in AsyncWorkers : async_pc' = [async_pc EXCEPT ![w] = "wait"]
  BY DEF Async!StartLoop, Async!loopForever, Async!Sleep, asyncVars, Async!workerVars
<1> QED BY <1>1, <1>2 DEF HandlerInv, AsyncTyped, Requests, Connecting

(* An idle worker has no request anywhere, and makes one.                  *)
LEMMA CallStep ==
  ASSUME HandlerInv, NEW w \in AsyncWorkers, Async!FutureCall(w)
  PROVE  HandlerInv' /\ Async!Remote!Call(w)
<1>1. /\ service_main = "serve" /\ async_pc[w] = "idle"
      /\ f' = [f EXCEPT ![w] = "pending"]
      /\ queue' = Append(queue, w)
      /\ async_pc' = [async_pc EXCEPT ![w] = "sleep"]
      /\ UNCHANGED <<service_main, channel, sent>>
  BY DEF Async!FutureCall, Async!mainVars
<1>2. f[w] = "none" /\ w \notin sent /\ \A i \in 1..Len(queue) : queue[i] # w
  BY <1>1 DEF HandlerInv, Requests
<1>3. queue \in Seq(AsyncWorkers \cup {Async!Connection})
  BY DEF HandlerInv, AsyncTyped
<1>4. /\ queue' \in Seq(AsyncWorkers \cup {Async!Connection}) /\ queue' # <<>>
      /\ Len(queue') = Len(queue) + 1 /\ Len(queue) \in Nat
      /\ \A i \in 1..Len(queue) : queue'[i] = queue[i]
      /\ queue'[Len(queue) + 1] = w
  BY <1>1, <1>3, Appended
<1>5. \A i \in 1..Len(queue') : i \in 1..Len(queue) \/ i = Len(queue) + 1
  BY <1>4
<1>6. AsyncTyped'
  BY <1>1, <1>4 DEF HandlerInv, AsyncTyped, Outcomes
<1>7. Requests'
  <2>1. \A i \in 1..Len(queue') :
          queue'[i] \in AsyncWorkers => f'[queue'[i]] = "pending" /\ queue'[i] \notin sent'
    BY <1>1, <1>2, <1>4, <1>5 DEF HandlerInv, AsyncTyped, Requests
  <2>2. \A i, j \in 1..Len(queue') : queue'[i] = queue'[j] => i = j
    BY <1>2, <1>4, <1>5 DEF HandlerInv, Requests
  <2>3. \A v \in sent' : f'[v] = "pending"
    BY <1>1 DEF HandlerInv, AsyncTyped, Requests
  <2>4. \A v \in AsyncWorkers : async_pc'[v] = "idle" => f'[v] = "none"
    BY <1>1 DEF HandlerInv, AsyncTyped, Requests
  <2> QED BY <2>1, <2>2, <2>3, <2>4 DEF Requests
<1>8. Connecting'
  <2>1. channel = "opening" => queue'[1] = Async!Connection
    BY <1>1, <1>4, EmptySeq DEF HandlerInv, AsyncTyped, Connecting
  <2>2. channel # "opening" => \A i \in 1..Len(queue') : queue'[i] # Async!Connection
    BY <1>1, <1>4, <1>5, ConnectionIsNoWorker DEF HandlerInv, Connecting
  <2> QED BY <1>1, <1>4, <2>1, <2>2 DEF HandlerInv, Connecting
<1>9. Async!Remote!Call(w)
  BY <1>1, <1>2 DEF HandlerInv, AsyncTyped, Async!Remote!Call, Async!Remote!Settle
<1> QED BY <1>6, <1>7, <1>8, <1>9 DEF HandlerInv

(* A worker takes the outcome of its call.                                 *)
LEMMA WaitStep ==
  ASSUME HandlerInv, NEW w \in AsyncWorkers, Async!Wait(w)
  PROVE  HandlerInv' /\ Async!Remote!Done(w)
<1>1. /\ f[w] \in {"returned", "failed"}
      /\ f' = [f EXCEPT ![w] = "none"]
      /\ async_pc' = [async_pc EXCEPT ![w] = "idle"]
      /\ UNCHANGED <<service_main, queue, channel, sent>>
  BY DEF Async!Wait, Async!mainVars
<1>2. w \notin sent /\ \A i \in 1..Len(queue) : queue[i] # w
  BY <1>1 DEF HandlerInv, Requests
<1>3. AsyncTyped'
  BY <1>1 DEF HandlerInv, AsyncTyped, Outcomes
<1>4. Requests'
  BY <1>1, <1>2 DEF HandlerInv, AsyncTyped, Requests
<1>5. Connecting'
  BY <1>1 DEF HandlerInv, Connecting
<1>6. Async!Remote!Done(w)
  BY <1>1 DEF HandlerInv, AsyncTyped, Async!Remote!Done, Async!Remote!Settle
<1> QED BY <1>3, <1>4, <1>5, <1>6 DEF HandlerInv
-----------------------------------------------------------------------------
(* The head of the queue leaves it, and no later entry is the same.        *)
LEMMA Dequeued ==
  ASSUME HandlerInv, queue # <<>>, queue' = Tail(queue)
  PROVE  /\ queue' \in Seq(AsyncWorkers \cup {Async!Connection})
         /\ Head(queue) \in AsyncWorkers \cup {Async!Connection}
         /\ Len(queue) >= 1 /\ Head(queue) = queue[1] /\ Len(queue') = Len(queue) - 1
         /\ Len(queue) \in Nat
         /\ \A i \in 1..Len(queue') :
              /\ i + 1 \in 1..Len(queue)
              /\ queue'[i] = queue[i + 1] /\ queue'[i] # Head(queue)
         /\ \A i, j \in 1..Len(queue') : queue'[i] = queue'[j] => i = j
<1>1. queue \in Seq(AsyncWorkers \cup {Async!Connection})
  BY DEF HandlerInv, AsyncTyped
<1>2. /\ queue' \in Seq(AsyncWorkers \cup {Async!Connection}) /\ Head(queue) = queue[1]
      /\ Head(queue) \in AsyncWorkers \cup {Async!Connection}
      /\ Len(queue) \in Nat /\ Len(queue) >= 1 /\ Len(queue') = Len(queue) - 1
      /\ \A i \in 1..Len(queue') : queue'[i] = queue[i + 1]
  BY <1>1, Taken
<1>3. \A i \in 1..Len(queue') : i + 1 \in 1..Len(queue) /\ i \in Nat /\ i # 0
  BY <1>2
<1>4. \A i, j \in 1..Len(queue) : queue[i] = queue[j] => i = j
  BY DEF HandlerInv, Requests
<1>5. \A i \in 1..Len(queue') : queue'[i] # Head(queue)
  BY <1>2, <1>3, <1>4
<1>6. \A i, j \in 1..Len(queue') : queue'[i] = queue'[j] => i = j
  BY <1>2, <1>3, <1>4
<1> QED BY <1>2, <1>3, <1>5, <1>6

(* The loop opens the connection, or fails to.                             *)
LEMMA ConnectStep ==
  ASSUME HandlerInv, Async!Connect
  PROVE  HandlerInv' /\ (Async!Remote!Open \/ Async!Remote!Break)
<1>1. /\ queue # <<>> /\ Head(queue) = Async!Connection /\ queue' = Tail(queue)
      /\ channel' \in {"open", "broken"}
      /\ UNCHANGED <<service_main, sent, f, async_pc>>
  BY DEF Async!Connect, Async!mainVars, Async!workerVars
<1>2. /\ queue' \in Seq(AsyncWorkers \cup {Async!Connection})
      /\ Len(queue) >= 1 /\ Len(queue) \in Nat /\ Head(queue) = queue[1]
      /\ \A i \in 1..Len(queue') :
           i + 1 \in 1..Len(queue) /\ queue'[i] = queue[i + 1] /\ queue'[i] # Head(queue)
      /\ \A i, j \in 1..Len(queue') : queue'[i] = queue'[j] => i = j
  BY <1>1, Dequeued
<1>3. channel = "opening" /\ service_main # "client" /\ sent = {}
  <2>1. 1 \in 1..Len(queue) /\ queue[1] = Async!Connection
    BY <1>1, <1>2
  <2>2. channel = "opening"
    BY <2>1 DEF HandlerInv, Connecting
  <2> QED BY <1>1, <2>2 DEF HandlerInv, Connecting
<1>4. AsyncTyped'
  BY <1>1, <1>2 DEF HandlerInv, AsyncTyped
<1>5. Requests'
  BY <1>1, <1>2 DEF HandlerInv, Requests
<1>6. Connecting'
  BY <1>1, <1>2, <1>3 DEF Connecting
<1>7. Async!Remote!Open \/ Async!Remote!Break
  <2>1. CASE channel' = "open"
    BY <1>1, <1>3, <2>1 DEF Async!Remote!Open
  <2>2. CASE channel' = "broken"
    <3>1. {} \in SUBSET Async!Remote!Pending /\ Async!Remote!Settle({}, "failed")
      BY <1>1 DEF HandlerInv, AsyncTyped, Async!Remote!Settle
    <3> QED BY <1>1, <1>3, <2>2, <3>1 DEF Async!Remote!Break
  <2> QED BY <1>1, <2>1, <2>2
<1> QED BY <1>4, <1>5, <1>6, <1>7 DEF HandlerInv

(* The loop sends a request, or settles it when the channel is broken.     *)
LEMMA RequestStep ==
  ASSUME HandlerInv, Async!Send
  PROVE  HandlerInv' /\ (UNCHANGED <<channel, f>> \/ \E w \in AsyncWorkers : Async!Remote!Fail(w))
<1> DEFINE w == Head(queue)
<1>1. /\ queue # <<>> /\ w # Async!Connection /\ queue' = Tail(queue)
      /\ UNCHANGED <<service_main, channel, async_pc>>
      /\ \/ channel = "open" /\ sent' = sent \cup {w} /\ UNCHANGED f
         \/ channel # "open" /\ f' = [f EXCEPT ![w] = "failed"] /\ UNCHANGED sent
  BY DEF Async!Send, Async!mainVars, Async!workerVars
<1>2. /\ queue' \in Seq(AsyncWorkers \cup {Async!Connection}) /\ w \in AsyncWorkers \cup {Async!Connection}
      /\ Len(queue) >= 1 /\ Len(queue) \in Nat /\ w = queue[1]
      /\ \A i \in 1..Len(queue') :
           i + 1 \in 1..Len(queue) /\ queue'[i] = queue[i + 1] /\ queue'[i] # w
      /\ \A i, j \in 1..Len(queue') : queue'[i] = queue'[j] => i = j
  BY <1>1, Dequeued
<1> HIDE DEF w
<1>3. w \in AsyncWorkers /\ f[w] = "pending" /\ w \notin sent /\ 1 \in 1..Len(queue)
  BY <1>1, <1>2 DEF HandlerInv, Requests
<1>4. service_main # "client" /\ channel # "opening"
  BY <1>1, <1>2 DEF HandlerInv, Connecting
<1>5. async_pc[w] # "idle"
  BY <1>3 DEF HandlerInv, Requests
<1>6. Connecting'
  BY <1>1, <1>2, <1>4 DEF HandlerInv, Connecting
<1>7. CASE channel = "open" /\ sent' = sent \cup {w} /\ UNCHANGED f
  <2>1. AsyncTyped'
    BY <1>1, <1>2, <1>3, <1>7 DEF HandlerInv, AsyncTyped
  <2>2. Requests'
    BY <1>1, <1>2, <1>3, <1>7 DEF HandlerInv, Requests
  <2> QED BY <1>1, <1>6, <1>7, <2>1, <2>2 DEF HandlerInv
<1>8. CASE channel # "open" /\ f' = [f EXCEPT ![w] = "failed"] /\ UNCHANGED sent
  <2>1. AsyncTyped'
    BY <1>1, <1>2, <1>3, <1>8 DEF HandlerInv, AsyncTyped, Outcomes
  <2>2. Requests'
    <3>1. \A i \in 1..Len(queue') :
            queue'[i] \in AsyncWorkers => f'[queue'[i]] = "pending" /\ queue'[i] \notin sent'
      BY <1>2, <1>8 DEF HandlerInv, AsyncTyped, Requests
    <3>2. \A v \in sent' : f'[v] = "pending"
      BY <1>3, <1>8 DEF HandlerInv, AsyncTyped, Requests
    <3>3. \A v \in AsyncWorkers : async_pc'[v] = "idle" => f'[v] = "none"
      BY <1>1, <1>5, <1>8 DEF HandlerInv, AsyncTyped, Requests
    <3> QED BY <1>2, <3>1, <3>2, <3>3 DEF Requests
  <2>3. channel = "broken"
    BY <1>4, <1>8 DEF HandlerInv, AsyncTyped
  <2>4. Async!Remote!Fail(w)
    BY <1>1, <1>3, <1>8, <2>3
    DEF HandlerInv, AsyncTyped, Async!Remote!Fail, Async!Remote!Settle, Async!Remote!Pending
  <2> QED BY <1>3, <1>6, <2>1, <2>2, <2>4 DEF HandlerInv
<1> QED BY <1>1, <1>7, <1>8

(* An answer settles a request that was sent.                              *)
LEMMA AnswerStep ==
  ASSUME HandlerInv, NEW w \in AsyncWorkers, Async!Answer(w)
  PROVE  HandlerInv' /\ Async!Remote!Return(w)
<1>1. /\ w \in sent /\ sent' = sent \ {w} /\ f' = [f EXCEPT ![w] = "returned"]
      /\ UNCHANGED <<service_main, queue, channel, async_pc>>
  BY DEF Async!Answer, Async!mainVars, Async!workerVars
<1>2. f[w] = "pending" /\ channel = "open" /\ async_pc[w] # "idle"
      /\ \A i \in 1..Len(queue) : queue[i] # w
  BY <1>1 DEF HandlerInv, Requests, Connecting
<1>3. AsyncTyped'
  BY <1>1 DEF HandlerInv, AsyncTyped, Outcomes
<1>4. Requests'
  BY <1>1, <1>2 DEF HandlerInv, AsyncTyped, Requests
<1>5. Connecting'
  BY <1>1 DEF HandlerInv, Connecting
<1>6. Async!Remote!Return(w)
  BY <1>1, <1>2 DEF HandlerInv, AsyncTyped, Async!Remote!Return, Async!Remote!Settle, Async!Remote!Pending
<1> QED BY <1>3, <1>4, <1>5, <1>6 DEF HandlerInv

(* All requests under way fail when the channel breaks.                    *)
LEMMA BreakStep ==
  ASSUME HandlerInv, Async!Break
  PROVE  HandlerInv' /\ Async!Remote!Break
<1>1. /\ channel = "open" /\ channel' = "broken" /\ sent' = {}
      /\ f' = [w \in AsyncWorkers |-> IF w \in sent THEN "failed" ELSE f[w]]
      /\ UNCHANGED <<service_main, queue, async_pc>>
  BY DEF Async!Break, Async!mainVars, Async!workerVars
<1>2. AsyncTyped'
  BY <1>1 DEF HandlerInv, AsyncTyped, Outcomes
<1>3. Requests'
  BY <1>1 DEF HandlerInv, AsyncTyped, Requests
<1>4. Connecting'
  BY <1>1 DEF HandlerInv, Connecting
<1>5. sent \in SUBSET Async!Remote!Pending /\ Async!Remote!Settle(sent, "failed")
  BY <1>1 DEF HandlerInv, AsyncTyped, Requests, Async!Remote!Pending, Async!Remote!Settle
<1> QED BY <1>1, <1>2, <1>3, <1>4, <1>5 DEF HandlerInv, Async!Remote!Break
-----------------------------------------------------------------------------
(* Every step preserves the invariant, and is a step of RemoteCall or none *)
(* at all.                                                                 *)
LEMMA HandlerStep ==
  ASSUME HandlerInv, [Async!Next]_asyncVars
  PROVE  HandlerInv' /\ [Async!Remote!Next]_(Async!Remote!vars)
<1> DEFINE Good == HandlerInv' /\ (Async!Remote!Next \/ UNCHANGED <<channel, f>>)
<1>0. SUFFICES Good
  BY DEF Async!Remote!vars
<1>1. CASE UNCHANGED asyncVars
  BY <1>1, QuietStep
<1>2. CASE Async!MainStep \/ Async!loopForever
  <2>1. Async!newRocketClient => UNCHANGED <<channel, f>>
    BY DEF Async!newRocketClient
  <2> QED BY <1>2, <2>1, ClientStep, QuietStep DEF Async!MainStep
<1>3. CASE Async!LoopStep
  BY <1>3, ConnectStep, RequestStep DEF Async!LoopStep, Async!Remote!Next
<1>4. CASE Async!Break
  BY <1>4, BreakStep DEF Async!Remote!Next
<1>5. ASSUME NEW w \in AsyncWorkers, Async!Answer(w) \/ Async!FutureCall(w) \/ Async!WorkerStep(w)
      PROVE  Good
  BY <1>5, AnswerStep, CallStep, WaitStep, QuietStep DEF Async!WorkerStep, Async!Remote!Next
<1> QED BY <1>1, <1>2, <1>3, <1>4, <1>5 DEF Async!Next

(* The asynchronous handlers' way of calling                               *)
(* (src/SanitizationService/SanitizationService.cpp:37-44) implements what *)
(* RemoteCall promises, for any number of workers and calls.               *)
THEOREM IsRemoteCallCorrect == ProgramsSpec => IsRemoteCall
<1>1. Async!Init => HandlerInv /\ Async!Remote!Init
  <2> SUFFICES ASSUME Async!Init PROVE HandlerInv /\ Async!Remote!Init
    OBVIOUS
  <2>1. AsyncTyped /\ Connecting
    BY DEF Async!Init, AsyncTyped, Connecting, Outcomes
  <2>2. Requests
    BY DEF Async!Init, Requests
  <2>3. Async!Remote!Init
    BY DEF Async!Init, Async!Remote!Init
  <2> QED BY <2>1, <2>2, <2>3 DEF HandlerInv
<1>2. HandlerInv /\ [Async!Next]_asyncVars => HandlerInv' /\ [Async!Remote!Next]_(Async!Remote!vars)
  BY HandlerStep
<1> QED BY <1>1, <1>2, HandlersRun, PTL DEF IsRemoteCall, Async!IsRemoteCall, Async!Remote!Spec

-----------------------------------------------------------------------------
(* The sleeps of the benchmark's client and of its server.                 *)

(* What was printed and what is left of the time always add up.            *)
ClientSleepInv ==
  /\ client_main \in {"spawn", "sleep", "print", "join", "ended"}
  /\ client_elapsed \in Nat /\ client_sleep \in Nat /\ printed = client_elapsed
  /\ client_main \in {"spawn", "sleep"} => client_elapsed < Benchmark!terminate_sec
  /\ client_main = "print" =>
       client_sleep > 0 /\ client_elapsed + client_sleep <= Benchmark!terminate_sec
  /\ client_main \in {"join", "ended"} => client_elapsed = Benchmark!terminate_sec

ServerSleepInv ==
  /\ terminate_sec \in Nat /\ stats_interval_sec \in Nat \ {0}
  /\ logger \in {"none", "sleep", "print", "stop", "done"}
  /\ server_elapsed \in Nat /\ server_sleep \in Nat
  /\ server_main = "setup" <=> logger = "none"
  /\ logger \in {"none", "sleep"} => server_elapsed < Server!Limit
  /\ logger = "print" => server_sleep > 0 /\ server_elapsed + server_sleep <= Server!Limit
  /\ logger \in {"stop", "done"} => server_elapsed = Server!Limit

(* The client sleeps the interval, or what is left.                        *)
LEMMA ClientSleepStep ==
  ClientSleepInv /\ [Benchmark!Next]_benchmarkVars => ClientSleepInv'
<1> SUFFICES ASSUME ClientSleepInv, [Benchmark!Next]_benchmarkVars PROVE ClientSleepInv'
  OBVIOUS
<1> USE DEF ClientSleepInv
<1>1. Benchmark!terminate_sec \in Nat \ {0}
  BY ProgramsAssumption DEF Benchmark!terminate_sec
<1>2. FLAGS_stats_interval_sec \in Nat \ {0}
  BY ProgramsAssumption
<1>3. CASE UNCHANGED benchmarkVars
  BY <1>3 DEF benchmarkVars
<1>4. CASE Benchmark!SpawnThread \/ Benchmark!Join
  BY <1>4 DEF Benchmark!SpawnThread, Benchmark!Join
<1>5. CASE Benchmark!Sleep
  BY <1>1, <1>2, <1>5 DEF Benchmark!Sleep, Benchmark!MinOf
<1>6. CASE Benchmark!PrintStats
  BY <1>1, <1>6 DEF Benchmark!PrintStats
<1>7. ASSUME NEW t \in ClientThreads, Benchmark!ThreadStep(t) PROVE ClientSleepInv'
  BY <1>7 DEF Benchmark!ThreadStep, Benchmark!ThreadConnect, Benchmark!ThreadLoop
<1> QED BY <1>3, <1>4, <1>5, <1>6, <1>7 DEF Benchmark!Next, Benchmark!MainStep

(* So does the logger of the server, until it stops the server.            *)
LEMMA ServerSleepStep ==
  ServerSleepInv /\ [Server!Next]_serverVars => ServerSleepInv'
<1> SUFFICES ASSUME ServerSleepInv, [Server!Next]_serverVars PROVE ServerSleepInv'
  OBVIOUS
<1> USE DEF ServerSleepInv
<1>1. Server!Limit \in Nat \ {0}
  BY ProgramsAssumption DEF Server!Limit
<1>2. UNCHANGED <<terminate_sec, stats_interval_sec>>
  BY DEF Server!Next, Server!MainStep, Server!LoggerStep, Server!StartLogger, Server!Serve,
     Server!ServeReturns, Server!Join, Server!Sleep, Server!PrintStats, Server!Stop,
     Server!Signal, Server!flags, serverVars
<1>3. Server!Limit' = Server!Limit
  BY <1>2 DEF Server!Limit
<1>4. CASE UNCHANGED serverVars
  BY <1>3, <1>4 DEF serverVars
<1>5. CASE Server!MainStep \/ Server!Signal
  BY <1>2, <1>3, <1>5 DEF Server!MainStep, Server!StartLogger, Server!Serve,
     Server!ServeReturns, Server!Join, Server!Signal
<1>6. CASE Server!Sleep
  BY <1>1, <1>2, <1>3, <1>6 DEF Server!Sleep, Server!MinOf
<1>7. CASE Server!PrintStats
  BY <1>1, <1>2, <1>3, <1>7 DEF Server!PrintStats
<1>8. CASE Server!Stop
  BY <1>2, <1>3, <1>8 DEF Server!Stop
<1> QED BY <1>4, <1>5, <1>6, <1>7, <1>8 DEF Server!Next, Server!LoggerStep

(* Whatever the interval, the sleeps of the client and of the server add   *)
(* up to exactly terminate_sec, and no print divides by an empty one       *)
(* (client/Client.cpp:118-133, server/Server.cpp:85-103).                  *)
THEOREM SleepsExactCorrect == ProgramsSpec => []SleepsExact
<1>1. Benchmark!Init => ClientSleepInv
  BY ProgramsAssumption DEF Benchmark!Init, Benchmark!terminate_sec, ClientSleepInv
<1>2. Server!Init => ServerSleepInv
  BY ProgramsAssumption DEF Server!Init, Server!Limit, ServerSleepInv
<1>3. ClientSleepInv /\ [Benchmark!Next]_benchmarkVars => ClientSleepInv'
  BY ClientSleepStep
<1>4. ServerSleepInv /\ [Server!Next]_serverVars => ServerSleepInv'
  BY ServerSleepStep
<1>5. ClientSleepInv => Benchmark!SleepsExact
  <2>1. Benchmark!terminate_sec \in Nat \ {0}
    BY ProgramsAssumption DEF Benchmark!terminate_sec
  <2> QED BY <2>1 DEF ClientSleepInv, Benchmark!SleepsExact
<1>6. ServerSleepInv => Server!StopOnTime
  BY DEF ServerSleepInv, Server!StopOnTime
<1> QED BY <1>1, <1>2, <1>3, <1>4, <1>5, <1>6, BenchmarkRuns, ServerRuns, PTL DEF SleepsExact

-----------------------------------------------------------------------------
(* The EventBases of the echo client and of the superseded clients.        *)

(* How main and its connection thread take turns: the client is made       *)
(* before main drives the EventBase, and main has let it go when the       *)
(* thread destroys it.                                                     *)
Turn(p) ==
  \/ /\ echo_main[p] = "evb" /\ ct[p] = "none" /\ ~evb[p] /\ owners[p] = {}
  \/ /\ echo_main[p] = "ct" /\ ct[p] = "none" /\ evb[p] /\ owners[p] = {}
  \/ /\ echo_main[p] = "newSyncClient" /\ evb[p]
     /\ \/ ct[p] \in {"idle", "connect"} /\ owners[p] = {}
        \/ ct[p] = "connected" /\ owners[p] = {"ct"}
  \/ /\ echo_main[p] \in {"sync_echo", "wait", "return", "aborted"}
     /\ evb[p] /\ ct[p] = "connected" /\ owners[p] = {"ct", "main"}
  \/ /\ echo_main[p] = "~ct" /\ evb[p]
     /\ \/ ct[p] \in {"connected", "reset"} /\ owners[p] = {"ct"}
        \/ ct[p] = "joined" /\ owners[p] = {}
  \/ /\ echo_main[p] = "~evb" /\ ct[p] = "joined" /\ evb[p] /\ owners[p] = {}
  \/ /\ echo_main[p] = "ended" /\ ct[p] = "joined" /\ ~evb[p] /\ owners[p] = {}

EchoTyped ==
  /\ DOMAIN echo_main = EchoPrograms /\ DOMAIN ct = EchoPrograms
  /\ DOMAIN owners = EchoPrograms
  /\ evb \in [EchoPrograms -> BOOLEAN] /\ wrong \in [EchoPrograms -> BOOLEAN]

EchoInv == EchoTyped /\ \A p \in EchoPrograms : Turn(p) /\ ~wrong[p]

(* Every program begins with the turn of main.                             *)
LEMMA EchoInit == Echo!Init => EchoInv
BY DEF Echo!Init, EchoInv, EchoTyped, Turn

(* A step of one program leaves the turns of the others as they are.       *)
LEMMA OthersWait ==
  ASSUME EchoInv, NEW p \in EchoPrograms, EchoTyped', Turn(p)', ~wrong'[p],
         \A q \in EchoPrograms \ {p} :
           /\ echo_main'[q] = echo_main[q] /\ ct'[q] = ct[q] /\ evb'[q] = evb[q]
           /\ owners'[q] = owners[q] /\ wrong'[q] = wrong[q]
  PROVE  EchoInv'
<1> SUFFICES ASSUME NEW q \in EchoPrograms, q # p PROVE Turn(q)' /\ ~wrong'[q]
  BY DEF EchoInv
<1>1. /\ echo_main'[q] = echo_main[q] /\ ct'[q] = ct[q] /\ evb'[q] = evb[q]
      /\ owners'[q] = owners[q] /\ wrong'[q] = wrong[q]
  OBVIOUS
<1>2. Turn(q) /\ ~wrong[q]
  BY DEF EchoInv
<1> QED BY <1>1, <1>2 DEF Turn

(* The connection thread uses the EventBase while main waits for it.       *)
LEMMA UsesEvb ==
  ASSUME EchoTyped, NEW p \in EchoPrograms, Echo!Uses(p), evb[p], echo_main[p] # "wait"
  PROVE  wrong' = [wrong EXCEPT ![p] = wrong[p]]
BY DEF EchoTyped, Echo!Uses

(* Every step of a program keeps its turns.                                *)
LEMMA TurnStep ==
  ASSUME EchoInv, NEW p \in EchoPrograms,
         Echo!MainStep(p) \/ Echo!ThreadStep(p) \/ Echo!echo(p)
  PROVE  EchoInv'
<1> USE DEF Echo!Main, Echo!Thread, Echo!LetGo, EchoTyped, Turn
<1>0. Turn(p) /\ ~wrong[p] /\ EchoTyped
  BY DEF EchoInv
<1>1. CASE Echo!Construct(p)
  <2>1. CASE echo_main[p] = "evb"
    <3>1. /\ evb' = [evb EXCEPT ![p] = TRUE] /\ echo_main' = [echo_main EXCEPT ![p] = "ct"]
          /\ UNCHANGED <<ct, owners, wrong>>
      BY <1>1, <2>1 DEF Echo!Construct
    <3> QED BY <1>0, <2>1, <3>1, OthersWait
  <2>2. CASE echo_main[p] = "ct"
    <3>1. /\ ct' = [ct EXCEPT ![p] = "idle"] /\ echo_main' = [echo_main EXCEPT ![p] = "newSyncClient"]
          /\ UNCHANGED <<evb, owners, wrong>>
      BY <1>1, <2>2 DEF Echo!Construct
    <3> QED BY <1>0, <2>2, <3>1, OthersWait
  <2> QED BY <1>1, <2>1, <2>2 DEF Echo!Construct
<1>2. CASE Echo!newSyncClient(p)
  BY <1>0, <1>2, OthersWait DEF Echo!newSyncClient
<1>3. CASE Echo!Connect(p)
  <2>1. echo_main[p] = "newSyncClient" /\ evb[p] /\ owners[p] = {}
    BY <1>0, <1>3 DEF Echo!Connect
  <2>2. /\ wrong' = [wrong EXCEPT ![p] = wrong[p]]
        /\ owners' = [owners EXCEPT ![p] = owners[p] \cup {"ct"}]
        /\ ct' = [ct EXCEPT ![p] = "connected"] /\ UNCHANGED <<echo_main, evb>>
    BY <1>0, <1>3, <2>1, UsesEvb DEF Echo!Connect
  <2> QED BY <1>0, <2>1, <2>2, OthersWait
<1>4. CASE Echo!TakeClient(p)
  BY <1>0, <1>4, OthersWait DEF Echo!TakeClient
<1>5. CASE Echo!sync_echo(p)
  BY <1>0, <1>5, OthersWait DEF Echo!sync_echo
<1>6. CASE Echo!echo(p)
  BY <1>0, <1>6, OthersWait DEF Echo!echo
<1>7. CASE Echo!Answered(p)
  BY <1>0, <1>7, OthersWait DEF Echo!Answered
<1>8. CASE Echo!Return(p)
  BY <1>0, <1>8, OthersWait DEF Echo!Return
<1>9. CASE Echo!DestroyCt(p)
  BY <1>0, <1>9, OthersWait DEF Echo!DestroyCt
<1>10. CASE Echo!Reset(p)
  <2>1. echo_main[p] = "~ct" /\ evb[p] /\ owners[p] = {"ct"}
    BY <1>0, <1>10 DEF Echo!Reset
  <2>2. /\ wrong' = [wrong EXCEPT ![p] = wrong[p]]
        /\ owners' = [owners EXCEPT ![p] = owners[p] \ {"ct"}]
        /\ ct' = [ct EXCEPT ![p] = "joined"] /\ UNCHANGED <<echo_main, evb>>
    BY <1>0, <1>10, <2>1, UsesEvb DEF Echo!Reset
  <2> QED BY <1>0, <2>1, <2>2, OthersWait
<1>11. CASE Echo!DestroyEvb(p)
  <2>1. UNCHANGED <<ct, owners, wrong>>
    BY <1>11 DEF Echo!DestroyEvb
  <2>2. CASE /\ ct[p] = "joined" /\ echo_main[p] = "~ct"
             /\ echo_main' = [echo_main EXCEPT ![p] = "~evb"] /\ UNCHANGED evb
    BY <1>0, <2>1, <2>2, OthersWait
  <2>3. CASE /\ echo_main[p] = "~evb" /\ echo_main' = [echo_main EXCEPT ![p] = "ended"]
             /\ evb' = [evb EXCEPT ![p] = FALSE]
    BY <1>0, <2>1, <2>3, OthersWait
  <2> QED BY <1>11, <2>2, <2>3 DEF Echo!DestroyEvb
<1> QED BY <1>1, <1>2, <1>3, <1>4, <1>5, <1>6, <1>7, <1>8, <1>9, <1>10, <1>11
        DEF Echo!MainStep, Echo!ThreadStep

(* The EventBase of a superseded client is there as long as the executor's *)
(* thread may use it, if the executor was declared after it.               *)
EventBaseInv ==
  /\ alive \subseteq {"eb", "executor"}
  /\ old_main \in {"send", "loop", "summary", "return", "ended"}
  /\ old_main \in {"send", "loop", "summary"} => alive = {"eb", "executor"}
  /\ "executor" \notin alive => executor = "done"
  /\ ~Old!executorFirst => /\ "eb" \notin alive => "executor" \notin alive
                           /\ ~dead

(* Every step of main and of the executor's thread keeps it.               *)
LEMMA EventBaseStep == EventBaseInv /\ [Old!Next]_oldVars => EventBaseInv'
<1> SUFFICES ASSUME EventBaseInv, [Old!Next]_oldVars PROVE EventBaseInv'
  OBVIOUS
<1> USE DEF EventBaseInv, Old!counters, Old!executorFirst
<1>1. CASE UNCHANGED oldVars
  BY <1>1 DEF oldVars
<1>2. CASE Old!SendCall
  BY <1>2 DEF Old!SendCall
<1>3. CASE Old!LoopForever
  BY <1>3 DEF Old!LoopForever, Old!Submit
<1>4. ASSUME NEW i \in DOMAIN futs, Old!Callback(i) PROVE EventBaseInv'
  BY <1>4 DEF Old!Callback, Old!Submit
<1>5. CASE Old!terminateLoopSoon
  BY <1>5 DEF Old!terminateLoopSoon
<1>6. CASE Old!Wake
  BY <1>6 DEF Old!Wake
<1>7. CASE Old!LoopEnds \/ Old!client_summary \/ Old!Return
  <2>1. UNCHANGED <<program, executor, alive, dead>>
    BY <1>7, Zenon DEF Old!LoopEnds, Old!client_summary, Old!Return
  <2>2. \/ old_main' = "summary" /\ old_main = "loop"
        \/ old_main' \in {"return", "ended"}
    BY <1>7 DEF Old!LoopEnds, Old!client_summary, Old!Return
  <2> QED BY <2>1, <2>2
<1>8. CASE Old!DestroyExecutor \/ Old!DestroyEventBase
  <2>1. UNCHANGED <<program, executor, old_main, dead>> /\ old_main = "return"
    BY <1>8, Zenon DEF Old!DestroyExecutor, Old!DestroyEventBase
  <2>2. \/ alive' = alive \ {"executor"} /\ executor = "done"
        \/ alive' = alive \ {"eb"} /\ (program.executorFirst \/ "executor" \notin alive)
    BY <1>8, Zenon DEF Old!DestroyExecutor, Old!DestroyEventBase
  <2> QED BY <2>1, <2>2
<1> QED BY <1>1, <1>2, <1>3, <1>4, <1>5, <1>6, <1>7, <1>8 DEF Old!Next

(* No EventBase is used after its destruction or by two threads at once,   *)
(* for any number of calls of the echo programs and of the old clients     *)
(* that declare their EventBase before their executor                      *)
(* (EchoClient.cpp:33, working_example/client.cpp:54-66).                  *)
THEOREM NothingDanglesCorrect == ProgramsSpec => []NothingDangles
<1>1. EchoInv /\ [Echo!Next]_echoVars => EchoInv'
  <2> SUFFICES ASSUME EchoInv, [Echo!Next]_echoVars PROVE EchoInv'
    OBVIOUS
  <2>1. CASE UNCHANGED echoVars
    BY <2>1 DEF echoVars, EchoInv, EchoTyped, Turn
  <2>2. CASE Echo!Next
    BY <2>2, TurnStep DEF Echo!Next
  <2> QED BY <2>1, <2>2
<1>2. EchoInv => Echo!NoDanglingRefs
  BY DEF EchoInv, Turn, Echo!NoDanglingRefs
<1>3. Old!Init => EventBaseInv
  BY DEF Old!Init, EventBaseInv
<1>4. EventBaseInv => Old!EventBaseAlive
  BY DEF EventBaseInv, Old!EventBaseAlive
<1> QED BY <1>1, <1>2, <1>3, <1>4, EchoInit, EventBaseStep, EchoRuns, OldRuns, PTL
        DEF NothingDangles
-----------------------------------------------------------------------------
(* The summary of a superseded client.                                     *)

(* The calls whose reply was counted as a find, and as a send.             *)
Finds == {i \in Old!With("reply") : i % 2 = 1}
Sends == {i \in Old!With("reply") : i % 2 = 0}

(* main is past its loop only when every call has ended; the counters are  *)
(* the replies until then.                                                 *)
SummaryInv ==
  /\ iterations \in Nat
  /\ futs \in [0..iterations - 1 -> {"none", "sent", "reply", "error"}]
  /\ find_success_counter \in Nat /\ send_success_counter \in Nat
  /\ old_main # "send" => Old!With("none") = {}
  /\ executor # "none" => old_main # "send" /\ Old!Collected(futs)
  /\ stop_ => executor # "none"
  /\ old_main \in {"summary", "return", "ended"} => executor # "none"
  /\ program.counting => /\ find_success_counter = Cardinality(Finds)
                         /\ send_success_counter = Cardinality(Sends)

(* Half of the calls, rounded down, are finds: their numbers are odd.      *)
LEMMA OddHalf ==
  ASSUME NEW n \in Nat, NEW S \in SUBSET {i \in 0..n - 1 : i % 2 = 1}
  PROVE  IsFiniteSet(S) /\ Cardinality(S) <= n \div 2
<1> DEFINE half == n \div 2
           odds == {i \in 0..n - 1 : i % 2 = 1}
           at_  == [k \in 1..half |-> 2 * k - 1]
<1>1. half \in Nat /\ n \in {2 * half, 2 * half + 1}
  OBVIOUS
<1>2. IsFiniteSet(1..half) /\ Cardinality(1..half) = half
  BY <1>1, FS_Interval
<1>3. at_ \in Surjection(1..half, odds)
  <2>1. ASSUME NEW k \in 1..half PROVE at_[k] \in odds
    BY <1>1
  <2>2. ASSUME NEW i \in odds PROVE \E k \in 1..half : at_[k] = i
    <3>1. PICK k \in Nat : i = 2 * k + 1
      BY <2>2
    <3>2. k + 1 \in 1..half /\ at_[k + 1] = i
      BY <1>1, <3>1
    <3> QED BY <3>2
  <2> QED BY <2>1, <2>2 DEF Surjection
<1>4. IsFiniteSet(odds) /\ Cardinality(odds) <= half
  BY <1>2, <1>3, FS_Surjection DEF ExistsSurjection
<1>5. IsFiniteSet(S) /\ Cardinality(S) <= Cardinality(odds)
  BY <1>4, FS_Subset
<1>6. Cardinality(S) \in Nat /\ Cardinality(odds) \in Nat
  BY <1>4, <1>5, FS_CardinalityType
<1> QED BY <1>1, <1>4, <1>5, <1>6

(* The other half, rounded up, are sends.                                  *)
LEMMA EvenHalf ==
  ASSUME NEW n \in Nat, NEW S \in SUBSET {i \in 0..n - 1 : i % 2 = 0}
  PROVE  IsFiniteSet(S) /\ Cardinality(S) <= n - n \div 2
<1> DEFINE half == n - n \div 2
           evens == {i \in 0..n - 1 : i % 2 = 0}
           at_   == [k \in 1..half |-> 2 * k - 2]
<1>1. half \in Nat /\ n \in {2 * half, 2 * half - 1}
  OBVIOUS
<1>2. IsFiniteSet(1..half) /\ Cardinality(1..half) = half
  BY <1>1, FS_Interval
<1>3. at_ \in Surjection(1..half, evens)
  <2>1. ASSUME NEW k \in 1..half PROVE at_[k] \in evens
    BY <1>1
  <2>2. ASSUME NEW i \in evens PROVE \E k \in 1..half : at_[k] = i
    <3>1. PICK k \in Nat : i = 2 * k
      BY <2>2
    <3>2. k + 1 \in 1..half /\ at_[k + 1] = i
      BY <1>1, <3>1
    <3> QED BY <3>2
  <2> QED BY <2>1, <2>2 DEF Surjection
<1>4. IsFiniteSet(evens) /\ Cardinality(evens) <= half
  BY <1>2, <1>3, FS_Surjection DEF ExistsSurjection
<1>5. IsFiniteSet(S) /\ Cardinality(S) <= Cardinality(evens)
  BY <1>4, FS_Subset
<1>6. Cardinality(S) \in Nat /\ Cardinality(evens) \in Nat
  BY <1>4, <1>5, FS_CardinalityType
<1> QED BY <1>1, <1>4, <1>5, <1>6

(* So the finds and the sends are bounded, and are all replies.            *)
LEMMA RepliesSplit ==
  ASSUME SummaryInv
  PROVE  /\ IsFiniteSet(Finds) /\ Cardinality(Finds) <= iterations \div 2
         /\ IsFiniteSet(Sends) /\ Cardinality(Sends) <= iterations - iterations \div 2
         /\ Cardinality(Sends) + Cardinality(Finds) = Cardinality(Old!With("reply"))
<1>1. iterations \in Nat /\ DOMAIN futs = 0..iterations - 1
  BY DEF SummaryInv
<1>2. Finds \in SUBSET {i \in 0..iterations - 1 : i % 2 = 1}
  BY <1>1 DEF Finds, Old!With
<1>3. Sends \in SUBSET {i \in 0..iterations - 1 : i % 2 = 0}
  BY <1>1 DEF Sends, Old!With
<1>4. IsFiniteSet(Finds) /\ Cardinality(Finds) <= iterations \div 2
  BY <1>1, <1>2, OddHalf
<1>5. IsFiniteSet(Sends) /\ Cardinality(Sends) <= iterations - iterations \div 2
  BY <1>1, <1>3, EvenHalf
<1>6. Sends \cup Finds = Old!With("reply") /\ Sends \cap Finds = {}
  <2>1. \A i \in Old!With("reply") : i \in Nat
    BY <1>1 DEF Old!With
  <2>2. \A i \in Nat : i % 2 = 0 \/ i % 2 = 1
    OBVIOUS
  <2> QED BY <2>1, <2>2 DEF Finds, Sends
<1>7. Cardinality(Sends \cup Finds) = Cardinality(Sends) + Cardinality(Finds) - Cardinality({})
  BY <1>4, <1>5, <1>6, FS_Union
<1>8. Cardinality({}) = 0 /\ Cardinality(Sends) \in Nat /\ Cardinality(Finds) \in Nat
  BY <1>4, <1>5, FS_EmptySet, FS_CardinalityType
<1>9. Cardinality(Sends) + Cardinality(Finds) = Cardinality(Old!With("reply"))
  <2>1. Cardinality(Sends \cup Finds) = Cardinality(Old!With("reply"))
    BY <1>6, Zenon
  <2> HIDE DEF Finds, Sends
  <2> QED BY <1>7, <1>8, <2>1
<1> QED BY <1>4, <1>5, <1>9

(* In the beginning no call was sent.                                      *)
LEMMA SummaryInit == Old!Init => SummaryInv
<1> SUFFICES ASSUME Old!Init PROVE SummaryInv
  OBVIOUS
<1>1. iterations \in Nat /\ futs = [i \in 0..iterations - 1 |-> "none"]
  BY ProgramsAssumption DEF Old!Init
<1>2. Finds = {} /\ Sends = {}
  BY <1>1 DEF Finds, Sends, Old!With
<1>3. find_success_counter = Cardinality(Finds) /\ send_success_counter = Cardinality(Sends)
  BY <1>2, FS_EmptySet DEF Old!Init
<1> QED BY <1>1, <1>3 DEF Old!Init, SummaryInv

(* A step that changes no future keeps what the futures say.               *)
LEMMA FutsKept ==
  ASSUME SummaryInv, UNCHANGED <<program, iterations, futs>>,
         UNCHANGED <<find_success_counter, send_success_counter>>,
         old_main' # "send" => Old!With("none") = {},
         executor' # "none" => old_main' # "send" /\ Old!Collected(futs),
         stop_' => executor' # "none",
         old_main' \in {"summary", "return", "ended"} => executor' # "none"
  PROVE  SummaryInv'
<1>1. \A s \in {"none", "sent", "reply", "error"} : Old!With(s)' = Old!With(s)
  BY DEF Old!With
<1>2. Finds' = Finds /\ Sends' = Sends
  BY <1>1 DEF Finds, Sends
<1> QED BY <1>1, <1>2 DEF SummaryInv, Old!Collected

(* main sends a call: no reply is there yet for it.                        *)
LEMMA SendStep ==
  ASSUME SummaryInv, Old!SendCall
  PROVE  SummaryInv'
<1>1. PICK i \in DOMAIN futs, s \in {"sent", "error"} :
        futs[i] = "none" /\ futs' = [futs EXCEPT ![i] = s]
  BY DEF Old!SendCall, Old!With
<1>2. /\ old_main = "send" /\ UNCHANGED <<program, iterations, old_main, executor, stop_>>
      /\ UNCHANGED <<find_success_counter, send_success_counter>>
  BY DEF Old!SendCall, Old!counters
<1>3. futs' \in [0..iterations - 1 -> {"none", "sent", "reply", "error"}]
  BY <1>1 DEF SummaryInv
<1>4. Old!With("reply")' = Old!With("reply")
  BY <1>1 DEF SummaryInv, Old!With
<1>5. Finds' = Finds /\ Sends' = Sends
  BY <1>4 DEF Finds, Sends
<1> QED BY <1>2, <1>3, <1>5 DEF SummaryInv
(* A call that was sent ends: a reply is one more find or send.            *)
LEMMA CallbackStep ==
  ASSUME SummaryInv, NEW i \in DOMAIN futs, Old!Callback(i)
  PROVE  SummaryInv'
<1>1. /\ old_main = "loop" /\ futs[i] = "sent"
      /\ UNCHANGED <<program, iterations, old_main, stop_>>
  BY DEF Old!Callback
<1>2. executor = "none"
  BY <1>1 DEF SummaryInv, Old!Collected
<1>3. executor' # "none" => Old!Collected(futs')
  BY <1>2 DEF Old!Callback, Old!Submit
<1>4. DOMAIN futs = 0..iterations - 1 /\ iterations \in Nat /\ i \in Nat
  BY DEF SummaryInv
<1>5. ASSUME NEW s \in {"reply", "error"}, futs' = [futs EXCEPT ![i] = s],
             program.counting => /\ find_success_counter' = Cardinality(Finds')
                                 /\ send_success_counter' = Cardinality(Sends'),
             find_success_counter' \in Nat, send_success_counter' \in Nat
      PROVE  SummaryInv'
  <2>1. futs' \in [0..iterations - 1 -> {"none", "sent", "reply", "error"}]
    BY <1>5 DEF SummaryInv
  <2>2. Old!With("none")' = {}
    BY <1>1, <1>5 DEF SummaryInv, Old!With
  <2>3. Old!Collected(futs)' <=> Old!Collected(futs')
    BY DEF Old!Collected
  <2> QED BY <1>1, <1>2, <1>3, <1>5, <2>1, <2>2, <2>3 DEF SummaryInv
<1>6. CASE futs' = [futs EXCEPT ![i] = "error"] /\ UNCHANGED Old!counters
  <2>1. Old!With("reply")' = Old!With("reply")
    BY <1>1, <1>6 DEF SummaryInv, Old!With
  <2>2. Finds' = Finds /\ Sends' = Sends
    BY <2>1 DEF Finds, Sends
  <2> QED BY <1>5, <1>6, <2>2 DEF SummaryInv, Old!counters
<1>7. CASE futs' = [futs EXCEPT ![i] = "reply"] /\ Old!onReply(i)
  <2>1. Old!With("reply")' = Old!With("reply") \cup {i} /\ i \notin Old!With("reply")
    BY <1>1, <1>7 DEF SummaryInv, Old!With
  <2>2. IsFiniteSet(Finds) /\ IsFiniteSet(Sends)
    BY RepliesSplit
  <2>3. Cardinality(Finds \cup {i}) = Cardinality(Finds) + 1
    BY <2>1, <2>2, FS_AddElement DEF Finds
  <2>4. Cardinality(Sends \cup {i}) = Cardinality(Sends) + 1
    BY <2>1, <2>2, FS_AddElement DEF Sends
  <2>5. CASE ~program.counting
    BY <1>1, <1>5, <1>7, <2>5 DEF SummaryInv, Old!onReply, Old!counters
  <2>6. CASE program.counting
    <3>1. /\ find_success_counter' = find_success_counter + (i % 2)
          /\ send_success_counter' = send_success_counter + 1 - (i % 2)
      BY <1>7, <2>6 DEF Old!onReply
    <3>2. /\ find_success_counter = Cardinality(Finds) /\ find_success_counter \in Nat
          /\ send_success_counter = Cardinality(Sends) /\ send_success_counter \in Nat
      BY <2>6 DEF SummaryInv
    <3>3. CASE i % 2 = 1
      <4>1. Finds' = Finds \cup {i} /\ Sends' = Sends
        BY <2>1, <3>3 DEF Finds, Sends
      <4> QED BY <1>5, <1>7, <2>3, <3>1, <3>2, <3>3, <4>1
    <3>4. CASE i % 2 = 0
      <4>1. Finds' = Finds /\ Sends' = Sends \cup {i}
        BY <2>1, <3>4 DEF Finds, Sends
      <4> QED BY <1>5, <1>7, <2>4, <3>1, <3>2, <3>4, <4>1
    <3>5. i % 2 = 0 \/ i % 2 = 1
      BY <1>4
    <3> QED BY <3>3, <3>4, <3>5
  <2> QED BY <2>5, <2>6
<1> QED BY <1>6, <1>7 DEF Old!Callback

(* Every step preserves the invariant of the summary.                      *)
LEMMA SummaryStep == SummaryInv /\ [Old!Next]_oldVars => SummaryInv'
<1> SUFFICES ASSUME SummaryInv, [Old!Next]_oldVars PROVE SummaryInv'
  OBVIOUS
<1>1. /\ old_main # "send" => Old!With("none") = {}
      /\ executor # "none" => old_main # "send" /\ Old!Collected(futs)
      /\ stop_ => executor # "none"
      /\ old_main \in {"summary", "return", "ended"} => executor # "none"
  BY DEF SummaryInv
<1>2. CASE UNCHANGED oldVars
  BY <1>1, <1>2, FutsKept DEF oldVars
<1>3. CASE Old!SendCall
  BY <1>3, SendStep
<1>4. CASE Old!LoopForever
  BY <1>1, <1>4, FutsKept DEF Old!LoopForever, Old!Submit, Old!counters
<1>5. ASSUME NEW i \in DOMAIN futs, Old!Callback(i) PROVE SummaryInv'
  BY <1>5, CallbackStep
<1>6. CASE Old!terminateLoopSoon \/ Old!Wake
  BY <1>1, <1>6, FutsKept DEF Old!terminateLoopSoon, Old!Wake, Old!counters
<1>7. CASE Old!LoopEnds \/ Old!client_summary \/ Old!Return
  BY <1>1, <1>7, FutsKept DEF Old!LoopEnds, Old!client_summary, Old!Return, Old!counters
<1>8. CASE Old!DestroyExecutor \/ Old!DestroyEventBase
  BY <1>1, <1>8, FutsKept DEF Old!DestroyExecutor, Old!DestroyEventBase, Old!counters
<1> QED BY <1>2, <1>3, <1>4, <1>5, <1>6, <1>7, <1>8 DEF Old!Next

(* A summary is printed when every call has ended, and counts the replies  *)
(* to sends and to finds, of at most as many as it prints, for any number  *)
(* of calls (src/MockDatabase/old/MockDatabaseClient.cpp:108-137).         *)
THEOREM SummaryCompleteCorrect == ProgramsSpec => []SummaryComplete
<1>1. SummaryInv => SummaryComplete
  <2> SUFFICES ASSUME SummaryInv, old_main \in {"summary", "return", "ended"}
               PROVE  /\ Old!With("none") \cup Old!With("sent") = {}
                      /\ program.counting =>
                           /\ find_success_counter = Cardinality(Finds)
                           /\ send_success_counter + find_success_counter
                                = Cardinality(Old!With("reply"))
                           /\ find_success_counter <= iterations \div 2
                           /\ send_success_counter <= iterations - iterations \div 2
    <3>1. \A S : Old!Cardinality(S) = Cardinality(S)
      BY DEF Old!Cardinality, Cardinality
    <3> QED BY <3>1, Zenon DEF SummaryComplete, Old!SummaryComplete, Finds
  <2>1. Old!With("none") \cup Old!With("sent") = {}
    BY DEF SummaryInv, Old!Collected, Old!With
  <2>2. /\ Cardinality(Finds) <= iterations \div 2
        /\ Cardinality(Sends) <= iterations - iterations \div 2
        /\ Cardinality(Sends) + Cardinality(Finds) = Cardinality(Old!With("reply"))
    BY RepliesSplit
  <2> QED BY <2>1, <2>2 DEF SummaryInv
<1> QED BY <1>1, SummaryInit, SummaryStep, OldRuns, PTL
=============================================================================
