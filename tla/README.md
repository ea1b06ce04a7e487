# Verification of async-rpc-fbthrift

TLA+ models of the message board benchmark – four processes that talk through
fbthrift (`docker-compose.yml`), the statistics each of them keeps and the
script that plots them – and of the programs the repository carries beside it:
fbthrift's performance client and server, the chat room and echo examples, and
the superseded clients. TLC checks small instances; TLAPS proves the main
results for every size. Paths are relative to the repository's `src/` where
they begin with `src/`, and shortened to their last parts where that is clear.

## 1. The system

| Part | Source | State | Operations | What is hard |
|---|---|---|---|---|
| ServerStatsManager | `src/shared/ServerStats.{h,cpp}` | `data_buffers`, `active_buffer`, `entry_cursor`, `entry_saving_mutex`, csv file | constructor, `add_entry`, destructor → `dump_server_stats` → `dump_matrix`; a second version that streams rows | wrap test, reset and rotation made without the mutex; the dump runs in a SIGINT handler, without the mutex, while threads record; several destructors at once |
| MockDatabase | `src/MockDatabase` | `last_messages` (unordered_map, no lock) | `find_last_message`, `store_message` | data races between worker threads |
| SanitizationService | `src/SanitizationService` | client of the database, its event loop; a client per thread (SYNC build) | `sanitize_message` | early return on a refused message, failure of the remote call, a client used before its loop runs |
| MessageService | `src/MessageService` | the same for two services | `find_last_message`, `send_message` | worker threads that wait on another service, failures that skip the second statistics row, unlocked maps in the SYNC build |
| Client | `src/Client/Client.cpp` | loop counter, futures, two counters | call loop, callbacks, summary, SIGINT | callbacks on two threads, answers in any order |
| RPC plumbing | `src/shared/Utils.{h,cpp}` | channels, servers, signal handler, query ids | `newRocketClient`, `newServer`, `sigint_catcher`, `generate_local_uid`, `get_query_uid` | no timeout, no reconnect, task expiry, ids cut to 32 bits |
| Trace analysis | `data_analysis/plot_utils.py` | – | reads and merges the csv files | rows in any order, missing rows, rows of zeros |
| Performance client | `src/dep/perf/cpp2` (vendored; copies under `src/old`) | `outstanding_ops_`, the call stack of `run()`, counters | `Runner`, `LoadCallback`, `Operation`, `QPSStats`, `main` | every operation releases its slot elsewhere; callbacks inside `async()`, throws out of `run()`, lookups without the mutex |
| Performance server | `src/dep/perf/cpp2/server` | counters, logger thread | the handler's methods, `main` | expiry, two ways to stop, counting before answering |
| Examples | `src/old/example` | `messageBuffer_`, indices; a connection thread | `getMessages`, `sendMessage`; `sync_echo` | tokens across growth and restarts; an EventBase used by two threads in turns |
| Superseded clients | `src/old/working_example`, `MockDatabase/old`, `SanitizationService/old` | futures, executor | call loop, `collectAll`, `terminateLoopSoon` | who ends the loop, in which order destructors run |

A query is one call of a client. Even calls send a message (client → message
service → sanitization service → database), odd calls find the last one
(client → message service → database). Each process records a row when it
begins a query and one when it ends it. A handler keeps its worker thread while
it waits, in the asynchronous as in the synchronous build. Correct means: rows
are neither lost nor mixed up, a file has what was recorded, spans nest, an
acknowledged message is stored, a refused one never is, everybody eventually
gets an answer or an error, and what is plotted is what happened. For the
benchmark it means: the client has as many calls outstanding as it was told to,
counts each of them once, and prints rates that add up.

## 2. Modules

| Module | Models | Remarks |
|---|---|---|
| `ServerStats` | ServerStatsManager in one process | one action per shared memory access of `add_entry` and per step of the destructor |
| `StatsLog` | what the manager promises | append-only log, saved once up to its length at the time of the stop; implemented by `ServerStats` and by `StatsStream` |
| `StatsShutdown` | the destructor run by several threads at once | the end of `main`, signals on other threads or inside the delete |
| `StatsStream` | the stream version with its stress program | flush every `entry_count` rows, kill and stop inside a row |
| `Rpc` | processes, channels, fbthrift queue and workers | fbthrift is external; caller's view `rpc`, handler's view `stage` |
| `MockDatabase`, `SanitizationService`, `MessageService` | the three handlers and their servers' `main` and `int_handler` | extend `Rpc` |
| `Client` | the client process, both builds (`CLIENT_SYNC`) | extends `Rpc` |
| `MessageBoard` | composition of all of the above | properties of the whole |
| `AsyncHandler` | one handler's client, event loop and workers (asynchronous build) | implements `RemoteCall` |
| `RemoteCall` | what the handlers rely on when they call | abstract: a call has one outcome, and that of the channel |
| `ClientMap` | the maps of per-thread clients (SYNC build) | find and insert take time; an overlap is a race |
| `QueryUid`, `UidSpace` | ids of queries, drawn by several clients | shifts and ORs as arithmetic; each part of an id has as many values as a constant says |
| `TraceAnalysis` | the analysis of the files two processes wrote | |
| `PerfOps` | the nine operations as a table | kind of call, counters, deadline |
| `PerfRunner` | one client thread | its call stack is state |
| `PerfBench` | the client thread and the server it loads | extends `PerfRunner` |
| `QPSStats` | registration, adds and prints of the counters | an iteration that overlaps an insertion may go anywhere |
| `PerfClient`, `PerfServer` | the two `main` functions | time is the sum of the sleeps |
| `ChatRoom`, `EchoClient`, `OldClients` | examples and superseded clients | |
| `BoardValues`, `MC…` | TLC instances | see below |
| `Programs` | programs that share nothing, side by side | their sizes are its constants, given by `Programs.cfg` |
| `ServerStatsProofs`, `MessageBoardProofs`, `QPSStatsProofs`, `ChatRoomProofs`, `PerfBenchProofs`, `ProgramsProofs`, `TraceAnalysisProofs` | – | TLAPS proofs |
| `Remainders` | – | lemmas on `%` and `\div` for the proofs |

`MCBoardSettings`, `MCPerfSettings`, `MCTraceAnalysis` and `Programs` put
several instances in one run: the initial state chooses one, no step changes the
choice, and the others stay as they are. The state spaces are disjoint, so their
sizes add up, and each property is checked in the setting it is about.

### ServerStats

The calls of `add_entry` are numbered; the k-th call stands for both words
(query id, time) it writes, so a torn row is a row with two different words and
0 is the fill of the constructor. `Check`, `ResetCursor`, `RotateLoad`,
`RotateStore` are lines 136–139 (no mutex), `Lock` … `Unlock` lines 142–147. For
each word `LoadBuffer` reads `active_buffer` and `LoadCursor` reads
`entry_cursor` before `WriteId` or `WriteTime` stores it, so an unlocked wrap may
come in between; `entry_cursor += 1` is `IncLoad` and `IncStore`. A store outside
the buffer is undefined behaviour: the process crashes or the entry is lost (`oob` records
it). `BeginDump(h)` is the destructor called by the SIGINT handler on an
arbitrary thread h, which never returns from it; it reads `entry_cursor`,
`SelectBuffer` reads `active_buffer` later, `DumpRow` writes the rows,
`Destroy` frees the members while other threads may still use them and `Exit`
ends the process (the `delete` of memory `new` did not return aborts it, or
`exit(1)` does). Memory accesses are in program order (the default build is not
optimised). `recorded`, `oob`, `crowded` (a call began when those in flight could fill the
buffer, or while another one wrapped) and `disturbed` (the cursor was reset after
the dump began) are history variables. Bound: `MaxCalls`.

`StatsShutdown` is the client's shutdown, when nobody records any more: `main`
deletes the manager, and `int_handler` may run on any thread, inside that delete
as well. Each destructor writes all rows, closes the file and frees the buffers; a row
read after another thread freed them is garbage or a crash. Then the delete
aborts the process, or `exit` – called by the handler, or by the return of
`main` – destroys the static objects, `client_stat_manager` among them, so the
first thread that comes there dumps it once more. In `StatsStream` rows and half
rows wait in the stream's buffer (`pending`), which may overflow into the file at
any moment; `Kill` loses it. `torn` says that SIGINT came inside a row.

### Message board

`rpc[s][q]` is the call to service s for query q as its caller sees it,
`stage[s][q]` how far the handler is. Two views are needed because a request
may fail for the caller while its handler goes on: the task expiry
(`Expire`), or a server that stops in the middle of a chain. A server has
`Workers` CPU threads; a stopped server's handlers are lost and its callers get
an exception. A channel belongs to a thread and is opened once: when the process
starts (all threads share it), or in the SYNC build of the servers by a worker's
first call; it is never opened again. The database's map accesses have a beginning and an end. A store that overlaps another access
is a data race: a crash, a lost store or an arbitrary result. Statistics are
abstracted to the number of rows per process and query, which is what
`StatsLog` promises while fewer than 32768 rows are recorded. Messages are
model strings; the regular expression is the set `Forbidden`. Bounds:
`Clients`, `iterations`. Sleeps and logging are left out.

`MessageBoard` takes one thing for granted: that a handler's call through its
client has an outcome. `AsyncHandler` is that call in detail. The constructor
makes the client on an EventBase nobody drives yet, which only queues the
connection; then a detached thread drives it. Workers queue requests, sleep and
wait; only the loop connects, sends and settles futures; replies come in any
order. `IsRemoteCall` is the refinement. In the SYNC build each worker has a
client of its own in a map keyed by its thread id, searched and filled without a
lock (`ClientMap`).

### Performance client and server

`PerfRunner` is one client thread. Everything happens on the thread of the event
base, but not one thing after the other: `run()` starts operations until
`max_outstanding_ops` are outstanding; a callback that ends a call calls `run()`
again, from inside `async()` when a one-way request is written at once or the
channel is broken – `StartInline`, which includes `co_sum`'s continuation, started
inline; the continuation of a future calls `run()` inside a try block whose catch
block releases the slot and counts again; and
`sync_streamDownload` drives the event base itself, so callbacks run inside it.
`stack` holds the activations of `run()` and of the blocking call. `calls` is
the sequence of calls with the operation and state of each; `twice` counts the
slots a catch block released a second time. `PerfBench` adds the server's view
of each call (`request`) and its counters (`served`): the methods marked
`(thread = "eb")` run as soon as they arrive, the others need one of
`cpu_threads` workers and may expire, in the queue or while they run (the task
expiry then answers in their place). `QPSStats` is the map of counters: lookups
and iterations take time and take no mutex, `emplace` of a new name takes time;
the next step of an iteration that overlaps one may lead to any node or to the
end. Counters wrap at `Modulus`.
`PerfClient` and `PerfServer` are the mains: threads, sleeps, prints, joins.

### Examples, ids and analysis

`ChatRoom`: each handler call is atomic (the buffer is behind a lock), a
client's call is not: an answer, with the token in it, may be lost, and the
server may be started again with an empty buffer. `EchoClient` and `OldClients`
follow an EventBase through threads and destructors. `QueryUid` computes the ids
from as many values of each part as its constants say (`OctetSize`, `RandomSize`,
`NumberSize`), since only which bits are lost matters. `TraceAnalysis` records
rows some time after their time was measured, so files are not sorted by time,
and runs `treat_data`, the merge and the loop over the clients on them. The
times are unsigned words: `Since` subtracts `time_start` modulo `EpochSize`. The
loop asks for `start_client[0]`, a label only the client with the least id has:
`traced` are the traces drawn, `plotted` those whose figure is shown before this
is a KeyError.

### What is assumed of the code outside the repository

- folly's EventBase: a loop inside its own loop may abort; callbacks may be
  invoked inline; `terminateLoopSoon` before `loopForever` is not lost; a
  destroyed `ThreadedExecutor` joins its threads.
- fbthrift's client: `RequestClientCallback` callbacks are noexcept, so an
  exception out of a channel callback, out of the continuation of `co_sum` or
  out of a thread's main lambda ends the process; `thenTry` puts exceptions into
  the future. Timeouts of the client are transport errors ("broken"); only the
  server's task expiry is a TApplicationException TIMEOUT ("expired"). A
  `HeaderClientChannel` after `setTimeout(0)` has no timeout; a broken channel
  fails all outstanding calls and is not opened again. A `RocketClientChannel`
  has a default timeout. `future_` calls are queued on the client's EventBase.
- fbthrift's server: a queue, workers, task expiry; `stop()` before `serve()` is
  lost.
- `ThreadCachedInt`: an increment and `readFull` are atomic. `std::map::emplace`
  of a name that is present changes no node.
- The echo example is built with the `Util.h` of its own directory.
  `STREAM_PERF_TEST` is defined nowhere in the repository; both builds are
  modelled.
- The containers share a clock that never runs back (they share a host).

## 3. Runs

| Run | Instance | Shows |
|---|---|---|
| `stats_safety` | 3 threads, 2 rows, 2 buffers, 4 calls | `TypeOK`, `MutualExclusion`, `EntriesPreserved`, `DumpFaithful` (up to as many calls as rows); `LapsKept` (any calls, until they are crowded) |
| `stats_live` | 2 threads, 4 rows, 1 buffer, 4 calls | `CallReturns`, `StopCompletes`, and `LogSpec`: refinement of `StatsLog`, with its fairness |
| `board_safety` | four settings (`MCBoardSettings`): asynchronous client, 3 calls, 2 workers; the same with 2 calls, 1 worker, any start order, stops, expiry; 2 synchronous clients of one user, 3 calls each, one with refused messages; 1 synchronous client, 4 calls, faults | `FindSeesAcked`, `CountersExact` (synchronous settings), `SequentialAccess` (last setting), no deadlock |
| `board_live` | 1 asynchronous client, 2 calls, SYNC servers of 1 worker, any start order, stops of sanitization service, database and client, expiry | `ClientEnds`, `WorkersFreed`; `SpansNest`, `AckedIsStored` |
| `board_refused_counted` | 1 synchronous client with a refused message | **violated**: the summary counts refused sends as successful |
| `board_lost_increment` | 1 asynchronous client, 3 calls | **violated**: an increment of a success counter is lost |
| `perf_bench` | five settings (`MCPerfSettings`): two of a client alone with any answers, 4 calls; two with the server, 3 calls (deadlines, expiry and refusals with 1 worker; streams of up to 2 chunks with 2) – at most 2 outstanding; and the statistics of 2 threads, 2 adds to each of two counters that wrap at 2, 2 prints | `CountedOnce`; `SuccessesServed` in the settings with the server; `AddsUndisturbed`, `AddFindsCounter`, `RatesExact`, `PrintCovers` of the statistics |
| `perf_timeouts` | TIMEOUT, a future and STREAM with one chunk, 1 worker, 3 calls, 2 outstanding | `CallsEnd`: every call ends at the client; `SlotAccounting`, `FullWhenIdle` |
| `programs` | eight programs: shutdown (3 threads, 2 rows), stream statistics (flush every 2 rows, 3 tests), asynchronous handler (3 workers, 2 calls each), client maps (2 workers, 2 maps, 3 calls each), benchmark client main (3 threads, 5 seconds, interval 2), server main (up to 5 seconds, interval up to 3), echo (2 programs), superseded clients (up to 4 calls) | `FirstDumpWhole`, `LossBounded`, `SavesAsLog`, `IsRemoteCall`, `OwnClient`, `WarmNeverRaces`, `SleepsExact`, `NothingDangles`, `SummaryComplete`, `ProgramsEnd` |
| `chat_room` | 2 readers, 1 program, 2 messages a page, 3 messages, 2 lives of the server | `NoneMissed` |
| `chat_token` | the same | **violated**: a token with index i marks the place before message i, the interface definition says after it |
| `trace` | 2 queries of 3 hosts, one row of zeros, parts of one bit, 16 times; or the ids of 2 clients, 4 each | `PlottedIsTrue`; `UidsIdentify` |

Why the bounds are enough:

- Statistics: a whole buffer is filled by every interleaving of three threads;
  the third and the fourth call may pass the wrap test together, before or after
  the buffer is full, so out-of-bounds stores, double rotations, lost resets and
  torn rows do happen. Three threads cover an owner of the mutex, a thread in
  the unlocked part and an interrupted one. `LapsKept` sees two whole laps, of
  one caller and of several that are never crowded.
- Board: three calls are the fewest with two sends, which the counter race and
  the store–store race need; one worker per server is the tightest pool.
- Benchmark: two outstanding calls and three or four calls are the fewest with a
  slot that is taken again after it was released, once by a call that ends
  normally and once inside another call's activation of `run()`. One worker
  makes requests wait until they expire. In the statistics the second thread
  registers while the first adds and main prints, also before the first
  registration is done; two prints give a difference, and the second add wraps a
  counter.
- `programs`: three threads let two destructors end while a third reads; three
  workers let two replies overtake each other and one; the times are such that
  the interval divides the whole and that it does not.
- `chat_room`: three messages and pages of two leave a page that is not full.
- `trace`: one bit per part makes any two of the parts' values meet; four ids
  wrap a query number of one bit. The clock does not come round: a word of
  nanoseconds has 584 years, and a run is far shorter.

`CHECK_DEADLOCK FALSE` is given where a behaviour may end: the bounded runs of
the benchmark, the programs, the chat room and the analysis (their programs end,
or their bound is reached), and the liveness runs, where a system that hangs is
to be reported by the properties. The statistics and the board are checked for
deadlock in `stats_safety` and `board_safety`.

What the code does **not** promise, what the models therefore reach, and what no
property denies:

- Once calls may fill a buffer together (`crowded`), they may write past it,
  rotate twice, lose a reset, tear rows and leave zero rows in the file; a wrap
  during the dump mixes two buffers (`disturbed`). `EntriesPreserved` and
  `DumpFaithful` have the premise `started <= entry_count`; `LapsKept` says that
  nothing but these two leads to it. The default 32768 rows are far above the 200
  rows of the configured benchmark.
- In the SYNC build the first calls of two workers may race on the client maps
  (`raced`); `OwnClient` is about what comes before such a race, and
  `WarmNeverRaces` says when there is none any more.
- An iteration of `printStats` may overlap the first registrations and is then a
  data race; `PrintCovers` says that no add is lost by it.
- With `--sync` the benchmark's client may crash after its threads have ended, and
  a stop of its server before `serve()` is lost; `ProgramsEnd` allows both.
- `MockDatabase/old/MockDatabaseClient.cpp:71-72` declares the executor before the
  EventBase and may use the latter after its destruction; `NothingDangles` is
  about the other programs.
- Without `STREAM_PERF_TEST` an operation such as DOWNLOAD takes a slot that
  nothing releases (the theorem `SlotAccountingCorrect` counts it as lost); enough
  of them stop the client.

**Fairness.** All of it is weak, and of steps a scheduled thread takes by
itself. `ServerStats!FairSpec`: a thread inside `add_entry` and the handler go
on; nothing obliges a thread to begin a call or a signal to come. Weak fairness
is enough for the mutex because a behaviour has finitely many calls.
`MessageBoard!FairSpec`: some thread goes on as long as one can; start-up is
included, stops and expiry are not. `PerfBench!BenchFairSpec`: the same for the
client, the workers and answers over an intact connection; expiry, refusals,
deadlines and broken connections may come but need not. `Programs`: each thread
of the program that runs; signals and broken channels need not come, and where
a program blocks on a call, the call is answered or fails.

**Divergences from documents.** Three are findings, each with a run:
`board_refused_counted`, `board_lost_increment` and `chat_token`. Others were met
while modelling and have no run of their own:

- `dep/if/chatroom.thrift:58-60` promises "the last few chat messages";
  `getMessages` without a token returns the first ones of the buffer.
- `dep/perf/cpp2/README.md:33-36` says that 50 clients with a maximum of 100 mean
  "at most, the Server will have 5000 outstanding operations". One-way operations
  release their slot when they are sent, and a call the client has given up may
  still be at work, so the server may hold more requests than that. `SlotAccounting`
  is about the client's side only.
- `dep/perf/cpp2/client/Client.cpp:36` describes `terminate_sec` as "How long to
  run client"; without `--sync` the client's `main` joins threads that run an
  event loop for ever, so it does not end. With the http2 transport, which that
  README offers (:66-72), it has no client to call.

These contradict no document:

- A catch block of a continuation may release a slot that its call has already
  released, after a stream that failed to open threw through it
  (`util/SimpleOps.h:240-267`); the maximum still holds because a slot was lost
  first.
- The counters are 32 bits wide: what is printed is the count modulo 2^32.
- A shared octet of addresses, or 2^28 calls, make ids coincide
  (`UidsIdentify` says when).

## 4. Proofs

Every theorem is about all values of the constants under the named assumptions.

**`ServerStatsProofs`** (`ThreadsAssumption`, `CountsAssumption`: any finite set
of threads, any numbers of rows, buffers and calls): `TypeCorrect`,
`MutexCorrect`, `EntriesPreservedCorrect`, `DumpFaithfulCorrect`. `TypeOK` alone
is not inductive: the cursor is bounded only because every increment belongs to
a call. `CountInv` says that each call begun is either counted in `recorded` or
in flight, and that the cursor and every register about to be stored are at most
`Len(recorded)`; `BaseInv` is the conjunction of the three. The counting lemmas
`InFlightFinite` and `InFlightMoves` follow the cardinality of the calls in
flight. `RecordingInv` adds what holds while `started <= entry_count`: nobody is
in the wrap branch and the cursor equals `Len(recorded)` (`NoWrap`), rows below
the cursor are final (`RowsFinal`), the owner of the mutex has its words in the
row at the cursor (`OwnerRow`) and the file is a prefix of the recorded calls
(`FileInv`). Since a call in flight is not counted, the cursor is below
`started`, hence inside the buffer (`CursorInRows`) – the reason why the
unlocked wrap test is harmless until the buffer is full. `CountInv` and
`RecordingInv` are strengthenings the proofs need, not properties of a run.

`LapsKeptCorrect` is about what follows when the buffer is full, for any threads
as long as calls are not crowded. `LapInv` has a row for each call in flight, or
the one that wraps alone (`RoomForAll`), which is why the wrap branch is taken
exactly when the cursor is at `entry_count` and nothing loaded is ever stale; the
cursor congruent to `Len(recorded)` modulo `entry_count` (`LapCursor`); the lap in
progress in the rows below the cursor and the lap before it in the buffer before,
or, until it is rotated, in the active one (`LapRows`); the words of the owner of
the mutex (`LapOwner`); and the file (`LapFile`), which follows one lap until the
cursor is reset during the dump. The words are shifted by whole laps, so the
proof needs three facts about `%` and no induction (`OneLapMore`, `NextBuffer`).

`ImplementsStatsLog` is the refinement of `StatsLog`, its safety part, under
`MaxCalls <= entry_count`: the log is `recorded`, a call is logged at the store
of `entry_cursor += 1`, the save is asked for when the handler reads the cursor
(`BeginDump`) and done by `Destroy`; every other step is a stutter. It needs
that a call is recorded once (`RecordedOnce`), which in turn needs that no two
threads work for one call.

**`MessageBoardProofs`** (`RpcAssumption` only: any clients, calls, workers,
stops, expiries, start orders, and both builds): `SpansNestCorrect` and
`AckedIsStoredCorrect`. The invariant `BoardInv` is `Typed`, a little about the
clients (`ClientInv`), and for each query q `Local(q)`: the rows of a handler
follow its stage (`RowsMatch`), a process is called only while its caller is
under way (`CallsNest`), a second row is recorded only after the answer of the
process called (`AnswersNest`), and an answer already says what is true of the
database (`ResultsHold`). Since `Local(q)` reads only what belongs to q, and the
actions of the others leave that alone (`SameLocal`), each action needs an
argument about the one query it disturbs (`OneQuery`). Expiry makes this less
than obvious: a handler whose caller has given up goes on and calls others,
which is why the invariant separates `rpc` from `stage`. After a data race
(`raced`) a store may be lost, and the theorems say so.

`FindSeesAckedCorrect` follows a message across queries. `AckInv`: an answered
call's request has returned; until accesses race, a user with a stored message
has one of his own messages in the map (`StoredKept` – nobody removes one, and
who overwrites it is the same user); and a find begun after an acknowledged send
has found such a message at every service that has an answer for it (`FoundOwn`).
Only the end of an access of the database and an answer passed on can say
anything new about a find (`AckKept`, `AnswerNews`); the other steps are one
lemma (`NoNews`).

`SequentialAccessCorrect` and `CountersExactCorrect` are about the synchronous
build (`SyncInv`): a callback runs at a time, what it loaded is still the value
of the counter it will store, and a call before the last is answered
(`SyncClient`); the counters are the number of replies (`CountedReplies`). A
handler at work on the map works for a call that is not answered (`LiveIsOpen`),
so one client has one of them at most (`OneLive`): the request expiry that lets
the client go on while a handler of the old call is at work never reaches the
database. `CountersExactCorrect` has the premise `CLIENT_SYNC`: in the
asynchronous build it is false (`board_lost_increment`).

**`QPSStatsProofs`**: `AddsUndisturbedCorrect`, `AddFindsCounterCorrect`,
`RatesExactCorrect`, `PrintCoversCorrect`. `StatsInv` relates the tree to the
threads: a thread that is ready has registered every name, one that registers has
registered the names before (`Registering`), so nobody inserts while anybody
adds. The rates follow what was read of each counter, modulo its width; and what
a print has not reached yet will be reached, unless an insertion disturbs it,
which happens only before the first add, when there is nothing to count.
`AddFindsCounter` and `PrintCovers` need `AddsRegistered`: operations add only to
counters their constructors registered (the instance takes the names from
`PerfOps`).

**`ProgramsProofs`** (`ProgramsAssumption`: any threads, rows, buffer sizes,
entries, calls, intervals, limits, maps and iterations; no thread id is the "none"
of the maps or the connection request of the queue), each theorem from
`ProgramsSpec`. A program that was not chosen stutters, so each of them runs by
its own `Init` and `Next` whatever the others are (`MapsRun`, `ShutdownRuns`,
…): the instance adds nothing to what is proved of it.

- `OwnClientCorrect`, `WarmNeverRacesCorrect`. Until accesses race, an entry
  under a thread's key is the client that thread made, once (`MapInv`); that
  stays true in spite of interleaved searches because a thread inserts only
  under its own key.
- `FirstDumpWholeCorrect`. Until a file is closed nobody has freed the buffers,
  and every dump under way is a prefix of the rows (`DumpInv`), so the first file
  closed is whole; nobody ends the process before, and the destructor that `exit`
  runs on the static object comes after it.
- `LossBoundedCorrect`. `StreamInv`: what was written is the file and then the
  stream's buffer; behind the rows that were kept it is the calls in order, up to
  the half of a row being written (`Kept`, `RowsGiven`); and the buffer never
  holds more than the rows `entry_cursor` counts (`BufferBound`). Half a row is
  the torn last line a close leaves when SIGINT came inside a row, and only then.
- `SavesAsLogCorrect`: the stream version implements `StatsLog`, by step
  simulation from the same invariant.
- `IsRemoteCallCorrect`: an asynchronous handler's calls through a client they
  share implement `RemoteCall`, by step simulation. `HandlerInv` says that each
  pending call is in the queue or sent, once, and each queued or sent request is
  pending (`Requests`), and that the request for the connection is in front of
  the queue while the channel is opening (`Connecting`) – why requests made
  before the loop runs are not failed by it. Each step of the handler is then a
  step of `RemoteCall` or leaves its variables alone.
- `SleepsExactCorrect`. What a main has slept and what it is about to sleep never
  exceeds the limit, and a sleep that was begun is not empty (`ClientSleepInv`,
  `ServerSleepInv`).
- `NothingDanglesCorrect`. `EchoInv` says of each step of each echo program whose
  turn with the EventBase it is (`Turn`); `EventBaseInv` that the superseded
  clients' executor is joined before the EventBase is gone, unless it is declared
  first.
- `SummaryCompleteCorrect`. The loop ends only by the continuation of
  `collectAll`, and each counter is the cardinality of the replies of its kind
  (`SummaryInv`), which `OddHalf`, `EvenHalf` and `RepliesSplit` relate to the
  number of calls.

**`TraceAnalysisProofs`** (`SizeAssumption`, `ZerosAssumption`,
`EpochAssumption`, `HostsAssumption`: any number of values of each part of an id
and of a time, any queries, clients and rows of zeros; with the lemmas of
`Remainders`):

- `UidsIdentifyCorrect`. The i-th id of a client is `Own(c) * NumberSize +
  (i - 1) % NumberSize`, where `Own(c)` is the address and the random bits
  (`UidsInv`). A number is taken apart in one way only (`PartsUnique`), so two
  ids are equal only if both parts are, and the analysis, which divides, gets
  the first back.
- `PlottedIsTrueCorrect`. For each query whose id is neither 0 nor shared, a file
  has no row, one, or two in the order of their times, as far as the query has
  come (`Recorded`), whatever the order in which rows were appended; `TraceInv`
  is that and the types. Rows of zeros belong to no client that is searched for
  (`ZeroIsOfZero`). By `TimesInv` no time of a query is before its first one
  or beyond the clock, and the client's file, once it has rows, has an earliest
  one; what is drawn of a service began at the client and so is not before it, and
  no subtraction wraps (`SinceIs`).

**`ChatRoomProofs`** (`ChatAssumption`: any disjoint sets of readers and
programs, any page size, any number of messages and restarts):
`NoneMissedCorrect`. What a reader has is the buffer up to the place of its
token, and an answer on its way continues exactly there (`ReaderInv`,
`AnswerContinues`), which is why an answer that is lost costs nothing: the next
page starts at the same place. This is claimed of tokens of the present life of
the server only (`Current`); an answer dies with the server, and a token of an
earlier life never becomes current again because lives are counted. Before the
first restart the buffer is the sends in order (`BufferInv`), so who has read to
the end has his own message.

**`PerfBenchProofs`** (`RunnerAssumption`, and nothing of the number of
workers: any slots, operations, calls and chunks, both builds; of the client
alone, `Spec`, and in front of the server, `BenchSpec`; what is said of both has
the premise `Spec \/ BenchSpec`):

- `SlotAccountingCorrect`, `FullWhenIdleCorrect`. `RunnerInv` relates the call
  stack to the calls: a frame of a stream belongs to a call whose stream is
  opening, each such call has one frame, and the bottom of the stack is a loop
  of `run()` (`Frames`). Slots taken are the calls under way and lost, less
  those released twice; and at most as many slots were released twice as streams
  have thrown (`Slots`), since every second release follows a stream that threw
  through the continuation and kept its slot. That bounds `outstanding_ops` from
  below, so a second release never lets a call too many start. `Filled` says
  that after main's first loop has returned, no slot is free but one while its
  `run()` is at its loop, and those of ended streams: a callback that runs
  inside a blocking stream leaves the loop below it with no slot to fill.
- `CountedOnceCorrect`. `CountInv`: only operations with a case in `async()`
  are pending, and the counters of calls add up to the calls done and the second
  releases. A registered counter takes each add (`CountersRegistered` computes
  the registrations of both builds).
- `SuccessesServedCorrect`. For each handler, the client's successes and the
  answers on their way are at most what the handler counted (`ServedInv`): a
  handler counts before it answers (`ServerStep`), a success is counted only for
  an answer that is taken, under a name of that handler (`WinIs`), and every
  other outcome counts under other names. For streams, `HandedOut` is the set of
  the chunks handed out: the handler has counted all of them but the last one of
  each stream that has begun, and the client counts at most all of them
  (`ChunksInv`).
- `BenchIsRunner`, a theorem of its own: the composition implements the client
  alone, so what the first three say of the client holds in front of the server.

The properties of `board_safety` and `perf_bench` are those of `MessageBoard`,
`PerfRunner` and `PerfBench` in the setting that was chosen: the definitions of
`MCBoardSettings` and `MCPerfSettings` only name the instance. The theorems of
`MessageBoardProofs` and `PerfBenchProofs` of the same names hold for all values
of the constants, those of the settings included; they are stated of the
components and not repeated for each setting.

**Only model-checked**: liveness – `CallReturns`, `StopCompletes`, `ClientEnds`,
`WorkersFreed`, `CallsEnd`, `ProgramsEnd`, and the fairness part of the
refinement `LogSpec`. Fairness and ENABLED are out of the prover's reach. Every
safety property that a run is expected to pass is proved.

## 5. Not modelled, and what is left

Not modelled, and why: the superseded middle handler of
`SanitizationService/old` (it does not compile – the function that makes its
client is defined nowhere – and its constructor lets the EventBase of its only
client go out of scope); the metadata example (prints constants of generated
code); fb303's base class (a name and a start time nothing here uses);
interface definitions, build files and generated code; the copies of the
performance benchmark under `src/old` except the `Util.h` the echo example
uses. Inside modelled components: logging, sleeps other than those of the
benchmark's mains, `save_test_file` (no caller), the asynchronous dump (never
enabled), the LOCALHOST build of the ids (not built), axes and colours of the
plots, reordering of memory accesses by an optimising compiler.

Left: nothing of safety that the runs check is unproved. The liveness properties
are checked on small instances only.
