----------------------------- MODULE PerfBench -----------------------------
(***************************************************************************)
(* A client thread (PerfRunner) and the server it loads: BenchmarkHandler  *)
(* (src/dep/perf/cpp2/server/BenchmarkHandler.h) under fbthrift's queue.   *)
(* The methods with (thread = "eb") in if/Api.thrift run on the IO thread  *)
(* as soon as a request arrives; the others wait for one of cpu_threads    *)
(* workers and may expire, in the queue or while their method runs, when   *)
(* the call has a deadline.  The client may give up a call (a deadline or  *)
(* a broken connection) whatever the server does with it; a one-way call   *)
(* has no answer.  fbthrift (queue, answers, expiry) is external.          *)
(***************************************************************************)
EXTENDS PerfRunner

CONSTANT cpu_threads

ASSUME ServerAssumption == cpu_threads \in Nat \ {0}

VARIABLES
  request,    \* request[c]: "sent", "queued", "running", "expired",
              \* "executed", "streaming" or "closed"
  served,     \* the counters of the server
  yielded     \* yielded[c]: the chunks stream c has handed out

serverVars == <<request, served, yielded>>
benchVars  == <<vars, serverVars>>

ServerCounters == {"noop", "sum", "timeout", "download", "upload", "s_download", "s_upload"}

BenchInit ==
  /\ Init
  /\ request = [c \in 1..MaxCalls |-> "sent"]
  /\ served = [n \in ServerCounters |-> 0]
  /\ yielded = [c \in 1..MaxCalls |-> 0]

EbOps == {"NOOP", "NOOP_ONEWAY", "SUM", "SEMIFUTURE_SUM", "CO_SUM"}

(* The names of the server's side: what a client downloads is an upload.   *)
Handler(op) ==
  CASE op \in {"NOOP", "NOOP_ONEWAY"}            -> "noop"
    [] op \in {"SUM", "SEMIFUTURE_SUM", "CO_SUM"} -> "sum"
    [] op = "TIMEOUT"                            -> "timeout"
    [] op = "DOWNLOAD"                           -> "upload"
    [] op = "UPLOAD"                             -> "download"

Request(state) == {c \in DOMAIN calls \ In({"dropped"}) : request[c] = state}
Becomes(c, state) == request' = [request EXCEPT ![c] = state]
serve(n)          == served' = [served EXCEPT ![n] = @ + 1]
-----------------------------------------------------------------------------
(* Mutant: async_eb_noop and async_eb_sum do not call their callback.      *)
async_eb_silent(c) ==
  /\ c \in Request("sent")
  /\ calls[c].op \in EbOps
  /\ serve(Handler(calls[c].op))
  /\ Becomes(c, "closed")
  /\ UNCHANGED <<vars, yielded>>

(* A method on the IO thread: it counts, then it answers.                  *)
async_eb(c) ==
  /\ c \in Request("sent")
  /\ calls[c].op \in EbOps
  /\ serve(Handler(calls[c].op))
  /\ Becomes(c, IF calls[c].op = "NOOP_ONEWAY" THEN "closed" ELSE "executed")
  /\ UNCHANGED <<vars, yielded>>

Enqueue(c) ==
  /\ c \in Request("sent")
  /\ calls[c].op \notin EbOps
  /\ Becomes(c, "queued")
  /\ UNCHANGED <<vars, served, yielded>>

Worker(c) ==
  /\ c \in Request("queued")
  /\ Cardinality(Request("running")) < cpu_threads
  /\ Becomes(c, "running")
  /\ UNCHANGED <<vars, served, yielded>>

Expire(c) ==
  /\ c \in Request("queued")
  /\ ClassOf(calls[c].op).deadline
  /\ Becomes(c, "expired")
  /\ UNCHANGED <<vars, served, yielded>>

(* Mutant: the method answers before it counts.                            *)
MethodAnswersFirst(c) ==
  /\ c \in Request("running")
  /\ calls[c].op # "STREAM"
  /\ Becomes(c, "executed")
  /\ UNCHANGED <<vars, served, yielded>>

(* timeout, download and upload.                                           *)
Method(c) ==
  /\ c \in Request("running")
  /\ calls[c].op # "STREAM"
  /\ serve(Handler(calls[c].op))
  /\ Becomes(c, "executed")
  /\ UNCHANGED <<vars, yielded>>

(* The worker makes the stream.  Its generator hands out a chunk each time *)
(* it is resumed and counts it when it is resumed for the next one.        *)
streamDownload(c) ==
  /\ calls[c].op = "STREAM"
  /\ \/ /\ c \in Request("running")
        /\ Becomes(c, "executed")
        /\ UNCHANGED <<served, yielded>>
     \/ /\ c \in Request("executed") \cup Request("streaming")
        /\ yielded[c] < MaxItems
        /\ IF yielded[c] > 0 THEN serve("s_upload") ELSE UNCHANGED served
        /\ yielded' = [yielded EXCEPT ![c] = @ + 1]
        /\ UNCHANGED request
  /\ UNCHANGED vars
-----------------------------------------------------------------------------
Take(c, state) == c \in Request(state) /\ Becomes(c, "closed")

(* What the client hears of a call, and what that says of the request.     *)
(* The task expiry answers in place of a method that still runs.           *)
Heard(c, result) ==
  /\ \/ result = "ok" /\ Take(c, "executed")
     \/ result = "expired" /\ Take(c, "expired")
     \/ /\ result = "expired" /\ c \in Request("running")
        /\ ClassOf(calls[c].op).deadline
        /\ UNCHANGED request
     \/ result = "refused" /\ Take(c, "sent")
     \/ result = "broken" /\ UNCHANGED request
  /\ UNCHANGED <<served, yielded>>

Reply(c, result) == (replyReceived(c, result) \/ Continuation(c, result)) /\ Heard(c, result)

(* A request that fails inside async() was not written.                    *)
Inline(op) ==
  /\ StartInline(op)
  /\ LET c == Len(calls) + 1
     IN  IF stats'["noop"] > stats["noop"] THEN UNCHANGED request ELSE Becomes(c, "closed")
  /\ UNCHANGED <<served, yielded>>

StreamOpened ==
  /\ StreamOpens
  /\ request[Top.of] = "executed" /\ Becomes(Top.of, "streaming")
  /\ UNCHANGED <<served, yielded>>

(* The chunks handed out, each as its stream and its number there.         *)
HandedOut == {chunk \in (DOMAIN yielded) \X (1..MaxItems) : chunk[2] <= yielded[chunk[1]]}

StreamChunk(c) ==
  /\ StreamItem(c)
  /\ stats["s_download"] < Cardinality(HandedOut)
  /\ UNCHANGED serverVars

(* The steps that an intact connection and a scheduler oblige to come.     *)
Progress ==
  \/ (run /\ ~\E op \in OP_TYPE : StartInline(op)) /\ UNCHANGED serverVars
  \/ StreamOpened
  \/ \E c \in DOMAIN calls :
       \/ async_eb(c) \/ Enqueue(c) \/ Worker(c) \/ Method(c) \/ streamDownload(c)
       \/ requestSent(c) /\ UNCHANGED serverVars
       \/ Reply(c, "ok")
       \/ c \in Request("expired") /\ Reply(c, "expired")
       \/ StreamChunk(c)

(* Those that may come: expiry, refusal, deadlines and broken connections. *)
Mishap ==
  \/ \E op \in OP_TYPE : Inline(op)
  \/ \E c \in DOMAIN calls :
       \/ Expire(c)
       \/ (requestError(c) \/ StreamEnds(c)) /\ UNCHANGED serverVars
       \/ Reply(c, "expired") \/ Reply(c, "refused") \/ Reply(c, "broken")
  \/ \E e \in Exceptions : StreamThrows(e) /\ Heard(Top.of, e)

BenchNext == Progress \/ Mishap

BenchSpec == BenchInit /\ [][BenchNext]_benchVars

(* The threads of both processes are scheduled.                            *)
BenchFairSpec == BenchSpec /\ WF_benchVars(Progress)
-----------------------------------------------------------------------------
(* A success the client counts is one the server has counted before, under *)
(* its own name for it (server/BenchmarkHandler.h:56-88): whatever expires,*)
(* is refused or given up.  One-way calls are left out: their success is   *)
(* counted when they are sent.                                             *)
CallsServed ==
  /\ stats["sum"] + stats["semifuture_sum"] + stats["co_sum"] <= served["sum"]
  /\ stats["timeout_success"] <= served["timeout"]
  /\ STREAM_PERF_TEST => /\ stats["download"] <= served["upload"]
                         /\ stats["upload"] <= served["download"]

(* The server's count of chunks lags behind by at most one chunk of each   *)
(* stream (server/BenchmarkHandler.h:90-98).                               *)
ChunksServed ==
  STREAM_PERF_TEST =>
    stats["s_download"] <= served["s_upload"]
                             + Cardinality({c \in Of("stream") : yielded[c] > 0})

(* What the client counts of calls and chunks, the server has counted      *)
(* (server/BenchmarkHandler.h:56-98).                                      *)
SuccessesServed == CallsServed /\ ChunksServed

(* "server stays functional even though some of the tasks gets cancelled   *)
(* because of timing out" (README.md:96): every call that was made ends at *)
(* the client, although tasks share cpu_threads workers and expire.        *)
CallsEnd ==
  \A c \in 1..MaxCalls : c \in In({"pending"}) ~> (~up \/ c \notin In({"pending"}))
=============================================================================
