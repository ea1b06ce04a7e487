--------------------------- MODULE MCPerfSettings ---------------------------
(* The performance client in five settings, one of which a behaviour has:  *)
(* one of its threads, twice alone, with any answers to its calls, and     *)
(* twice with the server; or all its threads at their common statistics    *)
(* (QPSStats, this module's own by EXTENDS), with the names an Operation   *)
(* of the default build registers, in the order std::map gives them.       *)
EXTENDS QPSStats

VARIABLES
  setting,
  calls, outstanding_ops, stack, stats, up, twice,
  request, served, yielded

runnerVars == <<calls, outstanding_ops, stack, stats, up, twice, request, served, yielded>>

DefaultBuild == INSTANCE PerfOps WITH STREAM_PERF_TEST <- FALSE

DefaultNames == DefaultBuild!Registrations
SortedNames  == <<"co_sum", "error", "fatal", "noop", "semifuture_sum", "sum",
                  "timeout", "timeout_success">>

(* One-way calls, futures and streams on one thread.                       *)
Mixed == INSTANCE PerfRunner WITH
  STREAM_PERF_TEST <- TRUE, max_outstanding_ops <- 2, MaxCalls <- 4, MaxItems <- 1,
  Weighted <- {"NOOP_ONEWAY", "SEMIFUTURE_SUM", "STREAM"}

(* The default build, with an operation it has no case for.                *)
Plain == INSTANCE PerfRunner WITH
  STREAM_PERF_TEST <- FALSE, max_outstanding_ops <- 2, MaxCalls <- 4, MaxItems <- 0,
  Weighted <- {"NOOP_ONEWAY", "SUM", "CO_SUM", "DOWNLOAD"}

(* A server with one worker: deadlines, expiry, refusals.                  *)
Bench == INSTANCE PerfBench WITH
  STREAM_PERF_TEST <- TRUE, max_outstanding_ops <- 2, MaxCalls <- 3, MaxItems <- 0,
  Weighted <- {"CO_SUM", "TIMEOUT", "DOWNLOAD"}, cpu_threads <- 1

(* Streams of chunks.                                                      *)
Streams == INSTANCE PerfBench WITH
  STREAM_PERF_TEST <- TRUE, max_outstanding_ops <- 2, MaxCalls <- 3, MaxItems <- 2,
  Weighted <- {"STREAM", "SEMIFUTURE_SUM"}, cpu_threads <- 2

WithoutServer == setting \in {"mixed", "plain", "statistics"}

SettingsInit ==
  /\ Init
  /\ \/ setting = "mixed" /\ Mixed!Init
     \/ setting = "plain" /\ Plain!Init
     \/ setting = "bench" /\ Bench!BenchInit
     \/ setting = "streams" /\ Streams!BenchInit
     \/ /\ setting = "statistics"
        /\ calls = <<>> /\ outstanding_ops = 0 /\ stack = <<>> /\ stats = <<>>
        /\ up = TRUE /\ twice = 0
  /\ WithoutServer => request = <<>> /\ served = <<>> /\ yielded = <<>>

SettingsNext ==
  /\ \/ setting = "mixed" /\ Mixed!Next
     \/ setting = "plain" /\ Plain!Next
     \/ setting = "bench" /\ Bench!BenchNext
     \/ setting = "streams" /\ Streams!BenchNext
     \/ setting = "statistics" /\ Next /\ UNCHANGED runnerVars
  /\ setting # "statistics" => UNCHANGED vars
  /\ WithoutServer => UNCHANGED <<request, served, yielded>>
  /\ UNCHANGED setting

SettingsSpec == SettingsInit /\ [][SettingsNext]_<<setting, runnerVars, vars>>

(* CountedOnce of PerfRunner (util/SimpleOps.h:55-83), in each setting.      *)
CountedOnce ==
  CASE setting = "mixed" -> Mixed!CountedOnce
    [] setting = "plain" -> Plain!CountedOnce
    [] setting = "bench" -> Bench!CountedOnce
    [] setting = "streams" -> Streams!CountedOnce
    [] OTHER -> TRUE

(* SuccessesServed of PerfBench (server/BenchmarkHandler.h:56-98).           *)
SuccessesServed ==
  CASE setting = "bench" -> Bench!SuccessesServed
    [] setting = "streams" -> Streams!SuccessesServed
    [] OTHER -> TRUE
=============================================================================
