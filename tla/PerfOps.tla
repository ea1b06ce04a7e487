------------------------------ MODULE PerfOps ------------------------------
(***************************************************************************)
(* The operations of the fbthrift performance client: the classes of       *)
(* util/SimpleOps.h and util/StreamOps.h and the table of util/Operation.h *)
(* (src/dep/perf/cpp2).  A class is what its user can tell about it:       *)
(*   kind      how it calls the server and hears of the end of the call:   *)
(*             "callback" (the LoadCallback is given to the channel),      *)
(*             "future" (a continuation on the event base) or "stream"     *)
(*             (a blocking call, then a subscription);                     *)
(*   counters  the counters its constructor registers, in order;           *)
(*   deadline  whether it sets a timeout of its own for its calls.         *)
(*                                                                         *)
(* What a call yields is abstracted to "ok" (a result; the CHECKs compare  *)
(* the same two 32-bit sums on both sides), "expired" (a                   *)
(* TApplicationException of type TIMEOUT: the server dropped the request), *)
(* "refused" (another TApplicationException) or "broken" (anything else:   *)
(* a transport error, or a timeout of the client).                         *)
(***************************************************************************)
EXTENDS Integers, Sequences, FiniteSets

CONSTANT STREAM_PERF_TEST   \* TRUE: built with the macro of that name

Results    == {"ok", "expired", "refused", "broken"}
Exceptions == Results \ {"ok"}

OP_TYPE == {"NOOP", "NOOP_ONEWAY", "SUM", "TIMEOUT", "DOWNLOAD", "UPLOAD",
            "STREAM", "SEMIFUTURE_SUM", "CO_SUM"}

(* A class registers its four counters; asyncReceived, or the continuation *)
(* of a future, adds to the one of the result, error() to that of "refused". *)
Class(op_name, kind, deadline) ==
  [kind |-> kind, deadline |-> deadline,
   counters |-> <<op_name, "timeout", "error", "fatal">>,
   counts |-> [ok |-> op_name, expired |-> "timeout", refused |-> "error", broken |-> "fatal"]]

Noop          == Class("noop", "callback", FALSE)
Sum           == Class("sum", "callback", FALSE)
Timeout       == Class("timeout_success", "callback", TRUE)
SemiFutureSum == Class("semifuture_sum", "future", FALSE)
CoSum         == Class("co_sum", "future", FALSE)
Download      == Class("download", "callback", TRUE)
Upload        == Class("upload", "callback", TRUE)

(* A stream counts its chunks and its failure, never an expiry.            *)
StreamDownload ==
  [kind |-> "stream", deadline |-> TRUE, counters |-> <<"s_download", "error", "fatal">>]

ClassOf(op) ==
  CASE op \in {"NOOP", "NOOP_ONEWAY"} -> Noop
    [] op = "SUM"            -> Sum
    [] op = "TIMEOUT"        -> Timeout
    [] op = "DOWNLOAD"       -> Download
    [] op = "UPLOAD"         -> Upload
    [] op = "STREAM"         -> StreamDownload
    [] op = "SEMIFUTURE_SUM" -> SemiFutureSum
    [] op = "CO_SUM"         -> CoSum

(* The operations async() has a case for.                                  *)
Built == IF STREAM_PERF_TEST THEN OP_TYPE ELSE OP_TYPE \ {"DOWNLOAD", "UPLOAD", "STREAM"}

(* Mutant: the classes are constructed without the "fatal" counter.        *)
RegistrationsShort ==
  LET names(class) == SelectSeq(class.counters, LAMBDA n : n # "fatal")
  IN  names(Noop) \o names(Sum) \o names(Timeout)
        \o (IF STREAM_PERF_TEST
            THEN names(Download) \o names(Upload) \o names(StreamDownload) ELSE <<>>)
        \o names(SemiFutureSum) \o names(CoSum)

(* The registrations of one Operation object, in the order of its members. *)
Registrations ==
  Noop.counters \o Sum.counters \o Timeout.counters
    \o (IF STREAM_PERF_TEST
        THEN Download.counters \o Upload.counters \o StreamDownload.counters ELSE <<>>)
    \o SemiFutureSum.counters \o CoSum.counters

Registered == {Registrations[i] : i \in DOMAIN Registrations}
=============================================================================
