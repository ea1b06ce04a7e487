----------------------------- MODULE PerfRunner -----------------------------
(***************************************************************************)
(* One client thread of the fbthrift performance client: Runner and        *)
(* LoadCallback (util/Runner.h) and Operation (util/Operation.h), in       *)
(* src/dep/perf/cpp2.  Everything happens on the thread of the event base, *)
(* but not one thing after the other: run() starts operations until        *)
(* max_outstanding_ops are outstanding, a callback that ends a call calls  *)
(* run() again, a callback may come from inside async() (a one-way request *)
(* written at once, a broken channel), and sync_streamDownload drives the  *)
(* event base itself, so callbacks run inside it.  The call stack of these *)
(* functions is therefore part of the state:                               *)
(*   "run"     the loop of run(), called at the end of call `of` (0: by    *)
(*             main); caught: from a catch block of the continuation of a  *)
(*             future;                                                     *)
(*   "stream"  the blocking part of StreamDownload::async for call `of`.   *)
(* Calls are numbered in the order they are started.  Bounds: MaxCalls     *)
(* calls and MaxItems chunks.                                              *)
(***************************************************************************)
EXTENDS PerfOps

CONSTANTS
  max_outstanding_ops,
  Weighted,   \* the operations with a weight above 0
  MaxCalls,
  MaxItems

ASSUME RunnerAssumption ==
  /\ STREAM_PERF_TEST \in BOOLEAN
  /\ max_outstanding_ops \in Nat \ {0}
  /\ Weighted \subseteq OP_TYPE
  /\ MaxCalls \in Nat /\ MaxItems \in Nat

VARIABLES
  calls,            \* calls[c]: its operation and how far it is
  outstanding_ops,
  stack,
  stats,            \* the adds of this thread to each counter
  up,               \* FALSE: the process was terminated
  twice             \* history: calls whose slot was released a second time

vars == <<calls, outstanding_ops, stack, stats, up, twice>>

In(states) == {c \in DOMAIN calls : calls[c].state \in states}
Live       == In({"pending", "opening", "streaming"})
Of(kind)   == {c \in DOMAIN calls : ClassOf(calls[c].op).kind = kind}

Run(c, caught) == [fn |-> "run", of |-> c, caught |-> caught]
Stream(c)     == [fn |-> "stream", of |-> c, caught |-> FALSE]
Top           == stack[Len(stack)]
Below(n)      == SubSeq(stack, 1, Len(stack) - n)
InFn(fns)     == up /\ (IF stack = <<>> THEN "loop" ELSE Top.fn) \in fns
Running       == InFn({"run"})
Looping       == InFn({"loop", "stream"})

(* The event base already runs below: the call is made from a callback.    *)
InsideLoop == stack[1].of # 0 \/ \E i \in DOMAIN stack : stack[i].fn = "stream"

(* The operations of the discrete distribution.                            *)
Drawn == IF Weighted = {} THEN {"NOOP"} ELSE Weighted

Init ==
  /\ calls = <<>>
  /\ outstanding_ops = 0
  /\ stack = <<Run(0, FALSE)>>
  /\ stats = [n \in Registered \cup {"fatal"} |-> 0]
  /\ up = TRUE
  /\ twice = 0

add(n)    == stats' = [stats EXCEPT ![n] = @ + 1]
NoteCall(c, state) == calls' = [calls EXCEPT ![c].state = state]

CallbackOps == {op \in OP_TYPE \ {"NOOP_ONEWAY"} : ClassOf(op).kind = "callback"}
FutureOps   == {op \in OP_TYPE : ClassOf(op).kind = "future"}

-----------------------------------------------------------------------------
(* Runner::run and Operation::async                                        *)

CanStart(op) ==
  /\ Running
  /\ outstanding_ops < max_outstanding_ops
  /\ op \in Drawn
  /\ Len(calls) < MaxCalls

Start(op, state) == calls' = Append(calls, [op |-> op, state |-> state])

(* The request is handed to the channel and the loop goes on.              *)
StartCall(op) ==
  /\ CanStart(op)
  /\ op \in Built \ {"STREAM"}
  /\ Start(op, "pending")
  /\ outstanding_ops' = outstanding_ops + 1
  /\ UNCHANGED <<stack, stats, up, twice>>

(* The channel calls back before async() returns: a one-way request is     *)
(* written at once, or the channel is broken.  The continuation of CO_SUM  *)
(* then runs inline too and calls run() from its catch block; that of      *)
(* SEMIFUTURE_SUM waits for the event base.                                *)
StartInline(op) ==
  /\ CanStart(op)
  /\ op \in Built
  /\ \/ op = "NOOP_ONEWAY" /\ Start(op, "done") /\ add("noop")
     \/ op = "NOOP_ONEWAY" /\ Start(op, "silent") /\ UNCHANGED stats
     \/ op \in CallbackOps /\ Start(op, "done") /\ add("error")
     \/ op = "CO_SUM" /\ Start(op, "done") /\ add(CoSum.counts["broken"])
  /\ stack' = Append(stack, Run(Len(calls) + 1, op = "CO_SUM"))
  /\ UNCHANGED <<outstanding_ops, up, twice>>

(* The switch has no case for the operation: the callback is destroyed.    *)
StartNothing(op) ==
  /\ CanStart(op)
  /\ op \notin Built
  /\ Start(op, "dropped")
  /\ outstanding_ops' = outstanding_ops + 1
  /\ UNCHANGED <<stack, stats, up, twice>>

(* sync_streamDownload drives the event base until the stream is open.     *)
(* Inside a callback that is a loop inside a loop, which folly may refuse. *)
StartStream ==
  /\ CanStart("STREAM")
  /\ "STREAM" \in Built
  /\ Start("STREAM", "opening")
  /\ outstanding_ops' = outstanding_ops + 1
  /\ stack' = Append(stack, Stream(Len(calls) + 1))
  /\ up' \in IF InsideLoop THEN BOOLEAN ELSE {TRUE}
  /\ UNCHANGED <<stats, twice>>

(* Mutant: the loop is left with one slot free.                            *)
RunReturnEarly ==
  /\ Running
  /\ outstanding_ops >= max_outstanding_ops - 1 \/ Len(calls) = MaxCalls
  /\ stack' = Below(1)
  /\ UNCHANGED <<calls, outstanding_ops, stats, up, twice>>

RunReturn ==
  /\ Running
  /\ outstanding_ops >= max_outstanding_ops \/ Len(calls) = MaxCalls
  /\ stack' = Below(1)
  /\ UNCHANGED <<calls, outstanding_ops, stats, up, twice>>

run ==
  \/ \E op \in OP_TYPE : StartCall(op) \/ StartInline(op) \/ StartNothing(op)
  \/ StartStream
  \/ RunReturn
-----------------------------------------------------------------------------
(* LoadCallback and the releases of Operation                              *)

finishCall(c, caught) == stack' = Append(stack, Run(c, caught))

Pending(c, ops) == c \in In({"pending"}) /\ calls[c].op \in ops

asyncErrorReceived(c) ==
  /\ IF calls[c].op = "NOOP_ONEWAY"
     THEN NoteCall(c, "silent") /\ UNCHANGED stats
     ELSE NoteCall(c, "done") /\ add("error")
  /\ outstanding_ops' = outstanding_ops - 1

(* Mutant: Operation counts the result of a future a second time.          *)
asyncReceivedTwice(c, result) ==
  /\ NoteCall(c, "done")
  /\ stats' = [stats EXCEPT ![ClassOf(calls[c].op).counts[result]] =
                 @ + (IF calls[c].op \in FutureOps THEN 2 ELSE 1)]
  /\ outstanding_ops' = outstanding_ops - 1

asyncReceived(c, result) ==
  /\ NoteCall(c, "done")
  /\ add(ClassOf(calls[c].op).counts[result])
  /\ outstanding_ops' = outstanding_ops - 1

onewaySent(c) ==
  /\ NoteCall(c, "done")
  /\ add("noop")
  /\ outstanding_ops' = outstanding_ops - 1

requestSent(c) ==
  /\ Looping
  /\ Pending(c, {"NOOP_ONEWAY"})
  /\ onewaySent(c)
  /\ finishCall(c, FALSE)
  /\ UNCHANGED <<up, twice>>

replyReceived(c, result) ==
  /\ Looping
  /\ Pending(c, CallbackOps)
  /\ asyncReceived(c, result)
  /\ finishCall(c, FALSE)
  /\ UNCHANGED <<up, twice>>

requestError(c) ==
  /\ Looping
  /\ Pending(c, CallbackOps \cup {"NOOP_ONEWAY"})
  /\ asyncErrorReceived(c)
  /\ finishCall(c, FALSE)
  /\ UNCHANGED <<up, twice>>

(* The continuation of SemiFutureSum and CoSum counts the result itself    *)
(* and releases the slot through replyReceived or requestError, from a     *)
(* catch block when there is no result.                                    *)
Continuation(c, result) ==
  /\ Looping
  /\ Pending(c, FutureOps)
  /\ asyncReceived(c, result)
  /\ finishCall(c, result # "ok")
  /\ UNCHANGED <<up, twice>>
-----------------------------------------------------------------------------
(* StreamDownload                                                          *)

Opening == InFn({"stream"})

StreamOpens ==
  /\ Opening
  /\ NoteCall(Top.of, "streaming")
  /\ stack' = Below(1)
  /\ UNCHANGED <<outstanding_ops, stats, up, twice>>

(* sync_streamDownload throws, out of run().  If the continuation of a     *)
(* future called run(), its catch block counts the exception and calls the *)
(* callback once more; what is thrown out of the catch block ends in the   *)
(* future (SEMIFUTURE_SUM).  Elsewhere nobody catches it: callbacks of a   *)
(* channel, co_sum's continuation and main's lambda are not to throw.      *)
StreamThrows(exception) ==
  LET caller   == stack[Len(stack) - 1]
      Op       == IF caller.of = 0 THEN {} ELSE {calls[caller.of].op}
      isFuture == Op # {} /\ Op \subseteq FutureOps
  IN  /\ Opening
      /\ NoteCall(Top.of, "thrown")
      /\ \/ /\ isFuture /\ ~caller.caught
            /\ add(ClassOf(calls[caller.of].op).counts[exception])
            /\ outstanding_ops' = outstanding_ops - 1
            /\ twice' = twice + 1
            /\ stack' = Append(Below(2), Run(caller.of, TRUE))
            /\ UNCHANGED up
         \/ /\ Op = {"SEMIFUTURE_SUM"} /\ caller.caught
            /\ stack' = Below(2)
            /\ UNCHANGED <<outstanding_ops, stats, up, twice>>
         \/ /\ ~isFuture \/ (Op = {"CO_SUM"} /\ caller.caught)
            /\ up' = FALSE
            /\ UNCHANGED <<outstanding_ops, stack, stats, twice>>

StreamItem(c) ==
  /\ Looping
  /\ c \in In({"streaming"})
  /\ stats["s_download"] < MaxItems
  /\ add("s_download")
  /\ UNCHANGED <<calls, outstanding_ops, stack, up, twice>>

(* Mutant: only the end without an exception releases the slot.            *)
StreamEndsKept(c) ==
  /\ Looping
  /\ c \in In({"streaming"})
  /\ \/ /\ NoteCall(c, "done") /\ add("fatal") /\ UNCHANGED outstanding_ops
     \/ /\ NoteCall(c, "silent") /\ UNCHANGED stats
        /\ outstanding_ops' = outstanding_ops - 1
  /\ UNCHANGED <<stack, up, twice>>

(* The subscription ends, with an exception or without.  The slot is free  *)
(* but run() is not called.                                                *)
StreamEnds(c) ==
  /\ Looping
  /\ c \in In({"streaming"})
  /\ \/ NoteCall(c, "done") /\ add("fatal")
     \/ NoteCall(c, "silent") /\ UNCHANGED stats
  /\ outstanding_ops' = outstanding_ops - 1
  /\ UNCHANGED <<stack, up, twice>>
-----------------------------------------------------------------------------
Event(c) ==
  \/ requestSent(c)
  \/ requestError(c)
  \/ \E r \in Results : replyReceived(c, r) \/ Continuation(c, r)
  \/ StreamItem(c)
  \/ StreamEnds(c)

Next ==
  \/ run
  \/ \E c \in DOMAIN calls : Event(c)
  \/ StreamOpens
  \/ \E e \in Exceptions : StreamThrows(e)

Spec == Init /\ [][Next]_vars
-----------------------------------------------------------------------------
(* The slots (outstanding_ops, util/Operation.h:68-182): what is           *)
(* outstanding is exactly the calls that are under way and those whose     *)
(* slot nothing will ever release, less the slots released a second time   *)
(* by the catch block of a future's continuation.  "Max number of          *)
(* outstanding async ops" (client/Client.cpp:40): never are more calls     *)
(* under way than that, although a slot may be released twice, because a   *)
(* second release always follows a slot that was lost.                     *)
SlotAccounting ==
  /\ outstanding_ops = Cardinality(Live) + Cardinality(In({"dropped", "thrown"})) - twice
  /\ Cardinality(Live) <= max_outstanding_ops

(* "Attempt to perform more async calls" (util/Runner.h:61): when the      *)
(* thread waits in its loop, all slots are taken, except for those of      *)
(* streams that ended, which nobody fills.                                 *)
FullWhenIdle ==
  up /\ stack = <<>> /\ Len(calls) < MaxCalls =>
    outstanding_ops + Cardinality({c \in Of("stream") : calls[c].state \in {"done", "silent"}})
      >= max_outstanding_ops

(* What the counters of calls add up to: all counters but that of chunks. *)
Counted ==
  stats["noop"] + stats["sum"] + stats["timeout_success"] + stats["semifuture_sum"]
    + stats["co_sum"] + stats["timeout"] + stats["error"] + stats["fatal"]
    + (IF STREAM_PERF_TEST THEN stats["download"] + stats["upload"] ELSE 0)

(* Every call that ended with an answer, an error or a one-way send is     *)
(* counted once, under one counter, and so is every exception out of a     *)
(* continuation (util/SimpleOps.h:55-83, 240-267).                         *)
CountedOnce == Counted = Cardinality(In({"done"})) + twice
=============================================================================
