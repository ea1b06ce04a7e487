-------------------------- MODULE PerfBenchProofs --------------------------
(***************************************************************************)
(* Proofs about the client thread of the performance client, for any       *)
(* number of slots and calls, any operations, in both builds, alone and    *)
(* with a server: it never has more calls under way than it was allowed,   *)
(* although a slot may be released twice, it fills every free slot, it     *)
(* counts every call once, and what it counts as a success the server has  *)
(* counted.                                                                *)
(***************************************************************************)
EXTENDS PerfBench, FiniteSetTheorems, SequenceTheorems, TLAPS

States == {"pending", "opening", "streaming", "done", "silent", "dropped", "thrown"}

CallsTyped == calls \in Seq([op : OP_TYPE, state : States])

Frame == [fn : {"run", "stream"}, of : Nat, caught : BOOLEAN]

Typed ==
  /\ CallsTyped
  /\ stack \in Seq(Frame)
  /\ outstanding_ops \in Int /\ twice \in Nat /\ up \in BOOLEAN

(* Only streams open, and a call whose stream opens has one frame on the   *)
(* stack; a loop of run() is below it.                                     *)
StreamsOpen == \A c \in In({"opening", "streaming"}) : calls[c].op = "STREAM"

Frames ==
  /\ stack # <<>> => stack[1].fn = "run"
  /\ \A i \in DOMAIN stack :
       IF stack[i].fn = "run" THEN stack[i].of \in DOMAIN calls \cup {0}
                              ELSE stack[i].of \in In({"opening"})
  /\ \A i, j \in DOMAIN stack :
       stack[i].fn = "stream" /\ stack[j].fn = "stream" /\ stack[i].of = stack[j].of => i = j

Size(states) == Cardinality(In(states))

UnderWay == {"pending", "opening", "streaming"}
Lost     == {"dropped", "thrown"}
Thrown   == {"thrown"}
Finished == {"done"}

InUse == Size(UnderWay)
Gone  == Size(Lost)
Threw == Size(Thrown)
Done  == Size(Finished)

(* A slot is released a second time only after one was lost.               *)
Slots ==
  /\ outstanding_ops = InUse + Gone - twice
  /\ InUse <= max_outstanding_ops
  /\ twice <= Threw

(* The streams whose end gave a slot back without a run().                 *)
Ended == {c \in Of("stream") : calls[c].state \in {"done", "silent"}}

(* Once main's run() has returned, at most the slot of the last callback   *)
(* is free, and only while its run() is at its loop.                       *)
AtLoop == IF Running THEN 1 ELSE 0

Filled ==
  stack = <<>> \/ stack[1].of # 0 =>
    outstanding_ops + Cardinality(Ended) >= max_outstanding_ops - AtLoop

RunnerInv ==
  /\ Typed /\ StreamsOpen /\ Slots
  /\ up => Frames
  /\ up /\ Len(calls) < MaxCalls => Filled
-----------------------------------------------------------------------------
(* What a call does to the sets of calls                                   *)

LEMMA SetsFinite ==
  ASSUME CallsTyped, NEW T
  PROVE  /\ IsFiniteSet(In(T)) /\ Size(T) \in Nat
         /\ IsFiniteSet(Ended) /\ Cardinality(Ended) \in Nat
<1>1. DOMAIN calls = 1 .. Len(calls) /\ Len(calls) \in Nat
  BY DEF CallsTyped
<1>2. IsFiniteSet(DOMAIN calls)
  BY <1>1, FS_Interval
<1>3. In(T) \in SUBSET DOMAIN calls /\ Ended \in SUBSET DOMAIN calls
  BY DEF In, Ended, Of
<1> QED BY <1>2, <1>3, FS_Subset, FS_CardinalityType DEF Size

(* A call that starts adds one to the sets of its state.                   *)
LEMMA CallStarts ==
  ASSUME CallsTyped, NEW op \in OP_TYPE, NEW s \in States, Start(op, s)
  PROVE  /\ CallsTyped' /\ Len(calls)' = Len(calls) + 1
         /\ \A c \in DOMAIN calls : c \in DOMAIN calls' /\ calls'[c] = calls[c]
         /\ \A T : In(T)' = In(T) \cup (IF s \in T THEN {Len(calls) + 1} ELSE {})
         /\ InUse' = InUse + (IF s \in UnderWay THEN 1 ELSE 0)
         /\ Gone' = Gone + (IF s \in Lost THEN 1 ELSE 0)
         /\ Threw' = Threw + (IF s \in Thrown THEN 1 ELSE 0)
         /\ Done' = Done + (IF s \in Finished THEN 1 ELSE 0)
         /\ Ended \subseteq Ended'
<1> DEFINE n == Len(calls) + 1
           new == [op |-> op, state |-> s]
<1>1. new \in [op : OP_TYPE, state : States]
  OBVIOUS
<1>2. /\ CallsTyped' /\ Len(calls)' = n /\ Len(calls) \in Nat
      /\ DOMAIN calls = 1 .. Len(calls) /\ DOMAIN calls' = 1 .. n
      /\ calls'[n] = new
      /\ \A c \in 1 .. Len(calls) : calls'[c] = calls[c]
  BY <1>1, AppendProperties, LenProperties DEF CallsTyped, Start
<1>3. DOMAIN calls' = DOMAIN calls \cup {n} /\ n \notin DOMAIN calls
  BY <1>2
<1>4. ASSUME NEW T
      PROVE  In(T)' = In(T) \cup (IF s \in T THEN {n} ELSE {})
  BY <1>2, <1>3 DEF In
<1>5. ASSUME NEW T
      PROVE  Size(T)' = Size(T) + (IF s \in T THEN 1 ELSE 0)
  <2>1. n \notin In(T) /\ IsFiniteSet(In(T)) /\ Size(T) \in Nat
    BY <1>3, SetsFinite DEF In
  <2>2. CASE s \in T
    BY <2>1, <2>2, <1>4, FS_AddElement DEF Size
  <2>3. CASE s \notin T
    <3>1. In(T)' = In(T)
      BY <2>3, <1>4
    <3> QED BY <3>1, <2>1, <2>3 DEF Size
  <2> QED BY <2>2, <2>3
<1>6. Ended \subseteq Ended'
  BY <1>2, <1>3 DEF Ended, Of
<1> QED BY <1>2, <1>3, <1>4, <1>5, <1>6 DEF InUse, Gone, Threw, Done

(* A call that moves to another state leaves the sets of its old state for *)
(* those of the new one.                                                   *)
LEMMA CallMoves ==
  ASSUME CallsTyped, NEW c \in DOMAIN calls, NEW s \in States, NoteCall(c, s)
  PROVE  /\ CallsTyped' /\ Len(calls)' = Len(calls) /\ DOMAIN calls' = DOMAIN calls
         /\ \A d \in DOMAIN calls : /\ calls'[d].op = calls[d].op
                                    /\ d # c => calls'[d] = calls[d]
         /\ calls'[c].state = s
         /\ \A T : In(T)' = (In(T) \ {c}) \cup (IF s \in T THEN {c} ELSE {})
         /\ InUse' = InUse - (IF calls[c].state \in UnderWay THEN 1 ELSE 0)
                           + (IF s \in UnderWay THEN 1 ELSE 0)
         /\ Gone' = Gone - (IF calls[c].state \in Lost THEN 1 ELSE 0)
                         + (IF s \in Lost THEN 1 ELSE 0)
         /\ Threw' = Threw - (IF calls[c].state \in Thrown THEN 1 ELSE 0)
                           + (IF s \in Thrown THEN 1 ELSE 0)
         /\ Done' = Done - (IF calls[c].state \in Finished THEN 1 ELSE 0)
                         + (IF s \in Finished THEN 1 ELSE 0)
<1>1. /\ DOMAIN calls' = DOMAIN calls /\ Len(calls)' = Len(calls) /\ CallsTyped'
      /\ \A d \in DOMAIN calls : calls[d] \in [op : OP_TYPE, state : States]
      /\ \A d \in DOMAIN calls : d # c => calls'[d] = calls[d]
      /\ calls'[c] = [calls[c] EXCEPT !.state = s]
  <2> DEFINE R == [op : OP_TYPE, state : States]
  <2>1. /\ calls \in Seq(R) /\ DOMAIN calls = 1 .. Len(calls)
        /\ \A d \in DOMAIN calls : calls[d] \in R
    BY LenProperties, ElementOfSeq DEF CallsTyped
  <2>2. [calls[c] EXCEPT !.state = s] \in [op : OP_TYPE, state : States]
    BY <2>1
  <2>3. calls' = [calls EXCEPT ![c] = [calls[c] EXCEPT !.state = s]]
    BY DEF NoteCall
  <2> PICK v : v = [calls[c] EXCEPT !.state = s]
    OBVIOUS
  <2> v \in R
    BY <2>2
  <2> HIDE DEF R
  <2>4. /\ calls' \in Seq(R) /\ Len(calls') = Len(calls)
        /\ \A d \in 1 .. Len(calls) : calls'[d] = IF d = c THEN v ELSE calls[d]
    <3>1. c \in 1 .. Len(calls) /\ calls' = [calls EXCEPT ![c] = v]
      BY <2>1, <2>3
    <3> QED BY <3>1, <2>1, ExceptSeq
  <2>5. DOMAIN calls' = DOMAIN calls
    BY <2>1, <2>4, LenProperties
  <2> QED BY <2>1, <2>4, <2>5 DEF CallsTyped, R
<1>2. calls'[c].state = s /\ calls'[c].op = calls[c].op
  BY <1>1
<1>3. ASSUME NEW T
      PROVE  In(T)' = (In(T) \ {c}) \cup (IF s \in T THEN {c} ELSE {})
  BY <1>1, <1>2 DEF In
<1>4. ASSUME NEW T
      PROVE  Size(T)' = Size(T) - (IF calls[c].state \in T THEN 1 ELSE 0)
                                + (IF s \in T THEN 1 ELSE 0)
  <2> DEFINE rest == In(T) \ {c}
  <2>1. IsFiniteSet(In(T)) /\ Size(T) \in Nat /\ (c \in In(T) <=> calls[c].state \in T)
    BY SetsFinite DEF In
  <2>2. /\ IsFiniteSet(rest) /\ c \notin rest
        /\ Cardinality(rest) = Size(T) - (IF calls[c].state \in T THEN 1 ELSE 0)
    <3>1. CASE calls[c].state \in T
      BY <3>1, <2>1, FS_RemoveElement DEF Size
    <3>2. CASE calls[c].state \notin T
      BY <3>2, <2>1, FS_RemoveElement DEF Size
    <3> QED BY <3>1, <3>2
  <2>3. Cardinality(rest) \in Int
    BY <2>1, <2>2
  <2> HIDE DEF rest
  <2>4. Size(T)' = Cardinality(rest) + (IF s \in T THEN 1 ELSE 0)
    <3>1. CASE s \in T
      <4>1. In(T)' = rest \cup {c}
        BY <3>1, <1>3 DEF rest
      <4> QED BY <4>1, <3>1, <2>2, FS_AddElement DEF Size
    <3>2. CASE s \notin T
      <4>1. In(T)' = rest
        BY <3>2, <1>3 DEF rest
      <4> QED BY <4>1, <3>2, <2>3 DEF Size
    <3> QED BY <3>1, <3>2
  <2> QED BY <2>2, <2>4
<1> QED BY <1>1, <1>2, <1>3, <1>4 DEF InUse, Gone, Threw, Done

LEMMA LostCounted ==
  ASSUME CallsTyped
  PROVE  Threw <= Gone
<1>1. In(Thrown) \in SUBSET In(Lost)
  BY DEF In, Thrown, Lost
<1> QED BY <1>1, SetsFinite, FS_Subset DEF Size, Threw, Gone

(* An ended stream stays ended: only pending calls and open streams move.  *)
LEMMA EndedGrows ==
  ASSUME CallsTyped, CallsTyped', Ended \subseteq Ended'
  PROVE  /\ Cardinality(Ended) <= Cardinality(Ended')
         /\ Cardinality(Ended) \in Nat /\ Cardinality(Ended') \in Nat
<1>1. IsFiniteSet(Ended') /\ Cardinality(Ended') \in Nat
  <2>1. DOMAIN calls' = 1 .. Len(calls') /\ Len(calls') \in Nat
    BY LenProperties DEF CallsTyped
  <2>2. Ended' \in SUBSET DOMAIN calls' /\ IsFiniteSet(DOMAIN calls')
    BY <2>1, FS_Interval DEF Ended, Of
  <2> QED BY <2>2, FS_Subset, FS_CardinalityType
<1> QED BY <1>1, SetsFinite, FS_Subset
-----------------------------------------------------------------------------
(* What a call or a return does to the stack                               *)

LEMMA TopIs ==
  ASSUME stack \in Seq(Frame)
  PROVE  /\ Len(stack) \in Nat /\ DOMAIN stack = 1 .. Len(stack)
         /\ stack = <<>> <=> Len(stack) = 0
         /\ stack # <<>> => Top = stack[Len(stack)] /\ Len(stack) \in DOMAIN stack
         /\ \A i \in DOMAIN stack : stack[i] \in Frame
         /\ Running <=> up /\ stack # <<>> /\ Top.fn = "run"
         /\ Looping <=> up /\ (stack = <<>> \/ Top.fn = "stream")
         /\ Opening <=> up /\ stack # <<>> /\ Top.fn = "stream"
<1>1. /\ Len(stack) \in Nat /\ DOMAIN stack = 1 .. Len(stack)
      /\ stack = <<>> <=> Len(stack) = 0
      /\ \A i \in DOMAIN stack : stack[i] \in Frame
  BY LenProperties, ElementOfSeq, EmptySeq
<1>2. stack # <<>> => Len(stack) \in DOMAIN stack
  BY <1>1
<1>3. stack # <<>> => Top.fn \in {"run", "stream"}
  BY <1>1, <1>2 DEF Top, Frame
<1>4. /\ Running <=> up /\ stack # <<>> /\ Top.fn = "run"
      /\ Looping <=> up /\ (stack = <<>> \/ Top.fn = "stream")
      /\ Opening <=> up /\ stack # <<>> /\ Top.fn = "stream"
  BY <1>3 DEF Running, Looping, Opening, InFn
<1> QED BY <1>1, <1>2, <1>4 DEF Top

LEMMA Pushed ==
  ASSUME NEW s \in Seq(Frame), NEW t, NEW f \in Frame, t = Append(s, f)
  PROVE  /\ t \in Seq(Frame) /\ t # <<>>
         /\ Len(t) = Len(s) + 1 /\ Len(s) \in Nat /\ DOMAIN t = 1 .. Len(s) + 1
         /\ DOMAIN s = 1 .. Len(s)
         /\ t[Len(s) + 1] = f
         /\ \A i \in 1 .. Len(s) : t[i] = s[i]
BY AppendProperties, LenProperties

LEMMA PrefixIs ==
  ASSUME NEW S, NEW s, NEW k \in Nat, \A i \in 1 .. k : s[i] \in S
  PROVE  /\ SubSeq(s, 1, k) \in Seq(S) /\ Len(SubSeq(s, 1, k)) = k
         /\ \A i \in 1 .. k : SubSeq(s, 1, k)[i] = s[i]
<1>1. /\ SubSeq(s, 1, k) \in Seq(S)
      /\ Len(SubSeq(s, 1, k)) = IF 1 <= k THEN k - 1 + 1 ELSE 0
      /\ \A i \in 1 .. k - 1 + 1 : SubSeq(s, 1, k)[i] = s[1 + i - 1]
  BY SubSeqProperties
<1>2. k - 1 + 1 = k /\ (~(1 <= k) => k = 0) /\ \A i \in 1 .. k : 1 + i - 1 = i
  OBVIOUS
<1>3. ASSUME NEW i \in 1 .. k PROVE SubSeq(s, 1, k)[i] = s[i]
  BY <1>1, <1>2
<1> QED BY <1>1, <1>2, <1>3

LEMMA Popped ==
  ASSUME stack \in Seq(Frame), NEW n \in 0 .. Len(stack)
  PROVE  /\ Below(n) \in Seq(Frame)
         /\ Len(Below(n)) = Len(stack) - n
         /\ DOMAIN Below(n) = 1 .. Len(stack) - n
         /\ \A i \in 1 .. Len(stack) - n : i \in DOMAIN stack /\ Below(n)[i] = stack[i]
<1>1. Len(stack) \in Nat /\ DOMAIN stack = 1 .. Len(stack)
  BY LenProperties
<1> DEFINE m == Len(stack) - n
<1>2. m \in 0 .. Len(stack)
  BY <1>1
<1>3. \A i \in 1 .. m : stack[i] \in Frame
  BY <1>1, <1>2, ElementOfSeq
<1>4. /\ Below(n) \in Seq(Frame) /\ Len(Below(n)) = m
      /\ \A i \in 1 .. m : Below(n)[i] = stack[i]
  <2>1. m \in Nat /\ Below(n) = SubSeq(stack, 1, m)
    BY <1>1, <1>2 DEF Below
  <2> HIDE DEF m
  <2> QED BY <1>3, <2>1, PrefixIs
<1>5. DOMAIN Below(n) = 1 .. Len(Below(n))
  <2>1. PICK b \in Seq(Frame) : b = Below(n)
    BY <1>4
  <2>2. DOMAIN b = 1 .. Len(b)
    BY LenProperties
  <2> QED BY <2>1, <2>2
<1>6. \A i \in 1 .. m : i \in DOMAIN stack
  BY <1>1, <1>2
<1> QED BY <1>4, <1>5, <1>6
-----------------------------------------------------------------------------
(* The steps of a client                                                   *)

LEMMA InvHolds ==
  ASSUME RunnerInv
  PROVE  /\ CallsTyped /\ stack \in Seq(Frame)
         /\ outstanding_ops \in Int /\ twice \in Nat /\ up \in BOOLEAN
         /\ DOMAIN calls = 1 .. Len(calls) /\ Len(calls) \in Nat
         /\ InUse \in Nat /\ Gone \in Nat /\ Threw \in Nat
         /\ outstanding_ops = InUse + Gone - twice
         /\ InUse <= max_outstanding_ops
         /\ twice <= Threw /\ Threw <= Gone
         /\ max_outstanding_ops \in Nat /\ MaxCalls \in Nat
<1>1. CallsTyped
  BY DEF RunnerInv, Typed
<1>2. DOMAIN calls = 1 .. Len(calls) /\ Len(calls) \in Nat
  BY <1>1, LenProperties DEF CallsTyped
<1>3. InUse \in Nat /\ Gone \in Nat /\ Threw \in Nat
  BY <1>1, SetsFinite DEF InUse, Gone, Threw
<1> QED BY <1>1, <1>2, <1>3, LostCounted, RunnerAssumption DEF RunnerInv, Typed, Slots

(* StartCall and StartNothing: the new call has a slot and no frame.       *)
LEMMA CallTakesSlot ==
  ASSUME RunnerInv, NEW op \in OP_TYPE, NEW s \in {"pending", "dropped"},
         CanStart(op), Start(op, s),
         outstanding_ops' = outstanding_ops + 1, UNCHANGED <<stack, up, twice>>
  PROVE  RunnerInv'
<1>1. /\ CallsTyped' /\ Len(calls)' = Len(calls) + 1
      /\ \A c \in DOMAIN calls : c \in DOMAIN calls' /\ calls'[c] = calls[c]
      /\ \A T : In(T)' = In(T) \cup (IF s \in T THEN {Len(calls) + 1} ELSE {})
      /\ InUse' = InUse + (IF s \in UnderWay THEN 1 ELSE 0)
      /\ Gone' = Gone + (IF s \in Lost THEN 1 ELSE 0)
      /\ Threw' = Threw + (IF s \in Thrown THEN 1 ELSE 0)
      /\ Ended \subseteq Ended'
  BY InvHolds, CallStarts DEF States
<1>2. Typed'
  BY <1>1, InvHolds DEF Typed
<1>3. In({"opening", "streaming"})' = In({"opening", "streaming"})
      /\ In({"opening"})' = In({"opening"})
  BY <1>1
<1>4. StreamsOpen'
  BY <1>1, <1>3 DEF RunnerInv, StreamsOpen, In
<1>5. Slots'
  <2>1. outstanding_ops < max_outstanding_ops
    BY DEF CanStart
  <2>2. CASE s = "pending"
    <3>1. s \in UnderWay /\ s \notin Lost /\ s \notin Thrown
      BY <2>2 DEF UnderWay, Lost, Thrown
    <3> QED BY <3>1, <2>1, <1>1, InvHolds, SMTT(30) DEF Slots
  <2>3. CASE s = "dropped"
    <3>1. s \notin UnderWay /\ s \in Lost /\ s \notin Thrown
      BY <2>3 DEF UnderWay, Lost, Thrown
    <3> QED BY <3>1, <1>1, InvHolds, SMTT(30) DEF Slots
  <2> QED BY <2>2, <2>3
<1>6. up' => Frames'
  BY <1>1, <1>3 DEF RunnerInv, Frames
<1>7. up' /\ Len(calls') < MaxCalls => Filled'
  <2>1. AtLoop' = AtLoop /\ AtLoop \in {0, 1}
    BY DEF AtLoop, Running, InFn, Top
  <2>2. Cardinality(Ended) <= Cardinality(Ended') /\ Cardinality(Ended) \in Nat
        /\ Cardinality(Ended') \in Nat
    BY <1>1, InvHolds, EndedGrows
  <2>3. up /\ Len(calls) < MaxCalls => Filled
    BY DEF RunnerInv
  <2>4. SUFFICES ASSUME up, Len(calls) < MaxCalls, stack = <<>> \/ stack[1].of # 0
                 PROVE  outstanding_ops' + Cardinality(Ended') >= max_outstanding_ops - AtLoop'
    BY <1>1, InvHolds DEF Filled
  <2>5. outstanding_ops + Cardinality(Ended) >= max_outstanding_ops - AtLoop
    BY <2>3, <2>4 DEF Filled
  <2>6. /\ outstanding_ops' = outstanding_ops + 1 /\ outstanding_ops \in Int
        /\ max_outstanding_ops \in Nat
    BY InvHolds
  <2> QED BY <2>1, <2>2, <2>5, <2>6
<1> QED BY <1>2, <1>4, <1>5, <1>6, <1>7 DEF RunnerInv
Fresh(k, frame) ==
  /\ k = 0 => frame.fn = "run"
  /\ frame.fn = "run" => frame.of \in DOMAIN calls'
  /\ frame.fn = "stream" => frame.of \in In({"opening"})' \ In({"opening"})

(* A step keeps the k lowest frames and may put one on top of them.        *)
LEMMA FramesNext ==
  ASSUME Typed, Typed', Frames,
         NEW k \in 0 .. Len(stack), Len(stack') \in {k, k + 1},
         \A i \in 1 .. k : stack'[i] = stack[i],
         DOMAIN calls \subseteq DOMAIN calls',
         \A i \in 1 .. k : stack[i].fn = "stream" => stack[i].of \in In({"opening"})',
         Len(stack') = k + 1 => Fresh(k, stack'[k + 1])
  PROVE  Frames'
<1> DEFINE n == Len(stack')
<1>0. /\ n \in Nat /\ n \in {k, k + 1} /\ k \in Nat /\ k <= Len(stack) /\ Len(stack) \in Nat
  BY LenProperties DEF Typed
<1>1. /\ stack \in Seq(Frame) /\ Len(stack) \in Nat /\ DOMAIN stack = 1 .. Len(stack)
      /\ stack' \in Seq(Frame) /\ n \in Nat /\ DOMAIN stack' = 1 .. n
      /\ stack = <<>> <=> Len(stack) = 0
      /\ stack' = <<>> <=> n = 0
      /\ \A i \in 1 .. n : stack'[i] \in Frame
      /\ k \in Nat /\ k <= Len(stack)
  BY LenProperties, EmptySeq, ElementOfSeq DEF Typed
<1> HIDE DEF n
<1>2. \A i \in 1 .. n : i \in 1 .. k \/ (n = k + 1 /\ i = k + 1)
  BY <1>0
<1>3. \A i \in 1 .. k : i \in DOMAIN stack
  BY <1>0, <1>1
<1>f. n = k + 1 => Fresh(k, stack'[k + 1])
  BY DEF n
<1>4. stack' # <<>> => stack'[1].fn = "run"
  <2> SUFFICES ASSUME stack' # <<>> PROVE stack'[1].fn = "run"
    OBVIOUS
  <2>1. CASE k = 0
    <3>1. n = k + 1 /\ k + 1 = 1
      BY <2>1, <1>0, <1>1
    <3> QED BY <2>1, <3>1, <1>f DEF Fresh
  <2>2. CASE k > 0
    <3>1. 1 \in 1 .. k
      BY <2>2, <1>0
    <3>2. stack # <<>>
      BY <2>2, <1>0, <1>1
    <3> QED BY <3>1, <3>2 DEF Frames
  <2> QED BY <2>1, <2>2, <1>0
<1>5. ASSUME NEW i \in 1 .. n
      PROVE  IF stack'[i].fn = "run" THEN stack'[i].of \in DOMAIN calls' \cup {0}
                                     ELSE stack'[i].of \in In({"opening"})'
  <2>1. CASE i \in 1 .. k
    <3>1. stack[i].fn \in {"run", "stream"}
      BY <2>1, <1>1, <1>3 DEF Frame
    <3> QED BY <2>1, <3>1, <1>3 DEF Frames
  <2>2. CASE n = k + 1 /\ i = k + 1
    <3>1. stack'[i].fn \in {"run", "stream"}
      BY <1>1 DEF Frame
    <3> QED BY <2>2, <3>1, <1>f DEF Fresh
  <2> QED BY <2>1, <2>2, <1>2
<1>6. ASSUME NEW i \in 1 .. n, NEW j \in 1 .. n,
             stack'[i].fn = "stream", stack'[j].fn = "stream", stack'[i].of = stack'[j].of
      PROVE  i = j
  <2>1. CASE i \in 1 .. k /\ j \in 1 .. k
    BY <2>1, <1>3, <1>6 DEF Frames
  <2>2. ASSUME NEW m \in 1 .. k, stack'[m].fn = "stream"
        PROVE  stack'[m].of \in In({"opening"})
    BY <2>2, <1>3 DEF Frames
  <2>3. CASE n = k + 1 /\ i = k + 1 /\ j \in 1 .. k
    BY <2>2, <2>3, <1>6, <1>f DEF Fresh
  <2>4. CASE n = k + 1 /\ j = k + 1 /\ i \in 1 .. k
    BY <2>2, <2>4, <1>6, <1>f DEF Fresh
  <2> QED BY <2>1, <2>3, <2>4, <1>2
<1> QED BY <1>1, <1>4, <1>5, <1>6 DEF Frames

LEMMA FramesPushed ==
  ASSUME Typed, Typed', Frames, Len(stack') = Len(stack) + 1,
         \A i \in 1 .. Len(stack) : stack'[i] = stack[i],
         DOMAIN calls \subseteq DOMAIN calls',
         \A i \in 1 .. Len(stack) : stack[i].fn = "stream" => stack[i].of \in In({"opening"})',
         Fresh(Len(stack), stack'[Len(stack) + 1])
  PROVE  Frames'
<1>1. Len(stack) \in 0 .. Len(stack) /\ Len(stack') \in {Len(stack), Len(stack) + 1}
  BY LenProperties DEF Typed
<1> QED BY <1>1, FramesNext

LEMMA FramesPopped ==
  ASSUME Typed, Typed', Frames, NEW n \in 0 .. Len(stack), stack' = Below(n),
         DOMAIN calls \subseteq DOMAIN calls',
         \A i \in 1 .. Len(stack) - n : stack[i].fn = "stream" => stack[i].of \in In({"opening"})'
  PROVE  Frames'
<1> DEFINE k == Len(stack) - n
<1>0. Len(stack) \in Nat /\ stack \in Seq(Frame)
  BY LenProperties DEF Typed
<1>1. /\ k \in 0 .. Len(stack) /\ Len(stack') = k /\ k # k + 1
      /\ \A i \in 1 .. k : stack'[i] = stack[i]
  <2>1. k \in 0 .. Len(stack) /\ k # k + 1
    BY <1>0
  <2> QED BY <2>1, <1>0, Popped
<1>2. Len(stack') \in {k, k + 1} /\ (Len(stack') = k + 1 => Fresh(k, stack'[k + 1]))
  BY <1>1
<1> HIDE DEF k
<1>3. \A i \in 1 .. k : stack[i].fn = "stream" => stack[i].of \in In({"opening"})'
  BY DEF k
<1> QED BY <1>1, <1>2, <1>3, FramesNext

(* A callback that ends a pending call calls run().                        *)
LEMMA CallEnds ==
  ASSUME RunnerInv, NEW c \in DOMAIN calls, NEW s \in {"done", "silent"}, NEW b \in BOOLEAN,
         Looping, calls[c].state = "pending", NoteCall(c, s), finishCall(c, b),
         outstanding_ops' = outstanding_ops - 1, UNCHANGED <<up, twice>>
  PROVE  RunnerInv'
<1>1. /\ CallsTyped' /\ Len(calls)' = Len(calls) /\ DOMAIN calls' = DOMAIN calls
      /\ \A d \in DOMAIN calls : /\ calls'[d].op = calls[d].op
                                 /\ d # c => calls'[d] = calls[d]
      /\ calls'[c].state = s
      /\ \A T : In(T)' = (In(T) \ {c}) \cup (IF s \in T THEN {c} ELSE {})
      /\ InUse' = InUse - 1 /\ Gone' = Gone /\ Threw' = Threw
  <2>1. /\ s \in States /\ s \notin UnderWay /\ s \notin Lost /\ s \notin Thrown
        /\ calls[c].state \in UnderWay /\ calls[c].state \notin Lost
        /\ calls[c].state \notin Thrown
    BY DEF States, UnderWay, Lost, Thrown
  <2> QED BY <2>1, InvHolds, CallMoves, SMTT(30)
<1>2. /\ stack' \in Seq(Frame) /\ stack' # <<>> /\ Len(stack') = Len(stack) + 1
      /\ stack'[Len(stack) + 1] = Run(c, b)
      /\ \A i \in 1 .. Len(stack) : stack'[i] = stack[i]
  <2>1. c \in Nat /\ Run(c, b) \in Frame
    BY InvHolds DEF Run, Frame
  <2> QED BY <2>1, InvHolds, Pushed, SMTT(30) DEF finishCall
<1>3. Typed'
  BY <1>1, <1>2, InvHolds DEF Typed
<1>4. In({"opening"})' = In({"opening"})
      /\ In({"opening", "streaming"})' = In({"opening", "streaming"})
  BY <1>1 DEF In
<1>5. StreamsOpen'
  BY <1>1, <1>4 DEF RunnerInv, StreamsOpen, In
<1>6. Slots'
  BY <1>1, InvHolds, SMTT(30) DEF Slots
<1>7. up /\ Len(stack) \in Nat /\ DOMAIN stack = 1 .. Len(stack) /\ AtLoop = 0
      /\ (stack = <<>> <=> Len(stack) = 0)
  BY InvHolds, TopIs DEF AtLoop
<1>8. Frames'
  <2>1. Run(c, b).fn = "run" /\ Run(c, b).of = c
    BY DEF Run
  <2>2. Frames /\ \A i \in 1 .. Len(stack) :
                     stack[i].fn = "stream" => stack[i].of \in In({"opening"})'
    BY <1>4, <1>7 DEF RunnerInv, Frames
  <2>3. Fresh(Len(stack), stack'[Len(stack) + 1])
    BY <1>1, <1>2, <2>1 DEF Fresh
  <2> QED BY <1>1, <1>2, <1>3, <1>7, <2>2, <2>3, FramesPushed DEF RunnerInv
<1>9. Len(calls') < MaxCalls => Filled'
  <2>1. AtLoop' = 1
    <3>1. Top' = Run(c, b)
      BY <1>2 DEF Top
    <3> QED BY <3>1, <1>2, <1>7 DEF AtLoop, Running, InFn, Run
  <2>2. Cardinality(Ended) <= Cardinality(Ended') /\ Cardinality(Ended) \in Nat
        /\ Cardinality(Ended') \in Nat
    <3>1. Ended \subseteq Ended'
      BY <1>1 DEF Ended, Of
    <3> QED BY <3>1, <1>1, InvHolds, EndedGrows
  <2>3. SUFFICES ASSUME Len(calls) < MaxCalls, stack' = <<>> \/ stack'[1].of # 0
                 PROVE  outstanding_ops' + Cardinality(Ended') >= max_outstanding_ops - AtLoop'
    BY <1>1 DEF Filled
  <2>4. stack = <<>> \/ stack[1].of # 0
    BY <1>2, <1>7, <2>3
  <2>5. outstanding_ops + Cardinality(Ended) >= max_outstanding_ops - 0
    BY <1>7, <2>3, <2>4 DEF RunnerInv, Filled
  <2>6. outstanding_ops \in Int /\ max_outstanding_ops \in Nat
    BY InvHolds
  <2> QED BY <2>1, <2>2, <2>5, <2>6
<1> QED BY <1>3, <1>5, <1>6, <1>8, <1>9 DEF RunnerInv

(* A call that ends inside async(): its slot is never taken.               *)
LEMMA CallEndsInline ==
  ASSUME RunnerInv, NEW op \in OP_TYPE, NEW s \in {"done", "silent"}, NEW b \in BOOLEAN,
         CanStart(op), Start(op, s), stack' = Append(stack, Run(Len(calls) + 1, b)),
         UNCHANGED <<outstanding_ops, up, twice>>
  PROVE  RunnerInv'
<1>1. /\ CallsTyped' /\ Len(calls)' = Len(calls) + 1
      /\ \A c \in DOMAIN calls : c \in DOMAIN calls' /\ calls'[c] = calls[c]
      /\ \A T : In(T)' = In(T) \cup (IF s \in T THEN {Len(calls) + 1} ELSE {})
      /\ InUse' = InUse /\ Gone' = Gone /\ Threw' = Threw
      /\ Ended \subseteq Ended'
  <2>1. s \in States /\ s \notin UnderWay /\ s \notin Lost /\ s \notin Thrown
    BY DEF States, UnderWay, Lost, Thrown
  <2> QED BY <2>1, InvHolds, CallStarts
<1>2. /\ stack' \in Seq(Frame) /\ stack' # <<>> /\ Len(stack') = Len(stack) + 1
      /\ stack'[Len(stack) + 1] = Run(Len(calls) + 1, b)
      /\ \A i \in 1 .. Len(stack) : stack'[i] = stack[i]
  <2>1. Run(Len(calls) + 1, b) \in Frame
    BY InvHolds DEF Run, Frame
  <2> QED BY <2>1, InvHolds, Pushed
<1>3. Typed'
  BY <1>1, <1>2, InvHolds DEF Typed
<1>4. In({"opening"})' = In({"opening"})
      /\ In({"opening", "streaming"})' = In({"opening", "streaming"})
  BY <1>1
<1>5. StreamsOpen'
  BY <1>1, <1>4 DEF RunnerInv, StreamsOpen, In
<1>6. Slots'
  BY <1>1, InvHolds DEF Slots
<1>7. /\ up /\ Len(stack) \in Nat \ {0} /\ DOMAIN stack = 1 .. Len(stack) /\ AtLoop = 1
      /\ stack # <<>>
  BY InvHolds, TopIs DEF AtLoop, CanStart
<1>8. Frames'
  <2>1. /\ Run(Len(calls) + 1, b).fn = "run"
        /\ Run(Len(calls) + 1, b).of = Len(calls) + 1
        /\ Len(calls) + 1 \in DOMAIN calls'
    <3>1. DOMAIN calls' = 1 .. Len(calls) + 1 /\ Len(calls) \in Nat
      BY <1>1, InvHolds, LenProperties DEF CallsTyped
    <3> QED BY <3>1 DEF Run
  <2>2. Frames /\ \A i \in 1 .. Len(stack) :
                     stack[i].fn = "stream" => stack[i].of \in In({"opening"})'
    BY <1>4, <1>7 DEF RunnerInv, Frames
  <2>3. Fresh(Len(stack), stack'[Len(stack) + 1])
    BY <1>1, <1>2, <2>1 DEF Fresh
  <2> QED BY <1>1, <1>2, <1>3, <1>7, <2>2, <2>3, FramesPushed DEF RunnerInv
<1>9. Len(calls') < MaxCalls => Filled'
  <2>1. AtLoop' = 1
    <3>1. Top' = Run(Len(calls) + 1, b)
      BY <1>2 DEF Top
    <3> QED BY <3>1, <1>2, <1>7 DEF AtLoop, Running, InFn, Run
  <2>2. Cardinality(Ended) <= Cardinality(Ended') /\ Cardinality(Ended) \in Nat
        /\ Cardinality(Ended') \in Nat
    BY <1>1, InvHolds, EndedGrows
  <2>3. SUFFICES ASSUME Len(calls') < MaxCalls, stack' = <<>> \/ stack'[1].of # 0
                 PROVE  outstanding_ops' + Cardinality(Ended') >= max_outstanding_ops - AtLoop'
    BY DEF Filled
  <2>4. stack[1].of # 0 /\ Len(calls) < MaxCalls
    <3>1. 1 \in 1 .. Len(stack) /\ Len(calls) \in Nat /\ MaxCalls \in Nat
      BY <1>7, InvHolds
    <3>2. stack'[1] = stack[1]
      BY <3>1, <1>2
    <3>3. stack[1].of # 0
      <4>1. stack'[1].of # 0
        BY <1>2, <2>3
      <4> QED BY <4>1, <3>2
    <3>4. Len(calls) < MaxCalls
      BY <1>1, <2>3, <3>1
    <3> QED BY <3>3, <3>4
  <2>5. outstanding_ops + Cardinality(Ended) >= max_outstanding_ops - 1
    BY <1>7, <2>4 DEF RunnerInv, Filled
  <2>6. outstanding_ops \in Int /\ max_outstanding_ops \in Nat
    BY InvHolds
  <2> QED BY <2>1, <2>2, <2>5, <2>6
<1> QED BY <1>3, <1>5, <1>6, <1>7, <1>8, <1>9 DEF RunnerInv

(* A blocking call begins: a frame of its own, in the state "opening".     *)
LEMMA StreamStarts ==
  ASSUME RunnerInv, StartStream
  PROVE  RunnerInv'
<1>0. /\ CanStart("STREAM") /\ Start("STREAM", "opening")
      /\ outstanding_ops < max_outstanding_ops
      /\ outstanding_ops' = outstanding_ops + 1 /\ twice' = twice
      /\ stack' = Append(stack, Stream(Len(calls) + 1)) /\ up' \in BOOLEAN
  BY DEF StartStream, CanStart
<1>1. /\ CallsTyped' /\ Len(calls)' = Len(calls) + 1
      /\ \A c \in DOMAIN calls : c \in DOMAIN calls' /\ calls'[c] = calls[c]
      /\ \A T : In(T)' = In(T) \cup (IF "opening" \in T THEN {Len(calls) + 1} ELSE {})
      /\ InUse' = InUse + 1 /\ Gone' = Gone /\ Threw' = Threw
      /\ Ended \subseteq Ended'
  <2>1. /\ "opening" \in States /\ "opening" \in UnderWay /\ "opening" \notin Lost
        /\ "opening" \notin Thrown /\ "STREAM" \in OP_TYPE
    BY DEF States, UnderWay, Lost, Thrown, OP_TYPE
  <2> QED BY <1>0, <2>1, InvHolds, CallStarts, SMTT(30)
<1>2. /\ stack' \in Seq(Frame) /\ stack' # <<>> /\ Len(stack') = Len(stack) + 1
      /\ stack'[Len(stack) + 1] = Stream(Len(calls) + 1)
      /\ \A i \in 1 .. Len(stack) : stack'[i] = stack[i]
  <2>1. Stream(Len(calls) + 1) \in Frame
    BY InvHolds DEF Stream, Frame
  <2> QED BY <1>0, <2>1, InvHolds, Pushed
<1>3. Typed'
  BY <1>0, <1>1, <1>2, InvHolds DEF Typed
<1> DEFINE n == Len(calls) + 1
<1>4. /\ In({"opening"})' = In({"opening"}) \cup {n}
      /\ In({"opening", "streaming"})' = In({"opening", "streaming"}) \cup {n}
      /\ n \notin DOMAIN calls /\ calls'[n] = [op |-> "STREAM", state |-> "opening"]
  <2>1. n \notin DOMAIN calls /\ calls' = Append(calls, [op |-> "STREAM", state |-> "opening"])
    BY <1>0, InvHolds DEF Start
  <2>2. calls \in Seq([op : OP_TYPE, state : States])
    BY InvHolds DEF CallsTyped
  <2> QED BY <1>1, <2>1, <2>2, AppendProperties
<1>5. StreamsOpen'
  BY <1>1, <1>4 DEF RunnerInv, StreamsOpen, In
<1>6. Slots'
  <2>1. /\ InUse \in Nat /\ Gone \in Nat /\ twice \in Nat /\ Threw \in Nat
        /\ outstanding_ops = InUse + Gone - twice
        /\ twice <= Threw /\ Threw <= Gone /\ max_outstanding_ops \in Nat
    BY InvHolds
  <2> QED BY <1>0, <1>1, <2>1 DEF Slots
<1>7. /\ up /\ Len(stack) \in Nat \ {0} /\ DOMAIN stack = 1 .. Len(stack) /\ AtLoop = 1
      /\ stack # <<>>
  BY <1>0, InvHolds, TopIs DEF AtLoop, CanStart
<1>8. Frames'
  <2>1. Stream(n).fn = "stream" /\ Stream(n).of = n
    BY DEF Stream
  <2>2. Frames /\ \A i \in 1 .. Len(stack) :
                     stack[i].fn = "stream" => stack[i].of \in In({"opening"})'
    BY <1>4, <1>7 DEF RunnerInv, Frames
  <2>3. n \in In({"opening"})' \ In({"opening"})
    BY <1>4 DEF In
  <2>4. Fresh(Len(stack), stack'[Len(stack) + 1])
    BY <1>2, <1>7, <2>1, <2>3 DEF Fresh
  <2> QED BY <1>1, <1>2, <1>3, <1>7, <2>2, <2>4, FramesPushed DEF RunnerInv
<1>9. Len(calls') < MaxCalls => Filled'
  <2>1. AtLoop' = 0
    <3>1. Top' = Stream(n)
      BY <1>2 DEF Top
    <3> QED BY <3>1, <1>2 DEF AtLoop, Running, InFn, Stream
  <2>2. Cardinality(Ended) <= Cardinality(Ended') /\ Cardinality(Ended) \in Nat
        /\ Cardinality(Ended') \in Nat
    BY <1>1, InvHolds, EndedGrows
  <2>3. SUFFICES ASSUME Len(calls') < MaxCalls, stack' = <<>> \/ stack'[1].of # 0
                 PROVE  outstanding_ops' + Cardinality(Ended') >= max_outstanding_ops - AtLoop'
    BY DEF Filled
  <2>4. stack[1].of # 0 /\ Len(calls) < MaxCalls
    <3>1. 1 \in 1 .. Len(stack) /\ Len(calls) \in Nat /\ MaxCalls \in Nat
      BY <1>7, InvHolds
    <3>2. stack'[1] = stack[1]
      BY <3>1, <1>2
    <3>3. stack[1].of # 0
      <4>1. stack'[1].of # 0
        BY <1>2, <2>3
      <4> QED BY <4>1, <3>2
    <3>4. Len(calls) < MaxCalls
      BY <1>1, <2>3, <3>1
    <3> QED BY <3>3, <3>4
  <2>5. outstanding_ops + Cardinality(Ended) >= max_outstanding_ops - 1
    BY <1>7, <2>4 DEF RunnerInv, Filled
  <2>6. outstanding_ops \in Int /\ max_outstanding_ops \in Nat
    BY InvHolds
  <2> QED BY <1>0, <2>1, <2>2, <2>5, <2>6
<1> QED BY <1>3, <1>5, <1>6, <1>8, <1>9 DEF RunnerInv

(* run() leaves its loop: the slots are full, or no call is left.          *)
LEMMA RunReturns ==
  ASSUME RunnerInv, RunReturn
  PROVE  RunnerInv'
<1>0. /\ Running /\ (outstanding_ops >= max_outstanding_ops \/ Len(calls) = MaxCalls)
      /\ stack' = Below(1) /\ UNCHANGED <<calls, outstanding_ops, up, twice>>
  BY DEF RunReturn
<1>1. up /\ Len(stack) \in Nat \ {0} /\ DOMAIN stack = 1 .. Len(stack)
  BY <1>0, InvHolds, TopIs
<1>2. 1 \in 0 .. Len(stack) /\ stack' \in Seq(Frame)
  <2>1. 1 \in 0 .. Len(stack)
    BY <1>1
  <2> QED BY <1>0, <2>1, InvHolds, Popped
<1>3. Typed' /\ StreamsOpen' /\ Slots'
  <2>1. In({"opening", "streaming"})' = In({"opening", "streaming"})
    BY <1>0 DEF In
  <2>2. InUse' = InUse /\ Gone' = Gone /\ Threw' = Threw
    BY <1>0 DEF InUse, Gone, Threw, Size, In
  <2>3. StreamsOpen'
    BY <1>0, <2>1 DEF RunnerInv, StreamsOpen
  <2>4. Slots'
    BY <1>0, <2>2 DEF RunnerInv, Slots
  <2> QED BY <1>0, <1>2, <2>3, <2>4, InvHolds DEF Typed, CallsTyped
<1>4. Frames'
  <2>1. Frames /\ In({"opening"})' = In({"opening"})
    BY <1>0, <1>1 DEF RunnerInv, In
  <2>2. \A i \in 1 .. Len(stack) - 1 :
          stack[i].fn = "stream" => stack[i].of \in In({"opening"})'
    <3>1. \A i \in 1 .. Len(stack) - 1 : i \in DOMAIN stack
      BY <1>1
    <3> QED BY <2>1, <3>1 DEF Frames
  <2> QED BY <1>0, <1>2, <1>3, <2>1, <2>2, FramesPopped DEF RunnerInv
<1>5. Len(calls') < MaxCalls => Filled'
  <2>1. Cardinality(Ended') \in Nat /\ AtLoop' \in {0, 1}
    <3>1. Ended' = Ended
      BY <1>0 DEF Ended, Of
    <3> QED BY <3>1, InvHolds, SetsFinite DEF AtLoop
  <2>2. ASSUME Len(calls') < MaxCalls PROVE outstanding_ops' >= max_outstanding_ops
    <3>1. Len(calls) \in Nat /\ MaxCalls \in Nat
      BY InvHolds
    <3> QED BY <1>0, <2>2, <3>1
  <2>3. outstanding_ops' \in Int /\ max_outstanding_ops \in Nat
    BY <1>0, InvHolds
  <2> QED BY <2>1, <2>2, <2>3 DEF Filled
<1> QED BY <1>3, <1>4, <1>5 DEF RunnerInv

(* The stream that is opening has the top frame and no other one.          *)
LEMMA OpenFrame ==
  ASSUME RunnerInv, Opening
  PROVE  /\ up /\ Frames /\ Len(stack) \in Nat /\ Len(stack) >= 2
         /\ DOMAIN stack = 1 .. Len(stack)
         /\ \A i \in DOMAIN stack : stack[i] \in Frame
         /\ AtLoop = 0
         /\ Top.of \in DOMAIN calls /\ calls[Top.of].state = "opening"
         /\ \A i \in 1 .. Len(stack) - 1 :
              stack[i].fn = "stream" => stack[i].of \in In({"opening"}) \ {Top.of}
<1>1. /\ up /\ stack # <<>> /\ Top.fn = "stream" /\ Top = stack[Len(stack)]
      /\ Len(stack) \in DOMAIN stack /\ Len(stack) \in Nat /\ DOMAIN stack = 1 .. Len(stack)
      /\ \A i \in DOMAIN stack : stack[i] \in Frame
  BY InvHolds, TopIs
<1>2. Frames
  BY <1>1 DEF RunnerInv
<1>3. Len(stack) # 1
  BY <1>1, <1>2 DEF Frames
<1>4. Top.of \in In({"opening"})
  BY <1>1, <1>2 DEF Frames
<1>5. AtLoop = 0
  BY <1>1, InvHolds, TopIs DEF AtLoop
<1>6. ASSUME NEW i \in 1 .. Len(stack) - 1, stack[i].fn = "stream"
      PROVE  stack[i].of \in In({"opening"}) \ {Top.of}
  <2>1. i \in DOMAIN stack /\ i # Len(stack)
    BY <1>1
  <2>2. stack[i].of \in In({"opening"})
    BY <1>2, <1>6, <2>1 DEF Frames
  <2>3. stack[i].of # Top.of
    BY <1>1, <1>2, <1>6, <2>1 DEF Frames
  <2> QED BY <2>2, <2>3
<1> QED BY <1>1, <1>2, <1>3, <1>4, <1>5, <1>6 DEF In

LEMMA OpenMoves ==
  ASSUME RunnerInv, NEW c \in DOMAIN calls, calls[c].state = "opening",
         NEW s \in {"streaming", "thrown"}, NoteCall(c, s)
  PROVE  /\ CallsTyped' /\ Len(calls)' = Len(calls) /\ DOMAIN calls' = DOMAIN calls
         /\ \A d \in DOMAIN calls : calls'[d].op = calls[d].op
         /\ StreamsOpen' /\ In({"opening"})' = In({"opening"}) \ {c}
         /\ Ended \subseteq Ended'
         /\ s = "streaming" => InUse' = InUse /\ Gone' = Gone /\ Threw' = Threw
         /\ s = "thrown" => InUse' = InUse - 1 /\ Gone' = Gone + 1 /\ Threw' = Threw + 1
<1>1. /\ "opening" \in UnderWay /\ "opening" \notin Lost /\ "opening" \notin Thrown
      /\ "streaming" \in UnderWay /\ "streaming" \notin Lost /\ "streaming" \notin Thrown
      /\ "thrown" \notin UnderWay /\ "thrown" \in Lost /\ "thrown" \in Thrown
      /\ s \in States
  BY DEF UnderWay, Lost, Thrown, States
<1>2. /\ CallsTyped' /\ Len(calls)' = Len(calls) /\ DOMAIN calls' = DOMAIN calls
      /\ \A d \in DOMAIN calls : /\ calls'[d].op = calls[d].op
                                 /\ d # c => calls'[d] = calls[d]
      /\ calls'[c].state = s
      /\ \A T : In(T)' = (In(T) \ {c}) \cup (IF s \in T THEN {c} ELSE {})
      /\ InUse' = InUse - (IF "opening" \in UnderWay THEN 1 ELSE 0)
                        + (IF s \in UnderWay THEN 1 ELSE 0)
      /\ Gone' = Gone - (IF "opening" \in Lost THEN 1 ELSE 0) + (IF s \in Lost THEN 1 ELSE 0)
      /\ Threw' = Threw - (IF "opening" \in Thrown THEN 1 ELSE 0)
                        + (IF s \in Thrown THEN 1 ELSE 0)
  BY <1>1, InvHolds, CallMoves
<1>3. InUse \in Nat /\ Gone \in Nat /\ Threw \in Nat
  BY InvHolds
<1>4. s = "streaming" => InUse' = InUse /\ Gone' = Gone /\ Threw' = Threw
  BY <1>1, <1>2, <1>3
<1>5. s = "thrown" => InUse' = InUse - 1 /\ Gone' = Gone + 1 /\ Threw' = Threw + 1
  BY <1>1, <1>2, <1>3
<1>6. In({"opening"})' = In({"opening"}) \ {c}
      /\ In({"opening", "streaming"})' \subseteq In({"opening", "streaming"})
  <2>1. c \in In({"opening", "streaming"})
    BY DEF In
  <2> QED BY <1>2, <2>1
<1>7. StreamsOpen'
  BY <1>2, <1>6 DEF RunnerInv, StreamsOpen, In
<1>8. Ended \subseteq Ended'
  BY <1>2 DEF Ended, Of
<1> QED BY <1>2, <1>4, <1>5, <1>6, <1>7, <1>8

(* The stream is open: run() goes on.                                      *)
LEMMA StreamOpensStep ==
  ASSUME RunnerInv, StreamOpens
  PROVE  RunnerInv'
<1> DEFINE c == Top.of
<1>0. /\ Opening /\ NoteCall(c, "streaming") /\ stack' = Below(1)
      /\ UNCHANGED <<outstanding_ops, up, twice>>
  BY DEF StreamOpens
<1>1. /\ up /\ Frames /\ Len(stack) \in Nat /\ Len(stack) >= 2 /\ AtLoop = 0
      /\ c \in DOMAIN calls /\ calls[c].state = "opening"
      /\ \A i \in 1 .. Len(stack) - 1 :
           stack[i].fn = "stream" => stack[i].of \in In({"opening"}) \ {c}
  BY <1>0, OpenFrame
<1>2. /\ CallsTyped' /\ Len(calls)' = Len(calls) /\ DOMAIN calls' = DOMAIN calls
      /\ StreamsOpen' /\ In({"opening"})' = In({"opening"}) \ {c}
      /\ Ended \subseteq Ended'
      /\ InUse' = InUse /\ Gone' = Gone /\ Threw' = Threw
  <2> HIDE DEF c
  <2> QED BY <1>0, <1>1, OpenMoves
<1>3. 1 \in 0 .. Len(stack)
  BY <1>1
<1>4. /\ stack' \in Seq(Frame) /\ Len(stack') = Len(stack) - 1
      /\ \A i \in 1 .. Len(stack) - 1 : stack'[i] = stack[i]
  BY <1>0, <1>3, InvHolds, Popped
<1>5. Typed'
  BY <1>0, <1>2, <1>4, InvHolds DEF Typed
<1>6. Slots'
  BY <1>0, <1>2 DEF RunnerInv, Slots
<1>7. Frames'
  BY <1>0, <1>1, <1>2, <1>3, <1>5, FramesPopped DEF RunnerInv
<1>8. Len(calls') < MaxCalls => Filled'
  <2>1. /\ Cardinality(Ended) <= Cardinality(Ended') /\ Cardinality(Ended) \in Nat
        /\ Cardinality(Ended') \in Nat
    BY <1>2, InvHolds, EndedGrows
  <2>2. stack'[1] = stack[1] /\ stack' # <<>>
    <3>1. 1 \in 1 .. Len(stack) - 1 /\ Len(stack') # 0
      BY <1>1, <1>4
    <3> QED BY <1>4, <3>1, EmptySeq
  <2>3. SUFFICES ASSUME Len(calls) < MaxCalls, stack[1].of # 0
                 PROVE  outstanding_ops' + Cardinality(Ended') >= max_outstanding_ops - AtLoop'
    BY <1>2, <2>2 DEF Filled
  <2>4. outstanding_ops + Cardinality(Ended) >= max_outstanding_ops - 0
    BY <1>1, <2>3 DEF RunnerInv, Filled
  <2>5. outstanding_ops' = outstanding_ops /\ outstanding_ops \in Int
        /\ max_outstanding_ops \in Nat /\ AtLoop' \in {0, 1}
    BY <1>0, InvHolds DEF AtLoop
  <2> QED BY <2>1, <2>4, <2>5
<1> QED BY <1>2, <1>5, <1>6, <1>7, <1>8 DEF RunnerInv

(* sync_streamDownload throws: through run() to the catch block of a       *)
(* future, which calls run() again or ends, or out of the process.         *)
LEMMA StreamThrowsStep ==
  ASSUME RunnerInv, NEW e \in Exceptions, StreamThrows(e)
  PROVE  RunnerInv'
<1> DEFINE c == Top.of
           caller == stack[Len(stack) - 1]
           again == /\ caller.of # 0
                    /\ outstanding_ops' = outstanding_ops - 1 /\ twice' = twice + 1
                    /\ stack' = Append(Below(2), Run(caller.of, TRUE)) /\ up' = up
           ended == /\ caller.of # 0
                    /\ stack' = Below(2) /\ UNCHANGED <<outstanding_ops, up, twice>>
           terminated == up' = FALSE /\ UNCHANGED <<outstanding_ops, stack, twice>>
<1>0. Opening /\ NoteCall(c, "thrown") /\ (again \/ ended \/ terminated)
  BY DEF StreamThrows
<1>1. /\ up /\ Frames /\ Len(stack) \in Nat /\ Len(stack) >= 2 /\ AtLoop = 0
      /\ DOMAIN stack = 1 .. Len(stack)
      /\ \A i \in DOMAIN stack : stack[i] \in Frame
      /\ c \in DOMAIN calls /\ calls[c].state = "opening"
      /\ \A i \in 1 .. Len(stack) - 1 :
           stack[i].fn = "stream" => stack[i].of \in In({"opening"}) \ {c}
  BY <1>0, OpenFrame
<1>2. /\ CallsTyped' /\ Len(calls)' = Len(calls) /\ DOMAIN calls' = DOMAIN calls
      /\ StreamsOpen' /\ In({"opening"})' = In({"opening"}) \ {c}
      /\ Ended \subseteq Ended'
      /\ InUse' = InUse - 1 /\ Gone' = Gone + 1 /\ Threw' = Threw + 1
  <2> HIDE DEF c
  <2> QED BY <1>0, <1>1, OpenMoves
<1> HIDE DEF again, ended, terminated, c, caller
<1>3. /\ 2 \in 0 .. Len(stack) /\ Len(stack) - 1 \in DOMAIN stack
      /\ \A i \in 1 .. Len(stack) - 2 : i \in 1 .. Len(stack) - 1
  BY <1>1
<1>4. /\ Below(2) \in Seq(Frame) /\ Len(Below(2)) = Len(stack) - 2
      /\ \A i \in 1 .. Len(stack) - 2 : Below(2)[i] = stack[i]
  BY <1>3, InvHolds, Popped
<1>5. caller \in Frame /\ caller.of \in DOMAIN calls \cup {0}
  <2>1. caller \in Frame
    BY <1>1, <1>3 DEF caller
  <2>2. caller.fn \in {"run", "stream"}
    BY <2>1 DEF Frame
  <2>3. caller.of \in DOMAIN calls \cup {0}
    BY <1>1, <1>3, <2>2 DEF Frames, caller, In
  <2> QED BY <2>1, <2>3
<1>6. /\ Cardinality(Ended) <= Cardinality(Ended') /\ Cardinality(Ended) \in Nat
      /\ Cardinality(Ended') \in Nat
  BY <1>2, InvHolds, EndedGrows
<1>7. /\ InUse \in Nat /\ Gone \in Nat /\ twice \in Nat /\ Threw \in Nat
      /\ outstanding_ops = InUse + Gone - twice /\ InUse <= max_outstanding_ops
      /\ twice <= Threw /\ max_outstanding_ops \in Nat /\ outstanding_ops \in Int
  BY InvHolds
<1>8. ASSUME Len(calls) < MaxCalls, stack[1].of # 0
      PROVE  outstanding_ops + Cardinality(Ended) >= max_outstanding_ops - 0
  BY <1>1, <1>8 DEF RunnerInv, Filled
<1>9. CASE again
  <2>0. /\ caller.of # 0
        /\ outstanding_ops' = outstanding_ops - 1 /\ twice' = twice + 1
        /\ stack' = Append(Below(2), Run(caller.of, TRUE)) /\ up' = up
    BY <1>9 DEF again
  <2>1. Run(caller.of, TRUE) \in Frame /\ Run(caller.of, TRUE).fn = "run"
        /\ Run(caller.of, TRUE).of = caller.of
    BY <1>5 DEF Run, Frame
  <2>2. /\ stack' \in Seq(Frame) /\ stack' # <<>> /\ Len(stack') = Len(stack) - 2 + 1
        /\ stack'[Len(stack) - 2 + 1] = Run(caller.of, TRUE)
        /\ \A i \in 1 .. Len(stack) - 2 : stack'[i] = stack[i]
    <3>1. PICK b \in Seq(Frame) : b = Below(2)
      BY <1>4
    <3>2. PICK f \in Frame : f = Run(caller.of, TRUE)
      BY <2>1
    <3>3. /\ stack' \in Seq(Frame) /\ stack' # <<>> /\ Len(stack') = Len(b) + 1
          /\ stack'[Len(b) + 1] = f /\ \A i \in 1 .. Len(b) : stack'[i] = b[i]
      BY <2>0, <3>1, <3>2, Pushed, ZenonT(30)
    <3> QED BY <1>4, <3>1, <3>2, <3>3
  <2>3. Typed'
    <3>1. outstanding_ops' \in Int /\ twice' \in Nat /\ up' \in BOOLEAN
      BY <1>1, <1>7, <2>0
    <3>2. stack' \in Seq(Frame)
      BY <2>2
    <3> QED BY <1>2, <3>1, <3>2 DEF Typed
  <2>4. Slots'
    BY <1>2, <1>7, <2>0 DEF Slots
  <2>5. Frames'
    <3> DEFINE k == Len(stack) - 2
    <3>1. k \in 0 .. Len(stack) /\ Len(stack') \in {k, k + 1}
      BY <1>1, <2>2
    <3>2. Fresh(k, stack'[k + 1])
      BY <1>2, <1>5, <2>0, <2>1, <2>2 DEF Fresh
    <3>3. \A i \in 1 .. k : stack'[i] = stack[i]
                         /\ (stack[i].fn = "stream" => stack[i].of \in In({"opening"})')
      BY <1>1, <1>2, <1>3, <2>2
    <3> HIDE DEF k
    <3> QED BY <1>1, <1>2, <2>3, <3>1, <3>2, <3>3, FramesNext DEF RunnerInv
  <2>6. Len(calls') < MaxCalls => Filled'
    <3>1. AtLoop' = 1
      <4>1. Top' = Run(caller.of, TRUE)
        BY <2>2 DEF Top
      <4> QED BY <1>1, <2>0, <2>1, <2>2, <4>1 DEF AtLoop, Running, InFn
    <3>2. SUFFICES ASSUME Len(calls) < MaxCalls, stack'[1].of # 0
                   PROVE  outstanding_ops' + Cardinality(Ended') >= max_outstanding_ops - AtLoop'
      BY <1>2, <2>2 DEF Filled
    <3>3. stack[1].of # 0
      <4>1. CASE Len(stack) = 2
        <5>1. caller = stack[1]
          BY <4>1 DEF caller
        <5> QED BY <5>1, <2>0
      <4>2. CASE Len(stack) # 2
        <5>1. 1 \in 1 .. Len(stack) - 2
          BY <1>1, <4>2
        <5> QED BY <5>1, <2>2, <3>2
      <4> QED BY <4>1, <4>2
    <3>4. outstanding_ops + Cardinality(Ended) >= max_outstanding_ops - 0
      BY <1>8, <3>2, <3>3
    <3> QED BY <1>6, <1>7, <2>0, <3>1, <3>4
  <2> QED BY <1>2, <2>3, <2>4, <2>5, <2>6 DEF RunnerInv
<1>10. CASE ended
  <2>0. caller.of # 0 /\ stack' = Below(2) /\ UNCHANGED <<outstanding_ops, up, twice>>
    BY <1>10 DEF ended
  <2>1. Typed'
    BY <1>2, <1>4, <2>0, InvHolds DEF Typed
  <2>2. Slots'
    <3>1. InUse' + Gone' - twice' = InUse + Gone - twice
      BY <1>2, <1>7, <2>0
    <3>2. InUse' <= InUse /\ twice' = twice /\ Threw' = Threw + 1
      BY <1>2, <1>7, <2>0
    <3> QED BY <1>2, <1>7, <2>0, <3>1, <3>2 DEF Slots
  <2>3. Frames'
    <3>1. \A i \in 1 .. Len(stack) - 2 :
            stack[i].fn = "stream" => stack[i].of \in In({"opening"})'
      BY <1>1, <1>2, <1>3
    <3> QED BY <1>1, <1>2, <1>3, <2>0, <2>1, <3>1, FramesPopped DEF RunnerInv
  <2>4. Len(calls') < MaxCalls => Filled'
    <3>1. SUFFICES ASSUME Len(calls) < MaxCalls, stack' = <<>> \/ stack'[1].of # 0
                   PROVE  outstanding_ops' + Cardinality(Ended') >= max_outstanding_ops - AtLoop'
      BY <1>2 DEF Filled
    <3>2. stack[1].of # 0
      <4>1. CASE Len(stack) = 2
        <5>1. caller = stack[1]
          BY <4>1 DEF caller
        <5> QED BY <5>1, <2>0
      <4>2. CASE Len(stack) # 2
        <5>1. 1 \in 1 .. Len(stack) - 2 /\ Len(stack') # 0
          BY <1>1, <1>4, <2>0, <4>2
        <5>2. stack' # <<>> /\ stack'[1] = stack[1]
          BY <5>1, <1>4, <2>0, EmptySeq
        <5> QED BY <5>2, <3>1
      <4> QED BY <4>1, <4>2
    <3>3. outstanding_ops + Cardinality(Ended) >= max_outstanding_ops - 0
      BY <1>8, <3>1, <3>2
    <3>4. AtLoop' \in {0, 1}
      BY DEF AtLoop
    <3> QED BY <1>6, <1>7, <2>0, <3>3, <3>4
  <2> QED BY <1>2, <2>1, <2>2, <2>3, <2>4 DEF RunnerInv
<1>11. CASE terminated
  <2>0. up' = FALSE /\ UNCHANGED <<outstanding_ops, stack, twice>>
    BY <1>11 DEF terminated
  <2>1. Typed'
    BY <1>2, <2>0, InvHolds DEF Typed
  <2>2. Slots'
    <3>1. outstanding_ops' = outstanding_ops /\ twice' = twice
      BY <2>0
    <3> QED BY <1>2, <1>7, <3>1 DEF Slots
  <2> QED BY <1>2, <2>0, <2>1, <2>2 DEF RunnerInv
<1> QED BY <1>0, <1>9, <1>10, <1>11

(* A subscription ends: its slot is free, and no run() takes it.           *)
LEMMA StreamEndsStep ==
  ASSUME RunnerInv, NEW c \in DOMAIN calls, StreamEnds(c)
  PROVE  RunnerInv'
<1>0. /\ up /\ c \in In({"streaming"}) /\ outstanding_ops' = outstanding_ops - 1
      /\ UNCHANGED <<stack, up, twice>>
      /\ \E s \in {"done", "silent"} : NoteCall(c, s)
  BY DEF StreamEnds, Looping, InFn
<1>1. PICK s \in {"done", "silent"} : NoteCall(c, s)
  BY <1>0
<1>2. calls[c].state = "streaming" /\ calls[c].op = "STREAM"
  BY <1>0 DEF RunnerInv, StreamsOpen, In
<1>3. /\ CallsTyped' /\ Len(calls)' = Len(calls) /\ DOMAIN calls' = DOMAIN calls
      /\ \A d \in DOMAIN calls : /\ calls'[d].op = calls[d].op
                                 /\ d # c => calls'[d] = calls[d]
      /\ calls'[c].state = s
      /\ \A T : In(T)' = (In(T) \ {c}) \cup (IF s \in T THEN {c} ELSE {})
      /\ InUse' = InUse - 1 /\ Gone' = Gone /\ Threw' = Threw
  <2>1. /\ s \in States /\ s \notin UnderWay /\ s \notin Lost /\ s \notin Thrown
        /\ calls[c].state \in UnderWay /\ calls[c].state \notin Lost
        /\ calls[c].state \notin Thrown
    BY <1>2 DEF States, UnderWay, Lost, Thrown
  <2> QED BY <1>1, <2>1, InvHolds, CallMoves, SMTT(30)
<1>4. Typed'
  BY <1>0, <1>3, InvHolds DEF Typed
<1>5. In({"opening"})' = In({"opening"})
      /\ In({"opening", "streaming"})' \subseteq In({"opening", "streaming"})
  BY <1>2, <1>3 DEF In
<1>6. StreamsOpen'
  BY <1>3, <1>5 DEF RunnerInv, StreamsOpen, In
<1>7. Slots'
  <2>1. outstanding_ops' = outstanding_ops - 1 /\ twice' = twice
    BY <1>0
  <2> QED BY <1>3, <2>1, InvHolds, SMTT(30) DEF Slots
<1>8. Frames'
  BY <1>0, <1>3, <1>5 DEF RunnerInv, Frames
<1>9. Len(calls') < MaxCalls => Filled'
  <2>1. /\ IsFiniteSet(Ended) /\ IsFiniteSet(Ended')
        /\ Cardinality(Ended) \in Nat /\ Cardinality(Ended') \in Nat
    <3>1. Ended' \in SUBSET DOMAIN calls /\ IsFiniteSet(DOMAIN calls)
      BY <1>3, InvHolds, FS_Interval DEF Ended, Of
    <3> QED BY <3>1, InvHolds, SetsFinite, FS_Subset, FS_CardinalityType
  <2>2. Ended \cup {c} \in SUBSET Ended' /\ c \notin Ended
    <3>1. ClassOf("STREAM").kind = "stream"
      BY DEF ClassOf, StreamDownload
    <3> QED BY <1>2, <1>3, <3>1 DEF Ended, Of
  <2>3. Cardinality(Ended') >= Cardinality(Ended) + 1
    <3>1. Cardinality(Ended \cup {c}) = Cardinality(Ended) + 1
      BY <2>1, <2>2, FS_AddElement
    <3>2. Cardinality(Ended \cup {c}) <= Cardinality(Ended')
      BY <2>1, <2>2, FS_Subset
    <3> QED BY <2>1, <3>1, <3>2
  <2>4. AtLoop' = AtLoop /\ AtLoop \in {0, 1}
    BY <1>0 DEF AtLoop, Running, InFn, Top
  <2>5. outstanding_ops \in Int /\ max_outstanding_ops \in Nat
    BY InvHolds
  <2>6. SUFFICES ASSUME Len(calls) < MaxCalls, stack = <<>> \/ stack[1].of # 0
                 PROVE  outstanding_ops' + Cardinality(Ended') >= max_outstanding_ops - AtLoop'
    BY <1>0, <1>3 DEF Filled
  <2>7. outstanding_ops + Cardinality(Ended) >= max_outstanding_ops - AtLoop
    BY <1>0, <2>6 DEF RunnerInv, Filled
  <2> QED BY <1>0, <2>1, <2>3, <2>4, <2>5, <2>7
<1> QED BY <1>0, <1>4, <1>6, <1>7, <1>8, <1>9 DEF RunnerInv

LEMMA RunnerStutters ==
  ASSUME RunnerInv, UNCHANGED <<calls, outstanding_ops, stack, up, twice>>
  PROVE  RunnerInv'
BY DEF RunnerInv, Typed, CallsTyped, StreamsOpen, Slots, Frames, Filled, AtLoop, Ended, Of, InUse,
       Gone, Threw, Size, In, Running, InFn, Top

LEMMA RunStep ==
  ASSUME RunnerInv, run
  PROVE  RunnerInv'
<1>1. ASSUME NEW op \in OP_TYPE, StartCall(op) PROVE RunnerInv'
  <2>1. /\ CanStart(op) /\ Start(op, "pending") /\ outstanding_ops' = outstanding_ops + 1
        /\ UNCHANGED <<stack, up, twice>>
    BY <1>1 DEF StartCall
  <2> QED BY <2>1, CallTakesSlot
<1>2. ASSUME NEW op \in OP_TYPE, StartNothing(op) PROVE RunnerInv'
  <2>1. /\ CanStart(op) /\ Start(op, "dropped") /\ outstanding_ops' = outstanding_ops + 1
        /\ UNCHANGED <<stack, up, twice>>
    BY <1>2 DEF StartNothing
  <2> QED BY <2>1, CallTakesSlot
<1>3. ASSUME NEW op \in OP_TYPE, StartInline(op) PROVE RunnerInv'
  <2>1. /\ CanStart(op) /\ \E s \in {"done", "silent"} : Start(op, s)
        /\ \E b \in BOOLEAN : stack' = Append(stack, Run(Len(calls) + 1, b))
        /\ UNCHANGED <<outstanding_ops, up, twice>>
    BY <1>3 DEF StartInline
  <2> QED BY <2>1, CallEndsInline
<1> QED BY <1>1, <1>2, <1>3, StreamStarts, RunReturns DEF run

LEMMA EventStep ==
  ASSUME RunnerInv, NEW c \in DOMAIN calls, Event(c)
  PROVE  RunnerInv'
<1> DEFINE Ends == /\ Looping /\ calls[c].state = "pending"
                   /\ \E s \in {"done", "silent"} : NoteCall(c, s)
                   /\ \E b \in BOOLEAN : finishCall(c, b)
                   /\ outstanding_ops' = outstanding_ops - 1 /\ UNCHANGED <<up, twice>>
<1>1. CASE requestSent(c)
  <2>1. Ends
    BY <1>1 DEF requestSent, onewaySent, Pending, In
  <2> QED BY <2>1, CallEnds
<1>2. CASE requestError(c)
  <2>1. Ends
    BY <1>2 DEF requestError, asyncErrorReceived, Pending, In
  <2> QED BY <2>1, CallEnds
<1>3. ASSUME NEW r \in Results, replyReceived(c, r) PROVE RunnerInv'
  <2>1. Ends
    BY <1>3 DEF replyReceived, asyncReceived, Pending, In
  <2> QED BY <2>1, CallEnds
<1>4. ASSUME NEW r \in Results, Continuation(c, r) PROVE RunnerInv'
  <2>1. Ends
    <3>1. (r # "ok") \in BOOLEAN
      OBVIOUS
    <3> QED BY <1>4, <3>1 DEF Continuation, asyncReceived, Pending, In
  <2> QED BY <2>1, CallEnds
<1>5. CASE StreamItem(c)
  BY <1>5, RunnerStutters DEF StreamItem
<1>6. CASE StreamEnds(c)
  BY <1>6, StreamEndsStep
<1> QED BY <1>1, <1>2, <1>3, <1>4, <1>5, <1>6 DEF Event

LEMMA RunnerInit ==
  ASSUME Init
  PROVE  RunnerInv
<1>1. /\ calls = <<>> /\ outstanding_ops = 0 /\ twice = 0 /\ up = TRUE
      /\ stack = <<Run(0, FALSE)>> /\ Run(0, FALSE).fn = "run" /\ Run(0, FALSE).of = 0
      /\ Run(0, FALSE) \in Frame
  BY DEF Init, Run, Frame
<1>2. /\ stack \in Seq(Frame) /\ DOMAIN stack = {1} /\ stack[1] = Run(0, FALSE)
      /\ stack # <<>> /\ stack[1].of = 0 /\ stack[1].fn = "run"
  <2>1. PICK f \in Frame : f = Run(0, FALSE)
    BY <1>1
  <2>2. /\ <<f>> \in Seq(Frame) /\ DOMAIN <<f>> = {1} /\ <<f>>[1] = f /\ <<f>> # <<>>
    OBVIOUS
  <2> QED BY <1>1, <2>1, <2>2
<1>3. CallsTyped /\ DOMAIN calls = {}
  BY <1>1 DEF CallsTyped
<1>4. \A T : In(T) = {}
  BY <1>3 DEF In
<1>5. InUse = 0 /\ Gone = 0 /\ Threw = 0
  BY <1>4, FS_EmptySet DEF InUse, Gone, Threw, Size
<1>6. Slots
  BY <1>1, <1>5, RunnerAssumption DEF Slots
<1>7. Typed /\ StreamsOpen /\ Filled
  <2>1. Typed
    <3>1. stack \in Seq(Frame)
      BY <1>2
    <3>2. outstanding_ops = 0 /\ twice = 0 /\ up = TRUE
      BY <1>1
    <3> QED BY <1>3, <3>1, <3>2 DEF Typed
  <2>2. StreamsOpen
    BY <1>4 DEF StreamsOpen
  <2> QED BY <1>2, <2>1, <2>2 DEF Filled
<1>8. Frames
  BY <1>2 DEF Frames
<1> QED BY <1>6, <1>7, <1>8 DEF RunnerInv

(* RunnerInv is inductive.                                                 *)
LEMMA RunnerHolds == Spec => []RunnerInv
<1>1. RunnerInv /\ [Next]_vars => RunnerInv'
  <2> SUFFICES ASSUME RunnerInv, [Next]_vars PROVE RunnerInv'
    OBVIOUS
  <2>1. CASE run
    BY <2>1, RunStep
  <2>2. ASSUME NEW c \in DOMAIN calls, Event(c) PROVE RunnerInv'
    BY <2>2, EventStep
  <2>3. CASE StreamOpens
    BY <2>3, StreamOpensStep
  <2>4. ASSUME NEW e \in Exceptions, StreamThrows(e) PROVE RunnerInv'
    BY <2>4, StreamThrowsStep
  <2>5. CASE UNCHANGED vars
    BY <2>5, RunnerStutters DEF vars
  <2> QED BY <2>1, <2>2, <2>3, <2>4, <2>5 DEF Next
<1> QED BY <1>1, RunnerInit, PTL DEF Spec
-----------------------------------------------------------------------------
(* What is counted                                                         *)

Names == Registered \cup {"fatal"}

CallCounters ==
  {"noop", "sum", "timeout_success", "semifuture_sum", "co_sum", "timeout", "error", "fatal"}
    \cup (IF STREAM_PERF_TEST THEN {"download", "upload"} ELSE {})

CounterNames ==
  {"noop", "sum", "timeout_success", "semifuture_sum", "co_sum", "download", "upload",
   "s_download", "timeout", "error", "fatal"}

(* Only calls that were handed to the channel are pending.                 *)
PendingBuilt == \A c \in In({"pending"}) : calls[c].op \in Built \ {"STREAM"}

CountInv == stats \in [Names -> Nat] /\ PendingBuilt /\ Counted = Done + twice

Entries(s) == {s[i] : i \in DOMAIN s}

LEMMA EntriesOfConcat ==
  ASSUME NEW S, NEW s \in Seq(S), NEW t \in Seq(S)
  PROVE  s \o t \in Seq(S) /\ Entries(s \o t) = Entries(s) \cup Entries(t)
<1> DEFINE u == s \o t
<1>1. /\ u \in Seq(S) /\ Len(u) = Len(s) + Len(t) /\ DOMAIN u = 1 .. Len(u)
      /\ \A i \in 1 .. Len(u) : u[i] = IF i <= Len(s) THEN s[i] ELSE t[i - Len(s)]
      /\ DOMAIN s = 1 .. Len(s) /\ DOMAIN t = 1 .. Len(t)
      /\ Len(s) \in Nat /\ Len(t) \in Nat
  BY ConcatProperties, LenProperties
<1> HIDE DEF u
<1>2. \A i \in DOMAIN u : u[i] \in Entries(s) \cup Entries(t)
  <2> TAKE i \in DOMAIN u
  <2>1. CASE i <= Len(s)
    BY <1>1, <2>1 DEF Entries
  <2>2. CASE ~(i <= Len(s))
    <3>1. i - Len(s) \in DOMAIN t /\ u[i] = t[i - Len(s)]
      BY <1>1, <2>2
    <3> QED BY <3>1 DEF Entries
  <2> QED BY <2>1, <2>2
<1>3. \A j \in DOMAIN s : s[j] \in Entries(u)
  <2> TAKE j \in DOMAIN s
  <2>1. j \in DOMAIN u /\ u[j] = s[j]
    BY <1>1
  <2> QED BY <2>1 DEF Entries
<1>4. \A j \in DOMAIN t : t[j] \in Entries(u)
  <2> TAKE j \in DOMAIN t
  <2>1. j + Len(s) \in DOMAIN u /\ u[j + Len(s)] = t[j]
    BY <1>1
  <2> QED BY <2>1 DEF Entries
<1>5. Entries(u) = Entries(s) \cup Entries(t)
  BY <1>2, <1>3, <1>4 DEF Entries
<1> QED BY <1>1, <1>5 DEF u

LEMMA EntriesOfFour ==
  ASSUME NEW S, NEW a \in S, NEW b \in S, NEW c \in S, NEW d \in S
  PROVE  <<a, b, c, d>> \in Seq(S) /\ Entries(<<a, b, c, d>>) = {a, b, c, d}
<1>1. <<a, b, c, d>> \in Seq(S) /\ DOMAIN <<a, b, c, d>> = {1, 2, 3, 4}
  OBVIOUS
<1>2. /\ <<a, b, c, d>>[1] = a /\ <<a, b, c, d>>[2] = b
      /\ <<a, b, c, d>>[3] = c /\ <<a, b, c, d>>[4] = d
  OBVIOUS
<1> QED BY <1>1, <1>2 DEF Entries

LEMMA ClassCounters ==
  ASSUME NEW name \in CounterNames, NEW kind, NEW deadline
  PROVE  /\ Class(name, kind, deadline).counters \in Seq(CounterNames)
         /\ Entries(Class(name, kind, deadline).counters) = {name, "timeout", "error", "fatal"}
<1>1. Class(name, kind, deadline).counters = <<name, "timeout", "error", "fatal">>
  BY DEF Class
<1>2. "timeout" \in CounterNames /\ "error" \in CounterNames /\ "fatal" \in CounterNames
  BY DEF CounterNames
<1> QED BY <1>1, <1>2, EntriesOfFour

(* Every counter a call can end under is registered (Operation.h:50-63).   *)
LEMMA CountersRegistered ==
  CallCounters \subseteq Names /\ (STREAM_PERF_TEST => "s_download" \in Names)
<1> DEFINE a == Noop.counters
           b == Sum.counters
           c == Timeout.counters
           d == IF STREAM_PERF_TEST
                THEN Download.counters \o Upload.counters \o StreamDownload.counters ELSE <<>>
           e == SemiFutureSum.counters
           f == CoSum.counters
<1>0. {"noop", "sum", "timeout_success", "semifuture_sum", "co_sum", "download", "upload"}
        \subseteq CounterNames
  BY DEF CounterNames
<1>1. a \in Seq(CounterNames) /\ Entries(a) = {"noop", "timeout", "error", "fatal"}
  BY <1>0, ClassCounters DEF Noop
<1>2. b \in Seq(CounterNames) /\ "sum" \in Entries(b)
  BY <1>0, ClassCounters DEF Sum
<1>3. c \in Seq(CounterNames) /\ "timeout_success" \in Entries(c)
  BY <1>0, ClassCounters DEF Timeout
<1>4. /\ d \in Seq(CounterNames)
      /\ STREAM_PERF_TEST => {"download", "upload", "s_download"} \subseteq Entries(d)
  <2>1. Download.counters \in Seq(CounterNames) /\ "download" \in Entries(Download.counters)
    BY <1>0, ClassCounters DEF Download
  <2>2. Upload.counters \in Seq(CounterNames) /\ "upload" \in Entries(Upload.counters)
    BY <1>0, ClassCounters DEF Upload
  <2>3. StreamDownload.counters \in Seq(CounterNames) /\ "s_download" \in Entries(StreamDownload.counters)
    <3>1. StreamDownload.counters = <<"s_download", "error", "fatal">>
      BY DEF StreamDownload
    <3>2. "s_download" \in CounterNames /\ "error" \in CounterNames /\ "fatal" \in CounterNames
      BY DEF CounterNames
    <3>3. ASSUME NEW x \in CounterNames, NEW y \in CounterNames, NEW z \in CounterNames
          PROVE  <<x, y, z>> \in Seq(CounterNames) /\ x \in Entries(<<x, y, z>>)
      <4>1. <<x, y, z>> \in Seq(CounterNames) /\ 1 \in DOMAIN <<x, y, z>> /\ <<x, y, z>>[1] = x
        OBVIOUS
      <4> QED BY <4>1 DEF Entries
    <3> QED BY <3>1, <3>2, <3>3
  <2>4. CASE STREAM_PERF_TEST
    <3>1. PICK g \in Seq(CounterNames) : /\ g = Download.counters \o Upload.counters
                                   /\ {"download", "upload"} \subseteq Entries(g)
      <4>1. /\ Download.counters \o Upload.counters \in Seq(CounterNames)
            /\ Entries(Download.counters \o Upload.counters)
                 = Entries(Download.counters) \cup Entries(Upload.counters)
        BY <2>1, <2>2, EntriesOfConcat
      <4> QED BY <2>1, <2>2, <4>1
    <3>2. d = g \o StreamDownload.counters
      BY <2>4, <3>1
    <3> HIDE DEF d
    <3>3. d \in Seq(CounterNames) /\ Entries(d) = Entries(g) \cup Entries(StreamDownload.counters)
      BY <2>3, <3>2, EntriesOfConcat
    <3> QED BY <2>3, <3>1, <3>3
  <2>5. CASE ~STREAM_PERF_TEST
    <3>1. d = <<>>
      BY <2>5
    <3>2. <<>> \in Seq(CounterNames)
      OBVIOUS
    <3> QED BY <2>5, <3>1, <3>2
  <2> QED BY <2>4, <2>5
<1>5. e \in Seq(CounterNames) /\ "semifuture_sum" \in Entries(e)
  BY <1>0, ClassCounters DEF SemiFutureSum
<1>6. f \in Seq(CounterNames) /\ "co_sum" \in Entries(f)
  BY <1>0, ClassCounters DEF CoSum
<1> HIDE DEF a, b, c, d, e, f
<1>7. Registered = Entries(a \o b \o c \o d \o e \o f)
  BY DEF Registered, Registrations, Entries, a, b, c, d, e, f
<1>8. PICK g \in Seq(CounterNames) : g = a \o b /\ Entries(g) = Entries(a) \cup Entries(b)
  BY <1>1, <1>2, EntriesOfConcat, ZenonT(30)
<1>9. PICK h \in Seq(CounterNames) : h = g \o c /\ Entries(h) = Entries(g) \cup Entries(c)
  BY <1>3, EntriesOfConcat, ZenonT(30)
<1>10. PICK i \in Seq(CounterNames) : i = h \o d /\ Entries(i) = Entries(h) \cup Entries(d)
  BY <1>4, EntriesOfConcat, ZenonT(30)
<1>11. PICK j \in Seq(CounterNames) : j = i \o e /\ Entries(j) = Entries(i) \cup Entries(e)
  BY <1>5, EntriesOfConcat, ZenonT(30)
<1>12. Entries(j \o f) = Entries(j) \cup Entries(f)
  BY <1>6, EntriesOfConcat
<1>13. Registered = Entries(j \o f)
  BY <1>7, <1>8, <1>9, <1>10, <1>11
<1> QED BY <1>1, <1>2, <1>3, <1>4, <1>5, <1>6, <1>8, <1>9, <1>10, <1>11, <1>12, <1>13
     DEF CallCounters, Names

LEMMA AddsOne ==
  ASSUME stats \in [Names -> Nat], NEW n \in CallCounters, add(n)
  PROVE  stats' \in [Names -> Nat] /\ Counted' = Counted + 1
<1>1. n \in Names /\ STREAM_PERF_TEST \in BOOLEAN
  BY CountersRegistered, RunnerAssumption
<1>2. /\ stats' \in [Names -> Nat] /\ stats'[n] = stats[n] + 1
      /\ \A m \in Names : stats[m] \in Nat /\ (m # n => stats'[m] = stats[m])
  BY <1>1 DEF add
<1>3. CASE STREAM_PERF_TEST
  <2>1. /\ {"noop", "sum", "timeout_success", "semifuture_sum", "co_sum", "timeout", "error",
            "fatal", "download", "upload"} \subseteq Names
        /\ n \in {"noop", "sum", "timeout_success", "semifuture_sum", "co_sum", "timeout", "error",
                  "fatal", "download", "upload"}
    BY <1>3, CountersRegistered DEF CallCounters
  <2> QED BY <1>2, <1>3, <2>1 DEF Counted
<1>4. CASE ~STREAM_PERF_TEST
  <2>1. /\ {"noop", "sum", "timeout_success", "semifuture_sum", "co_sum", "timeout", "error",
            "fatal"} \subseteq Names
        /\ n \in {"noop", "sum", "timeout_success", "semifuture_sum", "co_sum", "timeout", "error",
                  "fatal"}
    BY <1>4, CountersRegistered DEF CallCounters
  <2> QED BY <1>2, <1>4, <2>1 DEF Counted
<1> QED BY <1>1, <1>2, <1>3, <1>4

LEMMA AddsChunk ==
  ASSUME stats \in [Names -> Nat], add("s_download")
  PROVE  stats' \in [Names -> Nat] /\ Counted' = Counted
<1>1. /\ stats' \in [Names -> Nat]
      /\ \A m \in CallCounters : stats'[m] = stats[m]
  <2>1. "s_download" \notin CallCounters
    BY DEF CallCounters
  <2>2. stats' = [stats EXCEPT !["s_download"] = @ + 1]
    BY DEF add
  <2>3. stats' \in [Names -> Nat]
    <3>1. CASE "s_download" \in Names
      BY <2>2, <3>1
    <3>2. CASE "s_download" \notin Names
      BY <2>2, <3>2
    <3> QED BY <3>1, <3>2
  <2>4. \A m \in CallCounters : stats'[m] = stats[m]
    BY <2>1, <2>2, CountersRegistered
  <2> QED BY <2>3, <2>4
<1> QED BY <1>1 DEF Counted, CallCounters

LEMMA CountedNat ==
  ASSUME stats \in [Names -> Nat]
  PROVE  Counted \in Nat
<1>1. \A m \in CallCounters : stats[m] \in Nat
  BY CountersRegistered
<1> QED BY <1>1, RunnerAssumption DEF Counted, CallCounters

(* The counter of a result is one of the call counters.                    *)
LEMMA ResultCounted ==
  ASSUME NEW op \in Built \ {"STREAM"}, NEW r \in Results
  PROVE  ClassOf(op).counts[r] \in CallCounters
<1>1. op \in OP_TYPE
  BY DEF Built
<1>2. ASSUME NEW name, NEW kind, NEW deadline
      PROVE  Class(name, kind, deadline).counts[r] \in {name, "timeout", "error", "fatal"}
  BY DEF Class, Results
<1>3. {"noop", "sum", "timeout_success", "semifuture_sum", "co_sum", "timeout", "error", "fatal"}
        \subseteq CallCounters
  BY DEF CallCounters
<1>4. CASE op \in {"NOOP", "NOOP_ONEWAY", "SUM", "TIMEOUT", "SEMIFUTURE_SUM", "CO_SUM"}
  <2>1. \E name \in {"noop", "sum", "timeout_success", "semifuture_sum", "co_sum"} :
          \E kind, deadline : ClassOf(op) = Class(name, kind, deadline)
    BY <1>4 DEF ClassOf, Noop, Sum, Timeout, SemiFutureSum, CoSum
  <2> QED BY <1>2, <1>3, <2>1
<1>5. CASE op \in {"DOWNLOAD", "UPLOAD"}
  <2>1. STREAM_PERF_TEST
    BY <1>5 DEF Built
  <2>2. \E name \in {"download", "upload"} :
          \E kind, deadline : ClassOf(op) = Class(name, kind, deadline)
    BY <1>5 DEF ClassOf, Download, Upload
  <2>3. {"download", "upload"} \subseteq CallCounters
    BY <2>1 DEF CallCounters
  <2> QED BY <1>2, <1>3, <2>2, <2>3
<1> QED BY <1>1, <1>4, <1>5 DEF OP_TYPE

(* A step counts a call that ends, or a second release, and nothing else.  *)
LEMMA CountStep ==
  ASSUME CountInv, Done \in Nat, twice \in Nat, PendingBuilt',
         \/ /\ Done' + twice' = Done + twice + 1
            /\ \E n \in CallCounters : add(n)
         \/ /\ Done' + twice' = Done + twice
            /\ UNCHANGED stats \/ add("s_download")
  PROVE  CountInv'
<1>1. stats \in [Names -> Nat] /\ Counted = Done + twice /\ Counted \in Nat
  BY CountedNat DEF CountInv
<1>2. CASE Done' + twice' = Done + twice + 1 /\ \E n \in CallCounters : add(n)
  <2>1. stats' \in [Names -> Nat] /\ Counted' = Counted + 1
    BY <1>1, <1>2, AddsOne
  <2> QED BY <1>1, <1>2, <2>1 DEF CountInv
<1>3. CASE Done' + twice' = Done + twice /\ UNCHANGED stats
  <2>1. Counted' = Counted
    BY <1>3 DEF Counted
  <2> QED BY <1>1, <1>3, <2>1 DEF CountInv
<1>4. CASE Done' + twice' = Done + twice /\ add("s_download")
  <2>1. stats' \in [Names -> Nat] /\ Counted' = Counted
    BY <1>1, <1>4, AddsChunk
  <2> QED BY <1>1, <1>4, <2>1 DEF CountInv
<1> QED BY <1>2, <1>3, <1>4

(* A step of a client preserves CountInv.                                  *)
LEMMA DoneIs ==
  ASSUME RunnerInv
  PROVE  Done \in Nat /\ twice \in Nat
BY InvHolds, SetsFinite DEF Done

(* Every call that starts and is not over is handed to the channel.        *)
LEMMA CountStart ==
  ASSUME RunnerInv, CountInv, NEW op \in OP_TYPE, NEW s \in States, Start(op, s),
         s = "pending" => op \in Built \ {"STREAM"}, twice' = twice,
         IF s = "done" THEN \E n \in CallCounters : add(n) ELSE UNCHANGED stats
  PROVE  CountInv'
<1>1. /\ Len(calls)' = Len(calls) + 1 /\ DOMAIN calls = 1 .. Len(calls) /\ Len(calls) \in Nat
      /\ \A c \in DOMAIN calls : c \in DOMAIN calls' /\ calls'[c] = calls[c]
      /\ \A T : In(T)' = In(T) \cup (IF s \in T THEN {Len(calls) + 1} ELSE {})
      /\ Done' = Done + (IF s \in Finished THEN 1 ELSE 0)
  BY InvHolds, CallStarts
<1>2. s \in Finished <=> s = "done"
  BY DEF Finished
<1>3. calls'[Len(calls) + 1].op = op
  <2>1. calls \in Seq([op : OP_TYPE, state : States])
    BY InvHolds DEF CallsTyped
  <2> QED BY <2>1, AppendProperties DEF Start
<1>4. PendingBuilt'
  <2> SUFFICES ASSUME NEW c \in In({"pending"})' PROVE calls'[c].op \in Built \ {"STREAM"}
    BY DEF PendingBuilt
  <2>1. CASE c \in In({"pending"})
    BY <1>1, <2>1 DEF CountInv, PendingBuilt, In
  <2>2. CASE c \notin In({"pending"})
    BY <1>1, <1>3, <2>2
  <2> QED BY <2>1, <2>2
<1>5. CASE s = "done"
  BY <1>1, <1>2, <1>4, <1>5, DoneIs, CountStep
<1>6. CASE s # "done"
  BY <1>1, <1>2, <1>4, <1>6, DoneIs, CountStep
<1> QED BY <1>5, <1>6

(* A call that moves on is counted if it is done now.                      *)
LEMMA CountMove ==
  ASSUME RunnerInv, CountInv, NEW c \in DOMAIN calls, calls[c].state # "done",
         NEW s \in States \ {"pending"}, NoteCall(c, s),
         IF s = "done" \/ twice' # twice
         THEN (\E n \in CallCounters : add(n)) /\ (s = "done" \/ twice' = twice + 1)
                /\ (s # "done" \/ twice' = twice)
         ELSE UNCHANGED stats
  PROVE  CountInv'
<1>1. /\ DOMAIN calls' = DOMAIN calls
      /\ \A d \in DOMAIN calls : calls'[d].op = calls[d].op
      /\ \A T : In(T)' = (In(T) \ {c}) \cup (IF s \in T THEN {c} ELSE {})
      /\ Done' = Done - (IF calls[c].state \in Finished THEN 1 ELSE 0)
                      + (IF s \in Finished THEN 1 ELSE 0)
  BY InvHolds, CallMoves
<1>2. /\ s \in Finished <=> s = "done"
      /\ calls[c].state \notin Finished
  BY DEF Finished
<1>3. PendingBuilt'
  <2>1. In({"pending"})' \subseteq In({"pending"})
    BY <1>1
  <2> QED BY <1>1, <2>1 DEF CountInv, PendingBuilt, In
<1>4. Done \in Nat /\ twice \in Nat
  BY DoneIs
<1>5. CASE s = "done"
  <2>1. Done' + twice' = Done + twice + 1 /\ \E n \in CallCounters : add(n)
    BY <1>1, <1>2, <1>4, <1>5
  <2> QED BY <1>3, <1>4, <2>1, CountStep
<1>6. CASE s # "done" /\ twice' # twice
  <2>1. Done' + twice' = Done + twice + 1 /\ \E n \in CallCounters : add(n)
    BY <1>1, <1>2, <1>4, <1>6
  <2> QED BY <1>3, <1>4, <2>1, CountStep
<1>7. CASE s # "done" /\ twice' = twice
  <2>1. Done' + twice' = Done + twice /\ UNCHANGED stats
    BY <1>1, <1>2, <1>4, <1>7
  <2> QED BY <1>3, <1>4, <2>1, CountStep
<1> QED BY <1>5, <1>6, <1>7

LEMMA CountSame ==
  ASSUME RunnerInv, CountInv, UNCHANGED <<calls, twice>>, UNCHANGED stats \/ add("s_download")
  PROVE  CountInv'
<1>1. Done' = Done /\ PendingBuilt' = PendingBuilt
  BY DEF Done, Size, In, PendingBuilt
<1> QED BY <1>1, DoneIs, CountStep DEF CountInv

LEMMA FutureBuilt == FutureOps \subseteq Built \ {"STREAM"}
<1> SUFFICES ASSUME NEW op \in OP_TYPE, ClassOf(op).kind = "future"
             PROVE  op \in Built \ {"STREAM"}
  BY DEF FutureOps
<1>1. Download.kind = "callback" /\ Upload.kind = "callback" /\ StreamDownload.kind = "stream"
  BY DEF Download, Upload, StreamDownload, Class
<1>2. op \notin {"DOWNLOAD", "UPLOAD", "STREAM"}
  BY <1>1 DEF ClassOf
<1> QED BY <1>2 DEF Built

LEMMA CountRun ==
  ASSUME RunnerInv, CountInv, run
  PROVE  CountInv'
<1>1. /\ "noop" \in CallCounters /\ "error" \in CallCounters /\ "fatal" \in CallCounters
      /\ {"pending", "done", "silent", "dropped", "opening"} \subseteq States
      /\ "STREAM" \in OP_TYPE
  BY DEF CallCounters, States, OP_TYPE
<1>2. ASSUME NEW op \in OP_TYPE, StartCall(op) PROVE CountInv'
  <2>1. op \in Built \ {"STREAM"} /\ Start(op, "pending") /\ UNCHANGED <<stats, twice>>
    BY <1>2 DEF StartCall
  <2> QED BY <1>1, <2>1, CountStart
<1>3. ASSUME NEW op \in OP_TYPE, StartNothing(op) PROVE CountInv'
  <2>1. Start(op, "dropped") /\ UNCHANGED <<stats, twice>>
    BY <1>3 DEF StartNothing
  <2> QED BY <1>1, <2>1, CountStart
<1>4. ASSUME NEW op \in OP_TYPE, StartInline(op) PROVE CountInv'
  <2>1. /\ twice' = twice
        /\ \/ Start(op, "done") /\ (add("noop") \/ add("error") \/ add("fatal"))
           \/ Start(op, "silent") /\ UNCHANGED stats
    BY <1>4 DEF StartInline, CoSum, Class
  <2> QED BY <1>1, <2>1, CountStart
<1>5. CASE StartStream
  <2>1. Start("STREAM", "opening") /\ UNCHANGED <<stats, twice>>
    BY <1>5 DEF StartStream
  <2> QED BY <1>1, <2>1, CountStart
<1>6. CASE RunReturn
  BY <1>6, CountSame DEF RunReturn
<1> QED BY <1>2, <1>3, <1>4, <1>5, <1>6 DEF run

LEMMA CountEvent ==
  ASSUME RunnerInv, CountInv, NEW c \in DOMAIN calls, Event(c)
  PROVE  CountInv'
<1>1. /\ "noop" \in CallCounters /\ "error" \in CallCounters /\ "fatal" \in CallCounters
      /\ {"done", "silent"} \subseteq States \ {"pending"}
  BY DEF CallCounters, States
<1> DEFINE Ends == /\ calls[c].state # "done" /\ twice' = twice
                   /\ \/ NoteCall(c, "done") /\ \E n \in CallCounters : add(n)
                      \/ NoteCall(c, "silent") /\ UNCHANGED stats
<1>2. Ends => CountInv'
  BY <1>1, CountMove
<1>3. CASE requestSent(c)
  BY <1>1, <1>2, <1>3 DEF requestSent, onewaySent, Pending, In
<1>4. CASE requestError(c)
  BY <1>1, <1>2, <1>4 DEF requestError, asyncErrorReceived, Pending, In
<1>5. ASSUME NEW r \in Results, replyReceived(c, r) \/ Continuation(c, r) PROVE CountInv'
  <2>1. c \in In({"pending"}) /\ asyncReceived(c, r) /\ twice' = twice
    BY <1>5 DEF replyReceived, Continuation, Pending
  <2>2. ClassOf(calls[c].op).counts[r] \in CallCounters
    BY <2>1, ResultCounted DEF CountInv, PendingBuilt
  <2>3. Ends
    BY <2>1, <2>2 DEF asyncReceived, In
  <2> QED BY <1>2, <2>3
<1>6. CASE StreamItem(c)
  BY <1>6, CountSame DEF StreamItem
<1>7. CASE StreamEnds(c)
  BY <1>1, <1>2, <1>7 DEF StreamEnds, In
<1> QED BY <1>3, <1>4, <1>5, <1>6, <1>7 DEF Event

LEMMA CountThrow ==
  ASSUME RunnerInv, CountInv, NEW e \in Exceptions, StreamThrows(e)
  PROVE  CountInv'
<1> DEFINE c == Top.of
           caller == stack[Len(stack) - 1]
<1>1. /\ c \in DOMAIN calls /\ calls[c].state = "opening"
  BY OpenFrame DEF StreamThrows
<1>2. /\ NoteCall(c, "thrown") /\ "thrown" \in States \ {"pending"} /\ e \in Results
      /\ \/ /\ calls[caller.of].op \in FutureOps
            /\ add(ClassOf(calls[caller.of].op).counts[e]) /\ twice' = twice + 1
         \/ UNCHANGED <<stats, twice>>
  BY DEF StreamThrows, States, Exceptions
<1>3. twice \in Nat /\ twice + 1 # twice
  BY DoneIs
<1> HIDE DEF c, caller
<1>4. CASE calls[caller.of].op \in FutureOps /\ twice' = twice + 1
           /\ add(ClassOf(calls[caller.of].op).counts[e])
  <2>1. ClassOf(calls[caller.of].op).counts[e] \in CallCounters
    BY <1>2, <1>4, FutureBuilt, ResultCounted
  <2>2. \E n \in CallCounters : add(n)
    BY <1>4, <2>1
  <2> QED BY <1>1, <1>2, <1>3, <1>4, <2>2, CountMove
<1>5. CASE UNCHANGED <<stats, twice>>
  BY <1>1, <1>2, <1>5, CountMove
<1> QED BY <1>2, <1>4, <1>5

LEMMA CountOpens ==
  ASSUME RunnerInv, CountInv, StreamOpens
  PROVE  CountInv'
<1> DEFINE c == Top.of
<1>1. /\ c \in DOMAIN calls /\ calls[c].state = "opening"
  BY OpenFrame DEF StreamOpens
<1>2. /\ NoteCall(c, "streaming") /\ "streaming" \in States \ {"pending"}
      /\ UNCHANGED <<stats, twice>>
  BY DEF StreamOpens, States
<1> HIDE DEF c
<1> QED BY <1>1, <1>2, CountMove

LEMMA CountInit ==
  ASSUME Init
  PROVE  CountInv
<1>1. calls = <<>> /\ twice = 0 /\ stats = [n \in Names |-> 0]
  BY DEF Init, Names
<1>2. \A T : In(T) = {}
  BY <1>1 DEF In
<1>3. Done = 0
  BY <1>2, FS_EmptySet DEF Done, Size
<1>4. \A n \in CallCounters : stats[n] = 0
  BY <1>1, CountersRegistered
<1>5. Counted = 0
  BY <1>4, RunnerAssumption DEF Counted, CallCounters
<1> QED BY <1>1, <1>2, <1>3, <1>5 DEF CountInv, PendingBuilt

LEMMA CountHolds == Spec => []CountInv
<1>1. RunnerInv /\ CountInv /\ [Next]_vars => CountInv'
  <2> SUFFICES ASSUME RunnerInv, CountInv, [Next]_vars PROVE CountInv'
    OBVIOUS
  <2>1. CASE run
    BY <2>1, CountRun
  <2>2. ASSUME NEW c \in DOMAIN calls, Event(c) PROVE CountInv'
    BY <2>2, CountEvent
  <2>3. CASE StreamOpens
    BY <2>3, CountOpens
  <2>4. ASSUME NEW e \in Exceptions, StreamThrows(e) PROVE CountInv'
    BY <2>4, CountThrow
  <2>5. CASE UNCHANGED vars
    BY <2>5, CountSame DEF vars
  <2> QED BY <2>1, <2>2, <2>3, <2>4, <2>5 DEF Next
<1> QED BY <1>1, CountInit, RunnerHolds, PTL DEF Spec
-----------------------------------------------------------------------------
(* The client in front of a server is a client: what the server does is    *)
(* invisible to it, and what it hears is something it may hear.            *)
THEOREM BenchIsRunner == BenchSpec => Spec
<1>1. BenchInit => Init
  BY DEF BenchInit
<1>2. [BenchNext]_benchVars => [Next]_vars
  <2> SUFFICES ASSUME [BenchNext]_benchVars PROVE [Next]_vars
    OBVIOUS
  <2>1. CASE run
    BY <2>1 DEF Next
  <2>2. CASE StreamOpens
    BY <2>2 DEF Next
  <2>3. ASSUME NEW c \in DOMAIN calls, Event(c) PROVE Next
    BY <2>3 DEF Next
  <2>4. ASSUME NEW e \in Exceptions, StreamThrows(e) PROVE Next
    BY <2>4 DEF Next
  <2>5. ASSUME NEW c \in DOMAIN calls, NEW r \in Results, Reply(c, r) PROVE Next
    BY <2>3, <2>5 DEF Reply, Event
  <2>6. CASE UNCHANGED vars
    BY <2>6
  <2>7. CASE Progress
    <3>1. ASSUME NEW c \in DOMAIN calls,
                 async_eb(c) \/ Enqueue(c) \/ Worker(c) \/ Method(c) \/ streamDownload(c)
          PROVE  UNCHANGED vars
      BY <3>1 DEF async_eb, Enqueue, Worker, Method, streamDownload
    <3>2. ASSUME NEW c \in DOMAIN calls, requestSent(c) \/ StreamChunk(c) PROVE Next
      BY <2>3, <3>2 DEF Event, StreamChunk
    <3>3. ASSUME NEW c \in DOMAIN calls, Reply(c, "ok") \/ Reply(c, "expired") PROVE Next
      BY <2>5, <3>3 DEF Results
    <3> QED BY <2>1, <2>2, <2>6, <2>7, <3>1, <3>2, <3>3 DEF Progress, StreamOpened
  <2>8. CASE Mishap
    <3>1. ASSUME NEW op \in OP_TYPE, Inline(op) PROVE run
      BY <3>1 DEF Inline, run
    <3>2. ASSUME NEW c \in DOMAIN calls, Expire(c) PROVE UNCHANGED vars
      BY <3>2 DEF Expire
    <3>3. ASSUME NEW c \in DOMAIN calls, requestError(c) \/ StreamEnds(c) PROVE Next
      BY <2>3, <3>3 DEF Event
    <3>4. ASSUME NEW c \in DOMAIN calls, Reply(c, "expired") \/ Reply(c, "refused") \/ Reply(c, "broken") PROVE Next
      BY <2>5, <3>4 DEF Results
    <3> QED BY <2>1, <2>4, <2>6, <2>8, <3>1, <3>2, <3>3, <3>4 DEF Mishap
  <2>9. CASE UNCHANGED benchVars
    BY <2>6, <2>9 DEF benchVars
  <2> QED BY <2>7, <2>8, <2>9 DEF BenchNext
<1> QED BY <1>1, <1>2, PTL DEF BenchSpec, Spec

(* The slots of a client (outstanding_ops, util/Operation.h:68-182), alone *)
(* or with a server: never are more calls under way than it was given      *)
(* slots, whatever throws and releases a slot twice, and the slots account *)
(* for every call under way or lost.                                       *)
THEOREM SlotAccountingCorrect == (Spec \/ BenchSpec) => []SlotAccounting
<1>1. RunnerInv => SlotAccounting
  BY DEF RunnerInv, Slots, SlotAccounting, InUse, Gone, Size, UnderWay, Lost, Live
<1> QED BY <1>1, RunnerHolds, BenchIsRunner, PTL

(* A client that waits in its loop (util/Runner.h:61) has filled every     *)
(* slot but those of streams that ended, however callbacks are nested and  *)
(* wherever a stream throws.                                               *)
THEOREM FullWhenIdleCorrect == (Spec \/ BenchSpec) => []FullWhenIdle
<1>1. RunnerInv => FullWhenIdle
  <2> SUFFICES ASSUME RunnerInv, up, stack = <<>>, Len(calls) < MaxCalls
               PROVE  outstanding_ops + Cardinality(Ended) >= max_outstanding_ops
    BY DEF FullWhenIdle, Ended
  <2>1. AtLoop = 0
    BY DEF AtLoop, Running, InFn
  <2>2. /\ outstanding_ops + Cardinality(Ended) >= max_outstanding_ops - 0
        /\ max_outstanding_ops \in Nat
    BY <2>1, RunnerAssumption DEF RunnerInv, Filled
  <2> QED BY <2>2
<1> QED BY <1>1, RunnerHolds, BenchIsRunner, PTL

(* What a client prints (util/SimpleOps.h:55-83, 240-267): every call that *)
(* ended is counted once under one counter, and so is every exception out  *)
(* of the continuation of a future, in both builds.                        *)
THEOREM CountedOnceCorrect == (Spec \/ BenchSpec) => []CountedOnce
<1>1. CountInv => CountedOnce
  BY DEF CountInv, CountedOnce, Done, Size, Finished
<1> QED BY <1>1, CountHolds, BenchIsRunner, PTL
-----------------------------------------------------------------------------
(* Client and server                                                       *)

Handlers == {"sum", "timeout"} \cup (IF STREAM_PERF_TEST THEN {"upload", "download"} ELSE {})

RequestStates == {"sent", "queued", "running", "expired", "executed", "streaming", "closed"}

(* The client's names of the successes of a handler, and their number.     *)
WinNames(h) ==
  CASE h = "sum"      -> {"sum", "semifuture_sum", "co_sum"}
    [] h = "timeout"  -> {"timeout_success"}
    [] h = "upload"   -> {"download"}
    [] h = "download" -> {"upload"}

Won(h) ==
  CASE h = "sum"      -> stats["sum"] + stats["semifuture_sum"] + stats["co_sum"]
    [] h = "timeout"  -> stats["timeout_success"]
    [] h = "upload"   -> stats["download"]
    [] h = "download" -> stats["upload"]

(* The calls a handler has counted whose answer is on its way.             *)
Answered(h) ==
  {c \in DOMAIN calls : /\ request[c] = "executed"
                        /\ calls[c].op # "STREAM" /\ Handler(calls[c].op) = h}

ServedInv ==
  /\ request \in [1 .. MaxCalls -> RequestStates] /\ served \in [ServerCounters -> Nat]
  /\ Len(calls) <= MaxCalls
  /\ \A c \in 1 .. MaxCalls : c > Len(calls) => request[c] = "sent"
  /\ \A h \in Handlers : Won(h) + Cardinality(Answered(h)) <= served[h]

LEMMA HandlersAre ==
  ASSUME NEW h \in Handlers
  PROVE  /\ h \in {"sum", "timeout", "upload", "download"} /\ h \in ServerCounters
         /\ WinNames(h) \subseteq CallCounters
         /\ {"noop", "timeout", "error", "fatal", "s_download"} \cap WinNames(h) = {}
BY RunnerAssumption DEF Handlers, ServerCounters, WinNames, CallCounters

LEMMA WinsOnce ==
  ASSUME stats \in [Names -> Nat], NEW n, add(n), NEW h \in Handlers
  PROVE  Won(h)' = Won(h) + (IF n \in WinNames(h) THEN 1 ELSE 0) /\ Won(h) \in Nat
<1>1. \A m \in WinNames(h) : /\ stats[m] \in Nat
                             /\ stats'[m] = stats[m] + (IF m = n THEN 1 ELSE 0)
  BY HandlersAre, CountersRegistered DEF add
<1> QED BY <1>1, HandlersAre DEF Won, WinNames

(* A result counts as a success of the call's handler only if it is one.   *)
LEMMA WinIs ==
  ASSUME NEW op \in OP_TYPE \ {"STREAM"}, NEW r \in Results, NEW h \in Handlers
  PROVE  ClassOf(op).counts[r] \in WinNames(h) <=> r = "ok" /\ Handler(op) = h
<1>1. ASSUME NEW name, NEW kind, NEW deadline
      PROVE  /\ Class(name, kind, deadline).counts["ok"] = name
             /\ r # "ok" => Class(name, kind, deadline).counts[r] \in {"timeout", "error", "fatal"}
  BY DEF Class, Results
<1>2. CASE r # "ok"
  <2>1. \E name, kind, deadline : ClassOf(op) = Class(name, kind, deadline)
    BY DEF OP_TYPE, ClassOf, Noop, Sum, Timeout, SemiFutureSum, CoSum, Download, Upload
  <2> QED BY <1>1, <1>2, <2>1, HandlersAre
<1>3. CASE r = "ok"
  <2>1. /\ Noop.counts["ok"] = "noop" /\ Sum.counts["ok"] = "sum"
        /\ Timeout.counts["ok"] = "timeout_success"
        /\ SemiFutureSum.counts["ok"] = "semifuture_sum" /\ CoSum.counts["ok"] = "co_sum"
        /\ Download.counts["ok"] = "download" /\ Upload.counts["ok"] = "upload"
    BY <1>1 DEF Noop, Sum, Timeout, SemiFutureSum, CoSum, Download, Upload
  <2>2. \/ op \in {"NOOP", "NOOP_ONEWAY"} /\ ClassOf(op) = Noop /\ Handler(op) = "noop"
        \/ op = "SUM" /\ ClassOf(op) = Sum /\ Handler(op) = "sum"
        \/ op = "SEMIFUTURE_SUM" /\ ClassOf(op) = SemiFutureSum /\ Handler(op) = "sum"
        \/ op = "CO_SUM" /\ ClassOf(op) = CoSum /\ Handler(op) = "sum"
        \/ op = "TIMEOUT" /\ ClassOf(op) = Timeout /\ Handler(op) = "timeout"
        \/ op = "DOWNLOAD" /\ ClassOf(op) = Download /\ Handler(op) = "upload"
        \/ op = "UPLOAD" /\ ClassOf(op) = Upload /\ Handler(op) = "download"
    BY DEF OP_TYPE, ClassOf, Handler
  <2>3. /\ h = "sum" => WinNames(h) = {"sum", "semifuture_sum", "co_sum"}
        /\ h = "timeout" => WinNames(h) = {"timeout_success"}
        /\ h = "upload" => WinNames(h) = {"download"}
        /\ h = "download" => WinNames(h) = {"upload"}
        /\ h \in {"sum", "timeout", "upload", "download"}
    BY HandlersAre DEF WinNames
  <2> QED BY <1>3, <2>1, <2>2, <2>3
<1> QED BY <1>2, <1>3

LEMMA AnsweredFinite ==
  ASSUME CallsTyped, NEW h
  PROVE  IsFiniteSet(Answered(h)) /\ Cardinality(Answered(h)) \in Nat
<1>1. DOMAIN calls = 1 .. Len(calls) /\ Len(calls) \in Nat
  BY LenProperties DEF CallsTyped
<1>2. IsFiniteSet(DOMAIN calls) /\ Answered(h) \in SUBSET DOMAIN calls
  BY <1>1, FS_Interval DEF Answered
<1> QED BY <1>2, FS_Subset, FS_CardinalityType

LEMMA SetSizes ==
  ASSUME NEW A, IsFiniteSet(A), NEW B
  PROVE  /\ Cardinality(A) \in Nat
         /\ B \subseteq A => Cardinality(B) \in Nat /\ Cardinality(B) <= Cardinality(A)
         /\ \A c : B \subseteq A \cup {c} =>
                   Cardinality(B) \in Nat /\ Cardinality(B) <= Cardinality(A) + 1
         /\ \A c \in A : B \subseteq A \ {c} =>
                   Cardinality(B) \in Nat /\ Cardinality(B) + 1 <= Cardinality(A)
<1>1. Cardinality(A) \in Nat
  BY FS_CardinalityType
<1>2. B \subseteq A => Cardinality(B) \in Nat /\ Cardinality(B) <= Cardinality(A)
  BY FS_Subset, FS_CardinalityType
<1>3. ASSUME NEW c, B \subseteq A \cup {c}
      PROVE  Cardinality(B) \in Nat /\ Cardinality(B) <= Cardinality(A) + 1
  <2>1. /\ IsFiniteSet(A \cup {c})
        /\ Cardinality(A \cup {c}) = IF c \in A THEN Cardinality(A) ELSE Cardinality(A) + 1
    BY FS_AddElement
  <2>2. Cardinality(B) \in Nat /\ Cardinality(B) <= Cardinality(A \cup {c})
    BY <1>3, <2>1, FS_Subset, FS_CardinalityType
  <2>3. Cardinality(A \cup {c}) \in {Cardinality(A), Cardinality(A) + 1}
    BY <2>1
  <2> QED BY <1>1, <2>2, <2>3
<1>4. ASSUME NEW c \in A, B \subseteq A \ {c}
      PROVE  Cardinality(B) \in Nat /\ Cardinality(B) + 1 <= Cardinality(A)
  <2>1. /\ IsFiniteSet(A \ {c})
        /\ Cardinality(A \ {c}) = Cardinality(A) - 1
    BY FS_RemoveElement
  <2>2. Cardinality(B) \in Nat /\ Cardinality(B) <= Cardinality(A \ {c})
    BY <1>4, <2>1, FS_Subset, FS_CardinalityType
  <2> QED BY <1>1, <2>1, <2>2
<1> QED BY <1>1, <1>2, <1>3, <1>4

(* The handler counts before its answer is on its way, and the client      *)
(* counts an answer when it takes it.                                      *)
LEMMA BalanceKept ==
  ASSUME CallsTyped, NEW h, Won(h) \in Nat, served[h] \in Nat,
         Won(h) + Cardinality(Answered(h)) <= served[h],
         \/ Won(h)' = Won(h) /\ Answered(h)' \subseteq Answered(h) /\ served'[h] = served[h]
         \/ /\ Won(h)' = Won(h) /\ served'[h] = served[h] + 1
            /\ \E c : Answered(h)' \subseteq Answered(h) \cup {c}
         \/ /\ Won(h)' = Won(h) + 1 /\ served'[h] = served[h]
            /\ \E c \in Answered(h) : Answered(h)' \subseteq Answered(h) \ {c}
  PROVE  Won(h)' + Cardinality(Answered(h)') <= served'[h]
<1>1. PICK w, w1, A, B :
        /\ w = Won(h) /\ w1 = Won(h)' /\ A = Answered(h) /\ B = Answered(h)'
        /\ IsFiniteSet(A)
  BY AnsweredFinite
<1>2. /\ w \in Nat /\ served[h] \in Nat /\ w + Cardinality(A) <= served[h]
      /\ \/ w1 = w /\ B \subseteq A /\ served'[h] = served[h]
         \/ w1 = w /\ served'[h] = served[h] + 1 /\ \E c : B \subseteq A \cup {c}
         \/ w1 = w + 1 /\ served'[h] = served[h] /\ \E c \in A : B \subseteq A \ {c}
  BY <1>1
<1>3. w1 + Cardinality(B) <= served'[h]
  BY <1>1, <1>2, SetSizes
<1> QED BY <1>1, <1>3

LEMMA ServedHolds ==
  ASSUME RunnerInv, CountInv, ServedInv
  PROVE  /\ CallsTyped /\ DOMAIN calls = 1 .. Len(calls) /\ Len(calls) \in Nat /\ MaxCalls \in Nat
         /\ DOMAIN calls \subseteq 1 .. MaxCalls
         /\ \A c \in DOMAIN calls : calls[c].op \in OP_TYPE
         /\ stats \in [Names -> Nat]
         /\ \A h \in Handlers : Won(h) \in Nat /\ served[h] \in Nat
<1>1. /\ CallsTyped /\ DOMAIN calls = 1 .. Len(calls) /\ Len(calls) \in Nat /\ MaxCalls \in Nat
  BY InvHolds
<1>2. DOMAIN calls \subseteq 1 .. MaxCalls
  BY <1>1 DEF ServedInv
<1>3. \A c \in DOMAIN calls : calls[c].op \in OP_TYPE
  <2>1. \A c \in 1 .. Len(calls) : calls[c] \in [op : OP_TYPE, state : States]
    BY <1>1, ElementOfSeq DEF CallsTyped
  <2> QED BY <1>1, <2>1
<1>4. ASSUME NEW h \in Handlers PROVE Won(h) \in Nat /\ served[h] \in Nat
  <2>1. \A m \in WinNames(h) : stats[m] \in Nat
    BY HandlersAre, CountersRegistered DEF CountInv
  <2>2. Won(h) \in Nat
    BY <2>1, HandlersAre DEF Won, WinNames
  <2> QED BY <2>2, HandlersAre DEF ServedInv
<1> QED BY <1>1, <1>2, <1>3, <1>4 DEF CountInv

(* A step of the server alone: one request changes its state, and only a   *)
(* handler that counts it makes it answered.                               *)
LEMMA ServerStep ==
  ASSUME RunnerInv, CountInv, ServedInv, UNCHANGED vars, NEW c \in DOMAIN calls,
         NEW s \in RequestStates, Becomes(c, s) \/ UNCHANGED request,
         served' \in [ServerCounters -> Nat],
         \A h \in Handlers :
           \/ served'[h] = served[h] /\ (s # "executed" \/ calls[c].op = "STREAM"
                                          \/ Handler(calls[c].op) # h)
           \/ served'[h] = served[h] + 1
  PROVE  ServedInv'
<1>1. /\ request' \in [1 .. MaxCalls -> RequestStates] /\ UNCHANGED calls
      /\ \A d \in 1 .. MaxCalls : request'[d] = request[d] \/ (d = c /\ request'[d] = s)
  BY ServedHolds DEF ServedInv, Becomes, vars
<1>2. \A d \in 1 .. MaxCalls : d > Len(calls) => request'[d] = "sent"
  BY <1>1, ServedHolds DEF ServedInv
<1>3. ASSUME NEW h \in Handlers
      PROVE  Won(h)' + Cardinality(Answered(h)') <= served'[h]
  <2>1. /\ Won(h)' = Won(h) /\ Won(h) \in Nat /\ served[h] \in Nat /\ CallsTyped
        /\ Won(h) + Cardinality(Answered(h)) <= served[h]
    BY ServedHolds DEF Won, vars, ServedInv
  <2>2. CASE served'[h] = served[h] /\ (s # "executed" \/ calls[c].op = "STREAM"
                                          \/ Handler(calls[c].op) # h)
    <3>1. Answered(h)' \subseteq Answered(h)
      BY <1>1, <2>2, ServedHolds DEF Answered
    <3> QED BY <2>1, <2>2, <3>1, BalanceKept
  <2>3. CASE served'[h] = served[h] + 1
    <3>1. Answered(h)' \subseteq Answered(h) \cup {c}
      BY <1>1, <2>3, ServedHolds DEF Answered
    <3>2. \E d : Answered(h)' \subseteq Answered(h) \cup {d}
      BY <3>1
    <3> QED BY <2>1, <2>3, <3>2, BalanceKept
  <2> QED BY <2>2, <2>3
<1> QED BY <1>1, <1>2, <1>3 DEF ServedInv

(* A step of the client: a call is answered only if it was before, and a   *)
(* success is counted only for an answer that is taken.                    *)
LEMMA ClientStep ==
  ASSUME RunnerInv, CountInv, ServedInv, UNCHANGED served,
         Len(calls') <= MaxCalls, request' \in [1 .. MaxCalls -> RequestStates],
         \A c \in 1 .. MaxCalls : c > Len(calls') => request'[c] = "sent",
         \A c \in DOMAIN calls' : request'[c] = "executed" =>
            c \in DOMAIN calls /\ request[c] = "executed" /\ calls'[c].op = calls[c].op,
         \/ UNCHANGED stats
         \/ \E n : /\ add(n)
                   /\ \A h \in Handlers : n \in WinNames(h) =>
                        \E c \in Answered(h) : request'[c] # "executed"
  PROVE  ServedInv'
<1>1. ASSUME NEW h \in Handlers
      PROVE  Won(h)' + Cardinality(Answered(h)') <= served'[h]
  <2>1. /\ Won(h) \in Nat /\ served[h] \in Nat /\ CallsTyped /\ served'[h] = served[h]
        /\ Won(h) + Cardinality(Answered(h)) <= served[h]
    BY ServedHolds DEF ServedInv
  <2>2. Answered(h)' \subseteq Answered(h)
    BY DEF Answered
  <2>3. CASE UNCHANGED stats
    <3>1. Won(h)' = Won(h)
      BY <2>3 DEF Won
    <3> QED BY <2>1, <2>2, <3>1, BalanceKept
  <2>4. ASSUME NEW n, add(n),
               n \in WinNames(h) => \E c \in Answered(h) : request'[c] # "executed"
        PROVE  Won(h)' + Cardinality(Answered(h)') <= served'[h]
    <3>1. Won(h)' = Won(h) + (IF n \in WinNames(h) THEN 1 ELSE 0)
      BY <2>4, ServedHolds, WinsOnce
    <3>2. CASE n \in WinNames(h)
      <4>1. PICK c \in Answered(h) : request'[c] # "executed"
        BY <2>4, <3>2
      <4>2. Answered(h)' \subseteq Answered(h) \ {c}
        BY <2>2, <4>1 DEF Answered
      <4>3. Won(h)' = Won(h) + 1 /\ \E d \in Answered(h) : Answered(h)' \subseteq Answered(h) \ {d}
        BY <3>1, <3>2, <4>1, <4>2
      <4> QED BY <2>1, <4>3, BalanceKept
    <3>3. CASE n \notin WinNames(h)
      <4>1. Won(h)' = Won(h)
        BY <2>1, <3>1, <3>3
      <4> QED BY <2>1, <2>2, <4>1, BalanceKept
    <3> QED BY <3>2, <3>3
  <2> QED BY <2>3, <2>4
<1> QED BY <1>1 DEF ServedInv

(* A call that starts; the request of a call that fails inside async() was *)
(* not written.                                                            *)
LEMMA ClientStarts ==
  ASSUME RunnerInv, CountInv, ServedInv, UNCHANGED served, NEW op \in OP_TYPE, NEW s \in States,
         Len(calls) < MaxCalls, Start(op, s),
         UNCHANGED request \/ Becomes(Len(calls) + 1, "closed"),
         UNCHANGED stats \/ add("noop") \/ add("error") \/ add("fatal")
  PROVE  ServedInv'
<1>1. /\ Len(calls') = Len(calls) + 1 /\ Len(calls) \in Nat /\ MaxCalls \in Nat
      /\ DOMAIN calls = 1 .. Len(calls) /\ DOMAIN calls' = 1 .. Len(calls')
      /\ \A c \in DOMAIN calls : calls'[c] = calls[c]
  BY ServedHolds, CallStarts, LenProperties DEF CallsTyped
<1>2. /\ request' \in [1 .. MaxCalls -> RequestStates]
      /\ \A c \in 1 .. MaxCalls :
           request'[c] = request[c] \/ (c = Len(calls) + 1 /\ request'[c] = "closed")
  BY <1>1 DEF ServedInv, Becomes, RequestStates
<1>3. \A c \in 1 .. MaxCalls : c > Len(calls) => request[c] = "sent"
  BY DEF ServedInv
<1>4. \A c \in 1 .. MaxCalls : c > Len(calls') => request'[c] = "sent"
  BY <1>1, <1>2, <1>3
<1>5. ASSUME NEW c \in DOMAIN calls', request'[c] = "executed"
      PROVE  c \in DOMAIN calls /\ request[c] = "executed" /\ calls'[c].op = calls[c].op
  BY <1>1, <1>2, <1>3, <1>5
<1>6. \A h \in Handlers : \A n \in {"noop", "error", "fatal"} : n \notin WinNames(h)
  BY HandlersAre
<1>7. Len(calls') <= MaxCalls
  BY <1>1
<1> QED BY <1>2, <1>4, <1>5, <1>6, <1>7, ClientStep

(* A call that moves, or none, and a request that is taken, or none.       *)
LEMMA ClientMoves ==
  ASSUME RunnerInv, CountInv, ServedInv, UNCHANGED served,
         UNCHANGED calls \/ \E c \in DOMAIN calls, s \in States : NoteCall(c, s),
         UNCHANGED request \/ \E c \in DOMAIN calls, s \in {"closed", "streaming"} : Becomes(c, s),
         \/ UNCHANGED stats
         \/ \E n : /\ add(n)
                   /\ \A h \in Handlers : n \in WinNames(h) =>
                        \E c \in Answered(h) : request'[c] # "executed"
  PROVE  ServedInv'
<1>1. /\ Len(calls') = Len(calls) /\ DOMAIN calls' = DOMAIN calls
      /\ \A c \in DOMAIN calls : calls'[c].op = calls[c].op
  BY ServedHolds, CallMoves
<1>2. /\ request' \in [1 .. MaxCalls -> RequestStates]
      /\ \A c \in 1 .. MaxCalls :
           request'[c] = request[c] \/ (c \in DOMAIN calls /\ request'[c] # "executed")
  BY DEF ServedInv, Becomes, RequestStates
<1>3. /\ DOMAIN calls = 1 .. Len(calls) /\ Len(calls) \in Nat /\ Len(calls) <= MaxCalls
      /\ DOMAIN calls \subseteq 1 .. MaxCalls
      /\ \A c \in 1 .. MaxCalls : c > Len(calls) => request[c] = "sent"
  BY ServedHolds DEF ServedInv
<1>4. \A c \in 1 .. MaxCalls : c > Len(calls') => request'[c] = "sent"
  BY <1>1, <1>2, <1>3
<1>5. ASSUME NEW c \in DOMAIN calls', request'[c] = "executed"
      PROVE  c \in DOMAIN calls /\ request[c] = "executed" /\ calls'[c].op = calls[c].op
  BY <1>1, <1>2, <1>3, <1>5
<1>6. Len(calls') <= MaxCalls
  BY <1>1, <1>3
<1> QED BY <1>2, <1>4, <1>5, <1>6, ClientStep

LEMMA RequestIs ==
  ASSUME NEW c, NEW s, c \in Request(s)
  PROVE  c \in DOMAIN calls /\ request[c] = s
BY DEF Request

LEMMA ServedByServer ==
  ASSUME RunnerInv, CountInv, ServedInv, NEW c \in DOMAIN calls,
         async_eb(c) \/ Enqueue(c) \/ Worker(c) \/ Expire(c) \/ Method(c) \/ streamDownload(c)
  PROVE  ServedInv'
<1>1. /\ served \in [ServerCounters -> Nat] /\ calls[c].op \in OP_TYPE
      /\ \A h \in Handlers : h \in ServerCounters /\ h # "s_upload"
  BY ServedHolds, HandlersAre DEF ServedInv
<1>2. ASSUME NEW n \in ServerCounters, serve(n)
      PROVE  /\ served' \in [ServerCounters -> Nat]
             /\ \A h \in Handlers : served'[h] = IF h = n THEN served[h] + 1 ELSE served[h]
  BY <1>1, <1>2 DEF serve
<1>3. calls[c].op # "STREAM" => Handler(calls[c].op) \in ServerCounters
  BY <1>1 DEF OP_TYPE, Handler, ServerCounters
<1>4. calls[c].op \in EbOps => calls[c].op # "STREAM"
  BY DEF EbOps
<1>5. CASE async_eb(c)
  <2>1. PICK s \in {"closed", "executed"} : Becomes(c, s)
    BY <1>5 DEF async_eb
  <2>2. /\ UNCHANGED vars /\ serve(Handler(calls[c].op)) /\ s \in RequestStates
        /\ Handler(calls[c].op) \in ServerCounters
    BY <1>3, <1>4, <1>5, <2>1 DEF async_eb, RequestStates
  <2>3. \A h \in Handlers : \/ served'[h] = served[h] /\ Handler(calls[c].op) # h
                            \/ served'[h] = served[h] + 1
    BY <1>2, <2>2
  <2> QED BY <1>2, <2>1, <2>2, <2>3, ServerStep
<1>6. CASE Enqueue(c) \/ Worker(c) \/ Expire(c)
  <2>1. PICK s \in {"queued", "running", "expired"} : Becomes(c, s)
    BY <1>6 DEF Enqueue, Worker, Expire
  <2>2. /\ UNCHANGED vars /\ UNCHANGED served /\ s \in RequestStates /\ s # "executed"
    BY <1>6, <2>1 DEF Enqueue, Worker, Expire, RequestStates
  <2> QED BY <1>1, <2>1, <2>2, ServerStep
<1>7. CASE Method(c)
  <2>1. /\ UNCHANGED vars /\ serve(Handler(calls[c].op)) /\ Becomes(c, "executed")
        /\ "executed" \in RequestStates /\ Handler(calls[c].op) \in ServerCounters
    BY <1>3, <1>7 DEF Method, RequestStates
  <2>2. \A h \in Handlers : \/ served'[h] = served[h] /\ Handler(calls[c].op) # h
                            \/ served'[h] = served[h] + 1
    BY <1>2, <2>1
  <2> QED BY <1>2, <2>1, <2>2, ServerStep
<1>8. CASE streamDownload(c)
  <2>1. /\ UNCHANGED vars /\ calls[c].op = "STREAM" /\ "executed" \in RequestStates
        /\ Becomes(c, "executed") \/ UNCHANGED request
        /\ UNCHANGED served \/ serve("s_upload")
    BY <1>8 DEF streamDownload, RequestStates
  <2>2. /\ served' \in [ServerCounters -> Nat]
        /\ \A h \in Handlers : served'[h] = served[h]
    <3>1. "s_upload" \in ServerCounters
      BY DEF ServerCounters
    <3> QED BY <1>1, <1>2, <2>1, <3>1
  <2> QED BY <2>1, <2>2, ServerStep
<1> QED BY <1>5, <1>6, <1>7, <1>8

LEMMA ServedByRun ==
  ASSUME RunnerInv, CountInv, ServedInv, UNCHANGED served,
         \/ run /\ ~(\E op \in OP_TYPE : StartInline(op)) /\ UNCHANGED request
         \/ \E op \in OP_TYPE : Inline(op)
  PROVE  ServedInv'
<1>1. /\ {"pending", "done", "silent", "dropped", "opening"} \subseteq States
      /\ "STREAM" \in OP_TYPE
  BY DEF States, OP_TYPE
<1>2. ASSUME NEW op \in OP_TYPE, StartCall(op) \/ StartNothing(op), UNCHANGED request
      PROVE  ServedInv'
  <2>1. \E s \in {"pending", "dropped"} : Start(op, s)
    BY <1>2 DEF StartCall, StartNothing
  <2>2. Len(calls) < MaxCalls /\ UNCHANGED stats
    BY <1>2 DEF StartCall, StartNothing, CanStart
  <2> QED BY <1>1, <1>2, <2>1, <2>2, ClientStarts
<1>3. CASE StartStream /\ UNCHANGED request
  <2>1. Start("STREAM", "opening") /\ Len(calls) < MaxCalls /\ UNCHANGED stats
    BY <1>3 DEF StartStream, CanStart
  <2> QED BY <1>1, <1>3, <2>1, ClientStarts
<1>4. CASE RunReturn /\ UNCHANGED request
  <2>1. UNCHANGED <<calls, stats>>
    BY <1>4 DEF RunReturn
  <2> QED BY <1>4, <2>1, ClientMoves
<1>5. ASSUME NEW op \in OP_TYPE, Inline(op) PROVE ServedInv'
  <2>1. /\ \E s \in {"done", "silent"} : Start(op, s)
        /\ UNCHANGED stats \/ add("noop") \/ add("error") \/ add("fatal")
        /\ Len(calls) < MaxCalls
    BY <1>5 DEF Inline, StartInline, CanStart, CoSum, Class
  <2>2. UNCHANGED request \/ Becomes(Len(calls) + 1, "closed")
    BY <1>5 DEF Inline
  <2> QED BY <1>1, <2>1, <2>2, ClientStarts
<1> QED BY <1>2, <1>3, <1>4, <1>5 DEF run

(* What a client counts as a success of a call, it takes from a handler    *)
(* that has counted the call.                                              *)
LEMMA ServedByReply ==
  ASSUME RunnerInv, CountInv, ServedInv, NEW c \in DOMAIN calls, NEW r \in Results, Reply(c, r)
  PROVE  ServedInv'
<1>1. /\ UNCHANGED served /\ c \in In({"pending"}) /\ asyncReceived(c, r)
      /\ UNCHANGED request \/ Becomes(c, "closed")
      /\ r = "ok" => request[c] = "executed" /\ Becomes(c, "closed")
  BY DEF Reply, Heard, Take, Request, replyReceived, Continuation, Pending, Results
<1>2. /\ NoteCall(c, "done") /\ add(ClassOf(calls[c].op).counts[r])
      /\ "done" \in States /\ calls[c].op \in OP_TYPE \ {"STREAM"}
  <2>1. calls[c].op \in Built \ {"STREAM"}
    BY <1>1 DEF CountInv, PendingBuilt
  <2>2. Built \subseteq OP_TYPE
    BY DEF Built
  <2> QED BY <1>1, <2>1, <2>2 DEF asyncReceived, States
<1>3. ASSUME NEW h \in Handlers, ClassOf(calls[c].op).counts[r] \in WinNames(h)
      PROVE  \E d \in Answered(h) : request'[d] # "executed"
  <2>1. r = "ok" /\ Handler(calls[c].op) = h
    BY <1>2, <1>3, WinIs
  <2>2. c \in Answered(h)
    BY <1>1, <1>2, <2>1 DEF Answered
  <2>3. request'[c] = "closed"
    BY <1>1, <2>1, ServedHolds DEF Becomes, ServedInv
  <2> QED BY <2>2, <2>3
<1>4. UNCHANGED request \/ \E d \in DOMAIN calls, s \in {"closed", "streaming"} : Becomes(d, s)
  BY <1>1
<1> DEFINE n == ClassOf(calls[c].op).counts[r]
<1>5. /\ add(n)
      /\ \A h \in Handlers :
           n \in WinNames(h) => \E d \in Answered(h) : request'[d] # "executed"
  BY <1>2, <1>3
<1> HIDE DEF n
<1> QED BY <1>1, <1>2, <1>4, <1>5, ClientMoves

(* The other steps of a client count no success of a call.                 *)
LEMMA ServedByEvent ==
  ASSUME RunnerInv, CountInv, ServedInv,
         \/ \E c \in DOMAIN calls :
              /\ requestSent(c) \/ requestError(c) \/ StreamEnds(c) \/ StreamItem(c)
              /\ UNCHANGED <<request, served>>
         \/ StreamOpened
  PROVE  ServedInv'
<1>1. {"done", "silent", "streaming", "thrown"} \subseteq States
  BY DEF States
<1> DEFINE Failures == {"noop", "timeout", "error", "fatal", "s_download"}
<1>2. \A h \in Handlers, n \in Failures : n \notin WinNames(h)
  BY HandlersAre
<1>3. ASSUME UNCHANGED served,
             UNCHANGED calls \/ \E c \in DOMAIN calls, s \in States : NoteCall(c, s),
             \/ UNCHANGED request
             \/ \E c \in DOMAIN calls, s \in {"closed", "streaming"} : Becomes(c, s),
             UNCHANGED stats \/ \E n \in Failures : add(n)
      PROVE  ServedInv'
  BY <1>2, <1>3, ClientMoves
<1>4. ASSUME NEW c \in DOMAIN calls, UNCHANGED <<request, served>>,
             requestSent(c) \/ requestError(c) \/ StreamEnds(c) \/ StreamItem(c)
      PROVE  ServedInv'
  <2>1. UNCHANGED calls \/ \E s \in States : NoteCall(c, s)
    BY <1>1, <1>4
       DEF requestSent, onewaySent, requestError, asyncErrorReceived, StreamEnds, StreamItem
  <2>2. UNCHANGED stats \/ add("noop") \/ add("error") \/ add("fatal") \/ add("s_download")
    BY <1>4 DEF requestSent, onewaySent, requestError, asyncErrorReceived, StreamEnds, StreamItem
  <2> QED BY <1>3, <1>4, <2>1, <2>2
<1>5. CASE StreamOpened
  <2>1. Top.of \in DOMAIN calls
    BY <1>5, OpenFrame DEF StreamOpened, StreamOpens
  <2>2. /\ NoteCall(Top.of, "streaming") /\ UNCHANGED <<served, stats>>
        /\ Becomes(Top.of, "streaming")
    BY <1>5 DEF StreamOpened, StreamOpens
  <2> QED BY <1>1, <1>3, <2>1, <2>2
<1> QED BY <1>4, <1>5

(* A stream that throws into the continuation of a future counts one more  *)
(* exception.                                                              *)
LEMMA ServedByThrow ==
  ASSUME RunnerInv, CountInv, ServedInv, NEW e \in Exceptions, StreamThrows(e), Heard(Top.of, e)
  PROVE  ServedInv'
<1> DEFINE c == Top.of
           op == calls[stack[Len(stack) - 1].of].op
<1>1. c \in DOMAIN calls
  BY OpenFrame DEF StreamThrows
<1>2. /\ NoteCall(c, "thrown") /\ "thrown" \in States /\ UNCHANGED served
      /\ UNCHANGED request \/ Becomes(c, "closed")
  BY DEF StreamThrows, Heard, Take, States
<1>3. \/ UNCHANGED stats
      \/ op \in FutureOps /\ add(ClassOf(op).counts[e])
  BY DEF StreamThrows
<1> HIDE DEF c, op
<1>4. CASE UNCHANGED stats
  BY <1>1, <1>2, <1>4, ClientMoves
<1>5. CASE op \in FutureOps /\ add(ClassOf(op).counts[e])
  <2>1. op \in OP_TYPE \ {"STREAM"} /\ e \in Results /\ e # "ok"
    BY <1>5, FutureBuilt DEF Built, Exceptions
  <2>2. \A h \in Handlers : ClassOf(op).counts[e] \notin WinNames(h)
    BY <2>1, WinIs
  <2>3. \E n : add(n) /\ \A h \in Handlers : n \notin WinNames(h)
    BY <1>5, <2>2
  <2>4. \E n : /\ add(n)
               /\ \A h \in Handlers : n \in WinNames(h) =>
                    \E d \in Answered(h) : request'[d] # "executed"
    BY <2>3
  <2> QED BY <1>1, <1>2, <2>4, ClientMoves
<1> QED BY <1>3, <1>4, <1>5

LEMMA ServedInit ==
  ASSUME BenchInit
  PROVE  ServedInv
<1>1. /\ calls = <<>> /\ stats = [n \in Names |-> 0]
      /\ request = [c \in 1 .. MaxCalls |-> "sent"]
      /\ served = [n \in ServerCounters |-> 0]
  BY DEF BenchInit, Init, Names
<1>2. Len(calls) = 0 /\ DOMAIN calls = {} /\ MaxCalls \in Nat
  BY <1>1, RunnerAssumption
<1>3. ASSUME NEW h \in Handlers PROVE Won(h) + Cardinality(Answered(h)) <= served[h]
  <2>1. \A n \in WinNames(h) : stats[n] = 0
    BY <1>1, HandlersAre, CountersRegistered
  <2>2. Won(h) = 0
    BY <2>1, HandlersAre DEF Won, WinNames
  <2>3. Answered(h) = {} /\ Cardinality(Answered(h)) = 0
    BY <1>2, FS_EmptySet DEF Answered
  <2>4. served[h] = 0
    BY <1>1, HandlersAre
  <2> QED BY <2>2, <2>3, <2>4
<1> QED BY <1>1, <1>2, <1>3 DEF ServedInv, RequestStates

(* The invariants of the composition.                                      *)
LEMMA BenchHolds == BenchSpec => [](RunnerInv /\ CountInv /\ ServedInv)
<1>1. RunnerInv /\ CountInv /\ ServedInv /\ [BenchNext]_benchVars => ServedInv'
  <2> SUFFICES ASSUME RunnerInv, CountInv, ServedInv, [BenchNext]_benchVars PROVE ServedInv'
    OBVIOUS
  <2>1. CASE Progress
    <3>1. CASE run /\ ~(\E op \in OP_TYPE : StartInline(op)) /\ UNCHANGED serverVars
      BY <3>1, ServedByRun DEF serverVars
    <3>2. CASE StreamOpened
      BY <3>2, ServedByEvent
    <3>3. ASSUME NEW c \in DOMAIN calls,
                 async_eb(c) \/ Enqueue(c) \/ Worker(c) \/ Method(c) \/ streamDownload(c)
          PROVE  ServedInv'
      BY <3>3, ServedByServer
    <3>4. ASSUME NEW c \in DOMAIN calls, (requestSent(c) /\ UNCHANGED serverVars) \/ StreamChunk(c)
          PROVE  ServedInv'
      <4>1. UNCHANGED <<request, served>> /\ (requestSent(c) \/ StreamItem(c))
        BY <3>4 DEF serverVars, StreamChunk
      <4>2. requestSent(c) \/ requestError(c) \/ StreamEnds(c) \/ StreamItem(c)
        BY <4>1
      <4> QED BY <4>1, <4>2, ServedByEvent
    <3>5. ASSUME NEW c \in DOMAIN calls, Reply(c, "ok") \/ Reply(c, "expired")
          PROVE  ServedInv'
      BY <3>5, ServedByReply DEF Results
    <3> QED BY <2>1, <3>1, <3>2, <3>3, <3>4, <3>5 DEF Progress
  <2>2. CASE Mishap
    <3>1. ASSUME NEW op \in OP_TYPE, Inline(op) PROVE ServedInv'
      BY <3>1, ServedByRun DEF Inline
    <3>2. ASSUME NEW c \in DOMAIN calls, Expire(c) PROVE ServedInv'
      BY <3>2, ServedByServer
    <3>3. ASSUME NEW c \in DOMAIN calls, requestError(c) \/ StreamEnds(c), UNCHANGED serverVars
          PROVE  ServedInv'
      BY <3>3, ServedByEvent DEF serverVars
    <3>4. ASSUME NEW c \in DOMAIN calls, Reply(c, "expired") \/ Reply(c, "refused") \/ Reply(c, "broken")
          PROVE  ServedInv'
      BY <3>4, ServedByReply DEF Results
    <3>5. ASSUME NEW e \in Exceptions, StreamThrows(e), Heard(Top.of, e) PROVE ServedInv'
      BY <3>5, ServedByThrow
    <3> QED BY <2>2, <3>1, <3>2, <3>3, <3>4, <3>5 DEF Mishap
  <2>3. CASE UNCHANGED benchVars
    BY <2>3, ClientMoves DEF benchVars, vars, serverVars
  <2> QED BY <2>1, <2>2, <2>3 DEF BenchNext
<1> QED BY <1>1, ServedInit, RunnerHolds, CountHolds, BenchIsRunner, PTL DEF BenchSpec

(* What the client counts as a success of a call, the server has counted   *)
(* before, whatever expires, is refused or is given up, in both builds.    *)
LEMMA CallsServedHolds == BenchSpec => []CallsServed
<1>1. RunnerInv /\ CountInv /\ ServedInv => CallsServed
  <2> SUFFICES ASSUME RunnerInv, CountInv, ServedInv PROVE CallsServed
    OBVIOUS
  <2>1. \A h \in Handlers : Won(h) <= served[h]
    <3>1. ASSUME NEW h \in Handlers PROVE Won(h) <= served[h]
      <4>1. /\ Won(h) \in Nat /\ served[h] \in Nat /\ Cardinality(Answered(h)) \in Nat
            /\ Won(h) + Cardinality(Answered(h)) <= served[h]
        BY ServedHolds, AnsweredFinite DEF ServedInv
      <4> QED BY <4>1
    <3> QED BY <3>1
  <2> QED BY <2>1, RunnerAssumption DEF Handlers, Won, CallsServed
<1> QED BY <1>1, BenchHolds, PTL
-----------------------------------------------------------------------------
(* Chunks                                                                  *)

Begun == {c \in 1 .. MaxCalls : yielded[c] > 0}

(* Only streams hand out chunks; the handler has counted every chunk but   *)
(* the last one of each stream, and the client at most those handed out.   *)
ChunksInv ==
  /\ yielded \in [1 .. MaxCalls -> 0 .. MaxItems]
  /\ \A c \in Begun : c \in DOMAIN calls /\ calls[c].op = "STREAM"
  /\ served["s_upload"] + Cardinality(Begun) = Cardinality(HandedOut)
  /\ STREAM_PERF_TEST => stats["s_download"] <= Cardinality(HandedOut)

LEMMA ChunkSets ==
  ASSUME RunnerInv, ChunksInv
  PROVE  /\ IsFiniteSet(Begun) /\ Cardinality(Begun) \in Nat
         /\ IsFiniteSet(HandedOut) /\ Cardinality(HandedOut) \in Nat
<1>1. MaxCalls \in Nat /\ MaxItems \in Nat
  BY RunnerAssumption
<1>2. IsFiniteSet(1 .. MaxCalls) /\ IsFiniteSet(1 .. MaxItems)
  BY <1>1, FS_Interval
<1>3. IsFiniteSet((1 .. MaxCalls) \X (1 .. MaxItems))
  BY <1>2, FS_Product
<1>4. Begun \subseteq 1 .. MaxCalls /\ HandedOut \subseteq (1 .. MaxCalls) \X (1 .. MaxItems)
  BY DEF Begun, HandedOut, ChunksInv
<1> QED BY <1>2, <1>3, <1>4, FS_Subset, FS_CardinalityType

(* Names of counters that are not the one of chunks.                       *)
LEMMA ChunkCounter ==
  ASSUME CountInv, STREAM_PERF_TEST
  PROVE  /\ stats["s_download"] \in Nat
         /\ \A n : add(n) => stats'["s_download"] = stats["s_download"]
                               + (IF n = "s_download" THEN 1 ELSE 0)
<1>1. stats \in [Names -> Nat] /\ "s_download" \in Names
  BY CountersRegistered DEF CountInv
<1> QED BY <1>1 DEF add

(* A step that hands out no chunk.                                         *)
LEMMA ChunksSame ==
  ASSUME RunnerInv, CountInv, ChunksInv, UNCHANGED yielded,
         served'["s_upload"] = served["s_upload"],
         \A c \in DOMAIN calls : c \in DOMAIN calls' /\ calls'[c].op = calls[c].op,
         \/ UNCHANGED stats
         \/ \E n : /\ add(n)
                   /\ n = "s_download" => stats["s_download"] < Cardinality(HandedOut)
  PROVE  ChunksInv'
<1>1. HandedOut' = HandedOut /\ Begun' = Begun
  BY DEF HandedOut, Begun
<1>2. STREAM_PERF_TEST => stats'["s_download"] <= Cardinality(HandedOut)
  <2> SUFFICES ASSUME STREAM_PERF_TEST PROVE stats'["s_download"] <= Cardinality(HandedOut)
    OBVIOUS
  <2>1. stats["s_download"] \in Nat /\ stats["s_download"] <= Cardinality(HandedOut)
    BY ChunkCounter DEF ChunksInv
  <2>2. CASE UNCHANGED stats
    BY <2>1, <2>2
  <2>3. ASSUME NEW n, add(n), n = "s_download" => stats["s_download"] < Cardinality(HandedOut)
        PROVE  stats'["s_download"] <= Cardinality(HandedOut)
    <3>1. stats'["s_download"] = stats["s_download"] + (IF n = "s_download" THEN 1 ELSE 0)
      BY <2>3, ChunkCounter
    <3> QED BY <2>1, <2>3, <3>1, ChunkSets
  <2> QED BY <2>2, <2>3
<1> QED BY <1>1, <1>2 DEF ChunksInv

(* A generator is resumed: it counts its last chunk and hands out the next. *)
LEMMA ChunkHandedOut ==
  ASSUME RunnerInv, CountInv, ServedInv, ChunksInv, NEW c \in DOMAIN calls,
         calls[c].op = "STREAM", yielded[c] < MaxItems,
         yielded' = [yielded EXCEPT ![c] = @ + 1],
         IF yielded[c] > 0 THEN serve("s_upload") ELSE UNCHANGED served,
         UNCHANGED vars
  PROVE  ChunksInv'
<1> DEFINE new == <<c, yielded[c] + 1>>
<1>1. /\ c \in 1 .. MaxCalls /\ MaxItems \in Nat /\ yielded[c] \in Nat
      /\ "s_upload" \in ServerCounters /\ served["s_upload"] \in Nat
  BY ServedHolds, RunnerAssumption DEF ChunksInv, ServedInv, ServerCounters
<1>2. /\ yielded' \in [1 .. MaxCalls -> 0 .. MaxItems] /\ yielded'[c] = yielded[c] + 1
      /\ \A d \in 1 .. MaxCalls : d # c => yielded'[d] = yielded[d]
  BY <1>1 DEF ChunksInv
<1>3. new \notin HandedOut
  BY <1>1 DEF HandedOut
<1>4. HandedOut' = HandedOut \cup {new}
  <2>1. DOMAIN yielded = 1 .. MaxCalls /\ DOMAIN yielded' = 1 .. MaxCalls
    BY <1>2 DEF ChunksInv
  <2>2. ASSUME NEW d \in 1 .. MaxCalls, NEW i \in 1 .. MaxItems
        PROVE  <<d, i>> \in HandedOut' <=> <<d, i>> \in HandedOut \cup {new}
    <3>1. yielded[d] \in Nat /\ yielded'[d] \in Nat
      BY <1>2 DEF ChunksInv
    <3>2. <<d, i>> \in HandedOut <=> i <= yielded[d]
      BY <2>1 DEF HandedOut
    <3>3. <<d, i>> \in HandedOut' <=> i <= yielded'[d]
      BY <2>1 DEF HandedOut
    <3>4. <<d, i>> = new <=> d = c /\ i = yielded[c] + 1
      OBVIOUS
    <3>5. CASE d = c
      BY <1>1, <1>2, <3>1, <3>2, <3>3, <3>4, <3>5
    <3>6. CASE d # c
      BY <1>2, <3>2, <3>3, <3>4, <3>6
    <3> QED BY <3>5, <3>6
  <2>3. /\ HandedOut \subseteq (1 .. MaxCalls) \X (1 .. MaxItems)
        /\ HandedOut' \subseteq (1 .. MaxCalls) \X (1 .. MaxItems)
        /\ new \in (1 .. MaxCalls) \X (1 .. MaxItems)
    BY <1>1, <2>1 DEF HandedOut
  <2> QED BY <2>2, <2>3
<1>5. Cardinality(HandedOut') = Cardinality(HandedOut) + 1
  BY <1>3, <1>4, ChunkSets, FS_AddElement
<1>6. Begun' = Begun \cup {c}
  BY <1>1, <1>2 DEF Begun, ChunksInv
<1>7. served'["s_upload"] + Cardinality(Begun') = served["s_upload"] + Cardinality(Begun) + 1
  <2>1. CASE yielded[c] > 0
    <3>1. Begun' = Begun
      BY <1>1, <1>6, <2>1 DEF Begun
    <3>2. served'["s_upload"] = served["s_upload"] + 1
      BY <1>1, <2>1 DEF serve, ServedInv
    <3> QED BY <1>1, <3>1, <3>2, ChunkSets
  <2>2. CASE ~(yielded[c] > 0)
    <3>1. c \notin Begun
      BY <2>2 DEF Begun
    <3>2. Cardinality(Begun') = Cardinality(Begun) + 1
      BY <1>6, <3>1, ChunkSets, FS_AddElement
    <3> QED BY <1>1, <2>2, <3>2, ChunkSets
  <2> QED BY <2>1, <2>2
<1>8. \A d \in Begun' : d \in DOMAIN calls' /\ calls'[d].op = "STREAM"
  BY <1>6 DEF ChunksInv, vars
<1>9. STREAM_PERF_TEST => stats'["s_download"] <= Cardinality(HandedOut')
  <2> SUFFICES ASSUME STREAM_PERF_TEST PROVE stats'["s_download"] <= Cardinality(HandedOut')
    OBVIOUS
  <2>1. stats' = stats /\ stats["s_download"] \in Nat
    BY ChunkCounter DEF vars
  <2> QED BY <1>5, <2>1, ChunkSets DEF ChunksInv
<1> QED BY <1>2, <1>5, <1>7, <1>8, <1>9, ChunkSets DEF ChunksInv

(* The steps of a client that take no chunk.                               *)
LEMMA ChunksByClient ==
  ASSUME RunnerInv, CountInv, ChunksInv, UNCHANGED <<served, yielded>>,
         \/ UNCHANGED calls
         \/ \E op \in OP_TYPE, s \in States : Start(op, s)
         \/ \E c \in DOMAIN calls, s \in States : NoteCall(c, s),
         UNCHANGED stats \/ \E n \in CallCounters : add(n)
  PROVE  ChunksInv'
<1>1. \A c \in DOMAIN calls : c \in DOMAIN calls' /\ calls'[c].op = calls[c].op
  BY InvHolds, CallStarts, CallMoves
<1>2. "s_download" \notin CallCounters
  BY DEF CallCounters
<1>3. UNCHANGED stats \/ \E n : add(n) /\ n # "s_download"
  BY <1>2
<1> QED BY <1>1, <1>3, ChunksSame

LEMMA ChunksByRun ==
  ASSUME RunnerInv, CountInv, ChunksInv, UNCHANGED <<served, yielded>>, run
  PROVE  ChunksInv'
<1>1. /\ {"pending", "done", "silent", "dropped", "opening"} \subseteq States
      /\ "STREAM" \in OP_TYPE /\ {"noop", "error", "fatal"} \subseteq CallCounters
  BY DEF States, OP_TYPE, CallCounters
<1>2. UNCHANGED calls \/ \E op \in OP_TYPE, s \in States : Start(op, s)
  BY <1>1 DEF run, StartCall, StartInline, StartNothing, StartStream, RunReturn
<1>3. UNCHANGED stats \/ add("noop") \/ add("error") \/ add("fatal")
  BY DEF run, StartCall, StartInline, StartNothing, StartStream, RunReturn, CoSum, Class
<1> QED BY <1>1, <1>2, <1>3, ChunksByClient

LEMMA ChunksByReply ==
  ASSUME RunnerInv, CountInv, ChunksInv, NEW c \in DOMAIN calls, NEW r \in Results, Reply(c, r)
  PROVE  ChunksInv'
<1>1. /\ UNCHANGED <<served, yielded>> /\ c \in In({"pending"}) /\ NoteCall(c, "done")
      /\ add(ClassOf(calls[c].op).counts[r]) /\ "done" \in States
  BY DEF Reply, Heard, replyReceived, Continuation, Pending, asyncReceived, States
<1>2. ClassOf(calls[c].op).counts[r] \in CallCounters
  BY <1>1, ResultCounted DEF CountInv, PendingBuilt
<1> QED BY <1>1, <1>2, ChunksByClient

LEMMA ChunksByEvent ==
  ASSUME RunnerInv, CountInv, ChunksInv, UNCHANGED <<served, yielded>>,
         \/ \E c \in DOMAIN calls : requestSent(c) \/ requestError(c) \/ StreamEnds(c)
         \/ StreamOpens
  PROVE  ChunksInv'
<1>1. /\ {"done", "silent", "streaming"} \subseteq States
      /\ {"noop", "error", "fatal"} \subseteq CallCounters
  BY DEF States, CallCounters
<1>2. \E c \in DOMAIN calls, s \in States : NoteCall(c, s)
  <2>1. StreamOpens => Top.of \in DOMAIN calls
    BY OpenFrame DEF StreamOpens
  <2> QED BY <1>1, <2>1
        DEF requestSent, onewaySent, requestError, asyncErrorReceived, StreamEnds, StreamOpens
<1>3. UNCHANGED stats \/ add("noop") \/ add("error") \/ add("fatal")
  BY DEF requestSent, onewaySent, requestError, asyncErrorReceived, StreamEnds, StreamOpens
<1> QED BY <1>1, <1>2, <1>3, ChunksByClient

LEMMA ChunksByThrow ==
  ASSUME RunnerInv, CountInv, ChunksInv, UNCHANGED <<served, yielded>>,
         NEW e \in Exceptions, StreamThrows(e)
  PROVE  ChunksInv'
<1> DEFINE op == calls[stack[Len(stack) - 1].of].op
<1>1. Top.of \in DOMAIN calls /\ NoteCall(Top.of, "thrown") /\ "thrown" \in States
  BY OpenFrame DEF StreamThrows, States
<1>2. UNCHANGED stats \/ (op \in FutureOps /\ add(ClassOf(op).counts[e]))
  BY DEF StreamThrows
<1>3. e \in Results
  BY DEF Exceptions
<1> HIDE DEF op
<1>4. op \in FutureOps => ClassOf(op).counts[e] \in CallCounters
  BY <1>3, FutureBuilt, ResultCounted
<1> QED BY <1>1, <1>2, <1>4, ChunksByClient

(* What the client counts as a success of a call, and every chunk it       *)
(* counts, the server has counted before, under its own name for it        *)
(* (server/BenchmarkHandler.h:56-98), but for the last chunk of each       *)
(* stream, which its generator counts when it is resumed.                  *)
THEOREM SuccessesServedCorrect == BenchSpec => []SuccessesServed
<1>1. RunnerInv /\ CountInv /\ ServedInv /\ ChunksInv /\ [BenchNext]_benchVars => ChunksInv'
  <2> SUFFICES ASSUME RunnerInv, CountInv, ServedInv, ChunksInv, [BenchNext]_benchVars
               PROVE  ChunksInv'
    OBVIOUS
  <2>1. ASSUME NEW c \in DOMAIN calls, UNCHANGED <<vars, yielded>>,
               \/ UNCHANGED served
               \/ calls[c].op # "STREAM" /\ serve(Handler(calls[c].op))
        PROVE  ChunksInv'
    <3>1. calls[c].op # "STREAM" => Handler(calls[c].op) # "s_upload"
      BY ServedHolds DEF OP_TYPE, Handler
    <3>2. served'["s_upload"] = served["s_upload"]
      <4>1. "s_upload" \in DOMAIN served
        BY DEF ServedInv, ServerCounters
      <4>2. ASSUME NEW n, n # "s_upload", serve(n) PROVE served'["s_upload"] = served["s_upload"]
        BY <4>1, <4>2 DEF serve
      <4> QED BY <2>1, <3>1, <4>2
    <3> QED BY <2>1, <3>2, ChunksSame DEF vars
  <2>2. ASSUME NEW c \in DOMAIN calls,
               async_eb(c) \/ Enqueue(c) \/ Worker(c) \/ Expire(c) \/ Method(c)
        PROVE  ChunksInv'
    <3>1. calls[c].op \in EbOps => calls[c].op # "STREAM"
      BY DEF EbOps
    <3>2. /\ UNCHANGED <<vars, yielded>>
          /\ UNCHANGED served \/ (calls[c].op # "STREAM" /\ serve(Handler(calls[c].op)))
      BY <2>2, <3>1 DEF async_eb, Enqueue, Worker, Expire, Method
    <3> QED BY <2>1, <3>2
  <2>3. ASSUME NEW c \in DOMAIN calls, streamDownload(c) PROVE ChunksInv'
    <3>1. CASE UNCHANGED <<served, yielded>>
      BY <2>1, <2>3, <3>1 DEF streamDownload
    <3>2. CASE yielded' = [yielded EXCEPT ![c] = @ + 1]
               /\ yielded[c] < MaxItems
               /\ IF yielded[c] > 0 THEN serve("s_upload") ELSE UNCHANGED served
      BY <2>3, <3>2, ChunkHandedOut DEF streamDownload
    <3> QED BY <2>3, <3>1, <3>2 DEF streamDownload
  <2>4. ASSUME NEW c \in DOMAIN calls, StreamChunk(c) PROVE ChunksInv'
    <3>1. /\ UNCHANGED <<calls, served, yielded>> /\ add("s_download")
          /\ stats["s_download"] < Cardinality(HandedOut)
      BY <2>4 DEF StreamChunk, StreamItem, serverVars
    <3>2. \E n : add(n) /\ (n = "s_download" => stats["s_download"] < Cardinality(HandedOut))
      BY <3>1
    <3> QED BY <3>1, <3>2, ChunksSame
  <2>5. CASE Progress
    <3>1. CASE run /\ UNCHANGED serverVars
      BY <3>1, ChunksByRun DEF serverVars
    <3>2. CASE StreamOpened
      BY <3>2, ChunksByEvent DEF StreamOpened
    <3>3. ASSUME NEW c \in DOMAIN calls, requestSent(c), UNCHANGED serverVars PROVE ChunksInv'
      BY <3>3, ChunksByEvent DEF serverVars
    <3>4. ASSUME NEW c \in DOMAIN calls, Reply(c, "ok") \/ Reply(c, "expired") PROVE ChunksInv'
      BY <3>4, ChunksByReply DEF Results
    <3> QED BY <2>2, <2>3, <2>4, <2>5, <3>1, <3>2, <3>3, <3>4 DEF Progress
  <2>6. CASE Mishap
    <3>1. ASSUME NEW op \in OP_TYPE, Inline(op) PROVE ChunksInv'
      BY <3>1, ChunksByRun DEF Inline, run
    <3>2. ASSUME NEW c \in DOMAIN calls, requestError(c) \/ StreamEnds(c), UNCHANGED serverVars
          PROVE  ChunksInv'
      BY <3>2, ChunksByEvent DEF serverVars
    <3>3. ASSUME NEW c \in DOMAIN calls, Reply(c, "expired") \/ Reply(c, "refused") \/ Reply(c, "broken")
          PROVE  ChunksInv'
      BY <3>3, ChunksByReply DEF Results
    <3>4. ASSUME NEW e \in Exceptions, StreamThrows(e), Heard(Top.of, e) PROVE ChunksInv'
      BY <3>4, ChunksByThrow DEF Heard
    <3> QED BY <2>2, <2>6, <3>1, <3>2, <3>3, <3>4 DEF Mishap
  <2>7. CASE UNCHANGED benchVars
    BY <2>7, ChunksByClient DEF benchVars, vars, serverVars
  <2> QED BY <2>5, <2>6, <2>7 DEF BenchNext
<1>2. BenchInit => ChunksInv
  <2> SUFFICES ASSUME BenchInit PROVE ChunksInv
    OBVIOUS
  <2>1. /\ yielded = [c \in 1 .. MaxCalls |-> 0] /\ served = [n \in ServerCounters |-> 0]
        /\ stats = [n \in Names |-> 0] /\ MaxItems \in Nat
    BY RunnerAssumption DEF BenchInit, Init, Names
  <2>2. HandedOut = {} /\ Begun = {}
    BY <2>1 DEF HandedOut, Begun
  <2>3. served["s_upload"] = 0 /\ (STREAM_PERF_TEST => stats["s_download"] = 0)
    BY <2>1, CountersRegistered DEF ServerCounters
  <2> QED BY <2>1, <2>2, <2>3, FS_EmptySet DEF ChunksInv
<1>3. RunnerInv /\ CountInv /\ ServedInv /\ ChunksInv => ChunksServed
  <2> SUFFICES ASSUME RunnerInv, CountInv, ServedInv, ChunksInv, STREAM_PERF_TEST
               PROVE  stats["s_download"] <= served["s_upload"]
                        + Cardinality({c \in Of("stream") : yielded[c] > 0})
    BY DEF ChunksServed
  <2>1. ClassOf("STREAM").kind = "stream"
    BY DEF ClassOf, StreamDownload
  <2>2. Begun = {c \in Of("stream") : yielded[c] > 0}
    <3>1. \A c \in Begun : c \in Of("stream")
      BY <2>1 DEF ChunksInv, Of
    <3>2. DOMAIN calls \subseteq 1 .. MaxCalls
      BY ServedHolds
    <3> QED BY <3>1, <3>2 DEF Begun, Of
  <2> QED BY <2>2 DEF ChunksInv
<1> QED BY <1>1, <1>2, <1>3, BenchHolds, CallsServedHolds, PTL DEF BenchSpec, SuccessesServed
=============================================================================
