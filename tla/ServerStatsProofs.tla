------------------------- MODULE ServerStatsProofs -------------------------
(***************************************************************************)
(* Proofs about ServerStats for every number of threads, rows, buffers and *)
(* calls.                                                                  *)
(***************************************************************************)
EXTENDS ServerStats, FiniteSetTheorems, SequenceTheorems, TLAPS

-----------------------------------------------------------------------------
(* The calls in flight are finitely many threads.                          *)
LEMMA InFlightFinite ==
  /\ IsFiniteSet(InFlight)
  /\ Cardinality(InFlight) \in Nat
  /\ \A t \in InFlight : Cardinality(InFlight) >= 1
<1>1. InFlight \subseteq Threads
  BY DEF InFlight
<1>2. IsFiniteSet(InFlight)
  BY <1>1, FS_Subset, ThreadsAssumption
<1>3. Cardinality(InFlight) \in Nat
  BY <1>2, FS_CardinalityType
<1>4. ASSUME NEW t \in InFlight PROVE Cardinality(InFlight) >= 1
  <2>1. Cardinality(InFlight) # 0
    BY <1>2, FS_EmptySet
  <2> QED BY <2>1, <1>3
<1> QED BY <1>2, <1>3, <1>4

(* Beginning a call adds its thread to the calls in flight, counting its   *)
(* row removes it, and no other move of a program counter changes them.    *)
LEMMA InFlightMoves ==
  ASSUME NEW t \in Threads, \A u \in Threads \ {t} : pc'[u] = pc[u]
  PROVE  /\ pc[t] = "idle" /\ pc'[t] \notin {"idle", "unlock"} =>
              Cardinality(InFlight') = Cardinality(InFlight) + 1
         /\ pc[t] \notin {"idle", "unlock"} /\ pc'[t] = "unlock" =>
              Cardinality(InFlight') = Cardinality(InFlight) - 1
         /\ (pc[t] \in {"idle", "unlock"} <=> pc'[t] \in {"idle", "unlock"}) =>
              InFlight' = InFlight
<1>1. ASSUME pc[t] = "idle", pc'[t] \notin {"idle", "unlock"}
      PROVE  Cardinality(InFlight') = Cardinality(InFlight) + 1
  <2>1. InFlight' = InFlight \cup {t} /\ t \notin InFlight
    BY <1>1 DEF InFlight
  <2> QED BY <2>1, InFlightFinite, FS_AddElement
<1>2. ASSUME pc[t] \notin {"idle", "unlock"}, pc'[t] = "unlock"
      PROVE  Cardinality(InFlight') = Cardinality(InFlight) - 1
  <2>1. InFlight' = InFlight \ {t} /\ t \in InFlight
    BY <1>2 DEF InFlight
  <2> QED BY <2>1, InFlightFinite, FS_RemoveElement
<1>3. ASSUME pc[t] \in {"idle", "unlock"} <=> pc'[t] \in {"idle", "unlock"}
      PROVE  InFlight' = InFlight
  BY <1>3 DEF InFlight
<1> QED BY <1>1, <1>2, <1>3

-----------------------------------------------------------------------------
(* A store of a word of a row keeps the buffers well typed.                *)
LEMMA StoreWordType ==
  ASSUME TypeOK, NEW t \in Threads, NEW field \in {"id", "time"},
         StoreWord(field, t)
  PROVE  /\ data_buffers' \in [Buffers -> [Rows -> Row]]
         /\ process' \in {"up", "stopping", "dumping", "freed", "exited", "crashed"}
         /\ oob' \in BOOLEAN
<1> DEFINE b == buffer[t]
           k == register[t]
<1>1. CASE process # "freed" /\ k \in Rows
  <2>1. PICK rows \in [Rows -> Row] : rows = data_buffers[b]
    BY DEF TypeOK
  <2>2. [rows[k] EXCEPT ![field] = call[t]] \in Row
    BY <1>1, <2>1 DEF TypeOK, Row
  <2>3. data_buffers' = [data_buffers EXCEPT ![b] =
           [rows EXCEPT ![k] = [rows[k] EXCEPT ![field] = call[t]]]]
    BY <1>1, <2>1 DEF StoreWord, TypeOK
  <2>4. data_buffers' \in [Buffers -> [Rows -> Row]]
    BY <2>2, <2>3, <1>1 DEF TypeOK
  <2>5. process' = process /\ oob' = oob
    BY <1>1 DEF StoreWord
  <2> QED BY <2>4, <2>5 DEF TypeOK
<1>2. CASE ~(process # "freed" /\ k \in Rows)
  <2>1. data_buffers' = data_buffers /\ (oob' = TRUE \/ oob' = oob)
    BY <1>2 DEF StoreWord
  <2>2. process' \in {process, "freed", "exited", "crashed"}
    BY <1>2 DEF StoreWord
  <2> QED BY <2>1, <2>2 DEF TypeOK
<1> QED BY <1>1, <1>2

(* A store through a buffer and a cursor that are still those of the       *)
(* manager changes that word of the row at the cursor and nothing else.    *)
LEMMA StoreWordAtCursor ==
  ASSUME TypeOK, entry_cursor \in Rows,
         NEW t \in Threads, NEW field \in {"id", "time"}, StoreWord(field, t),
         buffer[t] = active_buffer, register[t] = entry_cursor
  PROVE  /\ oob' = oob
         /\ process' = process \/ (process = "freed" /\ process' = "exited")
         /\ process # "freed" =>
              /\ \A b \in Buffers \ {active_buffer} : data_buffers'[b] = data_buffers[b]
              /\ \A r \in Rows \ {entry_cursor} :
                   data_buffers'[active_buffer][r] = data_buffers[active_buffer][r]
              /\ data_buffers'[active_buffer][entry_cursor] =
                   [data_buffers[active_buffer][entry_cursor] EXCEPT ![field] = call[t]]
<1>1. register[t] \in Rows
  OBVIOUS
<1>2. oob' = oob
  BY <1>1, Zenon DEF StoreWord
<1>4. process' = process \/ (process = "freed" /\ process' = "exited")
  <2>1. CASE process # "freed"
    BY <1>1, <2>1, Zenon DEF StoreWord
  <2>2. CASE process = "freed"
    <3>1. process' \in {"freed", "exited"}
      BY <2>2, Zenon DEF StoreWord
    <3> QED BY <3>1, <2>2
  <2> QED BY <2>1, <2>2
<1>3. ASSUME process # "freed"
      PROVE  /\ \A b \in Buffers \ {active_buffer} : data_buffers'[b] = data_buffers[b]
             /\ \A r \in Rows \ {entry_cursor} :
                   data_buffers'[active_buffer][r] = data_buffers[active_buffer][r]
             /\ data_buffers'[active_buffer][entry_cursor] =
                  [data_buffers[active_buffer][entry_cursor] EXCEPT ![field] = call[t]]
  <2>1. data_buffers \in [Buffers -> [Rows -> Row]] /\ active_buffer \in Buffers
    BY DEF TypeOK
  <2>2. PICK rows \in [Rows -> Row] : rows = data_buffers[active_buffer]
    BY <2>1
  <2>3. data_buffers' = [data_buffers EXCEPT ![active_buffer] =
           [rows EXCEPT ![entry_cursor] = [rows[entry_cursor] EXCEPT ![field] = call[t]]]]
    BY <1>3, <2>1, <2>2 DEF StoreWord
  <2> QED BY <2>1, <2>2, <2>3
<1> QED BY <1>2, <1>3, <1>4

(* The part of the inductive invariant that holds however often the        *)
(* buffers wrap.                                                           *)
BaseInv == TypeOK /\ MutualExclusion /\ CountInv

LEMMA BaseInit == Init => BaseInv
<1> SUFFICES ASSUME Init PROVE BaseInv
  OBVIOUS
<1>1. TypeOK
  <2>1. [id |-> 0, time |-> 0] \in Row /\ 0 \in Buffers /\ 0 \in 0 .. MaxCalls
    BY CountsAssumption DEF Row, Buffers
  <2>2. /\ data_buffers \in [Buffers -> [Rows -> Row]]
        /\ oob \in BOOLEAN /\ crowded \in BOOLEAN /\ disturbed \in BOOLEAN
    BY <2>1 DEF Init
  <2> QED BY <2>1, <2>2, CountsAssumption DEF Init, TypeOK, PcValues
<1>2. MutualExclusion
  BY ThreadsAssumption DEF Init, MutualExclusion, Critical
<1>3. CountInv
  <2>1. InFlight = {}
    BY DEF Init, InFlight
  <2> QED BY <2>1, FS_EmptySet DEF Init, CountInv
<1> QED BY <1>1, <1>2, <1>3 DEF BaseInv

LEMMA BaseStep == BaseInv /\ [Next]_vars => BaseInv'
<1> SUFFICES ASSUME BaseInv, [Next]_vars PROVE BaseInv'
  OBVIOUS
<1>a. TypeOK /\ MutualExclusion /\ CountInv
  BY DEF BaseInv
<1>b. pc \in [Threads -> PcValues]
  BY <1>a DEF TypeOK
<1>c. Cardinality(InFlight) \in Nat /\ \A t \in InFlight : Cardinality(InFlight) >= 1
  BY InFlightFinite
<1>1. ASSUME NEW t \in Threads, Check(t) PROVE BaseInv'
  <2>0. Check(t)
    BY <1>1
  <2>1. TypeOK'
    BY <1>a, <2>0, CountsAssumption DEF TypeOK, Check, Goto, PcValues, Unlocked, Critical, dumpVars, historyVars
  <2>2. MutualExclusion'
    BY <1>a, <2>0, ThreadsAssumption DEF TypeOK, MutualExclusion, Check, Goto, Critical
  <2>3. CountInv'
    <3>0. \A u \in Threads \ {t} : pc'[u] = pc[u]
      BY <1>b, <2>0 DEF Check, Goto
    <3>1. Cardinality(InFlight') = Cardinality(InFlight) + 1
      BY <1>b, <2>0, <3>0, InFlightMoves DEF Check, Goto
    <3> QED BY <3>1, <1>a, <1>c, <2>0 DEF TypeOK, CountInv, Check, Goto, dumpVars, historyVars
  <2> QED BY <2>1, <2>2, <2>3 DEF BaseInv
<1>2. ASSUME NEW t \in Threads, ResetCursor(t) PROVE BaseInv'
  <2>0. ResetCursor(t)
    BY <1>2
  <2>1. TypeOK'
    BY <1>a, <2>0, CountsAssumption DEF TypeOK, ResetCursor, Goto, PcValues, Unlocked, Critical, dumpVars, historyVars
  <2>2. MutualExclusion'
    BY <1>a, <2>0, ThreadsAssumption DEF TypeOK, MutualExclusion, ResetCursor, Goto, Critical
  <2>3. CountInv'
    <3>0. \A u \in Threads \ {t} : pc'[u] = pc[u]
      BY <1>b, <2>0 DEF ResetCursor, Goto
    <3>1. InFlight' = InFlight
      BY <1>b, <2>0, <3>0, InFlightMoves DEF ResetCursor, Goto
    <3> QED BY <3>1, <1>a, <1>c, <2>0 DEF TypeOK, CountInv, ResetCursor, Goto, dumpVars, historyVars
  <2> QED BY <2>1, <2>2, <2>3 DEF BaseInv
<1>3. ASSUME NEW t \in Threads, RotateLoad(t) PROVE BaseInv'
  <2>0. RotateLoad(t)
    BY <1>3
  <2>1. TypeOK'
    BY <1>a, <2>0, CountsAssumption DEF TypeOK, RotateLoad, Goto, PcValues, Unlocked, Critical, dumpVars, historyVars, Buffers
  <2>2. MutualExclusion'
    BY <1>a, <2>0, ThreadsAssumption DEF TypeOK, MutualExclusion, RotateLoad, Goto, Critical
  <2>3. CountInv'
    <3>0. \A u \in Threads \ {t} : pc'[u] = pc[u]
      BY <1>b, <2>0 DEF RotateLoad, Goto
    <3>1. InFlight' = InFlight
      BY <1>b, <2>0, <3>0, InFlightMoves DEF RotateLoad, Goto
    <3> QED BY <3>1, <1>a, <1>c, <2>0 DEF TypeOK, CountInv, RotateLoad, Goto, dumpVars, historyVars
  <2> QED BY <2>1, <2>2, <2>3 DEF BaseInv
<1>4. ASSUME NEW t \in Threads, RotateStore(t) PROVE BaseInv'
  <2>0. RotateStore(t)
    BY <1>4
  <2>1. TypeOK'
    <3>1. (register[t] + 1) % buffer_count \in Buffers
      <4>1. register[t] + 1 \in Nat /\ buffer_count \in Nat \ {0}
        BY <1>a, CountsAssumption DEF TypeOK
      <4> QED BY <4>1 DEF Buffers
    <3>2. active_buffer' \in Buffers
      BY <3>1, <2>0, Zenon DEF RotateStore
    <3>3. pc' \in [Threads -> PcValues]
      BY <1>a, <2>0 DEF TypeOK, RotateStore, Goto, PcValues, Unlocked
    <3> QED BY <3>2, <3>3, <1>a, <2>0 DEF TypeOK, RotateStore, dumpVars, historyVars
  <2>2. MutualExclusion'
    BY <1>a, <2>0, ThreadsAssumption DEF TypeOK, MutualExclusion, RotateStore, Goto, Critical
  <2>3. CountInv'
    <3>0. \A u \in Threads \ {t} : pc'[u] = pc[u]
      BY <1>b, <2>0 DEF RotateStore, Goto
    <3>1. InFlight' = InFlight
      BY <1>b, <2>0, <3>0, InFlightMoves DEF RotateStore, Goto
    <3> QED BY <3>1, <1>a, <1>c, <2>0 DEF TypeOK, CountInv, RotateStore, Goto, dumpVars, historyVars
  <2> QED BY <2>1, <2>2, <2>3 DEF BaseInv
<1>5. ASSUME NEW t \in Threads, Lock(t) PROVE BaseInv'
  <2>0. Lock(t)
    BY <1>5
  <2>1. TypeOK'
    BY <1>a, <2>0, CountsAssumption DEF TypeOK, Lock, Goto, PcValues, Unlocked, Critical, dumpVars, historyVars
  <2>2. MutualExclusion'
    BY <1>a, <2>0, ThreadsAssumption DEF TypeOK, MutualExclusion, Lock, Goto, Critical
  <2>3. CountInv'
    <3>0. \A u \in Threads \ {t} : pc'[u] = pc[u]
      BY <1>b, <2>0 DEF Lock, Goto
    <3>1. InFlight' = InFlight
      BY <1>b, <2>0, <3>0, InFlightMoves DEF Lock, Goto
    <3> QED BY <3>1, <1>a, <1>c, <2>0 DEF TypeOK, CountInv, Lock, Goto, dumpVars, historyVars
  <2> QED BY <2>1, <2>2, <2>3 DEF BaseInv
<1>6. ASSUME NEW t \in Threads, WriteId(t) PROVE BaseInv'
  <2>0. WriteId(t)
    BY <1>6
  <2>1. TypeOK'
    <3>1. StoreWord("id", t)
      BY <2>0 DEF WriteId
    <3> QED BY <3>1, <1>a, <2>0, StoreWordType DEF TypeOK, WriteId, Goto, PcValues, Unlocked, Critical
  <2>2. MutualExclusion'
    BY <1>a, <2>0, ThreadsAssumption DEF TypeOK, MutualExclusion, WriteId, Goto, Critical
  <2>3. CountInv'
    <3>0. \A u \in Threads \ {t} : pc'[u] = pc[u]
      BY <1>b, <2>0 DEF WriteId, Goto
    <3>1. InFlight' = InFlight
      BY <1>b, <2>0, <3>0, InFlightMoves DEF WriteId, Goto
    <3> QED BY <3>1, <1>a, <1>c, <2>0 DEF TypeOK, CountInv, WriteId, Goto, dumpVars, historyVars
  <2> QED BY <2>1, <2>2, <2>3 DEF BaseInv
<1>7. ASSUME NEW t \in Threads, WriteTime(t) PROVE BaseInv'
  <2>0. WriteTime(t)
    BY <1>7
  <2>1. TypeOK'
    <3>1. StoreWord("time", t)
      BY <2>0 DEF WriteTime
    <3> QED BY <3>1, <1>a, <2>0, StoreWordType DEF TypeOK, WriteTime, Goto, PcValues, Unlocked, Critical
  <2>2. MutualExclusion'
    BY <1>a, <2>0, ThreadsAssumption DEF TypeOK, MutualExclusion, WriteTime, Goto, Critical
  <2>3. CountInv'
    <3>0. \A u \in Threads \ {t} : pc'[u] = pc[u]
      BY <1>b, <2>0 DEF WriteTime, Goto
    <3>1. InFlight' = InFlight
      BY <1>b, <2>0, <3>0, InFlightMoves DEF WriteTime, Goto
    <3> QED BY <3>1, <1>a, <1>c, <2>0 DEF TypeOK, CountInv, WriteTime, Goto, dumpVars, historyVars
  <2> QED BY <2>1, <2>2, <2>3 DEF BaseInv
<1>8. ASSUME NEW t \in Threads, IncLoad(t) PROVE BaseInv'
  <2>0. IncLoad(t)
    BY <1>8
  <2>1. TypeOK'
    BY <1>a, <2>0, CountsAssumption DEF TypeOK, IncLoad, Goto, PcValues, Unlocked, Critical, dumpVars, historyVars
  <2>2. MutualExclusion'
    BY <1>a, <2>0, ThreadsAssumption DEF TypeOK, MutualExclusion, IncLoad, Goto, Critical
  <2>3. CountInv'
    <3>0. \A u \in Threads \ {t} : pc'[u] = pc[u]
      BY <1>b, <2>0 DEF IncLoad, Goto
    <3>1. InFlight' = InFlight
      BY <1>b, <2>0, <3>0, InFlightMoves DEF IncLoad, Goto
    <3> QED BY <3>1, <1>a, <1>c, <2>0 DEF TypeOK, CountInv, IncLoad, Goto, dumpVars, historyVars
  <2> QED BY <2>1, <2>2, <2>3 DEF BaseInv
<1>9. ASSUME NEW t \in Threads, IncStore(t) PROVE BaseInv'
  <2>0. IncStore(t)
    BY <1>9
  <2>1. TypeOK'
    <3>1. t \in InFlight
      BY <2>0 DEF IncStore, Goto, InFlight
    <3>2. pc[t] = "inc_store"
      BY <2>0 DEF IncStore, Goto
    <3>3. Len(recorded) \in Nat /\ Len(recorded) + 1 <= started
      BY <3>1, <1>a, <1>c DEF TypeOK, CountInv
    <3>4. register[t] + 1 \in 0 .. MaxCalls /\ call[t] \in 1 .. MaxCalls
      BY <3>2, <3>3, <1>a, CountsAssumption, SMTT(30) DEF TypeOK, CountInv
    <3> QED BY <3>4, <1>a, <2>0 DEF TypeOK, IncStore, Goto, PcValues, Unlocked, Critical, dumpVars, historyVars
  <2>2. MutualExclusion'
    BY <1>a, <2>0, ThreadsAssumption DEF TypeOK, MutualExclusion, IncStore, Goto, Critical
  <2>3. CountInv'
    <3>0. \A u \in Threads \ {t} : pc'[u] = pc[u]
      BY <1>b, <2>0 DEF IncStore, Goto
    <3>1. Cardinality(InFlight') = Cardinality(InFlight) - 1
      BY <1>b, <2>0, <3>0, InFlightMoves DEF IncStore, Goto
    <3>2. Len(recorded') = Len(recorded) + 1
      BY <1>a, <2>0 DEF TypeOK, IncStore
    <3> QED BY <3>1, <3>2, <1>a, <1>c, <2>0, SMTT(30) DEF TypeOK, CountInv, IncStore, Goto, dumpVars, historyVars
  <2> QED BY <2>1, <2>2, <2>3 DEF BaseInv
<1>10. ASSUME NEW t \in Threads, Unlock(t) PROVE BaseInv'
  <2>0. Unlock(t)
    BY <1>10
  <2>1. TypeOK'
    BY <1>a, <2>0, CountsAssumption DEF TypeOK, Unlock, Goto, PcValues, Unlocked, Critical, dumpVars, historyVars
  <2>2. MutualExclusion'
    BY <1>a, <2>0, ThreadsAssumption DEF TypeOK, MutualExclusion, Unlock, Goto, Critical
  <2>3. CountInv'
    <3>0. \A u \in Threads \ {t} : pc'[u] = pc[u]
      BY <1>b, <2>0 DEF Unlock, Goto
    <3>1. InFlight' = InFlight
      BY <1>b, <2>0, <3>0, InFlightMoves DEF Unlock, Goto
    <3> QED BY <3>1, <1>a, <1>c, <2>0 DEF TypeOK, CountInv, Unlock, Goto, dumpVars, historyVars
  <2> QED BY <2>1, <2>2, <2>3 DEF BaseInv
<1>14. ASSUME NEW t \in Threads, LoadBuffer(t) PROVE BaseInv'
  <2>0. LoadBuffer(t)
    BY <1>14
  <2>1. TypeOK'
    BY <1>a, <2>0, CountsAssumption DEF TypeOK, LoadBuffer, Goto, PcValues, Unlocked, Critical, dumpVars, historyVars
  <2>2. MutualExclusion'
    BY <1>a, <2>0, ThreadsAssumption DEF TypeOK, MutualExclusion, LoadBuffer, Goto, Critical
  <2>3. CountInv'
    <3>0. \A u \in Threads \ {t} : pc'[u] = pc[u]
      BY <1>b, <2>0 DEF LoadBuffer, Goto
    <3>1. InFlight' = InFlight
      BY <1>b, <2>0, <3>0, InFlightMoves DEF LoadBuffer, Goto
    <3> QED BY <3>1, <1>a, <1>c, <2>0 DEF TypeOK, CountInv, LoadBuffer, Goto, dumpVars, historyVars
  <2> QED BY <2>1, <2>2, <2>3 DEF BaseInv
<1>15. ASSUME NEW t \in Threads, LoadCursor(t) PROVE BaseInv'
  <2>0. LoadCursor(t)
    BY <1>15
  <2>1. TypeOK'
    BY <1>a, <2>0, CountsAssumption DEF TypeOK, LoadCursor, Goto, PcValues, Unlocked, Critical, dumpVars, historyVars
  <2>2. MutualExclusion'
    BY <1>a, <2>0, ThreadsAssumption DEF TypeOK, MutualExclusion, LoadCursor, Goto, Critical
  <2>3. CountInv'
    <3>0. \A u \in Threads \ {t} : pc'[u] = pc[u]
      BY <1>b, <2>0 DEF LoadCursor, Goto
    <3>1. InFlight' = InFlight
      BY <1>b, <2>0, <3>0, InFlightMoves DEF LoadCursor, Goto
    <3> QED BY <3>1, <1>a, <1>c, <2>0 DEF TypeOK, CountInv, LoadCursor, Goto, dumpVars, historyVars
  <2> QED BY <2>1, <2>2, <2>3 DEF BaseInv
<1>11. ASSUME NEW h \in Threads \cup {MainThread}, BeginDump(h) PROVE BaseInv'
  <2>1. InFlight' = InFlight
    BY <1>11 DEF BeginDump, threadVars, historyVars, InFlight
  <2> QED
    BY <2>1, <1>a, <1>c, <1>11
    DEF BaseInv, TypeOK, MutualExclusion, CountInv, BeginDump, threadVars, historyVars
<1>12. ASSUME dump_server_stats PROVE BaseInv'
  <2>1. InFlight' = InFlight
    BY <1>12
    DEF dump_server_stats, SelectBuffer, DumpRow, Destroy, Exit, threadVars, InFlight
  <2>2. TypeOK'
    <3>1. CASE SelectBuffer
      BY <3>1, <1>a DEF TypeOK, SelectBuffer, threadVars, historyVars
    <3>2. CASE DumpRow
      <4>1. RowCount(until) <= entry_count /\ Len(file) \in Rows
        BY <3>2, <1>a, CountsAssumption DEF TypeOK, DumpRow, RowCount, Rows
      <4>2. data_buffers[dump_buffer][Len(file)] \in Row
        BY <4>1, <1>a DEF TypeOK
      <4>3. file' \in Seq(Row) /\ Len(file') <= entry_count
        BY <4>1, <4>2, <3>2, <1>a, CountsAssumption DEF TypeOK, DumpRow, Rows
      <4> QED BY <4>3, <3>2, <1>a DEF TypeOK, DumpRow, threadVars, historyVars
    <3>3. CASE Destroy
      BY <3>3, <1>a DEF TypeOK, Destroy, threadVars, historyVars
    <3>4. CASE Exit
      BY <3>4, <1>a DEF TypeOK, Exit, threadVars, historyVars
    <3> QED BY <3>1, <3>2, <3>3, <3>4, <1>12 DEF dump_server_stats
  <2>3. MutualExclusion' /\ CountInv'
    BY <2>1, <1>a, <1>12
    DEF MutualExclusion, CountInv, dump_server_stats, SelectBuffer, DumpRow, Destroy,
        Exit, threadVars, historyVars
  <2> QED BY <2>2, <2>3 DEF BaseInv
<1>13. ASSUME UNCHANGED vars PROVE BaseInv'
  <2>1. InFlight' = InFlight
    BY <1>13 DEF vars, threadVars, InFlight
  <2> QED
    BY <2>1, <1>a, <1>13
    DEF BaseInv, TypeOK, MutualExclusion, CountInv, vars, threadVars, dumpVars, historyVars
<1> QED
  BY <1>1, <1>2, <1>3, <1>4, <1>5, <1>6, <1>7, <1>8, <1>9, <1>10, <1>11, <1>12, <1>13, <1>14, <1>15 DEF Next, add_entry, Ended

(* The members of ServerStatsManager keep their types and the dump never   *)
(* writes more rows than a buffer has, with any number of threads and laps *)
THEOREM TypeCorrect == Spec => []TypeOK
<1>1. Spec => []BaseInv
  BY BaseInit, BaseStep, PTL DEF Spec
<1>2. BaseInv => TypeOK
  BY DEF BaseInv
<1> QED BY <1>1, <1>2, PTL

(* entry_saving_mutex protects the stores of the rows.                     *)
THEOREM MutexCorrect == Spec => []MutualExclusion
<1>1. Spec => []BaseInv
  BY BaseInit, BaseStep, PTL DEF Spec
<1>2. BaseInv => MutualExclusion
  BY DEF BaseInv
<1> QED BY <1>1, <1>2, PTL

-----------------------------------------------------------------------------
(* The part of the inductive invariant about the time before the buffer is *)
(* full: it holds at first ...                                             *)
LEMMA RecordingInit == Init => RecordingInv
BY CountsAssumption
   DEF Init, RecordingInv, HasBuffer, HasCursor, IdStored, BothStored, NoWrap, RowsFinal, OwnerRow, FileInv, DumpFaithful

(* ... and the row at the cursor is inside the buffer as long as some call *)
(* has not counted its row.                                                *)
LEMMA CursorInRows ==
  ASSUME BaseInv, RecordingInv, started <= entry_count, NEW t \in InFlight
  PROVE  entry_cursor \in Rows
<1>1. Cardinality(InFlight) \in Nat /\ Cardinality(InFlight) >= 1
  BY InFlightFinite
<1>2. /\ Len(recorded) + Cardinality(InFlight) = started
      /\ entry_cursor = Len(recorded)
      /\ Len(recorded) \in Nat
  BY DEF BaseInv, TypeOK, CountInv, RecordingInv, NoWrap
<1> QED BY <1>1, <1>2, CountsAssumption DEF BaseInv, TypeOK, Rows

(* Before the buffer is full, a store of a word changes that word of the   *)
(* row at the cursor and nothing else.                                     *)
LEMMA StoreWordInRows ==
  ASSUME BaseInv, RecordingInv, started <= entry_count,
         NEW t \in InFlight, pc[t] \in {"write_id", "write_time"},
         NEW field \in {"id", "time"}, StoreWord(field, t)
  PROVE  /\ oob' = oob
         /\ process' = process \/ (process = "freed" /\ process' = "exited")
         /\ process # "freed" =>
              /\ \A r \in Rows \ {entry_cursor} :
                   data_buffers'[0][r] = data_buffers[0][r]
              /\ data_buffers'[0][entry_cursor] =
                   [data_buffers[0][entry_cursor] EXCEPT ![field] = call[t]]
<1>1. entry_cursor \in Rows /\ active_buffer = 0 /\ 0 \in Buffers /\ TypeOK
  BY CursorInRows DEF BaseInv, TypeOK, RecordingInv, NoWrap
<1>2. t \in Threads
  BY DEF InFlight
<1>3. buffer[t] = active_buffer /\ register[t] = entry_cursor
  BY <1>2 DEF RecordingInv, NoWrap, HasBuffer, HasCursor
<1> QED BY <1>1, <1>2, <1>3, StoreWordAtCursor, Zenon

(* Every step keeps it.                                                    *)
LEMMA RecordingStep == BaseInv /\ RecordingInv /\ [Next]_vars => RecordingInv'
<1> SUFFICES ASSUME BaseInv, RecordingInv, [Next]_vars, started' <= entry_count
             PROVE  (NoWrap /\ RowsFinal /\ OwnerRow /\ FileInv)'
  BY DEF RecordingInv
<1>a. TypeOK /\ MutualExclusion /\ CountInv
  BY DEF BaseInv
<1>b. started <= entry_count
  <2>1. started' = started \/ started' = started + 1
    BY DEF Next, add_entry, Check, ResetCursor, RotateLoad, RotateStore, Lock, LoadBuffer, LoadCursor, WriteId,
           WriteTime, IncLoad, IncStore, Unlock, BeginDump, dump_server_stats,
           SelectBuffer, DumpRow, Destroy, Exit, Ended, vars, threadVars
  <2> QED BY <2>1, <1>a, CountsAssumption DEF TypeOK
<1>c. NoWrap /\ RowsFinal /\ OwnerRow /\ FileInv
  BY <1>b DEF RecordingInv
<1>d. Len(recorded) \in Nat /\ entry_cursor = Len(recorded)
  BY <1>a, <1>c DEF TypeOK, NoWrap
<1>1. ASSUME NEW t \in Threads, Check(t)
      PROVE  (NoWrap /\ RowsFinal /\ OwnerRow /\ FileInv)'
  <2>0. Check(t)
    BY <1>1
  <2>1. entry_cursor < entry_count
    BY <2>0, <1>a, <1>b, <1>d, InFlightFinite, CountsAssumption DEF TypeOK, CountInv, Check
  <2>2. NoWrap'
    BY <2>1, <2>0, <1>a, <1>c, CountsAssumption DEF HasBuffer, HasCursor, TypeOK, NoWrap, Check, Goto, dumpVars, historyVars
  <2>3. RowsFinal' /\ FileInv'
    BY <2>0, <1>b, <1>c DEF RowsFinal, FileInv, DumpFaithful, Allocated, Check, dumpVars, historyVars
  <2>4. OwnerRow'
    BY <2>0, <1>a, <1>c DEF IdStored, BothStored, TypeOK, OwnerRow, Allocated, Check, Goto, dumpVars, historyVars
  <2> QED BY <2>2, <2>3, <2>4
<1>2. ASSUME NEW t \in Threads, Lock(t)
      PROVE  (NoWrap /\ RowsFinal /\ OwnerRow /\ FileInv)'
  <2>0. Lock(t)
    BY <1>2
  <2>2. NoWrap'
    BY <2>0, <1>a, <1>c, CountsAssumption DEF HasBuffer, HasCursor, TypeOK, NoWrap, Lock, Goto, dumpVars, historyVars
  <2>3. RowsFinal' /\ FileInv'
    BY <2>0, <1>b, <1>c DEF RowsFinal, FileInv, DumpFaithful, Allocated, Lock, dumpVars, historyVars
  <2>4. OwnerRow'
    BY <2>0, <1>a, <1>c DEF IdStored, BothStored, TypeOK, OwnerRow, Allocated, Lock, Goto, dumpVars, historyVars
  <2> QED BY <2>2, <2>3, <2>4
<1>3. ASSUME NEW t \in Threads, IncLoad(t)
      PROVE  (NoWrap /\ RowsFinal /\ OwnerRow /\ FileInv)'
  <2>0. IncLoad(t)
    BY <1>3
  <2>2. NoWrap'
    BY <2>0, <1>a, <1>c, CountsAssumption DEF HasBuffer, HasCursor, TypeOK, NoWrap, IncLoad, Goto, dumpVars, historyVars
  <2>3. RowsFinal' /\ FileInv'
    BY <2>0, <1>b, <1>c DEF RowsFinal, FileInv, DumpFaithful, Allocated, IncLoad, dumpVars, historyVars
  <2>4. OwnerRow'
    BY <2>0, <1>a, <1>c DEF IdStored, BothStored, TypeOK, OwnerRow, Allocated, IncLoad, Goto, dumpVars, historyVars
  <2> QED BY <2>2, <2>3, <2>4
<1>4. ASSUME NEW t \in Threads, Unlock(t)
      PROVE  (NoWrap /\ RowsFinal /\ OwnerRow /\ FileInv)'
  <2>0. Unlock(t)
    BY <1>4
  <2>2. NoWrap'
    BY <2>0, <1>a, <1>c, CountsAssumption DEF HasBuffer, HasCursor, TypeOK, NoWrap, Unlock, Goto, dumpVars, historyVars
  <2>3. RowsFinal' /\ FileInv'
    BY <2>0, <1>b, <1>c DEF RowsFinal, FileInv, DumpFaithful, Allocated, Unlock, dumpVars, historyVars
  <2>4. OwnerRow'
    BY <2>0, <1>a, <1>c DEF IdStored, BothStored, TypeOK, OwnerRow, Allocated, Unlock, Goto, dumpVars, historyVars
  <2> QED BY <2>2, <2>3, <2>4
<1>5. ASSUME NEW t \in Threads, ResetCursor(t)
      PROVE  (NoWrap /\ RowsFinal /\ OwnerRow /\ FileInv)'
  <2>0. ResetCursor(t)
    BY <1>5
  <2> QED BY <2>0, <1>c DEF NoWrap, ResetCursor, Goto
<1>6. ASSUME NEW t \in Threads, RotateLoad(t)
      PROVE  (NoWrap /\ RowsFinal /\ OwnerRow /\ FileInv)'
  <2>0. RotateLoad(t)
    BY <1>6
  <2> QED BY <2>0, <1>c DEF NoWrap, RotateLoad, Goto
<1>7. ASSUME NEW t \in Threads, RotateStore(t)
      PROVE  (NoWrap /\ RowsFinal /\ OwnerRow /\ FileInv)'
  <2>0. RotateStore(t)
    BY <1>7
  <2> QED BY <2>0, <1>c DEF NoWrap, RotateStore, Goto
<1>8. ASSUME NEW t \in Threads, WriteId(t)
      PROVE  (NoWrap /\ RowsFinal /\ OwnerRow /\ FileInv)'
  <2>0. WriteId(t)
    BY <1>8
  <2>1. t \in InFlight /\ pc[t] = "write_id" /\ StoreWord("id", t)
    BY <2>0 DEF WriteId, Goto, InFlight
  <2>2. entry_cursor \in Rows
    BY <2>1, <1>b, CursorInRows
  <2>3. /\ oob' = oob
        /\ process' = process \/ (process = "freed" /\ process' = "exited")
        /\ process # "freed" =>
              /\ \A r \in Rows \ {entry_cursor} :
                   data_buffers'[0][r] = data_buffers[0][r]
              /\ data_buffers'[0][entry_cursor] =
                   [data_buffers[0][entry_cursor] EXCEPT !["id"] = call[t]]
    BY <2>1, <1>b, StoreWordInRows
  <2>4. \A u \in Threads \ {t} : pc[u] \notin Critical /\ pc'[u] = pc[u]
    BY <2>0, <2>1, <1>a DEF TypeOK, MutualExclusion, Critical, WriteId, Goto
  <2>5. NoWrap'
    BY <2>0, <2>1, <2>3, <1>a, <1>c DEF HasBuffer, HasCursor, TypeOK, NoWrap, WriteId, Goto
  <2>6. RowsFinal'
    <3>1. 0 .. entry_cursor - 1 \subseteq Rows \ {entry_cursor}
      BY <2>2, <1>d, CountsAssumption DEF Rows
    <3> QED BY <3>1, <2>0, <2>3, <1>c DEF RowsFinal, Allocated, WriteId
  <2>7. OwnerRow'
    <3> SUFFICES ASSUME Allocated', NEW u \in Threads
                 PROVE  /\ pc'[u] \in IdStored =>
                             data_buffers'[0][entry_cursor].id = call[u]
                        /\ pc'[u] \in BothStored =>
                             data_buffers'[0][entry_cursor].time = call[u]
      BY <2>0 DEF OwnerRow, WriteId
    <3>1. Allocated
      BY <2>3 DEF Allocated
    <3>2. data_buffers[0][entry_cursor] \in Row
      BY <2>2, <1>a, <1>c DEF TypeOK, NoWrap
    <3>3. data_buffers'[0][entry_cursor] =
            [data_buffers[0][entry_cursor] EXCEPT !["id"] = call[t]]
      BY <3>1, <2>3 DEF Allocated
    <3>4. CASE u = t
      BY <3>1, <3>2, <3>3, <3>4, <2>0, <2>1, <1>a, <1>c DEF IdStored, BothStored, TypeOK, OwnerRow, WriteId, Goto, Row
    <3>5. CASE u # t
      BY <3>5, <2>4 DEF Critical, IdStored, BothStored
    <3> QED BY <3>4, <3>5
  <2>8. FileInv'
    BY <2>0, <2>3, <1>b, <1>c DEF FileInv, DumpFaithful, WriteId
  <2> QED BY <2>5, <2>6, <2>7, <2>8
<1>9. ASSUME NEW t \in Threads, WriteTime(t)
      PROVE  (NoWrap /\ RowsFinal /\ OwnerRow /\ FileInv)'
  <2>0. WriteTime(t)
    BY <1>9
  <2>1. t \in InFlight /\ pc[t] = "write_time" /\ StoreWord("time", t)
    BY <2>0 DEF WriteTime, Goto, InFlight
  <2>2. entry_cursor \in Rows
    BY <2>1, <1>b, CursorInRows
  <2>3. /\ oob' = oob
        /\ process' = process \/ (process = "freed" /\ process' = "exited")
        /\ process # "freed" =>
              /\ \A r \in Rows \ {entry_cursor} :
                   data_buffers'[0][r] = data_buffers[0][r]
              /\ data_buffers'[0][entry_cursor] =
                   [data_buffers[0][entry_cursor] EXCEPT !["time"] = call[t]]
    BY <2>1, <1>b, StoreWordInRows
  <2>4. \A u \in Threads \ {t} : pc[u] \notin Critical /\ pc'[u] = pc[u]
    BY <2>0, <2>1, <1>a DEF TypeOK, MutualExclusion, Critical, WriteTime, Goto
  <2>5. NoWrap'
    BY <2>0, <2>1, <2>3, <1>a, <1>c DEF HasBuffer, HasCursor, TypeOK, NoWrap, WriteTime, Goto
  <2>6. RowsFinal'
    <3>1. 0 .. entry_cursor - 1 \subseteq Rows \ {entry_cursor}
      BY <2>2, <1>d, CountsAssumption DEF Rows
    <3> QED BY <3>1, <2>0, <2>3, <1>c DEF RowsFinal, Allocated, WriteTime
  <2>7. OwnerRow'
    <3> SUFFICES ASSUME Allocated', NEW u \in Threads
                 PROVE  /\ pc'[u] \in IdStored =>
                             data_buffers'[0][entry_cursor].id = call[u]
                        /\ pc'[u] \in BothStored =>
                             data_buffers'[0][entry_cursor].time = call[u]
      BY <2>0 DEF OwnerRow, WriteTime
    <3>1. Allocated
      BY <2>3 DEF Allocated
    <3>2. data_buffers[0][entry_cursor] \in Row
      BY <2>2, <1>a, <1>c DEF TypeOK, NoWrap
    <3>3. data_buffers'[0][entry_cursor] =
            [data_buffers[0][entry_cursor] EXCEPT !["time"] = call[t]]
      BY <3>1, <2>3 DEF Allocated
    <3>4. CASE u = t
      BY <3>1, <3>2, <3>3, <3>4, <2>0, <2>1, <1>a, <1>c DEF IdStored, BothStored, TypeOK, OwnerRow, WriteTime, Goto, Row
    <3>5. CASE u # t
      BY <3>5, <2>4 DEF Critical, IdStored, BothStored
    <3> QED BY <3>4, <3>5
  <2>8. FileInv'
    BY <2>0, <2>3, <1>b, <1>c DEF FileInv, DumpFaithful, WriteTime
  <2> QED BY <2>5, <2>6, <2>7, <2>8
<1>10. ASSUME NEW t \in Threads, IncStore(t)
      PROVE  (NoWrap /\ RowsFinal /\ OwnerRow /\ FileInv)'
  <2>0. IncStore(t)
    BY <1>10
  <2>1. t \in InFlight /\ pc[t] = "inc_store" /\ pc'[t] = "unlock"
    BY <2>0, <1>a DEF TypeOK, IncStore, Goto, InFlight
  <2>2. entry_cursor \in Rows /\ entry_cursor' = entry_cursor + 1
    BY <2>0, <2>1, <1>b, <1>c, CursorInRows DEF NoWrap, IncStore, HasCursor
  <2>3. recorded' = Append(recorded, call[t]) /\ call[t] \in 1 .. MaxCalls
    BY <2>0, <2>1, <1>a DEF TypeOK, CountInv, IncStore
  <2>4. /\ Len(recorded') = Len(recorded) + 1
        /\ recorded'[Len(recorded) + 1] = call[t]
        /\ \A i \in 1 .. Len(recorded) : recorded'[i] = recorded[i]
    BY <2>3, <1>a DEF TypeOK
  <2>5. \A u \in Threads \ {t} : pc[u] \notin Critical /\ pc'[u] = pc[u]
    BY <2>0, <2>1, <1>a DEF TypeOK, MutualExclusion, Critical, IncStore, Goto
  <2>6. NoWrap'
    BY <2>0, <2>1, <2>2, <2>4, <2>5, <1>c DEF HasBuffer, HasCursor, NoWrap, IncStore, Critical, dumpVars, historyVars
  <2>7. RowsFinal'
    <3> SUFFICES ASSUME Allocated', NEW r \in 0 .. entry_cursor' - 1
                 PROVE  data_buffers'[0][r] = Entry(recorded'[r + 1])
      BY DEF RowsFinal, Entry
    <3>1. Allocated /\ data_buffers' = data_buffers
      BY <2>0 DEF Allocated, IncStore, dumpVars, historyVars
    <3>2. CASE r = entry_cursor
      <4>1. data_buffers[0][r] \in Row
        BY <3>2, <2>2, <1>a, <1>c DEF TypeOK, NoWrap
      <4>2. data_buffers[0][r].id = call[t] /\ data_buffers[0][r].time = call[t]
        BY <3>1, <3>2, <2>1, <1>c DEF OwnerRow, IdStored, BothStored
      <4> QED BY <4>1, <4>2, <3>1, <3>2, <2>4, <1>d DEF Row, Entry
    <3>3. CASE r # entry_cursor
      <4>1. r \in 0 .. entry_cursor - 1 /\ r + 1 \in 1 .. Len(recorded)
        BY <3>3, <2>2, <1>d
      <4> QED BY <4>1, <3>1, <2>4, <1>c DEF RowsFinal
    <3> QED BY <3>2, <3>3
  <2>8. OwnerRow'
    BY <2>1, <2>5 DEF OwnerRow, Critical, IdStored, BothStored
  <2>9. FileInv'
    <3>1. \A i \in 1 .. Len(file) : i \in 1 .. Len(recorded)
      BY <1>a, <1>b, <1>c DEF TypeOK, FileInv, DumpFaithful
    <3> QED BY <3>1, <2>0, <2>4, <1>a, <1>b, <1>c
            DEF TypeOK, FileInv, DumpFaithful, Entry, IncStore, dumpVars, historyVars
  <2> QED BY <2>6, <2>7, <2>8, <2>9
<1>17. ASSUME NEW t \in Threads, LoadBuffer(t)
      PROVE  (NoWrap /\ RowsFinal /\ OwnerRow /\ FileInv)'
  <2>0. LoadBuffer(t)
    BY <1>17
  <2>1. /\ pc[t] \in Critical /\ pc'[t] \in Critical
        /\ pc[t] \in IdStored <=> pc'[t] \in IdStored
        /\ pc[t] \notin BothStored /\ pc'[t] \notin BothStored
    BY <2>0, <1>a DEF TypeOK, LoadBuffer, Goto, Critical, IdStored, BothStored
  <2>2. \A u \in Threads \ {t} : pc[u] \notin Critical /\ pc'[u] = pc[u]
    BY <2>0, <2>1, <1>a DEF TypeOK, MutualExclusion, LoadBuffer, Goto
  <2>3. NoWrap'
    BY <2>0, <2>1, <2>2, <1>a, <1>c
    DEF TypeOK, NoWrap, LoadBuffer, Goto, HasBuffer, HasCursor, Critical, dumpVars, historyVars
  <2>4. RowsFinal' /\ FileInv'
    BY <2>0, <1>b, <1>c DEF RowsFinal, FileInv, DumpFaithful, Allocated, LoadBuffer, dumpVars, historyVars
  <2>5. OwnerRow'
    BY <2>0, <2>1, <2>2, <1>c DEF OwnerRow, Allocated, LoadBuffer, dumpVars
  <2> QED BY <2>3, <2>4, <2>5
<1>18. ASSUME NEW t \in Threads, LoadCursor(t)
      PROVE  (NoWrap /\ RowsFinal /\ OwnerRow /\ FileInv)'
  <2>0. LoadCursor(t)
    BY <1>18
  <2>1. /\ pc[t] \in Critical /\ pc'[t] \in Critical
        /\ pc[t] \in IdStored <=> pc'[t] \in IdStored
        /\ pc[t] \notin BothStored /\ pc'[t] \notin BothStored
    BY <2>0, <1>a DEF TypeOK, LoadCursor, Goto, Critical, IdStored, BothStored
  <2>2. \A u \in Threads \ {t} : pc[u] \notin Critical /\ pc'[u] = pc[u]
    BY <2>0, <2>1, <1>a DEF TypeOK, MutualExclusion, LoadCursor, Goto
  <2>3. NoWrap'
    BY <2>0, <2>1, <2>2, <1>a, <1>c
    DEF TypeOK, NoWrap, LoadCursor, Goto, HasBuffer, HasCursor, Critical, dumpVars, historyVars
  <2>4. RowsFinal' /\ FileInv'
    BY <2>0, <1>b, <1>c DEF RowsFinal, FileInv, DumpFaithful, Allocated, LoadCursor, dumpVars, historyVars
  <2>5. OwnerRow'
    BY <2>0, <2>1, <2>2, <1>c DEF OwnerRow, Allocated, LoadCursor, dumpVars
  <2> QED BY <2>3, <2>4, <2>5
<1>11. ASSUME NEW h \in Threads \cup {MainThread}, BeginDump(h)
      PROVE  (NoWrap /\ RowsFinal /\ OwnerRow /\ FileInv)'
  <2>1. NoWrap' /\ RowsFinal' /\ OwnerRow'
    BY <1>11, <1>c DEF NoWrap, RowsFinal, OwnerRow, Allocated, BeginDump, threadVars, historyVars
  <2>2. FileInv'
    BY <1>11, <1>c, <1>d DEF FileInv, DumpFaithful, BeginDump, historyVars
  <2> QED BY <2>1, <2>2
<1>12. ASSUME SelectBuffer PROVE (NoWrap /\ RowsFinal /\ OwnerRow /\ FileInv)'
  <2>1. NoWrap' /\ RowsFinal' /\ OwnerRow'
    BY <1>12, <1>c DEF NoWrap, RowsFinal, OwnerRow, Allocated, SelectBuffer, threadVars, historyVars
  <2>2. FileInv'
    BY <1>12, <1>b, <1>c DEF FileInv, DumpFaithful, SelectBuffer, historyVars
  <2> QED BY <2>1, <2>2
<1>13. ASSUME DumpRow PROVE (NoWrap /\ RowsFinal /\ OwnerRow /\ FileInv)'
  <2>1. NoWrap' /\ RowsFinal' /\ OwnerRow'
    BY <1>13, <1>c DEF NoWrap, RowsFinal, OwnerRow, Allocated, DumpRow, threadVars, historyVars
  <2>2. Len(file) \in Nat /\ Len(file) < until /\ until <= Len(recorded)
    <3>1. until <= entry_count
      BY <1>a, <1>b, InFlightFinite, CountsAssumption DEF TypeOK, CountInv
    <3> QED BY <3>1, <1>13, <1>a, <1>b, <1>c, CountsAssumption
            DEF TypeOK, FileInv, DumpFaithful, DumpRow, RowCount
  <2>3. data_buffers[dump_buffer][Len(file)] = Entry(recorded[Len(file) + 1])
    BY <2>2, <1>13, <1>a, <1>c, <1>d DEF HasBuffer, HasCursor, TypeOK, NoWrap, RowsFinal, Allocated, DumpRow
  <2>4. /\ Len(file') = Len(file) + 1
        /\ file'[Len(file) + 1] = Entry(recorded[Len(file) + 1])
        /\ \A i \in 1 .. Len(file) : file'[i] = file[i]
    BY <2>3, <1>13, <1>a DEF TypeOK, DumpRow
  <2>5. \A i \in 1 .. Len(file') : file'[i] = Entry(recorded[i])
    BY <2>2, <2>4, <1>b, <1>c DEF FileInv, DumpFaithful
  <2>6. FileInv'
    BY <2>2, <2>4, <2>5, <1>13, <1>a DEF TypeOK, FileInv, DumpFaithful, DumpRow, Entry, historyVars
  <2> QED BY <2>1, <2>6
<1>14. ASSUME Destroy PROVE (NoWrap /\ RowsFinal /\ OwnerRow /\ FileInv)'
  <2>1. NoWrap' /\ RowsFinal' /\ OwnerRow'
    BY <1>14, <1>c DEF NoWrap, RowsFinal, OwnerRow, Allocated, Destroy, threadVars, historyVars
  <2>2. Len(file) = until
    <3>1. until <= entry_count
      BY <1>a, <1>b, InFlightFinite, CountsAssumption DEF TypeOK, CountInv
    <3> QED BY <3>1, <1>14, <1>a, <1>b, <1>c, CountsAssumption
            DEF TypeOK, FileInv, DumpFaithful, Destroy, RowCount
  <2>3. FileInv'
    BY <2>2, <1>14, <1>b, <1>c DEF FileInv, DumpFaithful, Destroy, historyVars
  <2> QED BY <2>1, <2>3
<1>15. ASSUME Exit PROVE (NoWrap /\ RowsFinal /\ OwnerRow /\ FileInv)'
  <2>1. NoWrap' /\ RowsFinal' /\ OwnerRow'
    BY <1>15, <1>c DEF NoWrap, RowsFinal, OwnerRow, Allocated, Exit, threadVars, historyVars
  <2>2. FileInv'
    BY <1>15, <1>b, <1>c DEF FileInv, DumpFaithful, Exit, historyVars
  <2> QED BY <2>1, <2>2
<1>16. ASSUME UNCHANGED vars PROVE (NoWrap /\ RowsFinal /\ OwnerRow /\ FileInv)'
  BY <1>16, <1>b, <1>c
  DEF NoWrap, RowsFinal, OwnerRow, FileInv, DumpFaithful, Allocated, vars, threadVars, dumpVars, historyVars
<1> QED
  BY <1>1, <1>2, <1>3, <1>4, <1>5, <1>6, <1>7, <1>8, <1>9, <1>10, <1>11, <1>12, <1>13, <1>14, <1>15, <1>16, <1>17, <1>18
  DEF Next, add_entry, dump_server_stats, Ended

LEMMA RecordingAlways == Spec => []RecordingInv
<1>1. Spec => [](BaseInv /\ RecordingInv)
  BY BaseInit, RecordingInit, BaseStep, RecordingStep, PTL DEF Spec
<1> QED BY <1>1, PTL

(* Before a buffer is full, add_entry loses and tears no entry and touches *)
(* no memory outside the buffers, with any number of threads.              *)
THEOREM EntriesPreservedCorrect == Spec => []EntriesPreserved
<1>1. RecordingInv => EntriesPreserved
  BY DEF RecordingInv, EntriesPreserved, NoWrap, RowsFinal
<1> QED BY <1>1, RecordingAlways, PTL

(* ... and the file written by the SIGINT handler without the mutex has    *)
(* exactly the entries counted when the signal came.                       *)
THEOREM DumpFaithfulCorrect == Spec => []DumpFaithful
<1>1. RecordingInv => DumpFaithful
  BY DEF RecordingInv, FileInv, DumpFaithful
<1> QED BY <1>1, RecordingAlways, PTL
-----------------------------------------------------------------------------
(* The buffer taken next, and the one before, when the last row is full.   *)
LEMMA NextBuffer ==
  ASSUME NEW b \in Buffers
  PROVE  /\ (b + 1) % buffer_count = IF b = buffer_count - 1 THEN 0 ELSE b + 1
         /\ (b + buffer_count - 1) % buffer_count = IF b = 0 THEN buffer_count - 1 ELSE b - 1
BY CountsAssumption DEF Buffers

(* A whole number of laps and one lap more.                                *)
LEMMA OneLapMore ==
  ASSUME NEW a \in Nat, a % entry_count = 0
  PROVE  /\ (a + entry_count) % entry_count = 0
         /\ a > 0 => a >= entry_count
<1>1. entry_count \in Nat \ {0}
  BY CountsAssumption
<1>2. PICK q \in Int : a = entry_count * q
  <2>1. a = (entry_count * (a \div entry_count)) + (a % entry_count) /\ a \div entry_count \in Int
    BY <1>1
  <2>2. a = entry_count * (a \div entry_count)
    BY <1>1, <2>1
  <2> QED BY <2>1, <2>2, Zenon
<1>3. PICK r \in Int, m \in 0 .. entry_count - 1 :
        a + entry_count = (entry_count * r) + m /\ m = (a + entry_count) % entry_count
  <2>1. /\ a + entry_count = (entry_count * ((a + entry_count) \div entry_count))
                               + ((a + entry_count) % entry_count)
        /\ (a + entry_count) \div entry_count \in Int
        /\ (a + entry_count) % entry_count \in 0 .. entry_count - 1
    BY <1>1
  <2> QED BY <2>1
<1>4. PICK s \in Int : s = q + 1 - r
  OBVIOUS
<1>5. m = entry_count * s
  BY <1>1, <1>2, <1>3, <1>4
<1>6. s = 0
  <2>1. s >= 1 => entry_count * s >= entry_count
    BY <1>1, <1>4
  <2>2. s <= -1 => entry_count * s <= -entry_count
    BY <1>1, <1>4
  <2> QED BY <1>1, <2>1, <2>2, <1>5
<1>7. a > 0 => a >= entry_count
  BY <1>1
<1> QED BY <1>1, <1>3, <1>5, <1>6, <1>7

(* A thread that wraps is the only one in flight, ...                      *)
LEMMA WrapperAlone ==
  ASSUME RoomForAll, NEW t \in InFlight, Wrapping
  PROVE  InFlight = {t}
<1>1. IsFiniteSet(InFlight) /\ Cardinality(InFlight) = 1
  BY InFlightFinite DEF RoomForAll
<1>2. PICK u : InFlight = {u}
  BY <1>1, FS_Singleton
<1> QED BY <1>2

(* ... so a call past the wrap branch is never beside one in it, and its   *)
(* row is inside the buffer.                                               *)
LEMMA RoomForCall ==
  ASSUME BaseInv, RoomForAll, NEW t \in InFlight,
         pc[t] \notin {"reset", "rotate_load", "rotate_store"}
  PROVE  /\ ~Wrapping
         /\ entry_cursor + Cardinality(InFlight) <= entry_count
         /\ entry_cursor \in Rows
<1>1. ~Wrapping
  <2> SUFFICES ASSUME Wrapping PROVE FALSE
    OBVIOUS
  <2>1. PICK u \in Threads : pc[u] \in {"reset", "rotate_load", "rotate_store"}
    BY DEF Wrapping
  <2>2. u \in InFlight
    BY <2>1 DEF InFlight
  <2> QED BY <2>1, <2>2, WrapperAlone
<1>2. entry_cursor + Cardinality(InFlight) <= entry_count
  BY <1>1 DEF RoomForAll
<1>3. Cardinality(InFlight) \in Nat /\ Cardinality(InFlight) >= 1
  BY InFlightFinite
<1>4. entry_cursor \in Nat
  BY DEF BaseInv, TypeOK
<1> QED BY <1>1, <1>2, <1>3, <1>4, CountsAssumption DEF Rows

LEMMA LapInit == Init => LapInv
<1> SUFFICES ASSUME Init PROVE RoomForAll /\ LapCursor /\ LapRows /\ LapOwner /\ LapFile
  BY DEF LapInv
<1>1. RoomForAll
  <2>1. InFlight = {} /\ ~Wrapping
    BY DEF Init, InFlight, Wrapping
  <2> QED BY <2>1, FS_EmptySet, CountsAssumption DEF Init, RoomForAll
<1>2. LapCursor
  BY CountsAssumption DEF Init, LapCursor, HasBuffer, HasCursor
<1>3. LapRows
  BY CountsAssumption DEF Init, LapRows, Rotating, Holds
<1> QED BY <1>1, <1>2, <1>3 DEF Init, LapOwner, LapFile, IdStored, BothStored

(* A step that is not a thread's leaves the calls where they are.          *)
OtherStep == UNCHANGED <<data_buffers, active_buffer, entry_cursor, threadVars, historyVars>>

LEMMA Others == ~(\E t \in Threads : add_entry(t)) /\ [Next]_vars => OtherStep
BY DEF Next, BeginDump, dump_server_stats, SelectBuffer, DumpRow, Destroy, Exit, Ended, vars,
       OtherStep

(* A call that is not crowded leaves room for every call in flight.        *)
LEMMA RoomStep ==
  ASSUME BaseInv, RoomForAll, LapCursor, [Next]_vars, ~crowded'
  PROVE  RoomForAll'
<1>a. TypeOK /\ MutualExclusion /\ CountInv
  BY DEF BaseInv
<1>b. /\ entry_count \in Nat \ {0} /\ entry_cursor \in Nat /\ entry_cursor <= entry_count
      /\ IsFiniteSet(InFlight) /\ Cardinality(InFlight) \in Nat
  BY <1>a, CountsAssumption, InFlightFinite DEF TypeOK, LapCursor
<1>1. ASSUME NEW t \in Threads, Check(t) PROVE RoomForAll'
  <2>1. /\ pc[t] = "idle" /\ entry_cursor' = entry_cursor /\ ~Crowd
        /\ pc'[t] = IF entry_cursor >= entry_count THEN "reset" ELSE "lock"
        /\ \A u \in Threads \ {t} : pc'[u] = pc[u]
    BY <1>1, <1>a DEF TypeOK, Check, Goto
  <2>2. Cardinality(InFlight') = Cardinality(InFlight) + 1
    BY <2>1, InFlightMoves
  <2>3. CASE InFlight = {}
    <3>1. Cardinality(InFlight) = 0
      BY <2>3, FS_EmptySet
    <3>2. \A u \in Threads \ {t} : pc'[u] \in {"idle", "unlock"}
      BY <2>1, <2>3 DEF InFlight
    <3>3. Wrapping' <=> entry_cursor >= entry_count
      BY <2>1, <3>2 DEF Wrapping
    <3> QED BY <2>1, <2>2, <3>1, <3>3, <1>b DEF RoomForAll
  <2>4. CASE InFlight # {}
    <3>1. ~Wrapping /\ entry_cursor + Cardinality(InFlight) < entry_count
      BY <2>1, <2>4, <1>b DEF Crowd
    <3>2. ~Wrapping'
      BY <2>1, <3>1, <1>b DEF Wrapping
    <3> QED BY <2>1, <2>2, <3>1, <3>2, <1>b DEF RoomForAll
  <2> QED BY <2>3, <2>4
<1>2. ASSUME NEW t \in Threads, ResetCursor(t) \/ RotateLoad(t) PROVE RoomForAll'
  <2>1. /\ pc[t] \in {"reset", "rotate_load"} /\ pc'[t] \in {"rotate_load", "rotate_store"}
        /\ \A u \in Threads \ {t} : pc'[u] = pc[u]
    BY <1>2, <1>a DEF TypeOK, ResetCursor, RotateLoad, Goto
  <2>2. InFlight' = InFlight
    BY <2>1, InFlightMoves
  <2>3. Wrapping /\ Wrapping'
    BY <2>1 DEF Wrapping
  <2> QED BY <2>2, <2>3 DEF RoomForAll
<1>3. ASSUME NEW t \in Threads, RotateStore(t) PROVE RoomForAll'
  <2>1. /\ pc[t] = "rotate_store" /\ pc'[t] = "lock" /\ entry_cursor' = entry_cursor
        /\ \A u \in Threads \ {t} : pc'[u] = pc[u]
    BY <1>3, <1>a DEF TypeOK, RotateStore, Goto
  <2>2. InFlight' = InFlight
    BY <2>1, InFlightMoves
  <2>3. Wrapping /\ t \in InFlight
    BY <2>1 DEF Wrapping, InFlight
  <2>4. InFlight = {t}
    BY <2>3, WrapperAlone
  <2>5. ~Wrapping'
    BY <2>1, <2>4 DEF Wrapping, InFlight
  <2>6. entry_cursor = 0 /\ Cardinality(InFlight) = 1
    BY <2>1, <2>3 DEF LapCursor, RoomForAll
  <2> QED BY <2>1, <2>2, <2>5, <2>6, <1>b DEF RoomForAll
<1>4. ASSUME NEW t \in Threads,
             \/ Lock(t) \/ LoadBuffer(t) \/ LoadCursor(t) \/ WriteId(t) \/ WriteTime(t)
             \/ IncLoad(t) \/ Unlock(t)
      PROVE  RoomForAll'
  <2>1. /\ pc[t] \in {"lock"} \cup Critical /\ pc[t] # "inc_store"
        /\ pc'[t] \in {"idle"} \cup Critical
        /\ pc[t] = "unlock" <=> pc'[t] = "idle"
        /\ pc'[t] # "unlock"
        /\ entry_cursor' = entry_cursor
        /\ \A u \in Threads \ {t} : pc'[u] = pc[u]
    BY <1>4, <1>a
    DEF TypeOK, Lock, LoadBuffer, LoadCursor, WriteId, WriteTime, IncLoad, Unlock, Goto, Critical
  <2>2. InFlight' = InFlight
    BY <2>1, InFlightMoves DEF Critical
  <2>3. Wrapping' = Wrapping
    BY <2>1 DEF Wrapping, Critical
  <2> QED BY <2>1, <2>2, <2>3 DEF RoomForAll
<1>5. ASSUME NEW t \in Threads, IncStore(t) PROVE RoomForAll'
  <2>1. /\ pc[t] = "inc_store" /\ pc'[t] = "unlock" /\ entry_cursor' = entry_cursor + 1
        /\ \A u \in Threads \ {t} : pc'[u] = pc[u]
    BY <1>5, <1>a DEF TypeOK, IncStore, Goto, LapCursor, HasCursor
  <2>2. Cardinality(InFlight') = Cardinality(InFlight) - 1
    BY <2>1, InFlightMoves
  <2>3. ~Wrapping /\ entry_cursor + Cardinality(InFlight) <= entry_count
    BY <2>1, RoomForCall DEF InFlight
  <2>4. ~Wrapping'
    BY <2>1, <2>3 DEF Wrapping
  <2> QED BY <2>1, <2>2, <2>3, <2>4, <1>b DEF RoomForAll
<1>6. ASSUME OtherStep PROVE RoomForAll'
  BY <1>6 DEF OtherStep, threadVars, RoomForAll, InFlight, Wrapping
<1> QED BY <1>1, <1>2, <1>3, <1>4, <1>5, <1>6, Others DEF add_entry

(* What a call loaded is still so when it uses it, and the cursor stays    *)
(* within the buffer.                                                      *)
LEMMA CursorStep ==
  ASSUME BaseInv, RoomForAll, LapCursor, [Next]_vars
  PROVE  LapCursor'
<1>a. TypeOK /\ MutualExclusion /\ CountInv
  BY DEF BaseInv
<1>b. /\ entry_count \in Nat \ {0} /\ entry_cursor \in Nat /\ entry_cursor <= entry_count
      /\ Len(recorded) \in Nat /\ entry_cursor <= Len(recorded)
  BY <1>a, CountsAssumption DEF TypeOK, CountInv, LapCursor
<1>1. ASSUME NEW t \in Threads, Check(t) PROVE LapCursor'
  BY <1>1, <1>a, <1>b DEF TypeOK, LapCursor, Check, Goto, HasBuffer, HasCursor, dumpVars
<1>2. ASSUME NEW t \in Threads, ResetCursor(t) PROVE LapCursor'
  <2>1. /\ pc[t] = "reset" /\ pc'[t] = "rotate_load"
        /\ \A u \in Threads \ {t} : pc'[u] = pc[u]
        /\ entry_cursor' = 0 /\ recorded' = recorded /\ oob' = oob /\ process' = process
    BY <1>2, <1>a DEF TypeOK, ResetCursor, Goto, dumpVars
  <2>2. \A u \in Threads \ {t} : pc'[u] \in {"idle", "unlock"}
    <3>1. InFlight = {t}
      BY <2>1, WrapperAlone DEF Wrapping, InFlight
    <3> QED BY <2>1, <3>1 DEF InFlight
  <2>3. entry_cursor = entry_count /\ Len(recorded) >= entry_count
    BY <2>1, <1>b DEF LapCursor
  <2>4. (Len(recorded) - 0) % entry_count = 0
    <3>1. (Len(recorded) - entry_count) \in Nat /\ (Len(recorded) - entry_count) % entry_count = 0
      BY <2>3, <1>b DEF LapCursor
    <3>2. (Len(recorded) - entry_count) + entry_count = Len(recorded) - 0
      BY <1>b
    <3> QED BY <3>1, <3>2, OneLapMore
  <2> QED BY <2>1, <2>2, <2>3, <2>4, <1>b DEF LapCursor, HasBuffer, HasCursor
<1>3. ASSUME NEW t \in Threads, RotateLoad(t) PROVE LapCursor'
  BY <1>3, <1>a, <1>b
  DEF TypeOK, LapCursor, RotateLoad, Goto, HasBuffer, HasCursor, dumpVars, historyVars
<1>4. ASSUME NEW t \in Threads, RotateStore(t) PROVE LapCursor'
  <2>1. /\ pc[t] = "rotate_store" /\ pc'[t] = "lock"
        /\ \A u \in Threads \ {t} : pc'[u] = pc[u]
        /\ UNCHANGED <<entry_cursor, recorded, oob, process>>
    BY <1>4, <1>a DEF TypeOK, RotateStore, Goto, dumpVars, historyVars
  <2>2. \A u \in Threads \ {t} : pc'[u] \in {"idle", "unlock"}
    <3>1. InFlight = {t}
      BY <2>1, WrapperAlone DEF Wrapping, InFlight
    <3> QED BY <2>1, <3>1 DEF InFlight
  <2> QED BY <2>1, <2>2 DEF LapCursor, HasBuffer, HasCursor
<1>5. ASSUME NEW t \in Threads, Lock(t) \/ IncLoad(t) \/ Unlock(t) PROVE LapCursor'
  BY <1>5, <1>a
  DEF TypeOK, LapCursor, Lock, IncLoad, Unlock, Goto, HasBuffer, HasCursor, dumpVars, historyVars
<1>6. ASSUME NEW t \in Threads, LoadBuffer(t) \/ LoadCursor(t) PROVE LapCursor'
  BY <1>6, <1>a
  DEF TypeOK, LapCursor, LoadBuffer, LoadCursor, Goto, HasBuffer, HasCursor, dumpVars, historyVars
<1>7. ASSUME NEW t \in Threads, NEW field \in {"id", "time"}, StoreWord(field, t),
             WriteId(t) \/ WriteTime(t)
      PROVE  LapCursor'
  <2>1. /\ pc[t] \in {"write_id", "write_time"} /\ t \in InFlight
        /\ pc'[t] \in {"time_buffer", "inc_load"}
        /\ \A u \in Threads \ {t} : pc'[u] = pc[u]
        /\ UNCHANGED <<active_buffer, entry_cursor, buffer, register, recorded>>
    BY <1>7, <1>a DEF TypeOK, WriteId, WriteTime, Goto, InFlight
  <2>2. entry_cursor \in Rows /\ buffer[t] = active_buffer /\ register[t] = entry_cursor
    BY <2>1, RoomForCall DEF LapCursor, HasBuffer, HasCursor
  <2>3. oob' = oob /\ (process' = process \/ process' = "exited")
    BY <2>2, <1>7, <1>a, StoreWordAtCursor
  <2> QED BY <2>1, <2>3 DEF LapCursor, HasBuffer, HasCursor
<1>8. ASSUME NEW t \in Threads, IncStore(t) PROVE LapCursor'
  <2>1. /\ pc[t] = "inc_store" /\ t \in InFlight /\ pc'[t] = "unlock"
        /\ \A u \in Threads \ {t} : pc'[u] = pc[u] /\ pc[u] \notin Critical
        /\ entry_cursor' = entry_cursor + 1 /\ UNCHANGED <<oob, process>>
    BY <1>8, <1>a
    DEF TypeOK, MutualExclusion, IncStore, Goto, InFlight, LapCursor, HasCursor, Critical, dumpVars
  <2>2. ~Wrapping /\ entry_cursor < entry_count
    BY <2>1, <1>b, RoomForCall DEF Rows
  <2>3. Len(recorded') - entry_cursor' = Len(recorded) - entry_cursor
    <3>1. Len(recorded') = Len(recorded) + 1
      BY <1>8, <1>a DEF TypeOK, IncStore
    <3> QED BY <2>1, <3>1, <1>b
  <2>4. \A u \in Threads : pc'[u] \notin {"reset", "rotate_load", "rotate_store"} \cup HasBuffer
                                           \cup HasCursor
    BY <2>1, <2>2 DEF Wrapping, Critical, HasBuffer, HasCursor
  <2> QED BY <2>1, <2>2, <2>3, <2>4, <1>b DEF LapCursor
<1>9. ASSUME OtherStep, process' # "crashed" PROVE LapCursor'
  BY <1>9 DEF OtherStep, threadVars, historyVars, LapCursor
<1>10. ASSUME ~\E t \in Threads : add_entry(t) PROVE process' # "crashed"
  BY <1>10
  DEF Next, BeginDump, dump_server_stats, SelectBuffer, DumpRow, Destroy, Exit, Ended, vars,
      dumpVars, LapCursor
<1> QED
  BY <1>1, <1>2, <1>3, <1>4, <1>5, <1>6, <1>7, <1>8, <1>9, <1>10, Others
  DEF add_entry, WriteId, WriteTime

(* A store of the owner of the mutex, and what it leaves alone.            *)
LEMMA OwnerStores ==
  ASSUME BaseInv, RoomForAll, LapCursor, NEW t \in Threads,
         NEW field \in {"id", "time"}, StoreWord(field, t),
         WriteId(t) \/ WriteTime(t)
  PROVE  /\ t \in InFlight /\ ~Wrapping /\ entry_cursor \in Rows
         /\ \A u \in Threads \ {t} : pc'[u] = pc[u] /\ pc[u] \notin Critical
         /\ Allocated' <=> Allocated
         /\ process \in {"freed", "exited"} <=> process' \in {"freed", "exited"}
         /\ process \notin {"freed", "exited"} => process' = process
         /\ UNCHANGED <<active_buffer, entry_cursor, call, until, dump_buffer, file, recorded,
                        disturbed>>
         /\ Allocated =>
              /\ \A b \in Buffers \ {active_buffer} : data_buffers'[b] = data_buffers[b]
              /\ \A r \in Rows \ {entry_cursor} :
                   data_buffers'[active_buffer][r] = data_buffers[active_buffer][r]
              /\ data_buffers'[active_buffer][entry_cursor] =
                   [data_buffers[active_buffer][entry_cursor] EXCEPT ![field] = call[t]]
<1>1. /\ pc[t] \in {"write_id", "write_time"} /\ t \in InFlight
      /\ \A u \in Threads \ {t} : pc'[u] = pc[u] /\ pc[u] \notin Critical
      /\ UNCHANGED <<active_buffer, entry_cursor, call, until, dump_buffer, file, recorded,
                     disturbed>>
  BY DEF BaseInv, TypeOK, MutualExclusion, WriteId, WriteTime, Goto, InFlight, Critical
<1>2. /\ ~Wrapping /\ entry_cursor \in Rows
      /\ buffer[t] = active_buffer /\ register[t] = entry_cursor
  BY <1>1, RoomForCall DEF LapCursor, HasBuffer, HasCursor
<1>3. /\ process' = process \/ (process = "freed" /\ process' = "exited")
      /\ process # "freed" =>
           /\ \A b \in Buffers \ {active_buffer} : data_buffers'[b] = data_buffers[b]
           /\ \A r \in Rows \ {entry_cursor} :
                data_buffers'[active_buffer][r] = data_buffers[active_buffer][r]
           /\ data_buffers'[active_buffer][entry_cursor] =
                [data_buffers[active_buffer][entry_cursor] EXCEPT ![field] = call[t]]
  BY <1>2, StoreWordAtCursor DEF BaseInv
<1> QED BY <1>1, <1>2, <1>3 DEF Allocated

(* The words of the owner of the mutex are at the cursor.                  *)
LEMMA OwnerStep ==
  ASSUME BaseInv, RoomForAll, LapCursor, LapOwner, [Next]_vars
  PROVE  LapOwner'
<1>a. TypeOK /\ MutualExclusion
  BY DEF BaseInv
<1>1. ASSUME NEW t \in Threads,
             \/ Check(t) \/ RotateLoad(t) \/ Lock(t) \/ LoadBuffer(t) \/ LoadCursor(t)
             \/ IncLoad(t) \/ Unlock(t)
      PROVE  LapOwner'
  <2>1. /\ UNCHANGED <<data_buffers, active_buffer, entry_cursor, process>>
        /\ \A u \in Threads \ {t} : pc'[u] = pc[u] /\ call'[u] = call[u]
        /\ pc'[t] \in IdStored => pc[t] \in IdStored /\ call' = call
        /\ pc'[t] \in BothStored => pc[t] \in BothStored /\ call' = call
    BY <1>1, <1>a
    DEF TypeOK, Check, RotateLoad, Lock, LoadBuffer, LoadCursor, IncLoad, Unlock, Goto,
        IdStored, BothStored, dumpVars
  <2>2. BothStored \subseteq IdStored
    BY DEF IdStored, BothStored
  <2> QED BY <2>1, <2>2 DEF LapOwner, Allocated
<1>2. ASSUME NEW t \in Threads, ResetCursor(t) \/ RotateStore(t) PROVE LapOwner'
  <2>1. /\ pc[t] \in {"reset", "rotate_store"} /\ pc'[t] \in {"rotate_load", "lock"}
        /\ \A u \in Threads \ {t} : pc'[u] = pc[u]
    BY <1>2, <1>a DEF TypeOK, ResetCursor, RotateStore, Goto
  <2>2. InFlight = {t}
    BY <2>1, WrapperAlone DEF Wrapping, InFlight
  <2>3. \A u \in Threads : pc'[u] \notin IdStored \cup BothStored
    BY <2>1, <2>2 DEF InFlight, IdStored, BothStored
  <2> QED BY <2>3 DEF LapOwner
<1>3. ASSUME NEW t \in Threads, WriteId(t) PROVE LapOwner'
  <2>1. StoreWord("id", t) /\ pc'[t] = "time_buffer"
    BY <1>3, <1>a DEF TypeOK, WriteId, Goto
  <2> SUFFICES ASSUME Allocated' PROVE LapOwner'
    BY DEF LapOwner
  <2>2. /\ \A u \in Threads \ {t} : pc'[u] \notin IdStored \cup BothStored
        /\ UNCHANGED <<active_buffer, entry_cursor, call>>
        /\ data_buffers'[active_buffer][entry_cursor] =
             [data_buffers[active_buffer][entry_cursor] EXCEPT !["id"] = call[t]]
        /\ entry_cursor \in Rows
    <3>1. /\ \A u \in Threads \ {t} : pc'[u] = pc[u] /\ pc[u] \notin Critical
          /\ UNCHANGED <<active_buffer, entry_cursor, call>>
          /\ data_buffers'[active_buffer][entry_cursor] =
               [data_buffers[active_buffer][entry_cursor] EXCEPT !["id"] = call[t]]
          /\ entry_cursor \in Rows
      BY <1>3, <2>1, OwnerStores
    <3>2. \A u \in Threads \ {t} : pc'[u] \notin IdStored \cup BothStored
      BY <3>1 DEF IdStored, BothStored, Critical
    <3> QED BY <3>1, <3>2
  <2>3. data_buffers[active_buffer][entry_cursor] \in Row
    BY <2>2, <1>a DEF TypeOK
  <2> QED BY <2>1, <2>2, <2>3 DEF LapOwner, Row, IdStored, BothStored
<1>4. ASSUME NEW t \in Threads, WriteTime(t) PROVE LapOwner'
  <2>1. StoreWord("time", t) /\ pc[t] = "write_time" /\ pc'[t] = "inc_load"
    BY <1>4, <1>a DEF TypeOK, WriteTime, Goto
  <2> SUFFICES ASSUME Allocated' PROVE LapOwner'
    BY DEF LapOwner
  <2>2. /\ \A u \in Threads \ {t} : pc'[u] = pc[u] /\ pc[u] \notin Critical
        /\ UNCHANGED <<active_buffer, entry_cursor, call>>
        /\ data_buffers'[active_buffer][entry_cursor] =
             [data_buffers[active_buffer][entry_cursor] EXCEPT !["time"] = call[t]]
        /\ entry_cursor \in Rows
    BY <1>4, <2>1, OwnerStores
  <2>3. data_buffers[active_buffer][entry_cursor] \in Row
    BY <2>2, <1>a DEF TypeOK
  <2>4. data_buffers[active_buffer][entry_cursor].id = call[t]
    <3>1. Allocated
      BY <1>4, <2>1, OwnerStores
    <3> QED BY <3>1, <2>1 DEF LapOwner, IdStored
  <2>5. \A u \in Threads \ {t} : pc'[u] \notin IdStored \cup BothStored
    BY <2>2 DEF IdStored, BothStored, Critical
  <2> QED BY <2>1, <2>2, <2>3, <2>4, <2>5 DEF LapOwner, Row
<1>5. ASSUME NEW t \in Threads, IncStore(t) PROVE LapOwner'
  <2>1. /\ pc'[t] = "unlock"
        /\ \A u \in Threads \ {t} : pc'[u] = pc[u] /\ pc[u] \notin Critical
    BY <1>5, <1>a DEF TypeOK, MutualExclusion, IncStore, Goto, Critical
  <2>2. \A u \in Threads : pc'[u] \notin IdStored \cup BothStored
    BY <2>1 DEF IdStored, BothStored, Critical
  <2> QED BY <2>2 DEF LapOwner
<1>6. ASSUME OtherStep, Allocated' => Allocated PROVE LapOwner'
  BY <1>6 DEF OtherStep, threadVars, LapOwner
<1>7. ASSUME ~\E t \in Threads : add_entry(t) PROVE Allocated' => Allocated
  BY <1>7
  DEF Next, BeginDump, dump_server_stats, SelectBuffer, DumpRow, Destroy, Exit, Ended, vars,
      dumpVars, Allocated
<1> QED BY <1>1, <1>2, <1>3, <1>4, <1>5, <1>6, <1>7, Others DEF add_entry

(* The laps are in the buffers.                                            *)
LEMMA RowsStep ==
  ASSUME BaseInv, RoomForAll, LapCursor, LapRows, LapOwner, [Next]_vars
  PROVE  LapRows'
<1>a. TypeOK /\ CountInv
  BY DEF BaseInv
<1>b. /\ entry_count \in Nat \ {0} /\ buffer_count \in Nat \ {0}
      /\ Len(recorded) \in Nat /\ entry_cursor \in Nat
      /\ entry_cursor <= Len(recorded) /\ entry_cursor <= entry_count
  BY <1>a, CountsAssumption DEF TypeOK, CountInv, LapCursor
<1>1. ASSUME NEW t \in Threads,
             \/ Check(t) \/ RotateLoad(t) \/ Lock(t) \/ LoadBuffer(t) \/ LoadCursor(t)
             \/ IncLoad(t) \/ Unlock(t)
      PROVE  LapRows'
  <2>1. /\ UNCHANGED <<data_buffers, active_buffer, entry_cursor, process, recorded>>
        /\ \A u \in Threads \ {t} : pc'[u] = pc[u]
        /\ pc'[t] \in {"rotate_load", "rotate_store"} <=> pc[t] \in {"rotate_load", "rotate_store"}
    BY <1>1, <1>a
    DEF TypeOK, Check, RotateLoad, Lock, LoadBuffer, LoadCursor, IncLoad, Unlock, Goto,
        dumpVars, historyVars
  <2>2. Rotating' = Rotating /\ Allocated' = Allocated
    BY <2>1 DEF Rotating, Allocated
  <2> QED BY <2>1, <2>2 DEF LapRows, Holds
<1>2. ASSUME NEW t \in Threads, ResetCursor(t) PROVE LapRows'
  <2>1. /\ pc[t] = "reset" /\ pc'[t] = "rotate_load" /\ entry_cursor' = 0
        /\ \A u \in Threads \ {t} : pc'[u] = pc[u]
        /\ UNCHANGED <<data_buffers, active_buffer, process, recorded>>
    BY <1>2, <1>a DEF TypeOK, ResetCursor, Goto, dumpVars
  <2>2. InFlight = {t}
    BY <2>1, WrapperAlone DEF Wrapping, InFlight
  <2>3. ~Rotating /\ Rotating' /\ Allocated' = Allocated
    BY <2>1, <2>2 DEF Rotating, InFlight, Allocated
  <2>4. entry_cursor = entry_count
    BY <2>1 DEF LapCursor
  <2>5. Len(recorded) - 0 - entry_count = Len(recorded) - entry_count
    BY <1>b
  <2> QED BY <2>1, <2>3, <2>4, <2>5 DEF LapRows, Holds
<1>3. ASSUME NEW t \in Threads, RotateStore(t) PROVE LapRows'
  <2>1. /\ pc[t] = "rotate_store" /\ pc'[t] = "lock"
        /\ \A u \in Threads \ {t} : pc'[u] = pc[u]
        /\ UNCHANGED <<data_buffers, entry_cursor, process, recorded>>
        /\ entry_cursor = 0 /\ active_buffer' = (active_buffer + 1) % buffer_count
    BY <1>3, <1>a DEF TypeOK, RotateStore, Goto, LapCursor, dumpVars, historyVars
  <2>2. InFlight = {t}
    BY <2>1, WrapperAlone DEF Wrapping, InFlight
  <2>3. Rotating /\ ~Rotating' /\ Allocated' = Allocated
    BY <2>1, <2>2 DEF Rotating, InFlight, Allocated
  <2>4. (active_buffer' + buffer_count - 1) % buffer_count = active_buffer
    <3>1. active_buffer \in Buffers
      BY <1>a DEF TypeOK
    <3>2. active_buffer' = IF active_buffer = buffer_count - 1 THEN 0 ELSE active_buffer + 1
      BY <3>1, <2>1, NextBuffer
    <3>3. active_buffer' \in Buffers
      BY <3>1, <3>2, <1>b DEF Buffers
    <3>4. (active_buffer' + buffer_count - 1) % buffer_count =
            IF active_buffer' = 0 THEN buffer_count - 1 ELSE active_buffer' - 1
      BY <3>3, NextBuffer
    <3> QED BY <3>1, <3>2, <3>4, <1>b DEF Buffers
  <2>5. Allocated => Holds(active_buffer, entry_count, Len(recorded) - entry_cursor - entry_count)
    BY <2>3 DEF LapRows
  <2> QED BY <2>1, <2>3, <2>4, <2>5 DEF LapRows, Holds
<1>4. ASSUME NEW t \in Threads, NEW field \in {"id", "time"}, StoreWord(field, t),
             WriteId(t) \/ WriteTime(t)
      PROVE  LapRows'
  <2> DEFINE base == Len(recorded) - entry_cursor
             previous == (active_buffer + buffer_count - 1) % buffer_count
  <2> SUFFICES ASSUME Allocated' PROVE LapRows'
    BY DEF LapRows
  <2>1. /\ Allocated /\ entry_cursor \in Rows
        /\ UNCHANGED <<active_buffer, entry_cursor, recorded>>
        /\ \A b \in Buffers \ {active_buffer} : data_buffers'[b] = data_buffers[b]
        /\ \A r \in Rows \ {entry_cursor} :
             data_buffers'[active_buffer][r] = data_buffers[active_buffer][r]
    BY <1>4, OwnerStores
  <2>2. ~Rotating /\ ~Rotating'
    <3>1. ~Wrapping /\ \A u \in Threads \ {t} : pc'[u] = pc[u]
      BY <1>4, OwnerStores
    <3>2. pc'[t] \in {"time_buffer", "inc_load"}
      BY <1>4, <1>a DEF TypeOK, WriteId, WriteTime, Goto
    <3> QED BY <3>1, <3>2 DEF Wrapping, Rotating
  <2>3. /\ Holds(active_buffer, entry_cursor, base)
        /\ base > 0 /\ buffer_count > 1 => Holds(previous, entry_count, base - entry_count)
    BY <2>1, <2>2 DEF LapRows
  <2>4. Holds(active_buffer, entry_cursor, base)'
    <3>1. 0 .. entry_cursor - 1 \subseteq Rows \ {entry_cursor}
      BY <2>1, <1>b DEF Rows
    <3> QED BY <3>1, <2>1, <2>3 DEF Holds
  <2>5. ASSUME base > 0, buffer_count > 1
        PROVE  Holds(previous, entry_count, base - entry_count)'
    <3>1. active_buffer \in Buffers
      BY <1>a DEF TypeOK
    <3>2. previous \in Buffers \ {active_buffer}
      BY <3>1, <2>5, <1>b, NextBuffer DEF Buffers
    <3>3. data_buffers'[previous] = data_buffers[previous] /\ previous' = previous
      BY <3>2, <2>1
    <3>4. Holds(previous, entry_count, base - entry_count)
      BY <2>3, <2>5
    <3> HIDE DEF previous
    <3> QED BY <3>3, <3>4, <2>1 DEF Holds
  <2> QED BY <2>1, <2>2, <2>4, <2>5 DEF LapRows
<1>5. ASSUME NEW t \in Threads, IncStore(t) PROVE LapRows'
  <2> DEFINE base == Len(recorded) - entry_cursor
             previous == (active_buffer + buffer_count - 1) % buffer_count
  <2>1. /\ pc[t] = "inc_store" /\ pc'[t] = "unlock" /\ t \in InFlight
        /\ entry_cursor' = entry_cursor + 1
        /\ \A u \in Threads \ {t} : pc'[u] = pc[u]
        /\ UNCHANGED <<data_buffers, active_buffer, process>>
    BY <1>5, <1>a DEF TypeOK, IncStore, Goto, InFlight, LapCursor, HasCursor, dumpVars
  <2>2. ~Wrapping /\ entry_cursor \in Rows
    BY <2>1, RoomForCall
  <2>3. ~Rotating /\ ~Rotating' /\ Allocated' = Allocated /\ previous' = previous
    BY <2>1, <2>2 DEF Wrapping, Rotating, Allocated
  <2>4. call[t] \in 1 .. MaxCalls /\ recorded' = Append(recorded, call[t])
    BY <2>1, <1>5, <1>a DEF TypeOK, CountInv, IncStore
  <2>5. /\ Len(recorded') = Len(recorded) + 1
        /\ recorded'[Len(recorded) + 1] = call[t]
        /\ \A i \in 1 .. Len(recorded) : recorded'[i] = recorded[i]
    BY <2>4, <1>a DEF TypeOK
  <2>6. base \in Nat /\ base % entry_count = 0 /\ base' = base
    BY <2>1, <2>5, <1>b DEF LapCursor
  <2> SUFFICES ASSUME Allocated
               PROVE  /\ Holds(active_buffer, entry_cursor, base)'
                      /\ base > 0 /\ buffer_count > 1 =>
                           Holds(previous, entry_count, base - entry_count)'
    BY <2>3, <2>6 DEF LapRows
  <2>7. /\ Holds(active_buffer, entry_cursor, base)
        /\ base > 0 /\ buffer_count > 1 => Holds(previous, entry_count, base - entry_count)
    BY <2>3 DEF LapRows
  <2>8. Holds(active_buffer, entry_cursor, base)'
    <3> SUFFICES ASSUME NEW r \in 0 .. entry_cursor' - 1
                 PROVE  data_buffers[active_buffer][r] = Entry(recorded'[base + r + 1])
      BY <2>1, <2>6 DEF Holds, Entry
    <3>1. CASE r = entry_cursor
      <4>1. data_buffers[active_buffer][r] \in Row
        BY <3>1, <2>2, <1>a DEF TypeOK
      <4>2. /\ data_buffers[active_buffer][r].id = call[t]
            /\ data_buffers[active_buffer][r].time = call[t]
        BY <3>1, <2>1 DEF LapOwner, IdStored, BothStored
      <4>3. base + r + 1 = Len(recorded) + 1
        BY <3>1, <1>b
      <4> QED BY <4>1, <4>2, <4>3, <2>5 DEF Row, Entry
    <3>2. CASE r # entry_cursor
      <4>1. r \in 0 .. entry_cursor - 1 /\ base + r + 1 \in 1 .. Len(recorded)
        BY <3>2, <2>1, <1>b
      <4>2. recorded'[base + r + 1] = recorded[base + r + 1]
        BY <4>1, <2>5
      <4> HIDE DEF base
      <4> QED BY <4>1, <4>2, <2>7 DEF Holds
    <3> QED BY <3>1, <3>2
  <2>9. ASSUME base > 0, buffer_count > 1
        PROVE  Holds(previous, entry_count, base - entry_count)'
    <3>1. base >= entry_count
      BY <2>6, <2>9, OneLapMore
    <3>2. \A r \in 0 .. entry_count - 1 : base - entry_count + r + 1 \in 1 .. Len(recorded)
      BY <3>1, <1>b
    <3>3. Holds(previous, entry_count, base - entry_count)
      BY <2>7, <2>9
    <3> HIDE DEF base, previous
    <3> QED BY <3>2, <3>3, <2>1, <2>3, <2>5, <2>6 DEF Holds, Entry
  <2> QED BY <2>8, <2>9
<1>6. ASSUME OtherStep, Allocated' => Allocated PROVE LapRows'
  BY <1>6 DEF OtherStep, threadVars, historyVars, LapRows, Rotating, Holds
<1>7. ASSUME ~\E t \in Threads : add_entry(t) PROVE Allocated' => Allocated
  BY <1>7
  DEF Next, BeginDump, dump_server_stats, SelectBuffer, DumpRow, Destroy, Exit, Ended, vars,
      dumpVars, Allocated
<1> QED
  BY <1>1, <1>2, <1>3, <1>4, <1>5, <1>6, <1>7, Others DEF add_entry, WriteId, WriteTime

(* The file is made of rows of the lap the dump began in.                  *)
LEMMA FileStep ==
  ASSUME BaseInv, RoomForAll, LapCursor, LapRows, LapFile, [Next]_vars
  PROVE  LapFile'
<1>a. TypeOK /\ CountInv
  BY DEF BaseInv
<1>b. /\ entry_count \in Nat \ {0} /\ Len(recorded) \in Nat /\ entry_cursor \in Nat
      /\ entry_cursor <= Len(recorded) /\ entry_cursor <= entry_count
      /\ until \in Nat /\ Len(file) \in Nat /\ until <= Len(recorded)
  BY <1>a, CountsAssumption DEF TypeOK, CountInv, LapCursor
<1>1. ASSUME NEW t \in Threads,
             \/ Check(t) \/ RotateLoad(t) \/ Lock(t) \/ LoadBuffer(t) \/ LoadCursor(t)
             \/ IncLoad(t) \/ Unlock(t)
      PROVE  LapFile'
  <2>1. UNCHANGED <<active_buffer, entry_cursor, dumpVars, recorded, disturbed>>
    BY <1>1
    DEF Check, RotateLoad, Lock, LoadBuffer, LoadCursor, IncLoad, Unlock, historyVars
  <2> QED BY <2>1 DEF LapFile, dumpVars, Allocated
<1>2. ASSUME NEW t \in Threads, ResetCursor(t) PROVE LapFile'
  <2>1. /\ UNCHANGED <<dumpVars, recorded>>
        /\ disturbed' = (disturbed \/ process \in {"stopping", "dumping"})
    BY <1>2 DEF ResetCursor
  <2> QED BY <2>1 DEF LapFile, dumpVars, Allocated
<1>3. ASSUME NEW t \in Threads, RotateStore(t) PROVE LapFile'
  <2>1. UNCHANGED <<entry_cursor, dumpVars, recorded, disturbed>> /\ entry_cursor = 0
    BY <1>3 DEF RotateStore, Goto, LapCursor, historyVars
  <2> QED BY <2>1, <1>b DEF LapFile, dumpVars, Allocated
<1>4. ASSUME NEW t \in Threads, NEW field \in {"id", "time"}, StoreWord(field, t),
             WriteId(t) \/ WriteTime(t)
      PROVE  LapFile'
  <2>1. /\ UNCHANGED <<active_buffer, entry_cursor, until, dump_buffer, file, recorded, disturbed>>
        /\ Allocated' <=> Allocated
        /\ process \in {"freed", "exited"} <=> process' \in {"freed", "exited"}
        /\ process \notin {"freed", "exited"} => process' = process
    BY <1>4, OwnerStores
  <2>2. Allocated' = Allocated
    BY <2>1 DEF Allocated
  <2> QED BY <2>1, <2>2 DEF LapFile
<1>5. ASSUME NEW t \in Threads, IncStore(t) PROVE LapFile'
  <2>1. /\ entry_cursor' = entry_cursor + 1 /\ call[t] \in 1 .. MaxCalls
        /\ recorded' = Append(recorded, call[t])
        /\ UNCHANGED <<active_buffer, dumpVars, disturbed>>
    BY <1>5, <1>a DEF TypeOK, CountInv, IncStore, Goto, LapCursor, HasCursor
  <2>2. /\ Len(recorded') = Len(recorded) + 1
        /\ \A i \in 1 .. Len(recorded) : recorded'[i] = recorded[i]
    BY <2>1, <1>a DEF TypeOK
  <2>3. Len(recorded') - entry_cursor' = Len(recorded) - entry_cursor
    BY <2>1, <2>2, <1>b
  <2>4. ASSUME ~disturbed, process # "up"
        PROVE  \E n \in 0 .. Len(recorded') - until :
                 /\ n % entry_count = 0
                 /\ Allocated => n = Len(recorded') - entry_cursor'
                 /\ \A i \in 1 .. Len(file) : file[i] = Entry(recorded'[n + i])
    <3>1. PICK n \in 0 .. Len(recorded) - until :
                 /\ n % entry_count = 0
                 /\ Allocated => n = Len(recorded) - entry_cursor
                 /\ \A i \in 1 .. Len(file) : file[i] = Entry(recorded[n + i])
      BY <2>4 DEF LapFile
    <3>2. \A i \in 1 .. Len(file) : n + i \in 1 .. Len(recorded)
      BY <2>4, <1>b DEF LapFile
    <3>3. n \in 0 .. Len(recorded') - until
      BY <2>2, <1>b
    <3> QED BY <3>1, <3>2, <3>3, <2>2, <2>3 DEF Entry
  <2>5. Allocated' = Allocated
    BY <2>1 DEF Allocated, dumpVars
  <2>6. UNCHANGED <<active_buffer, process, until, dump_buffer, file, disturbed>>
    BY <2>1 DEF dumpVars
  <2>7. ASSUME ~disturbed, process # "up"
        PROVE  \E n \in 0 .. Len(recorded') - until' :
                 /\ n % entry_count = 0
                 /\ Allocated' => n = Len(recorded') - entry_cursor'
                 /\ \A i \in 1 .. Len(file') : file'[i] = Entry(recorded'[n + i])
    BY <2>4, <2>5, <2>6, <2>7
  <2>8. process \in {"stopping", "dumping"} /\ ~disturbed => until <= entry_cursor'
    BY <2>1, <1>b DEF LapFile
  <2> QED BY <2>6, <2>7, <2>8 DEF LapFile, Entry
<1>6. ASSUME NEW h \in Threads \cup {MainThread}, BeginDump(h) PROVE LapFile'
  <2>1. /\ file' = << >> /\ until' = entry_cursor /\ process' = "stopping"
        /\ UNCHANGED <<entry_cursor, recorded, disturbed>>
    BY <1>6 DEF BeginDump, LapFile, historyVars
  <2>2. (Len(recorded) - entry_cursor) \in 0 .. Len(recorded) - entry_cursor
    BY <1>b
  <2> QED BY <2>1, <2>2, <1>b DEF LapFile, LapCursor
<1>7. ASSUME SelectBuffer PROVE LapFile'
  <2>1. /\ process = "stopping" /\ process' = "dumping" /\ dump_buffer' = active_buffer
        /\ UNCHANGED <<active_buffer, entry_cursor, until, file, recorded, disturbed>>
    BY <1>7 DEF SelectBuffer, historyVars
  <2> QED BY <2>1 DEF LapFile, Allocated
<1>8. ASSUME DumpRow PROVE LapFile'
  <2>1. /\ process = "dumping" /\ Len(file) < RowCount(until)
        /\ file' = Append(file, data_buffers[dump_buffer][Len(file)])
        /\ UNCHANGED <<active_buffer, entry_cursor, until, dump_buffer, process, recorded, disturbed>>
    BY <1>8 DEF DumpRow, historyVars
  <2> SUFFICES ASSUME ~disturbed PROVE LapFile'
    BY <2>1 DEF LapFile
  <2>2. until <= entry_cursor /\ Len(file) < until /\ dump_buffer = active_buffer
    <3>1. until <= entry_cursor /\ Len(file) < until
      BY <2>1, <1>b DEF LapFile, RowCount
    <3> QED BY <3>1, <2>1, <1>b DEF LapFile
  <2> DEFINE n == Len(recorded) - entry_cursor
  <2>3. /\ n \in 0 .. Len(recorded) - until /\ n % entry_count = 0
        /\ \A i \in 1 .. Len(file) : file[i] = Entry(recorded[n + i])
    BY <2>1 DEF LapFile, Allocated
  <2>4. Holds(active_buffer, entry_cursor, n)
    <3>1. ~Rotating
      BY <2>2, <1>b DEF Rotating, LapCursor
    <3> QED BY <3>1, <2>1 DEF LapRows, Allocated
  <2>5. data_buffers[dump_buffer][Len(file)] = Entry(recorded[n + (Len(file) + 1)])
    <3>1. Len(file) \in 0 .. entry_cursor - 1 /\ n + Len(file) + 1 = n + (Len(file) + 1)
      BY <2>2, <1>b
    <3> HIDE DEF n
    <3> QED BY <3>1, <2>2, <2>4 DEF Holds
  <2>6. /\ Len(file') = Len(file) + 1
        /\ file'[Len(file) + 1] = data_buffers[dump_buffer][Len(file)]
        /\ \A i \in 1 .. Len(file) : file'[i] = file[i]
    <3>1. data_buffers[dump_buffer][Len(file)] \in Row
      BY <2>2, <1>a, <1>b DEF TypeOK, Rows
    <3> QED BY <3>1, <2>1, <1>a DEF TypeOK
  <2> HIDE DEF n
  <2>7. \A i \in 1 .. Len(file') : file'[i] = Entry(recorded[n + i])
    <3> SUFFICES ASSUME NEW i \in 1 .. Len(file') PROVE file'[i] = Entry(recorded[n + i])
      OBVIOUS
    <3>1. i \in 1 .. Len(file) \/ i = Len(file) + 1
      BY <2>6, <1>b
    <3>2. CASE i \in 1 .. Len(file)
      BY <3>2, <2>3, <2>6
    <3>3. CASE i = Len(file) + 1
      BY <3>3, <2>5, <2>6
    <3> QED BY <3>1, <3>2, <3>3
  <2>8. Len(file') <= until'
    BY <2>1, <2>2, <2>6, <1>b
  <2>9. \E m \in 0 .. Len(recorded') - until' :
          /\ m % entry_count = 0
          /\ Allocated' => m = Len(recorded') - entry_cursor'
          /\ \A i \in 1 .. Len(file') : file'[i] = Entry(recorded'[m + i])
    BY <2>1, <2>3, <2>7 DEF n
  <2> QED BY <2>1, <2>2, <2>8, <2>9 DEF LapFile, Entry
<1>9. ASSUME Destroy \/ Exit PROVE LapFile'
  <2>1. /\ process \in {"dumping", "freed"} /\ process' \in {"freed", "exited"}
        /\ process = "dumping" => Len(file) >= RowCount(until)
        /\ UNCHANGED <<entry_cursor, until, file, recorded, disturbed>>
    BY <1>9 DEF Destroy, Exit, historyVars
  <2>2. ~disturbed => Len(file) = until
    <3>1. ~disturbed /\ process = "dumping" => until <= entry_count /\ Len(file) <= until
      BY <1>b DEF LapFile
    <3> QED BY <3>1, <2>1, <1>b DEF LapFile, RowCount
  <2> QED BY <2>1, <2>2 DEF LapFile, Allocated
<1>10. ASSUME UNCHANGED vars PROVE LapFile'
  BY <1>10 DEF vars, dumpVars, historyVars, LapFile, Allocated
<1> QED
  BY <1>1, <1>2, <1>3, <1>4, <1>5, <1>6, <1>7, <1>8, <1>9, <1>10
  DEF Next, add_entry, dump_server_stats, Ended, WriteId, WriteTime

LEMMA LapStep == BaseInv /\ LapInv /\ [Next]_vars => LapInv'
<1> SUFFICES ASSUME BaseInv, LapInv, [Next]_vars, ~crowded'
             PROVE  (RoomForAll /\ LapCursor /\ LapRows /\ LapOwner /\ LapFile)'
  BY DEF LapInv
<1>1. ~crowded
  BY DEF Next, add_entry, Check, ResetCursor, RotateLoad, RotateStore, Lock, LoadBuffer,
         LoadCursor, WriteId, WriteTime, IncLoad, IncStore, Unlock, BeginDump,
         dump_server_stats, SelectBuffer, DumpRow, Destroy, Exit, Ended, vars, historyVars
<1>2. RoomForAll /\ LapCursor /\ LapRows /\ LapOwner /\ LapFile
  BY <1>1 DEF LapInv
<1> QED BY <1>2, RoomStep, CursorStep, RowsStep, OwnerStep, FileStep

(* However many threads record and however often the buffers wrap, only a  *)
(* call that begins when those in flight may fill the buffer can lose,     *)
(* tear or overrun a row, and the file is one lap unless the cursor is     *)
(* reset while it is written (src/shared/ServerStats.cpp:54-79, 130-150).  *)
THEOREM LapsKeptCorrect == Spec => []LapsKept
<1>1. Spec => [](BaseInv /\ LapInv)
  BY BaseInit, LapInit, BaseStep, LapStep, PTL DEF Spec
<1>2. BaseInv /\ LapInv => LapsKept
  <2> SUFFICES ASSUME BaseInv, LapInv, ~crowded
               PROVE  LapPreserved /\ (~disturbed => LapDumped)
    BY DEF LapsKept
  <2>1. LapCursor /\ LapRows /\ LapFile
    BY DEF LapInv
  <2>2. /\ entry_count \in Nat \ {0} /\ Len(recorded) \in Nat /\ entry_cursor \in Nat
        /\ entry_cursor <= Len(recorded)
    BY CountsAssumption DEF BaseInv, TypeOK, CountInv
  <2>3. LapPreserved
    <3> SUFFICES ASSUME Allocated, ~Rotating
                 PROVE  LET n == Len(recorded) - entry_cursor
                        IN /\ n >= 0 /\ n % entry_count = 0
                           /\ \A r \in 0 .. entry_cursor - 1 :
                                data_buffers[active_buffer][r] = Entry(recorded[n + r + 1])
                           /\ n > 0 /\ buffer_count > 1 =>
                                LET previous == (active_buffer + buffer_count - 1) % buffer_count
                                IN \A r \in Rows :
                                     data_buffers[previous][r] =
                                       Entry(recorded[n - entry_count + r + 1])
      BY <2>1 DEF LapPreserved, LapCursor, Rotating, Entry
    <3> QED BY <2>1, <2>2 DEF LapCursor, LapRows, Holds, Rows
  <2>4. ASSUME ~disturbed PROVE LapDumped
    <3> SUFFICES ASSUME process \in {"freed", "exited"}
                 PROVE  \E n \in 0 .. Len(recorded) - until :
                          n % entry_count = 0 /\ file = [i \in 1 .. until |-> Entry(recorded[n + i])]
      BY DEF LapDumped
    <3>1. Len(file) = until
      BY <2>1, <2>4 DEF LapFile
    <3>2. PICK n \in 0 .. Len(recorded) - until :
                 n % entry_count = 0 /\ \A i \in 1 .. Len(file) : file[i] = Entry(recorded[n + i])
      BY <2>1, <2>4 DEF LapFile
    <3>3. file = [i \in 1 .. Len(file) |-> file[i]]
      BY DEF BaseInv, TypeOK
    <3> QED BY <3>1, <3>2, <3>3
  <2> QED BY <2>3, <2>4
<1> QED BY <1>1, <1>2, PTL

-----------------------------------------------------------------------------
(* A call is counted once.                                                 *)
LEMMA RecordedOnceStep == BaseInv /\ RecordedOnce /\ [Next]_vars => RecordedOnce'
<1> SUFFICES ASSUME BaseInv, RecordedOnce, [Next]_vars PROVE RecordedOnce'
  OBVIOUS
<1>a. TypeOK /\ CountInv
  BY DEF BaseInv
<1>b. Len(recorded) \in Nat /\ started \in Nat
  BY <1>a, CountsAssumption DEF TypeOK
<1>1. ASSUME NEW t \in Threads, Check(t) PROVE RecordedOnce'
  <2>1. InFlight' = InFlight \cup {t} /\ t \notin InFlight
    BY <1>1, <1>a DEF TypeOK, Check, Goto, InFlight
  <2>2. /\ call'[t] = started + 1 /\ started' = started + 1 /\ recorded' = recorded
        /\ \A u \in InFlight : call'[u] = call[u]
    BY <1>1, <2>1, <1>a DEF TypeOK, Check, InFlight
  <2>3. \A i \in 1 .. Len(recorded) : recorded[i] \in Nat
    <3>1. recorded \in Seq(1 .. MaxCalls)
      BY <1>a DEF TypeOK
    <3>2. \A i \in 1 .. Len(recorded) : recorded[i] \in 1 .. MaxCalls
      BY <3>1, ElementOfSeq
    <3>3. \A k \in 1 .. MaxCalls : k \in Nat
      BY CountsAssumption
    <3> QED BY <3>2, <3>3, Zenon
  <2>4. \A u \in InFlight : call[u] \in Nat
    BY <1>a, CountsAssumption DEF TypeOK, InFlight
  <2> QED BY <2>1, <2>2, <2>3, <2>4, <1>b DEF RecordedOnce
<1>2. ASSUME NEW t \in Threads, IncStore(t) PROVE RecordedOnce'
  <2>1. InFlight' = InFlight \ {t} /\ t \in InFlight
    BY <1>2, <1>a DEF TypeOK, IncStore, Goto, InFlight
  <2>2. call[t] \in 1 .. MaxCalls
    BY <1>2, <1>a DEF TypeOK, CountInv, IncStore, Goto
  <2>3. /\ Len(recorded') = Len(recorded) + 1
        /\ recorded'[Len(recorded) + 1] = call[t]
        /\ \A i \in 1 .. Len(recorded) : recorded'[i] = recorded[i]
    BY <1>2, <2>2, <1>a DEF TypeOK, IncStore
  <2>4. call' = call /\ started' = started
    BY <1>2 DEF IncStore
  <2>5. 1 .. Len(recorded') = (1 .. Len(recorded)) \cup {Len(recorded) + 1}
    BY <2>3, <1>b
  <2>6. \A i \in 1 .. Len(recorded') : recorded'[i] <= started'
    BY <2>1, <2>3, <2>4, <2>5 DEF RecordedOnce
  <2>7. \A i, j \in 1 .. Len(recorded') : recorded'[i] = recorded'[j] => i = j
    BY <2>1, <2>3, <2>5 DEF RecordedOnce
  <2>8. \A u \in InFlight' :
          /\ call'[u] <= started'
          /\ \A i \in 1 .. Len(recorded') : recorded'[i] # call'[u]
          /\ \A v \in InFlight' : call'[v] = call'[u] => v = u
    BY <2>1, <2>3, <2>4, <2>5 DEF RecordedOnce
  <2> QED BY <2>6, <2>7, <2>8 DEF RecordedOnce
<1>3. ASSUME InFlight' = InFlight, call' = call, started' = started, recorded' = recorded
      PROVE  RecordedOnce'
  BY <1>3 DEF RecordedOnce
<1>4. ASSUME NEW t \in Threads,
             \/ ResetCursor(t) \/ RotateLoad(t) \/ RotateStore(t) \/ Lock(t)
             \/ LoadBuffer(t) \/ LoadCursor(t) \/ IncLoad(t) \/ Unlock(t)
      PROVE  RecordedOnce'
  <2>1. InFlight' = InFlight
    BY <1>4, <1>a
    DEF TypeOK, ResetCursor, RotateLoad, RotateStore, Lock, LoadBuffer, LoadCursor,
        IncLoad, Unlock, Goto, InFlight
  <2> QED
    BY <2>1, <1>3, <1>4
    DEF ResetCursor, RotateLoad, RotateStore, Lock, LoadBuffer, LoadCursor, IncLoad, Unlock,
        historyVars
<1>5. ASSUME NEW t \in Threads, WriteId(t) \/ WriteTime(t) PROVE RecordedOnce'
  <2>1. InFlight' = InFlight
    BY <1>5, <1>a DEF TypeOK, WriteId, WriteTime, Goto, InFlight
  <2> QED BY <2>1, <1>3, <1>5 DEF WriteId, WriteTime
<1>6. CASE UNCHANGED <<threadVars, recorded>>
  BY <1>3, <1>6 DEF threadVars, InFlight
<1> QED
  <2>1. CASE \E t \in Threads : add_entry(t)
    BY <2>1, <1>1, <1>2, <1>4, <1>5 DEF add_entry
  <2>2. CASE ~\E t \in Threads : add_entry(t)
    BY <2>2, <1>6
    DEF Next, BeginDump, dump_server_stats, SelectBuffer, DumpRow, Destroy, Exit, Ended,
        vars, threadVars, historyVars
  <2> QED BY <2>1, <2>2

(* As long as the calls fit a buffer, the threads and the SIGINT handler,  *)
(* which share no lock, implement the log of StatsLog: a call is recorded  *)
(* atomically and once, and what is saved is the log as it was when the    *)
(* save was asked for (src/shared/ServerStats.cpp:54-100).                 *)
THEOREM ImplementsStatsLog == MaxCalls <= entry_count => (Spec => Log!Spec)
<1> SUFFICES ASSUME MaxCalls <= entry_count PROVE Spec => Log!Spec
  OBVIOUS
<1>1. Spec => [](BaseInv /\ RecordingInv /\ RecordedOnce)
  <2>1. Init => RecordedOnce
    BY DEF Init, RecordedOnce, InFlight
  <2> QED BY <2>1, BaseInit, RecordingInit, BaseStep, RecordingStep, RecordedOnceStep, PTL DEF Spec
<1>2. Init => Log!Init
  BY DEF Init, Log!Init, log
<1>3. BaseInv /\ RecordingInv /\ RecordedOnce /\ [Next]_vars => [Log!Next]_(Log!vars)
  <2> SUFFICES ASSUME BaseInv, RecordingInv, RecordedOnce, [Next]_vars
               PROVE  [Log!Next]_(Log!vars)
    OBVIOUS
  <2>a. TypeOK /\ CountInv /\ NoWrap /\ FileInv
    <3>1. started <= entry_count
      BY CountsAssumption DEF BaseInv, TypeOK
    <3> QED BY <3>1 DEF BaseInv, RecordingInv
  <2>1. ASSUME NEW t \in Threads, IncStore(t) PROVE Log!Next
    <3>1. t \in InFlight /\ call[t] \in 1 .. MaxCalls
      BY <2>1, <2>a DEF TypeOK, CountInv, IncStore, Goto, InFlight
    <3>2. Log!Record(call[t])
      BY <2>1, <3>1 DEF Log!Record, log, IncStore, RecordedOnce, dumpVars
    <3> QED BY <3>1, <3>2 DEF Log!Next
  <2>2. ASSUME NEW h \in Threads \cup {MainThread}, BeginDump(h) PROVE Log!Next
    BY <2>2, <2>a DEF Log!Next, Log!Stop, log, BeginDump, NoWrap, historyVars
  <2>3. ASSUME Destroy PROVE Log!Next
    <3>1. until \in Nat /\ until <= entry_count
      BY <2>a, CountsAssumption DEF TypeOK
    <3>2. Len(file) = until /\ \A i \in 1 .. Len(file) : file[i] = Entry(recorded[i])
      <4>1. started <= entry_count
        BY <2>a, CountsAssumption DEF TypeOK
      <4> QED BY <4>1, <3>1, <2>3, <2>a, CountsAssumption
              DEF TypeOK, FileInv, DumpFaithful, Destroy, RowCount
    <3>3. file = [i \in 1 .. until |-> Entry(recorded[i])]
      BY <3>2, <2>a DEF TypeOK
    <3> QED BY <3>3, <2>3 DEF Log!Next, Log!Save, log, Destroy, Entry, historyVars
  <2>4. ASSUME UNCHANGED <<recorded, until, file>>, 
               \/ process' = process
               \/ process = "stopping" /\ process' = "dumping"
               \/ process = "freed" /\ process' = "exited"
        PROVE  UNCHANGED Log!vars
    BY <2>4 DEF Log!vars, log
  <2>5. ASSUME NEW t \in Threads, WriteId(t) \/ WriteTime(t) PROVE UNCHANGED Log!vars
    <3>1. t \in InFlight /\ started <= entry_count
      BY <2>5, <2>a, CountsAssumption DEF TypeOK, WriteId, WriteTime, Goto, InFlight
    <3>2. process' = process \/ (process = "freed" /\ process' = "exited")
      <4>1. CASE WriteId(t)
        BY <4>1, <3>1, StoreWordInRows DEF WriteId, Goto
      <4>2. CASE WriteTime(t)
        BY <4>2, <3>1, StoreWordInRows DEF WriteTime, Goto
      <4> QED BY <2>5, <4>1, <4>2
    <3> QED BY <3>2, <2>4, <2>5 DEF WriteId, WriteTime
  <2>6. ASSUME DumpRow PROVE UNCHANGED Log!vars
    BY <2>6 DEF DumpRow, Log!vars, log, historyVars
  <2>7. ASSUME NEW t \in Threads, add_entry(t), ~IncStore(t), ~WriteId(t), ~WriteTime(t)
        PROVE  UNCHANGED Log!vars
    BY <2>4, <2>7
    DEF add_entry, Check, ResetCursor, RotateLoad, RotateStore, Lock, LoadBuffer, LoadCursor,
        IncLoad, Unlock, dumpVars, historyVars
  <2>8. ASSUME SelectBuffer \/ Exit \/ Ended \/ UNCHANGED vars PROVE UNCHANGED Log!vars
    BY <2>4, <2>8 DEF SelectBuffer, Exit, Ended, vars, dumpVars, historyVars
  <2> QED BY <2>1, <2>2, <2>3, <2>5, <2>6, <2>7, <2>8 DEF Next, dump_server_stats
<1> QED BY <1>1, <1>2, <1>3, PTL DEF Spec, Log!Spec
=============================================================================
