-------------------------- MODULE PravegaSinkProofs --------------------------
(***************************************************************************)
(* What pravegasink guarantees to readers, proved for every buffer size,   *)
(* every order of timestamps and every pattern of failures.                *)
(*                                                                         *)
(* The properties are not inductive by themselves.  An index record can be *)
(* written because render's local offset is still the end of the data      *)
(* stream when the flush returns (Locals), which holds because             *)
(* seek_to_tail found everything stored at start (Positions); the final    *)
(* record is in order because final_offset is never behind a record        *)
(* (FinalOffset), and continuous because a session that has a final        *)
(* timestamp has written a record (Locals, TailContinuous).                *)
(*                                                                         *)
(* Then what is about the order of timestamps: where records are due, and  *)
(* that the index orders the data.  Each has a condition on the constants, *)
(* SpacingFits and OrderedRun, and an invariant of its own.  And that what *)
(* is stored is an IndexedStream.                                          *)
(***************************************************************************)
EXTENDS PravegaSink, SequenceTheorems, TLAPS

Alive == pc \notin {"stopped", "crashed"}

Bounds == durable <= sent /\ sent <= Len(log) /\ idxDurable <= Len(idx)

Positions ==
  /\ ~Alive => durable = Len(log) /\ idxDurable = Len(idx)
  /\ pc \in {"stopIndex", "sealData", "sealIndex"} => durable = Len(log)
  /\ pc \in {"sealData", "sealIndex"} => idxDurable = Len(idx)

Locals ==
  /\ Alive => offset = Len(log)
  /\ pc \in {"flush", "event"} =>
       cur.offset = Len(log) /\ (buffers_written = 0 => cur.discontinuity)
  /\ pc = "flush" => cur.buf.ts # NONE /\ (last_index_time = NONE => cur.discontinuity)
  /\ (pc \in {"event", "syncData", "syncIndex"} /\ cur.buf.ts # NONE) => last_index_time # NONE
  /\ final_timestamp # NONE => last_index_time # NONE

FinalOffset ==
  (Alive /\ final_offset # NONE) =>
    /\ final_offset <= Len(log)
    /\ \A i \in DOMAIN idx : idx[i].offset <= final_offset
    /\ pc \in {"idle", "flush", "event"} => final_offset = Len(log)

\* The last event of a running session is the last one of the stream.
SessionTail ==
  (Alive /\ buffers_written > 0) =>
    /\ Len(log) > 0
    /\ log[Len(log)].session = session
    /\ log[Len(log)].seq = buffers_written - 1

\* From the session's last index record on, the data is the session's own.
TailContinuous ==
  (Alive /\ last_index_time # NONE) =>
    /\ Len(idx) > 0
    /\ idx[Len(idx)].session = session
    /\ buffers_written = 0 => idx[Len(idx)].offset = Len(log)
    /\ \A k \in idx[Len(idx)].offset + 1 .. Len(log) :
         /\ log[k].session = session
         /\ k > idx[Len(idx)].offset + 1 => Follows(log[k-1], log[k])

SinkInv ==
  /\ TypeOK /\ Bounds /\ Positions /\ Locals /\ FinalOffset /\ SessionTail /\ TailContinuous
  /\ IndexWithinData /\ OffsetsInOrder /\ LossIsMarked /\ ContinuousBetweenRecords

-----------------------------------------------------------------------------
(* Type correctness *)

LEMMA WrapAddType == ASSUME NEW a \in Nat, NEW b \in Nat PROVE WrapAdd(a, b) \in Nat
<1>1. a + b \in Nat /\ U64 \in Nat \ {0}
  BY SinkAssumption
<1> QED
  BY <1>1 DEF WrapAdd

LEMMA TypeInit == Init => TypeOK /\ Bounds
<1> SUFFICES ASSUME Init PROVE TypeOK /\ Bounds
  OBVIOUS
<1>1. cur \in Rendering
  BY DEF Init, NoRendering, Rendering, Buffer, Time, NONE
<1>2. log \in Seq(Event) /\ idx \in Seq(IndexRecord) /\ Len(log) = 0 /\ Len(idx) = 0
  BY DEF Init
<1>3. /\ pc \in PCs /\ last_index_time \in Time /\ final_timestamp \in Time /\ final_offset \in Time
      /\ dataSealed \in BOOLEAN /\ indexSealed \in BOOLEAN
  BY DEF Init, PCs, Time, NONE
<1>4. /\ sent \in Nat /\ durable \in Nat /\ idxDurable \in Nat /\ offset \in Nat
      /\ buffers_written \in Nat /\ session \in Nat
  BY DEF Init
<1>5. Bounds
  BY <1>2 DEF Init, Bounds
<1> QED
  BY <1>1, <1>2, <1>3, <1>4, <1>5 DEF TypeOK

LEMMA TypeStep == TypeOK /\ Bounds /\ [Next]_vars => TypeOK'
<1> SUFFICES ASSUME TypeOK, Bounds, [Next]_vars PROVE TypeOK'
  OBVIOUS
<1> USE DEF TypeOK, dataVars, indexVars, stateVars
<1>0. NoRendering \in Rendering /\ NONE \in Time
  BY DEF NoRendering, Rendering, Buffer, Time, NONE
<1>1. CASE Start
  BY <1>1, <1>0 DEF Start, FreshState, TailOffset, PCs
<1>2. CASE StartAgain
  BY <1>2 DEF StartAgain, PCs
<1>3. ASSUME NEW b \in Buffers, Render(b) PROVE TypeOK'
  <2>1. cur' \in Rendering
    <3>1. b \in Buffer
      BY SinkAssumption
    <3>2. IncludeInIndex(b) \in BOOLEAN /\ Discontinuity(b, IncludeInIndex(b)) \in BOOLEAN
      BY <3>1, Zenon DEF IncludeInIndex, Discontinuity, Buffer
    <3> QED
      BY <1>3, <3>1, <3>2 DEF Render, Rendering
  <2>2. sent' \in Nat /\ pc' \in PCs
    BY <1>3 DEF Render, FlushBuf, PCs
  <2> QED
    BY <1>3, <2>1, <2>2 DEF Render
<1>4. CASE Stop
  BY <1>4 DEF Stop, FlushBuf, PCs
<1>5. CASE WriteIndexRecord
  <2>1. CurrentRecord \in IndexRecord \/ cur.buf.ts = NONE
    BY DEF CurrentRecord, IndexRecord, Rendering, Buffer
  <2>2. cur.buf.ts \in Time /\ CurrentRecord \in IndexRecord
    BY DEF CurrentRecord, IndexRecord, Rendering, Buffer
  <2> QED
    BY <1>5, <1>0, <2>2 DEF WriteIndexRecord, PCs
<1>6. CASE WriteEvent
  <2>1. CurrentEvent \in Event
    BY DEF CurrentEvent, Event, Rendering, Buffer
  <2>2. cur.buf.ts \in Time /\ cur.buf.duration \in Nat /\ offset + 1 \in Nat
    BY DEF Rendering, Buffer
  <2>3. RememberFinal(offset + 1) => final_timestamp' \in Time /\ final_offset' \in Time
    BY <2>2, WrapAddType DEF RememberFinal, Time, NONE
  <2>4. SentAfterWrite \in Nat
    BY SinkAssumption DEF SentAfterWrite
  <2>5. CASE cur.buf.oversize
    <3>1. pc' = "errored" /\ cur' \in Rendering /\ log' = log /\ sent' = sent
      BY <1>6, <1>0, <2>5 DEF WriteEvent
    <3> QED
      BY <1>6, <2>5, <3>1 DEF WriteEvent, PCs
  <2>6. CASE ~cur.buf.oversize
    <3>1. log' \in Seq(Event)
      BY <1>6, <2>1, <2>6 DEF WriteEvent
    <3>2. pc' \in PCs /\ cur' \in Rendering /\ sent' \in Nat
      BY <1>6, <1>0, <2>4, <2>6 DEF WriteEvent, PCs
    <3>3. final_timestamp' \in Time /\ final_offset' \in Time
      BY <1>6, <2>3, <2>6 DEF WriteEvent
    <3> QED
      BY <1>6, <2>2, <2>6, <3>1, <3>2, <3>3 DEF WriteEvent
  <2> QED
    BY <2>5, <2>6
<1>7. CASE SyncData
  BY <1>7 DEF SyncData, PCs
<1>8. CASE SyncIndex
  <2>1. cur.buf.ts \in Time /\ cur.buf.duration \in Nat
    BY DEF Rendering, Buffer
  <2>2. final_timestamp' \in Time /\ final_offset' \in Time
    BY <1>8, <2>1, WrapAddType DEF SyncIndex, RememberFinal, Time, NONE
  <2> QED
    BY <1>8, <1>0, <2>2 DEF SyncIndex, PCs
<1>9. CASE WriteFinalRecord
  <2>1. HasFinal => FinalRecord \in IndexRecord
    BY DEF HasFinal, FinalRecord, IndexRecord, Time, NONE
  <2>2. idx' \in Seq(IndexRecord)
    BY <1>9, <2>1 DEF WriteFinalRecord
  <2> QED
    BY <1>9, <2>2 DEF WriteFinalRecord, PCs
<1>10. CASE StopIndexFlushed
  BY <1>10, <1>0 DEF StopIndexFlushed, FreshState, PCs
<1>11. CASE SealData
  BY <1>11 DEF SealData, PCs
<1>12. CASE SealIndex
  BY <1>12, <1>0 DEF SealIndex, FreshState, PCs
<1>13. CASE CallFails
  BY <1>13, <1>0 DEF CallFails, FailCall, PCs
<1>14. CASE SealedStreamRejects
  BY <1>14, <1>0 DEF SealedStreamRejects, FailCall, PCs
<1>15. CASE WritePanics
  BY <1>15, <1>0 DEF WritePanics, PCs
<1>16. CASE Crash
  <2>1. \A i \in 1 .. durable : log[i] \in Event
    BY DEF Bounds
  <2>2. \A i \in 1 .. idxDurable : idx[i] \in IndexRecord
    BY DEF Bounds
  <2>3. log' \in Seq(Event)
    BY <1>16, <2>1, SubSeqProperties DEF Crash
  <2>4. idx' \in Seq(IndexRecord)
    BY <1>16, <2>2, SubSeqProperties DEF Crash
  <2> QED
    <3>1. /\ pc' \in PCs /\ cur' \in Rendering /\ sent' \in Nat /\ durable' \in Nat /\ idxDurable' \in Nat
          /\ dataSealed' = dataSealed /\ indexSealed' = indexSealed /\ session' \in Nat
      BY <1>16, <1>0 DEF Crash, PCs
    <3>2. /\ offset' \in Nat /\ buffers_written' \in Nat /\ last_index_time' \in Time
          /\ final_timestamp' \in Time /\ final_offset' \in Time
      BY <1>16, <1>0 DEF Crash, FreshState
    <3> QED
      BY <2>3, <2>4, <3>1, <3>2, Zenon
<1>17. CASE StoreData
  BY <1>17 DEF StoreData
<1>18. CASE StoreIndex
  BY <1>18 DEF StoreIndex
<1>19. CASE UNCHANGED vars
  BY <1>19 DEF vars
<1> QED
  BY <1>1, <1>2, <1>3, <1>4, <1>5, <1>6, <1>7, <1>8, <1>9, <1>10, <1>11, <1>12, <1>13,
     <1>14, <1>15, <1>16, <1>17, <1>18, <1>19 DEF Next, RenderSteps, StopSteps

LEMMA BoundsStep == TypeOK /\ Bounds /\ [Next]_vars => Bounds'
<1> SUFFICES ASSUME TypeOK, Bounds, [Next]_vars PROVE Bounds'
  OBVIOUS
<1> USE DEF TypeOK, Bounds, dataVars, indexVars, stateVars
<1>1. CASE Crash
  <2>1. Len(log') = durable /\ Len(idx') = idxDurable
    BY <1>1 DEF Crash
  <2> QED
    BY <1>1, <2>1 DEF Crash
<1>2. CASE WriteEvent
  <2>1. SentAfterWrite >= sent /\ SentAfterWrite <= Len(log) + 1 /\ SentAfterWrite \in Nat
    BY SinkAssumption DEF SentAfterWrite
  <2> QED
    BY <1>2, <2>1 DEF WriteEvent
<1>3. CASE WriteIndexRecord \/ WriteFinalRecord
  <2>1. Len(idx') >= Len(idx) /\ UNCHANGED <<log, sent, durable, idxDurable>>
    BY <1>3 DEF WriteIndexRecord, WriteFinalRecord
  <2> QED
    BY <2>1
<1>4. CASE (\E b \in Buffers : Render(b)) \/ Stop
  BY <1>4 DEF Render, Stop, FlushBuf
<1>5. CASE StoreData \/ StoreIndex
  BY <1>5 DEF StoreData, StoreIndex
<1>6. CASE UNCHANGED <<log, sent, durable, idx, idxDurable>>
  BY <1>6
<1>7. CASE Start \/ StartAgain \/ SyncData \/ SyncIndex \/ StopIndexFlushed \/ SealData
           \/ SealIndex \/ CallFails \/ SealedStreamRejects \/ WritePanics \/ UNCHANGED vars
  BY <1>6, <1>7 DEF Start, StartAgain, SyncData, SyncIndex, StopIndexFlushed, SealData, SealIndex,
                    CallFails, SealedStreamRejects, FailCall, WritePanics, vars
<1> QED
  BY <1>1, <1>2, <1>3, <1>4, <1>5, <1>7 DEF Next, RenderSteps, StopSteps

-----------------------------------------------------------------------------
(* The inductive invariant *)

\* How a step changes the two sequences.
LEMMA SequenceStep ==
  ASSUME TypeOK, Bounds, [Next]_vars
  PROVE  /\ \/ WriteEvent /\ ~cur.buf.oversize /\ log' = Append(log, CurrentEvent)
            \/ Crash /\ Len(log') = durable /\ \A k \in 1 .. durable : log'[k] = log[k]
            \/ log' = log
         /\ \/ WriteIndexRecord /\ idx' = Append(idx, CurrentRecord)
            \/ WriteFinalRecord /\ HasFinal /\ idx' = Append(idx, FinalRecord)
            \/ Crash /\ Len(idx') = idxDurable /\ \A k \in 1 .. idxDurable : idx'[k] = idx[k]
            \/ idx' = idx
<1> USE DEF TypeOK, Bounds, dataVars, indexVars, stateVars
<1>1. CASE Crash
  <2>1. Len(log') = durable /\ \A k \in 1 .. durable : log'[k] = log[k]
    BY <1>1 DEF Crash
  <2>2. Len(idx') = idxDurable /\ \A k \in 1 .. idxDurable : idx'[k] = idx[k]
    BY <1>1 DEF Crash
  <2> QED
    BY <1>1, <2>1, <2>2
<1>2. CASE WriteEvent
  BY <1>2 DEF WriteEvent
<1>3. CASE WriteIndexRecord
  BY <1>3 DEF WriteIndexRecord
<1>4. CASE WriteFinalRecord
  BY <1>4 DEF WriteFinalRecord
<1>5. CASE (\E b \in Buffers : Render(b)) \/ Stop \/ StoreData \/ StoreIndex
  BY <1>5 DEF Render, Stop, StoreData, StoreIndex
<1>6. CASE Start \/ StartAgain \/ SyncData \/ SyncIndex \/ StopIndexFlushed \/ SealData
           \/ SealIndex \/ CallFails \/ SealedStreamRejects \/ WritePanics \/ UNCHANGED vars
  BY <1>6 DEF Start, StartAgain, SyncData, SyncIndex, StopIndexFlushed, SealData, SealIndex,
              CallFails, SealedStreamRejects, FailCall, WritePanics, vars
<1> QED
  BY <1>1, <1>2, <1>3, <1>4, <1>5, <1>6 DEF Next, RenderSteps, StopSteps

LEMMA SinkInvInit == Init => SinkInv
<1> SUFFICES ASSUME Init PROVE SinkInv
  OBVIOUS
<1>1. TypeOK /\ Bounds
  BY TypeInit
<1>2. DOMAIN log = {} /\ DOMAIN idx = {} /\ Len(log) = 0 /\ Len(idx) = 0
  BY DEF Init
<1>3. Positions /\ Locals /\ FinalOffset /\ SessionTail /\ TailContinuous
  BY <1>2 DEF Init, Positions, Locals, FinalOffset, SessionTail, TailContinuous, Alive
<1>4. IndexWithinData /\ OffsetsInOrder /\ LossIsMarked /\ ContinuousBetweenRecords
  BY <1>2 DEF IndexWithinData, OffsetsInOrder, LossIsMarked, ContinuousBetweenRecords
<1> QED
  BY <1>1, <1>3, <1>4 DEF SinkInv

\* What the scalars of the invariant are after each kind of step.
LEMMA PositionsStep == SinkInv /\ [Next]_vars => Positions'
<1> SUFFICES ASSUME SinkInv, [Next]_vars PROVE Positions'
  OBVIOUS
<1> USE DEF SinkInv, TypeOK, Bounds, Positions, Alive, dataVars, indexVars, stateVars
<1>1. CASE Crash
  <2>1. Len(log') = durable /\ Len(idx') = idxDurable
    BY <1>1 DEF Crash
  <2> QED
    BY <1>1, <2>1 DEF Crash
<1>2. CASE WriteEvent \/ WriteIndexRecord
  BY <1>2 DEF WriteEvent, WriteIndexRecord
<1>3. CASE WriteFinalRecord
  BY <1>3 DEF WriteFinalRecord, DataFlushed
<1>4. CASE (\E b \in Buffers : Render(b)) \/ Stop
  BY <1>4 DEF Render, Stop
<1>5. CASE StoreData \/ StoreIndex
  BY <1>5 DEF StoreData, StoreIndex
<1>6. CASE StopIndexFlushed \/ SealData \/ SealIndex
  BY <1>6 DEF StopIndexFlushed, SealData, SealIndex, FlushedBeforeStop, IndexFlushed
<1>7. CASE Start \/ StartAgain \/ SyncData \/ SyncIndex \/ CallFails \/ SealedStreamRejects
           \/ WritePanics \/ UNCHANGED vars
  BY <1>7 DEF Start, StartAgain, SyncData, SyncIndex, CallFails, SealedStreamRejects, FailCall,
              WritePanics, vars
<1> QED
  BY <1>1, <1>2, <1>3, <1>4, <1>5, <1>6, <1>7 DEF Next, RenderSteps, StopSteps

LEMMA LocalsStep == SinkInv /\ [Next]_vars => Locals'
<1> SUFFICES ASSUME SinkInv, [Next]_vars PROVE Locals'
  OBVIOUS
<1> USE DEF SinkInv, TypeOK, Bounds, Positions, Locals, Alive, dataVars, indexVars, stateVars
<1>1. CASE Crash \/ StopIndexFlushed \/ SealIndex
  BY <1>1 DEF Crash, StopIndexFlushed, SealIndex, FreshState
<1>2. CASE Start
  BY <1>2 DEF Start, FreshState, TailOffset
<1>3. ASSUME NEW b \in Buffers, Render(b) PROVE Locals'
  <2>1. /\ cur'.buf = b /\ cur'.offset = offset
        /\ cur'.discontinuity = Discontinuity(b, IncludeInIndex(b))
        /\ pc' = IF IncludeInIndex(b) THEN "flush" ELSE "event"
    BY <1>3 DEF Render
  <2>2. buffers_written = 0 => cur'.discontinuity
    BY <2>1 DEF Discontinuity
  <2>3. IncludeInIndex(b) => b.ts # NONE /\ (last_index_time = NONE => cur'.discontinuity)
    BY <2>1 DEF Discontinuity, IncludeInIndex
  <2>4. ~IncludeInIndex(b) /\ b.ts # NONE => last_index_time # NONE
    BY DEF IncludeInIndex
  <2> QED
    BY <1>3, <2>1, <2>2, <2>3, <2>4 DEF Render
<1>4. CASE WriteIndexRecord
  BY <1>4 DEF WriteIndexRecord, NoRendering
<1>5. CASE WriteEvent
  BY <1>5 DEF WriteEvent, RememberFinal, NoRendering
<1>6. CASE SyncData \/ SyncIndex
  BY <1>6 DEF SyncData, SyncIndex, RememberFinal
<1>7. CASE Stop \/ WriteFinalRecord \/ SealData \/ StoreData \/ StoreIndex \/ StartAgain
  BY <1>7 DEF Stop, WriteFinalRecord, SealData, StoreData, StoreIndex, StartAgain
<1>8. CASE CallFails \/ SealedStreamRejects \/ WritePanics \/ UNCHANGED vars
  BY <1>8 DEF CallFails, SealedStreamRejects, FailCall, WritePanics, vars
<1> QED
  BY <1>1, <1>2, <1>3, <1>4, <1>5, <1>6, <1>7, <1>8 DEF Next, RenderSteps, StopSteps

LEMMA RecordOffsets ==
  ASSUME TypeOK, Bounds, IndexWithinData, NEW i \in DOMAIN idx
  PROVE  idx[i].offset \in Nat /\ idx[i].offset <= durable /\ idx[i].offset <= Len(log)
<1>1. idx[i] \in IndexRecord
  BY DEF TypeOK
<1>2. idx[i].offset \in Nat
  BY <1>1 DEF IndexRecord
<1>3. idx[i].offset <= durable
  BY DEF IndexWithinData
<1>4. durable \in Nat /\ sent \in Nat /\ Len(log) \in Nat /\ durable <= sent /\ sent <= Len(log)
  BY DEF TypeOK, Bounds
<1> QED
  BY <1>2, <1>3, <1>4

LEMMA FinalOffsetStep == SinkInv /\ [Next]_vars => FinalOffset'
<1> SUFFICES ASSUME SinkInv, [Next]_vars PROVE FinalOffset'
  OBVIOUS
<1> USE DEF SinkInv, TypeOK, Bounds, Locals, Alive, dataVars, indexVars, stateVars, FinalOffset
<1>1. CASE Start \/ Crash \/ StopIndexFlushed \/ SealIndex
  BY <1>1 DEF Start, Crash, StopIndexFlushed, SealIndex, FreshState, NONE
<1>2. CASE WriteIndexRecord
  <2>1. cur.offset = Len(log)
    BY <1>2 DEF WriteIndexRecord
  <2>2. CurrentRecord.offset = cur.offset
    BY DEF CurrentRecord
  <2>3. CASE idx' = idx
    BY <1>2, <2>3 DEF WriteIndexRecord
  <2>4. CASE idx' = Append(idx, CurrentRecord)
    <3>1. \A i \in DOMAIN idx' : (i \in DOMAIN idx /\ idx'[i] = idx[i]) \/ idx'[i] = CurrentRecord
      BY <2>4
    <3>2. final_offset # NONE =>
            final_offset = Len(log) /\ \A i \in DOMAIN idx : idx[i].offset <= final_offset
      BY <1>2 DEF WriteIndexRecord
    <3>3. UNCHANGED <<log, final_offset>> /\ Len(log) \in Nat
      BY <1>2 DEF WriteIndexRecord
    <3> HIDE DEF SinkInv, TypeOK, Bounds, Locals, Alive
    <3> QED
      BY <2>1, <2>2, <3>1, <3>2, <3>3
  <2> QED
    BY <1>2, <2>3, <2>4 DEF WriteIndexRecord
<1>3. CASE WriteFinalRecord
  <2>1. FinalRecord.offset = final_offset /\ final_offset \in Int
    BY DEF FinalRecord, Time, NONE
  <2>2. CASE idx' = idx
    BY <1>3, <2>2 DEF WriteFinalRecord
  <2>3. CASE idx' = Append(idx, FinalRecord)
    <3>1. \A i \in DOMAIN idx' : (i \in DOMAIN idx /\ idx'[i] = idx[i]) \/ idx'[i] = FinalRecord
      BY <2>3
    <3> QED
      BY <1>3, <2>1, <3>1 DEF WriteFinalRecord
  <2> QED
    BY <1>3, <2>2, <2>3 DEF WriteFinalRecord
<1>4. CASE WriteEvent
  <2>1. CASE cur.buf.oversize
    BY <1>4, <2>1 DEF WriteEvent
  <2>2. CASE ~cur.buf.oversize /\ cur.buf.sync
    BY <1>4, <2>2 DEF WriteEvent
  <2>3. CASE ~cur.buf.oversize /\ ~cur.buf.sync
    <3>1. final_offset' = Len(log') /\ Len(log') = Len(log) + 1 /\ idx' = idx
      BY <1>4, <2>3 DEF WriteEvent, RememberFinal
    <3>2. \A i \in DOMAIN idx : idx[i].offset \in Nat /\ idx[i].offset <= Len(log)
      BY RecordOffsets
    <3> QED
      BY <3>1, <3>2
  <2> QED
    BY <2>1, <2>2, <2>3
<1>5. CASE SyncIndex
  <2>1. final_offset' = Len(log) /\ UNCHANGED <<log, idx>>
    BY <1>5 DEF SyncIndex, RememberFinal
  <2>2. \A i \in DOMAIN idx : idx[i].offset \in Nat /\ idx[i].offset <= Len(log)
    BY RecordOffsets
  <2> QED
    BY <2>1, <2>2
<1>6. CASE (\E b \in Buffers : Render(b)) \/ Stop \/ SyncData \/ SealData \/ StartAgain
  BY <1>6 DEF Render, Stop, SyncData, SealData, StartAgain
<1>7. CASE CallFails \/ SealedStreamRejects \/ WritePanics \/ StoreData \/ StoreIndex \/ UNCHANGED vars
  BY <1>7 DEF CallFails, SealedStreamRejects, FailCall, WritePanics, StoreData, StoreIndex, vars
<1> QED
  BY <1>1, <1>2, <1>3, <1>4, <1>5, <1>6, <1>7 DEF Next, RenderSteps, StopSteps

LEMMA SessionTailStep == SinkInv /\ [Next]_vars => SessionTail'
<1> SUFFICES ASSUME SinkInv, [Next]_vars PROVE SessionTail'
  OBVIOUS
<1> USE DEF SinkInv, TypeOK, Bounds, Alive, dataVars, indexVars, stateVars, SessionTail
<1>1. CASE Start \/ Crash \/ StopIndexFlushed \/ SealIndex
  BY <1>1 DEF Start, Crash, StopIndexFlushed, SealIndex, FreshState
<1>2. CASE WriteEvent
  <2>1. CurrentEvent.session = session /\ CurrentEvent.seq = buffers_written
    BY DEF CurrentEvent
  <2>2. CASE cur.buf.oversize
    BY <1>2, <2>2 DEF WriteEvent
  <2>3. CASE ~cur.buf.oversize
    <3>1. log' = Append(log, CurrentEvent) /\ session' = session /\ buffers_written' = buffers_written + 1
      BY <1>2, <2>3 DEF WriteEvent
    <3>2. log \in Seq(Event) /\ buffers_written \in Nat
      OBVIOUS
    <3> HIDE DEF SinkInv, TypeOK, Bounds
    <3>3. Len(log') = Len(log) + 1 /\ Len(log) + 1 > 0 /\ log'[Len(log) + 1] = CurrentEvent
      BY <3>1, <3>2
    <3> QED
      BY <2>1, <3>1, <3>2, <3>3
  <2> QED
    BY <2>2, <2>3
<1>3. CASE WriteIndexRecord \/ WriteFinalRecord
  BY <1>3 DEF WriteIndexRecord, WriteFinalRecord
<1>4. CASE (\E b \in Buffers : Render(b)) \/ Stop \/ SyncData \/ SyncIndex \/ SealData \/ StartAgain
  BY <1>4 DEF Render, Stop, SyncData, SyncIndex, SealData, StartAgain
<1>5. CASE CallFails \/ SealedStreamRejects \/ WritePanics \/ StoreData \/ StoreIndex \/ UNCHANGED vars
  BY <1>5 DEF CallFails, SealedStreamRejects, FailCall, WritePanics, StoreData, StoreIndex, vars
<1> QED
  BY <1>1, <1>2, <1>3, <1>4, <1>5 DEF Next, RenderSteps, StopSteps

\* A continuous run of one session's events stays one when its next event
\* is appended.
LEMMA ContinuousAppend ==
  ASSUME NEW d \in Seq(Event), NEW e \in Event, NEW lo \in Nat, lo <= Len(d), NEW s,
         \A k \in lo + 1 .. Len(d) :
           d[k].session = s /\ (k > lo + 1 => Follows(d[k-1], d[k])),
         e.session = s, Len(d) > lo => Follows(d[Len(d)], e)
  PROVE  \A k \in lo + 1 .. Len(d) + 1 :
           /\ Append(d, e)[k].session = s
           /\ k > lo + 1 => Follows(Append(d, e)[k-1], Append(d, e)[k])
<1> TAKE k \in lo + 1 .. Len(d) + 1
<1>1. \A j \in 1 .. Len(d) : Append(d, e)[j] = d[j]
  OBVIOUS
<1>2. Append(d, e)[Len(d) + 1] = e
  OBVIOUS
<1>3. CASE k <= Len(d)
  <2>1. k \in 1 .. Len(d) /\ (k > lo + 1 => k - 1 \in 1 .. Len(d))
    BY <1>3
  <2> QED
    BY <1>1, <1>3, <2>1
<1>4. CASE k = Len(d) + 1
  <2>1. k > lo + 1 => Len(d) \in 1 .. Len(d) /\ Len(d) > lo
    OBVIOUS
  <2> QED
    BY <1>1, <1>2, <1>4, <2>1
<1> QED
  BY <1>3, <1>4

LEMMA TailContinuousStep == SinkInv /\ [Next]_vars => TailContinuous'
<1> SUFFICES ASSUME SinkInv, [Next]_vars PROVE TailContinuous'
  OBVIOUS
<1> USE DEF SinkInv, TypeOK, Bounds, Alive, dataVars, indexVars, stateVars, TailContinuous
<1>1. CASE Start \/ Crash \/ StopIndexFlushed \/ SealIndex
  BY <1>1 DEF Start, Crash, StopIndexFlushed, SealIndex, FreshState
<1>2. CASE WriteEvent
  <2>1. CASE cur.buf.oversize
    BY <1>2, <2>1 DEF WriteEvent
  <2>2. CASE ~cur.buf.oversize
    <3>1. /\ log' = Append(log, CurrentEvent) /\ Len(log') = Len(log) + 1
          /\ UNCHANGED <<idx, last_index_time, session>> /\ buffers_written' = buffers_written + 1
      BY <1>2, <2>2 DEF WriteEvent
    <3>2. CurrentEvent \in Event /\ CurrentEvent.session = session /\ CurrentEvent.seq = buffers_written
      BY DEF CurrentEvent, Event, Rendering, Buffer
    <3> SUFFICES ASSUME last_index_time # NONE PROVE TailContinuous'
      BY <3>1
    <3> DEFINE lo == idx[Len(idx)].offset
    <3>3. Alive /\ Len(idx) \in DOMAIN idx
      BY <1>2 DEF WriteEvent
    <3>4. lo \in Nat /\ lo <= Len(log)
      BY <3>3, RecordOffsets
    <3>5. \A k \in lo + 1 .. Len(log) :
            log[k].session = session /\ (k > lo + 1 => Follows(log[k-1], log[k]))
      BY <3>3
    <3>6. Len(log) > lo => Follows(log[Len(log)], CurrentEvent)
      <4>1. ASSUME Len(log) > lo
            PROVE  buffers_written # 0 /\ buffers_written \in Nat /\ log[Len(log)].session = session
        BY <3>3, <3>4, <4>1
      <4>2. buffers_written # 0 /\ buffers_written \in Nat => log[Len(log)].seq = buffers_written - 1
        BY <3>3 DEF SessionTail
      <4> HIDE DEF SinkInv, TypeOK, Bounds, Alive, TailContinuous, lo
      <4> QED
        BY <3>2, <4>1, <4>2 DEF Follows
    <3>7. \A k \in lo + 1 .. Len(log) + 1 :
            log'[k].session = session /\ (k > lo + 1 => Follows(log'[k-1], log'[k]))
      <4>1. log \in Seq(Event)
        OBVIOUS
      <4> HIDE DEF SinkInv, TypeOK, Bounds, Alive, TailContinuous, lo
      <4>2. \A k \in lo + 1 .. Len(log) + 1 :
              /\ Append(log, CurrentEvent)[k].session = session
              /\ k > lo + 1 => Follows(Append(log, CurrentEvent)[k-1], Append(log, CurrentEvent)[k])
        BY <3>2, <3>4, <3>5, <3>6, <4>1, ContinuousAppend
      <4> QED
        BY <3>1, <4>2
    <3>8. (buffers_written' = 0 => FALSE) /\ session' = session /\ idx' = idx /\ Len(log') = Len(log) + 1
      BY <3>1
    <3>9. Len(idx) > 0 /\ idx[Len(idx)].session = session
      BY <3>3
    <3> QED
      BY <3>7, <3>8, <3>9
  <2> QED
    BY <2>1, <2>2
<1>3. CASE WriteIndexRecord
  <2>1. CurrentRecord.offset = Len(log) /\ CurrentRecord.session = session
    BY <1>3 DEF CurrentRecord, WriteIndexRecord, Locals
  <2> QED
    BY <1>3, <2>1 DEF WriteIndexRecord
<1>4. CASE WriteFinalRecord
  <2>1. CASE idx' = idx
    BY <1>4, <2>1 DEF WriteFinalRecord
  <2>2. CASE HasFinal /\ idx' = Append(idx, FinalRecord)
    <3>1. FinalRecord.offset = final_offset /\ FinalRecord.session = session
      BY DEF FinalRecord
    <3>2. /\ final_offset \in Nat /\ final_offset <= Len(log) /\ last_index_time # NONE
          /\ idx[Len(idx)].offset <= final_offset /\ idx[Len(idx)].offset \in Nat
      <4>1. Alive /\ final_offset # NONE /\ final_timestamp # NONE
        BY <1>4, <2>2 DEF WriteFinalRecord, HasFinal
      <4>2. final_offset \in Nat /\ final_offset <= Len(log) /\ last_index_time # NONE
        BY <4>1 DEF FinalOffset, Locals, Time
      <4>3. Len(idx) \in DOMAIN idx
        BY <4>1, <4>2
      <4> QED
        BY <4>1, <4>2, <4>3, RecordOffsets DEF FinalOffset
    <3>3. \A k \in final_offset + 1 .. Len(log) :
            /\ log[k].session = session
            /\ k > final_offset + 1 => Follows(log[k-1], log[k])
      <4>1. \A k \in idx[Len(idx)].offset + 1 .. Len(log) :
              /\ log[k].session = session
              /\ k > idx[Len(idx)].offset + 1 => Follows(log[k-1], log[k])
        BY <1>4, <3>2 DEF WriteFinalRecord
      <4>2. final_offset \in Nat /\ idx[Len(idx)].offset \in Nat /\ Len(log) \in Nat
            /\ idx[Len(idx)].offset <= final_offset
        BY <3>2
      <4> HIDE DEF SinkInv, TypeOK, Bounds, Alive, TailContinuous
      <4> QED
        BY <4>1, <4>2
    <3>4. buffers_written = 0 => final_offset = Len(log)
      BY <1>4, <3>2 DEF WriteFinalRecord
    <3> QED
      BY <1>4, <2>2, <3>1, <3>3, <3>4 DEF WriteFinalRecord
  <2> QED
    BY <1>4, <2>1, <2>2 DEF WriteFinalRecord
<1>5. CASE (\E b \in Buffers : Render(b)) \/ Stop \/ SyncData \/ SyncIndex \/ SealData \/ StartAgain
  BY <1>5 DEF Render, Stop, SyncData, SyncIndex, SealData, StartAgain
<1>6. CASE CallFails \/ SealedStreamRejects \/ WritePanics \/ StoreData \/ StoreIndex \/ UNCHANGED vars
  BY <1>6 DEF CallFails, SealedStreamRejects, FailCall, WritePanics, StoreData, StoreIndex, vars
<1> QED
  BY <1>1, <1>2, <1>3, <1>4, <1>5, <1>6 DEF Next, RenderSteps, StopSteps

-----------------------------------------------------------------------------
(* The properties *)

LEMMA IndexWithinDataStep == SinkInv /\ [Next]_vars => IndexWithinData'
<1> SUFFICES ASSUME SinkInv, [Next]_vars PROVE IndexWithinData'
  OBVIOUS
<1> USE DEF SinkInv
<1>1. durable' \in Nat /\ durable' >= durable
  BY DEF TypeOK, Next, Start, StartAgain, Render, Stop, RenderSteps, WriteIndexRecord, WriteEvent,
         SyncData, SyncIndex, StopSteps, WriteFinalRecord, StopIndexFlushed, SealData, SealIndex,
         CallFails, SealedStreamRejects, FailCall, WritePanics, Crash, StoreData, StoreIndex,
         vars, dataVars, indexVars
<1>2. \A i \in DOMAIN idx : idx[i].offset \in Nat /\ idx[i].offset <= durable
  BY RecordOffsets
<1>3. durable \in Nat /\ idx \in Seq(IndexRecord)
  BY DEF TypeOK
<1>4. CASE idx' = idx
  BY <1>1, <1>2, <1>3, <1>4 DEF IndexWithinData
<1>5. CASE Crash /\ Len(idx') = idxDurable /\ \A k \in 1 .. idxDurable : idx'[k] = idx[k]
  <2> HIDE DEF SinkInv
  <2>0. idx' \in Seq(IndexRecord) /\ idx \in Seq(IndexRecord) /\ idxDurable \in Nat /\ idxDurable <= Len(idx)
    <3>1. TypeOK /\ Bounds
      BY DEF SinkInv
    <3> QED
      BY <3>1, TypeStep DEF TypeOK, Bounds
  <2>1. \A i \in DOMAIN idx' : i \in DOMAIN idx /\ idx'[i] = idx[i]
    BY <1>5, <2>0
  <2> USE DEF SinkInv
  <2> QED
    BY <1>1, <1>2, <1>3, <2>1 DEF IndexWithinData
<1>6. CASE WriteIndexRecord /\ idx' = Append(idx, CurrentRecord)
  <2>1. CurrentRecord.offset = durable
    BY <1>6 DEF CurrentRecord, WriteIndexRecord, FlushedBeforeRecord, DataFlushed, Locals
  <2>2. \A i \in DOMAIN idx' : (i \in DOMAIN idx /\ idx'[i] = idx[i]) \/ idx'[i] = CurrentRecord
    BY <1>3, <1>6
  <2> QED
    BY <1>1, <1>2, <1>3, <2>1, <2>2 DEF IndexWithinData
<1>7. CASE WriteFinalRecord /\ HasFinal /\ idx' = Append(idx, FinalRecord)
  <2>1. FinalRecord.offset \in Int /\ FinalRecord.offset <= durable
    BY <1>7 DEF FinalRecord, WriteFinalRecord, HasFinal, DataFlushed, FinalOffset, Alive, TypeOK, Time, NONE
  <2>2. \A i \in DOMAIN idx' : (i \in DOMAIN idx /\ idx'[i] = idx[i]) \/ idx'[i] = FinalRecord
    BY <1>3, <1>7
  <2> QED
    BY <1>1, <1>2, <1>3, <2>1, <2>2 DEF IndexWithinData
<1> QED
  BY <1>4, <1>5, <1>6, <1>7, SequenceStep

LEMMA OffsetsInOrderStep == SinkInv /\ [Next]_vars => OffsetsInOrder'
<1> SUFFICES ASSUME SinkInv, [Next]_vars PROVE OffsetsInOrder'
  OBVIOUS
<1> USE DEF SinkInv
<1>1. \A i \in DOMAIN idx : idx[i].offset \in Nat /\ idx[i].offset <= durable
  BY RecordOffsets
<1>2. durable \in Nat /\ idx \in Seq(IndexRecord)
  BY DEF TypeOK
<1>3. ASSUME NEW r, idx' = Append(idx, r), r.offset \in Int,
             \A i \in DOMAIN idx : idx[i].offset <= r.offset
      PROVE  OffsetsInOrder'
  <2> SUFFICES ASSUME NEW i \in DOMAIN idx', NEW j \in DOMAIN idx', i < j
               PROVE  idx'[i].offset <= idx'[j].offset
    BY DEF OffsetsInOrder
  <2>1. i \in DOMAIN idx /\ idx'[i] = idx[i]
    BY <1>2, <1>3
  <2>2. (j \in DOMAIN idx /\ idx'[j] = idx[j]) \/ idx'[j] = r
    BY <1>2, <1>3
  <2> QED
    BY <1>3, <2>1, <2>2 DEF OffsetsInOrder
<1>4. CASE idx' = idx
  BY <1>4 DEF OffsetsInOrder
<1>5. CASE Crash /\ Len(idx') = idxDurable /\ \A k \in 1 .. idxDurable : idx'[k] = idx[k]
  <2> HIDE DEF SinkInv
  <2>0. idx' \in Seq(IndexRecord) /\ idx \in Seq(IndexRecord) /\ idxDurable \in Nat /\ idxDurable <= Len(idx)
    <3>1. TypeOK /\ Bounds
      BY DEF SinkInv
    <3> QED
      BY <3>1, TypeStep DEF TypeOK, Bounds
  <2>1. \A i \in DOMAIN idx' : i \in DOMAIN idx /\ idx'[i] = idx[i]
    BY <1>5, <2>0
  <2> USE DEF SinkInv
  <2> QED
    BY <2>1 DEF OffsetsInOrder
<1>6. CASE WriteIndexRecord /\ idx' = Append(idx, CurrentRecord)
  <2>1. CurrentRecord.offset = durable
    BY <1>6 DEF CurrentRecord, WriteIndexRecord, FlushedBeforeRecord, DataFlushed, Locals
  <2> QED
    BY <1>1, <1>2, <1>3, <1>6, <2>1
<1>7. CASE WriteFinalRecord /\ HasFinal /\ idx' = Append(idx, FinalRecord)
  <2>1. FinalRecord.offset = final_offset /\ final_offset \in Int
    BY DEF FinalRecord, TypeOK, Time, NONE
  <2>2. \A i \in DOMAIN idx : idx[i].offset <= final_offset
    BY <1>7 DEF WriteFinalRecord, HasFinal, FinalOffset, Alive
  <2> QED
    BY <1>3, <1>7, <2>1, <2>2
<1> QED
  BY <1>4, <1>5, <1>6, <1>7, SequenceStep

LEMMA LossIsMarkedStep == SinkInv /\ [Next]_vars => LossIsMarked'
<1> SUFFICES ASSUME SinkInv, [Next]_vars PROVE LossIsMarked'
  OBVIOUS
<1> USE DEF SinkInv
<1>1. log \in Seq(Event) /\ buffers_written \in Nat
  BY DEF TypeOK
<1>2. CASE log' = log
  BY <1>2 DEF LossIsMarked
<1>3. CASE Crash /\ Len(log') = durable /\ \A k \in 1 .. durable : log'[k] = log[k]
  <2> HIDE DEF SinkInv
  <2>0. log' \in Seq(Event) /\ log \in Seq(Event) /\ durable \in Nat /\ durable <= Len(log)
    <3>1. TypeOK /\ Bounds
      BY DEF SinkInv
    <3> QED
      BY <3>1, TypeStep DEF TypeOK, Bounds
  <2>1. \A k \in DOMAIN log' : /\ k \in DOMAIN log /\ log'[k] = log[k]
                               /\ k > 1 => log'[k-1] = log[k-1]
    BY <1>3, <2>0
  <2> USE DEF SinkInv
  <2> QED
    BY <2>1 DEF LossIsMarked
<1>4. CASE WriteEvent /\ log' = Append(log, CurrentEvent)
  <2>1. CurrentEvent.discontinuity \/ (Len(log) > 0 /\ Follows(log[Len(log)], CurrentEvent))
    BY <1>1, <1>4 DEF CurrentEvent, WriteEvent, Locals, SessionTail, Alive, Follows
  <2> SUFFICES ASSUME NEW k \in DOMAIN log'
               PROVE  log'[k].discontinuity \/ (k > 1 /\ Follows(log'[k-1], log'[k]))
    BY DEF LossIsMarked
  <2>2. CASE k \in DOMAIN log
    <3>1. log'[k] = log[k] /\ (k > 1 => log'[k-1] = log[k-1])
      BY <1>1, <1>4, <2>2
    <3> QED
      BY <2>2, <3>1 DEF LossIsMarked
  <2>3. CASE k = Len(log) + 1
    <3>1. log'[k] = CurrentEvent /\ (Len(log) > 0 => log'[k-1] = log[Len(log)])
      BY <1>1, <1>4, <2>3
    <3> QED
      BY <1>1, <2>1, <2>3, <3>1
  <2> QED
    BY <1>1, <1>4, <2>2, <2>3
<1> QED
  BY <1>2, <1>3, <1>4, SequenceStep

LEMMA ContinuousStep == SinkInv /\ [Next]_vars => ContinuousBetweenRecords'
<1> SUFFICES ASSUME SinkInv, [Next]_vars PROVE ContinuousBetweenRecords'
  OBVIOUS
<1>0. TypeOK /\ Bounds /\ IndexWithinData /\ ContinuousBetweenRecords /\ TailContinuous /\ Locals
  BY DEF SinkInv
<1>1. log \in Seq(Event) /\ idx \in Seq(IndexRecord) /\ durable \in Nat /\ durable <= Len(log)
  BY <1>0 DEF TypeOK, Bounds
<1>2. \A i \in DOMAIN idx :
        idx[i].offset \in Nat /\ idx[i].offset <= durable /\ idx[i].offset <= Len(log)
  BY <1>0, RecordOffsets
<1>3. \A k \in 1 .. durable : log'[k] = log[k]
  <2>1. CASE log' = Append(log, CurrentEvent)
    BY <1>1, <2>1
  <2>2. CASE Crash /\ Len(log') = durable /\ \A k \in 1 .. durable : log'[k] = log[k]
    BY <2>2
  <2> QED
    BY <1>0, <2>1, <2>2, SequenceStep
<1> SUFFICES ASSUME NEW i \in DOMAIN idx', ~idx'[i].discontinuity
             PROVE  /\ i > 1
                    /\ \A k \in idx'[i-1].offset + 1 .. idx'[i].offset :
                         /\ log'[k].session = idx'[i].session
                         /\ k > idx'[i-1].offset + 1 => Follows(log'[k-1], log'[k])
  BY DEF ContinuousBetweenRecords, Follows
\* A record that was there before: the data before its offset is not touched.
<1>4. CASE i \in DOMAIN idx /\ idx'[i] = idx[i] /\ (i > 1 => idx'[i-1] = idx[i-1])
  <2>1. i > 1 /\ i - 1 \in DOMAIN idx
    BY <1>0, <1>1, <1>4 DEF ContinuousBetweenRecords
  <2>2. /\ idx'[i-1].offset \in Nat /\ idx'[i].offset <= durable
        /\ idx'[i] = idx[i] /\ idx'[i-1] = idx[i-1]
    BY <1>2, <1>4, <2>1
  <2> SUFFICES ASSUME NEW k \in idx[i-1].offset + 1 .. idx[i].offset
               PROVE  /\ log'[k].session = idx[i].session
                      /\ k > idx[i-1].offset + 1 => Follows(log'[k-1], log'[k])
    BY <2>1, <2>2
  <2>3. /\ log[k].session = idx[i].session
        /\ k > idx[i-1].offset + 1 => Follows(log[k-1], log[k])
    BY <1>0, <1>4 DEF ContinuousBetweenRecords
  <2>4. log'[k] = log[k] /\ (k > idx[i-1].offset + 1 => log'[k-1] = log[k-1])
    BY <1>1, <1>2, <1>3, <1>4, <2>1, <2>2
  <2> QED
    BY <2>3, <2>4
\* A new record: it ends the data written since the session's last record.
<1>5. CASE i = Len(idx) + 1 /\ (\E r \in {CurrentRecord, FinalRecord} : idx' = Append(idx, r))
           /\ log' = log /\ idx'[i].offset <= Len(log) /\ idx'[i].session = session
           /\ Alive /\ last_index_time # NONE
  <2>1. /\ Len(idx) > 0 /\ idx[Len(idx)].session = session
        /\ \A k \in idx[Len(idx)].offset + 1 .. Len(log) :
             /\ log[k].session = session
             /\ k > idx[Len(idx)].offset + 1 => Follows(log[k-1], log[k])
    BY <1>0, <1>5 DEF TailContinuous
  <2>2. i - 1 = Len(idx) /\ i - 1 \in DOMAIN idx /\ idx'[i-1] = idx[i-1]
    BY <1>1, <1>5, <2>1
  <2>3. idx'[i].offset \in Int
    <3>1. CurrentRecord.offset \in Int /\ FinalRecord.offset \in Int
      BY <1>0 DEF CurrentRecord, FinalRecord, TypeOK, Rendering, Time, NONE
    <3> QED
      BY <1>1, <1>5, <3>1
  <2>4. idx[Len(idx)].offset \in Nat
    BY <1>2, <2>2
  <2> HIDE DEF Follows
  <2>5. \A k \in idx[Len(idx)].offset + 1 .. idx'[i].offset :
             k \in idx[Len(idx)].offset + 1 .. Len(log)
    BY <1>1, <1>5, <2>3, <2>4
  <2> QED
    BY <1>5, <2>1, <2>2, <2>5
<1>6. CASE idx' = idx
  BY <1>1, <1>4, <1>6
<1>7. CASE Crash /\ Len(idx') = idxDurable /\ \A k \in 1 .. idxDurable : idx'[k] = idx[k]
  <2>1. idx' \in Seq(IndexRecord) /\ idxDurable <= Len(idx) /\ idxDurable \in Nat
    BY <1>0, TypeStep DEF TypeOK, Bounds
  <2> QED
    BY <1>1, <1>4, <1>7, <2>1
<1>8. CASE WriteIndexRecord /\ idx' = Append(idx, CurrentRecord)
  <2>1. CASE i \in DOMAIN idx
    BY <1>1, <1>4, <1>8, <2>1
  <2>2. CASE i = Len(idx) + 1
    <3>1. idx'[i] = CurrentRecord
      BY <1>1, <1>8, <2>2
    <3>2. CurrentRecord.offset = Len(log) /\ CurrentRecord.session = session
          /\ ~cur.discontinuity /\ pc = "flush" /\ Len(log) \in Nat
      BY <1>0, <1>1, <1>8, <3>1 DEF CurrentRecord, WriteIndexRecord, Locals
    <3>3. last_index_time # NONE /\ Alive /\ log' = log
      BY <1>0, <1>8, <3>2 DEF Locals, Alive, WriteIndexRecord, dataVars
    <3> QED
      BY <1>5, <1>8, <2>2, <3>1, <3>2, <3>3
  <2> QED
    BY <1>1, <1>8, <2>1, <2>2
<1>9. CASE WriteFinalRecord /\ HasFinal /\ idx' = Append(idx, FinalRecord)
  <2>1. CASE i \in DOMAIN idx
    BY <1>1, <1>4, <1>9, <2>1
  <2>2. CASE i = Len(idx) + 1
    <3>1. idx'[i] = FinalRecord
      BY <1>1, <1>9, <2>2
    <3>2. Alive /\ final_offset # NONE /\ final_timestamp # NONE /\ log' = log
      BY <1>9 DEF WriteFinalRecord, HasFinal, Alive, dataVars
    <3>3. FinalRecord.offset <= Len(log) /\ FinalRecord.session = session
      BY <3>2 DEF FinalRecord, FinalOffset, SinkInv
    <3>4. last_index_time # NONE
      BY <1>0, <3>2 DEF Locals
    <3> QED
      BY <1>5, <1>9, <2>2, <3>1, <3>2, <3>3, <3>4
  <2> QED
    BY <1>1, <1>9, <2>1, <2>2
<1> QED
  BY <1>0, <1>6, <1>7, <1>8, <1>9, SequenceStep

LEMMA SinkInvStep == SinkInv /\ [Next]_vars => SinkInv'
<1> SUFFICES ASSUME SinkInv, [Next]_vars PROVE SinkInv'
  OBVIOUS
<1>1. TypeOK' /\ Bounds'
  BY TypeStep, BoundsStep DEF SinkInv
<1>2. Positions' /\ Locals' /\ FinalOffset' /\ SessionTail' /\ TailContinuous'
  BY PositionsStep, LocalsStep, FinalOffsetStep, SessionTailStep, TailContinuousStep
<1>3. IndexWithinData' /\ OffsetsInOrder' /\ LossIsMarked' /\ ContinuousBetweenRecords'
  BY IndexWithinDataStep, OffsetsInOrderStep, LossIsMarkedStep, ContinuousStep
<1> QED
  BY <1>1, <1>2, <1>3 DEF SinkInv

-----------------------------------------------------------------------------
(* The theorems *)

\* Every reachable state is well typed.
THEOREM SinkTypeOK == Spec => []TypeOK
<1>1. Init => TypeOK /\ Bounds
  BY TypeInit
<1>2. TypeOK /\ Bounds /\ [Next]_vars => TypeOK' /\ Bounds'
  BY TypeStep, BoundsStep
<1> QED
  BY <1>1, <1>2, PTL DEF Spec

\* The invariant holds in every reachable state of start, render and stop,
\* whatever fails and wherever the process dies.
THEOREM SinkInvariant == Spec => []SinkInv
<1> QED
  BY SinkInvInit, SinkInvStep, PTL DEF Spec

\* Constraint 1 of index.rs: no index record, in flight or stored, points
\* beyond the data the server has stored.
THEOREM SinkIndexWithinData == Spec => []IndexWithinData
<1>1. SinkInv => IndexWithinData
  BY DEF SinkInv
<1> QED
  BY <1>1, SinkInvariant, PTL

\* The offsets of the index never go back, over stops, crashes and restarts.
THEOREM SinkOffsetsInOrder == Spec => []OffsetsInOrder
<1>1. SinkInv => OffsetsInOrder
  BY DEF SinkInv
<1> QED
  BY <1>1, SinkInvariant, PTL

\* An event that does not continue the event stored before it is marked as a
\* discontinuity.
THEOREM SinkLossIsMarked == Spec => []LossIsMarked
<1>1. SinkInv => LossIsMarked
  BY DEF SinkInv
<1> QED
  BY <1>1, SinkInvariant, PTL

\* Constraint 4 of index.rs: up to an index record that is not marked as a
\* discontinuity, the data since the record before it is one session's, whole.
THEOREM SinkContinuous == Spec => []ContinuousBetweenRecords
<1>1. SinkInv => ContinuousBetweenRecords
  BY DEF SinkInv
<1> QED
  BY <1>1, SinkInvariant, PTL
-----------------------------------------------------------------------------
(* What a record points at, and what Ok means.  render writes a record at the *)
(* tail of the data and its event next, or returns an error after which it is *)
(* not called again; so a record at the tail is that of the event that comes, *)
(* or an earlier session's, whose place is taken by a first buffer.           *)

\* The records whose event is still to come.
Pending ==
  pc \in {"idle", "flush", "event", "syncData", "syncIndex"} =>
    \A i \in DOMAIN idx : (~idx[i].final /\ idx[i].offset = Len(log)) =>
      \/ idx[i].session < session /\ buffers_written = 0
      \/ pc = "event" /\ cur.include /\ idx[i] = CurrentRecord

Sessions == \A i \in DOMAIN idx : idx[i].session <= session

IncludedIfFlushed == pc = "flush" => cur.include

\* stop, once it has written its record.
Closing ==
  /\ pc = "syncIndex" => durable = Len(log)
  /\ final_timestamp # NONE => final_offset # NONE
  /\ (pc \in {"stopIndex", "sealData", "sealIndex"} /\ final_timestamp # NONE) =>
       /\ Len(idx) > 0
       /\ idx[Len(idx)].final /\ idx[Len(idx)].session = session
       /\ idx[Len(idx)].offset = final_offset

RecordInv == Pending /\ Sessions /\ IncludedIfFlushed /\ Closing /\ RecordPointsAtItsEvent

\* What the lemmas need of the invariant.
LEMMA RecordFacts ==
  ASSUME SinkInv
  PROVE  /\ log \in Seq(Event) /\ idx \in Seq(IndexRecord) /\ durable \in Nat /\ durable <= Len(log)
         /\ idxDurable \in Nat /\ idxDurable <= Len(idx)
         /\ session \in Nat /\ buffers_written \in Nat /\ Len(log) \in Nat /\ Len(idx) \in Nat
         /\ \A i \in DOMAIN idx : /\ idx[i].offset \in Nat /\ idx[i].offset <= durable
                                  /\ idx[i].session \in Nat
<1>1. TypeOK /\ Bounds /\ IndexWithinData
  BY DEF SinkInv
<1>2. \A i \in DOMAIN idx : idx[i].offset \in Nat /\ idx[i].offset <= durable
  BY <1>1, RecordOffsets
<1>3. ASSUME NEW i \in DOMAIN idx PROVE idx[i].session \in Nat
  <2>1. idx[i] \in IndexRecord
    BY <1>1 DEF TypeOK
  <2> QED
    BY <2>1 DEF IndexRecord
<1> QED
  BY <1>1, <1>2, <1>3 DEF TypeOK, Bounds

LEMMA SessionsStep == SinkInv /\ RecordInv /\ [Next]_vars => Sessions'
<1> SUFFICES ASSUME SinkInv, RecordInv, [Next]_vars PROVE Sessions'
  OBVIOUS
<1>1. /\ session \in Nat /\ idx \in Seq(IndexRecord) /\ idxDurable \in Nat /\ idxDurable <= Len(idx)
      /\ \A i \in DOMAIN idx : idx[i].session \in Nat /\ idx[i].session <= session
  BY RecordFacts DEF RecordInv, Sessions
<1>2. session' \in Nat /\ session <= session'
  BY <1>1 DEF Next, Start, StartAgain, Render, Stop, RenderSteps, WriteIndexRecord, WriteEvent,
     SyncData, SyncIndex, StopSteps, WriteFinalRecord, StopIndexFlushed, SealData, SealIndex,
     CallFails, SealedStreamRejects, FailCall, WritePanics, Crash, StoreData, StoreIndex, vars
<1>3. \A i \in DOMAIN idx' :
        (i \in DOMAIN idx /\ idx'[i] = idx[i]) \/ idx'[i].session = session
  <2>1. ASSUME NEW r, idx' = Append(idx, r), r.session = session, NEW i \in DOMAIN idx'
        PROVE  (i \in DOMAIN idx /\ idx'[i] = idx[i]) \/ idx'[i].session = session
    BY <1>1, <2>1
  <2>2. CurrentRecord.session = session /\ FinalRecord.session = session
    BY DEF CurrentRecord, FinalRecord
  <2>3. CASE Crash /\ Len(idx') = idxDurable /\ \A k \in 1 .. idxDurable : idx'[k] = idx[k]
    <3>1. idx' \in Seq(IndexRecord)
      BY SinkInvStep DEF SinkInv, TypeOK
    <3> QED
      BY <1>1, <2>3, <3>1
  <2>4. TypeOK /\ Bounds
    BY DEF SinkInv
  <2> QED
    BY <2>1, <2>2, <2>3, <2>4, SequenceStep
<1> QED
  BY <1>1, <1>2, <1>3 DEF Sessions

LEMMA PendingStep == SinkInv /\ RecordInv /\ [Next]_vars => Pending'
<1> SUFFICES ASSUME SinkInv, RecordInv, [Next]_vars PROVE Pending'
  OBVIOUS
<1>1. /\ session \in Nat /\ buffers_written \in Nat /\ idx \in Seq(IndexRecord) /\ log \in Seq(Event)
      /\ Len(log) \in Nat
      /\ \A i \in DOMAIN idx : /\ idx[i].offset \in Nat /\ idx[i].offset <= Len(log)
                               /\ idx[i].session \in Nat /\ idx[i].session <= session
  BY RecordFacts DEF RecordInv, Sessions
<1>2. Pending /\ IncludedIfFlushed
  BY DEF RecordInv
<1>3. CASE Start
  BY <1>1, <1>3 DEF Start, FreshState, dataVars, indexVars, Pending
<1>4. CASE \E b \in Buffers : Render(b)
  BY <1>2, <1>4 DEF Render, indexVars, stateVars, Pending
<1>5. CASE WriteIndexRecord
  <2>1. CASE pc' = "errored"
    BY <2>1 DEF Pending
  <2>2. CASE pc' # "errored"
    <3>1. /\ pc = "flush" /\ cur.include /\ idx' = Append(idx, CurrentRecord) /\ pc' = "event"
          /\ UNCHANGED <<cur, log, buffers_written, session>> /\ CurrentRecord' = CurrentRecord
      BY <1>2, <1>5, <2>2 DEF WriteIndexRecord, dataVars, CurrentRecord, IncludedIfFlushed
    <3>2. \A i \in DOMAIN idx' : (i \in DOMAIN idx /\ idx'[i] = idx[i]) \/ idx'[i] = CurrentRecord
      BY <1>1, <3>1
    <3> QED
      BY <1>2, <3>1, <3>2 DEF Pending
  <2> QED
    BY <2>1, <2>2
<1>6. CASE WriteEvent
  <2>1. CASE cur.buf.oversize
    BY <1>6, <2>1 DEF WriteEvent, Pending
  <2>2. CASE ~cur.buf.oversize
    <3>1. log' = Append(log, CurrentEvent) /\ UNCHANGED idx
      BY <1>6, <2>2 DEF WriteEvent, indexVars
    <3>2. Len(log') = Len(log) + 1
      BY <1>1, <3>1
    <3> QED
      BY <1>1, <3>1, <3>2 DEF Pending
  <2> QED
    BY <2>1, <2>2
<1>7. CASE SyncData \/ SyncIndex
  BY <1>2, <1>7 DEF SyncData, SyncIndex, dataVars, indexVars, stateVars, Pending
<1>8. CASE StoreData \/ StoreIndex \/ UNCHANGED vars
  <2>1. UNCHANGED <<pc, cur, log, idx, buffers_written, session>>
    BY <1>8 DEF StoreData, StoreIndex, vars, dataVars, indexVars, stateVars
  <2> QED
    BY <1>2, <2>1 DEF Pending, CurrentRecord
<1>9. CASE \/ Stop \/ StopSteps \/ StartAgain \/ CallFails \/ SealedStreamRejects
           \/ WritePanics \/ Crash
  <2>1. pc' \notin {"idle", "flush", "event", "syncData", "syncIndex"}
    BY <1>9 DEF Stop, StopSteps, WriteFinalRecord, StopIndexFlushed, SealData, SealIndex, StartAgain,
       CallFails, SealedStreamRejects, FailCall, WritePanics, Crash
  <2> QED
    BY <2>1 DEF Pending
<1> QED
  BY <1>3, <1>4, <1>5, <1>6, <1>7, <1>8, <1>9 DEF Next, RenderSteps

LEMMA ClosingStep == SinkInv /\ RecordInv /\ [Next]_vars => Closing' /\ IncludedIfFlushed'
<1> SUFFICES ASSUME SinkInv, RecordInv, [Next]_vars PROVE Closing' /\ IncludedIfFlushed'
  OBVIOUS
<1>1. /\ Closing /\ IncludedIfFlushed /\ idx \in Seq(IndexRecord) /\ offset \in Nat
      /\ log \in Seq(Event) /\ durable \in Nat /\ sent \in Nat /\ durable <= sent /\ sent <= Len(log)
  BY DEF RecordInv, SinkInv, TypeOK, Bounds
<1>2. CASE WriteFinalRecord
  <2>1. CASE HasFinal /\ final_timestamp # 0
    <3>1. idx' = Append(idx, FinalRecord)
      BY <1>2, <2>1 DEF WriteFinalRecord
    <3>2. /\ Len(idx') > 0 /\ idx'[Len(idx')] = FinalRecord
      BY <1>1, <3>1
    <3>3. FinalRecord.final /\ FinalRecord.session = session /\ FinalRecord.offset = final_offset
      BY DEF FinalRecord
    <3> QED
      BY <1>1, <1>2, <3>2, <3>3 DEF WriteFinalRecord, stateVars, Closing, IncludedIfFlushed
  <2> QED
    BY <1>1, <1>2, <2>1 DEF WriteFinalRecord, HasFinal, stateVars, Closing, IncludedIfFlushed
<1>3. CASE \E b \in Buffers : Render(b)
  BY <1>1, <1>3 DEF Render, stateVars, Closing, IncludedIfFlushed
<1>4. CASE WriteIndexRecord \/ WriteEvent
  BY <1>1, <1>4 DEF WriteIndexRecord, WriteEvent, RememberFinal, stateVars, Closing, IncludedIfFlushed, NONE
<1>5. CASE SyncData \/ SyncIndex
  BY <1>1, <1>5 DEF SyncData, SyncIndex, DataFlushed, RememberFinal, dataVars, stateVars, Closing,
                    IncludedIfFlushed, NONE
<1>6. CASE Start \/ Crash \/ StopIndexFlushed \/ SealIndex
  BY <1>1, <1>6 DEF Start, Crash, StopIndexFlushed, SealIndex, FreshState, indexVars, stateVars,
                    Closing, IncludedIfFlushed
<1>7. CASE Stop \/ SealData \/ StartAgain
  BY <1>1, <1>7 DEF Stop, SealData, StartAgain, indexVars, stateVars, Closing, IncludedIfFlushed
<1>8. CASE CallFails \/ SealedStreamRejects \/ WritePanics
  BY <1>1, <1>8 DEF CallFails, SealedStreamRejects, FailCall, WritePanics, stateVars, Closing,
                    IncludedIfFlushed
<1>9. CASE StoreData \/ StoreIndex \/ UNCHANGED vars
  BY <1>1, <1>9 DEF StoreData, StoreIndex, vars, dataVars, indexVars, stateVars, Closing,
                    IncludedIfFlushed
<1> QED
  BY <1>2, <1>3, <1>4, <1>5, <1>6, <1>7, <1>8, <1>9 DEF Next, RenderSteps, StopSteps

\* What RecordPointsAtItsEvent says of one record and the event at its offset.
PointsAt(r, e) ==
  \/ /\ e.session = r.session /\ e.ts = r.ts /\ e.include
     /\ e.random_access = r.random_access /\ e.discontinuity = r.discontinuity
  \/ e.session > r.session /\ e.discontinuity

LEMMA PointsStep == SinkInv /\ RecordInv /\ [Next]_vars => RecordPointsAtItsEvent'
<1> SUFFICES ASSUME SinkInv, RecordInv, [Next]_vars PROVE RecordPointsAtItsEvent'
  OBVIOUS
<1>1. /\ session \in Nat /\ buffers_written \in Nat /\ idx \in Seq(IndexRecord) /\ log \in Seq(Event)
      /\ Len(log) \in Nat /\ durable \in Nat /\ durable <= Len(log)
      /\ idxDurable \in Nat /\ idxDurable <= Len(idx)
      /\ \A i \in DOMAIN idx : /\ idx[i].offset \in Nat /\ idx[i].offset <= durable
  BY RecordFacts
<1>2. \A i \in DOMAIN idx : (~idx[i].final /\ idx[i].offset < Len(log)) =>
                               PointsAt(idx[i], log[idx[i].offset + 1])
  BY DEF RecordInv, RecordPointsAtItsEvent, PointsAt
<1>3. SUFFICES ASSUME NEW i \in DOMAIN idx', ~idx'[i].final, idx'[i].offset < Len(log')
               PROVE  PointsAt(idx'[i], log'[idx'[i].offset + 1])
  BY DEF RecordPointsAtItsEvent, PointsAt
<1>4. CASE log' = log /\ i \in DOMAIN idx /\ idx'[i] = idx[i]
  BY <1>2, <1>3, <1>4
<1>5. CASE WriteIndexRecord /\ idx' = Append(idx, CurrentRecord)
  <2>1. log' = log /\ CurrentRecord.offset = Len(log)
    BY <1>5 DEF WriteIndexRecord, dataVars, CurrentRecord, SinkInv, Locals
  <2>2. (i \in DOMAIN idx /\ idx'[i] = idx[i]) \/ idx'[i] = CurrentRecord
    BY <1>1, <1>5
  <2> QED
    BY <1>1, <1>3, <1>4, <2>1, <2>2
<1>6. CASE WriteFinalRecord /\ idx' = Append(idx, FinalRecord)
  <2>1. log' = log /\ FinalRecord.final
    BY <1>6 DEF WriteFinalRecord, dataVars, FinalRecord
  <2>2. (i \in DOMAIN idx /\ idx'[i] = idx[i]) \/ idx'[i] = FinalRecord
    BY <1>1, <1>6
  <2> QED
    BY <1>3, <1>4, <2>1, <2>2
<1>7. CASE /\ Crash /\ Len(log') = durable /\ \A k \in 1 .. durable : log'[k] = log[k]
           /\ Len(idx') = idxDurable /\ \A k \in 1 .. idxDurable : idx'[k] = idx[k]
  <2>1. idx' \in Seq(IndexRecord)
    BY SinkInvStep DEF SinkInv, TypeOK
  <2>2. i \in DOMAIN idx /\ idx'[i] = idx[i]
    BY <1>1, <1>7, <2>1
  <2>3. idx[i].offset < durable /\ idx[i].offset + 1 \in 1 .. durable
    BY <1>1, <1>3, <1>7, <2>2
  <2> QED
    BY <1>1, <1>2, <1>3, <1>7, <2>2, <2>3
<1>8. CASE WriteEvent /\ ~cur.buf.oversize /\ log' = Append(log, CurrentEvent)
  <2>1. idx' = idx /\ Len(log') = Len(log) + 1 /\ log'[Len(log) + 1] = CurrentEvent
        /\ \A k \in 1 .. Len(log) : log'[k] = log[k]
    BY <1>1, <1>8 DEF WriteEvent, indexVars
  <2>2. CASE idx[i].offset < Len(log)
    <3>1. idx[i].offset + 1 \in 1 .. Len(log)
      BY <1>1, <2>1, <2>2
    <3> QED
      BY <1>2, <1>3, <2>1, <2>2, <3>1
  <2>3. CASE idx[i].offset = Len(log)
    <3>1. /\ pc = "event"
          /\ \/ idx[i].session < session /\ buffers_written = 0
             \/ cur.include /\ idx[i] = CurrentRecord
      BY <1>3, <1>8, <2>1, <2>3 DEF WriteEvent, RecordInv, Pending
    <3>2. buffers_written = 0 => cur.discontinuity
      BY <3>1 DEF SinkInv, Locals
    <3>3. idx[i].session \in Nat
      BY <2>1, RecordFacts
    <3> QED
      BY <1>1, <2>1, <2>3, <3>1, <3>2, <3>3 DEF PointsAt, CurrentEvent, CurrentRecord
  <2> QED
    BY <1>1, <2>1, <2>2, <2>3
<1>9. TypeOK /\ Bounds
  BY DEF SinkInv
<1>10. CASE Crash
  <2>1. Len(log') = durable /\ \A k \in 1 .. durable : log'[k] = log[k]
    BY <1>9, <1>10 DEF Crash, TypeOK, Bounds, dataVars
  <2>2. Len(idx') = idxDurable /\ \A k \in 1 .. idxDurable : idx'[k] = idx[k]
    BY <1>9, <1>10 DEF Crash, TypeOK, Bounds, indexVars
  <2> QED
    BY <1>7, <1>10, <2>1, <2>2
<1>11. CASE ~Crash
  <2>1. log' # log => WriteEvent
    BY <1>9, <1>11, SequenceStep
  <2>2. WriteEvent => idx' = idx
    BY DEF WriteEvent, indexVars
  <2> QED
    BY <1>4, <1>5, <1>6, <1>8, <1>9, <1>11, <2>1, <2>2, SequenceStep
<1> QED
  BY <1>10, <1>11

\* The invariant of records and of Ok.
LEMMA RecordInvariant == Spec => []RecordInv
<1>1. Init => RecordInv
  <2> SUFFICES ASSUME Init PROVE RecordInv
    OBVIOUS
  <2>1. DOMAIN idx = {} /\ pc = "stopped" /\ final_timestamp = NONE
    BY DEF Init
  <2> QED
    BY <2>1 DEF RecordInv, Pending, Sessions, IncludedIfFlushed, Closing, RecordPointsAtItsEvent
<1>2. SinkInv /\ RecordInv /\ [Next]_vars => RecordInv'
  BY PendingStep, SessionsStep, ClosingStep, PointsStep DEF RecordInv
<1> QED
  BY <1>1, <1>2, SinkInvariant, PTL DEF Spec

\* A reader that starts at an index record finds the event the record was written for, or,
\* where a crash took that event, one marked as a discontinuity.
THEOREM SinkRecordPointsAtItsEvent == Spec => []RecordPointsAtItsEvent
<1>1. RecordInv => RecordPointsAtItsEvent
  BY DEF RecordInv
<1> QED
  BY <1>1, RecordInvariant, PTL

\* When render of a SYNC_AFTER buffer or stop returns Ok, all that was written is stored,
\* and stop has closed the index at the last rendered buffer.
THEOREM SinkOkMeansStored == Spec => OkMeansStored
<1>1. SinkInv /\ RecordInv /\ [Next]_vars =>
        [(pc = "syncIndex" /\ pc' = "idle") \/ (pc \in {"stopIndex", "sealIndex"} /\ pc' = "stopped") =>
           /\ durable' = Len(log') /\ idxDurable' = Len(idx')
           /\ (pc' = "stopped" /\ final_timestamp # NONE) =>
                LET r == idx'[Len(idx')]
                IN r.final /\ r.session = session /\ r.offset = final_offset]_vars
  <2> SUFFICES ASSUME SinkInv, RecordInv, [Next]_vars,
                      \/ pc = "syncIndex" /\ pc' = "idle"
                      \/ pc \in {"stopIndex", "sealIndex"} /\ pc' = "stopped"
               PROVE  /\ durable' = Len(log') /\ idxDurable' = Len(idx')
                      /\ (pc' = "stopped" /\ final_timestamp # NONE) =>
                           LET r == idx'[Len(idx')]
                           IN r.final /\ r.session = session /\ r.offset = final_offset
    OBVIOUS
  <2>1. SyncIndex \/ StopIndexFlushed \/ SealIndex
    BY DEF Next, Start, StartAgain, Render, Stop, RenderSteps, WriteIndexRecord, WriteEvent,
       SyncData, StopSteps, WriteFinalRecord, SealData, CallFails, SealedStreamRejects, FailCall,
       WritePanics, Crash, StoreData, StoreIndex, vars
  <2>2. UNCHANGED <<log, durable, idx, idxDurable>>
    BY <2>1 DEF SyncIndex, StopIndexFlushed, SealIndex, dataVars, indexVars
  <2>3. durable = Len(log) /\ idxDurable = Len(idx)
    BY <2>1 DEF SyncIndex, StopIndexFlushed, SealIndex, FlushedBeforeStop, IndexFlushed, RecordInv,
       Closing, SinkInv, Positions
  <2>4. (pc' = "stopped" /\ final_timestamp # NONE) =>
          idx[Len(idx)].final /\ idx[Len(idx)].session = session /\ idx[Len(idx)].offset = final_offset
    BY DEF RecordInv, Closing
  <2> QED
    BY <2>2, <2>3, <2>4
<1> QED
  BY <1>1, SinkInvariant, RecordInvariant, PTL DEF Spec, OkMeansStored
-----------------------------------------------------------------------------
(* The refinement.  A step of the server appends one event or one record to   *)
(* what is stored; every step of the element, a crash included, leaves the    *)
(* stored prefixes as they are.                                               *)

\* The first n elements of a sequence that keeps them.
LEMMA SamePrefix ==
  ASSUME NEW T, NEW s \in Seq(T), NEW t \in Seq(T), NEW n \in Nat, n <= Len(s), n <= Len(t),
         \A k \in 1 .. n : t[k] = s[k]
  PROVE  SubSeq(t, 1, n) = SubSeq(s, 1, n)
<1>1. /\ SubSeq(s, 1, n) \in Seq(T) /\ Len(SubSeq(s, 1, n)) = n
      /\ \A k \in 1 .. n : SubSeq(s, 1, n)[k] = s[k]
  OBVIOUS
<1>2. /\ SubSeq(t, 1, n) \in Seq(T) /\ Len(SubSeq(t, 1, n)) = n
      /\ \A k \in 1 .. n : SubSeq(t, 1, n)[k] = t[k]
  OBVIOUS
<1>3. \A k \in 1 .. n : SubSeq(t, 1, n)[k] = SubSeq(s, 1, n)[k]
  BY <1>1, <1>2
<1> QED
  BY <1>1, <1>2, <1>3, SeqEqual

\* One more element of the same sequence.
LEMMA NextPrefix ==
  ASSUME NEW T, NEW s \in Seq(T), NEW n \in Nat, n < Len(s)
  PROVE  /\ Len(SubSeq(s, 1, n)) = n /\ Len(SubSeq(s, 1, n + 1)) = n + 1
         /\ DOMAIN SubSeq(s, 1, n) = 1 .. n
         /\ \A k \in 1 .. n : SubSeq(s, 1, n)[k] = s[k]
         /\ \A k \in 1 .. n + 1 : SubSeq(s, 1, n + 1)[k] = s[k]
<1>1. n + 1 <= Len(s)
  OBVIOUS
<1> QED
  BY <1>1

LEMMA StoredInit == Init => Stored!Init
  BY DEF Init, Stored!Init

\* Whatever the element does, it does beyond what is stored.
LEMMA StoredKept ==
  ASSUME SinkInv, [Next]_vars, ~StoreData, ~StoreIndex
  PROVE  UNCHANGED <<SubSeq(log, 1, durable), SubSeq(idx, 1, idxDurable)>>
<1>1. TypeOK /\ Bounds /\ TypeOK' /\ Bounds'
  BY TypeStep, BoundsStep DEF SinkInv
<1>2. /\ log \in Seq(Event) /\ idx \in Seq(IndexRecord) /\ log' \in Seq(Event) /\ idx' \in Seq(IndexRecord)
      /\ durable \in Nat /\ durable <= Len(log) /\ idxDurable \in Nat /\ idxDurable <= Len(idx)
      /\ durable' \in Nat /\ durable' <= Len(log') /\ idxDurable' \in Nat /\ idxDurable' <= Len(idx')
  BY <1>1 DEF TypeOK, Bounds
<1>3. durable' = durable /\ idxDurable' = idxDurable
  BY DEF Next, Start, StartAgain, Render, Stop, RenderSteps, WriteIndexRecord, WriteEvent,
         SyncData, SyncIndex, StopSteps, WriteFinalRecord, StopIndexFlushed, SealData, SealIndex,
         CallFails, SealedStreamRejects, FailCall, WritePanics, Crash,
         vars, dataVars, indexVars
<1>4. \A k \in 1 .. durable : log'[k] = log[k]
  <2>1. CASE log' = Append(log, CurrentEvent)
    BY <1>2, <2>1
  <2> QED
    BY <1>1, <2>1, SequenceStep
<1>5. \A k \in 1 .. idxDurable : idx'[k] = idx[k]
  <2>1. ASSUME NEW r, idx' = Append(idx, r) PROVE \A k \in 1 .. idxDurable : idx'[k] = idx[k]
    BY <1>2, <2>1
  <2> QED
    BY <1>1, <2>1, SequenceStep
<1>6. SubSeq(log', 1, durable) = SubSeq(log, 1, durable)
  BY <1>2, <1>3, <1>4, SamePrefix
<1>7. SubSeq(idx', 1, idxDurable) = SubSeq(idx, 1, idxDurable)
  BY <1>2, <1>3, <1>5, SamePrefix
<1> QED
  BY <1>3, <1>6, <1>7

LEMMA StoreDataAppends == SinkInv /\ StoreData => Stored!AppendEvent
<1> SUFFICES ASSUME SinkInv, StoreData PROVE Stored!AppendEvent
  OBVIOUS
<1>1. /\ log \in Seq(Event) /\ durable \in Nat /\ durable < Len(log) /\ LossIsMarked
      /\ durable' = durable + 1 /\ UNCHANGED <<log, idx, idxDurable>>
  BY DEF SinkInv, TypeOK, Bounds, StoreData, indexVars
<1> DEFINE d == SubSeq(log, 1, durable)
           e == SubSeq(log, 1, durable + 1)
<1>2. /\ Len(d) = durable /\ Len(e) = durable + 1 /\ DOMAIN d = 1 .. durable
      /\ \A k \in 1 .. durable : d[k] = log[k]
      /\ \A k \in 1 .. durable + 1 : e[k] = log[k]
  BY <1>1, NextPrefix
<1>3. d' = e /\ UNCHANGED SubSeq(idx, 1, idxDurable)
  BY <1>1
<1>4. Stored!Continues(e, durable + 1)
  <2>1. /\ durable + 1 \in DOMAIN log /\ e[durable + 1] = log[durable + 1]
        /\ durable + 1 > 1 => e[durable] = log[durable]
    BY <1>1, <1>2
  <2>2. \/ log[durable + 1].discontinuity
        \/ durable + 1 > 1 /\ Follows(log[durable], log[durable + 1])
    BY <1>1, <2>1 DEF LossIsMarked
  <2> HIDE DEF e
  <2> QED
    BY <1>1, <2>1, <2>2 DEF Stored!Continues, Stored!Follows, Follows
<1>5. \A k \in DOMAIN d : e[k] = d[k]
  BY <1>1, <1>2
<1> HIDE DEF d, e
<1>6. Len(d') = Len(d) + 1 /\ (\A k \in DOMAIN d : d'[k] = d[k]) /\ Stored!Continues(d', Len(d) + 1)
  BY <1>2, <1>3, <1>4, <1>5
<1> QED
  BY <1>3, <1>6 DEF Stored!AppendEvent, d

LEMMA StoreIndexAppends == SinkInv /\ StoreIndex => Stored!AppendRecord
<1> SUFFICES ASSUME SinkInv, StoreIndex PROVE Stored!AppendRecord
  OBVIOUS
<1>1. /\ idx \in Seq(IndexRecord) /\ idxDurable \in Nat /\ idxDurable < Len(idx)
      /\ log \in Seq(Event) /\ durable \in Nat /\ durable <= Len(log)
      /\ idxDurable' = idxDurable + 1 /\ UNCHANGED <<log, idx, durable>>
  BY DEF SinkInv, TypeOK, Bounds, StoreIndex, dataVars
<1>2. OffsetsInOrder /\ ContinuousBetweenRecords /\ TypeOK /\ Bounds /\ IndexWithinData
  BY DEF SinkInv
<1> DEFINE x == SubSeq(idx, 1, idxDurable)
           y == SubSeq(idx, 1, idxDurable + 1)
           d == SubSeq(log, 1, durable)
           n == idxDurable + 1
<1>3. /\ Len(x) = idxDurable /\ Len(y) = idxDurable + 1 /\ DOMAIN x = 1 .. idxDurable
      /\ \A k \in 1 .. idxDurable : x[k] = idx[k]
      /\ \A k \in 1 .. idxDurable + 1 : y[k] = idx[k]
  BY <1>1, NextPrefix
<1>4. Len(d) = durable /\ \A k \in 1 .. durable : d[k] = log[k]
  BY <1>1
<1>5. x' = y /\ d' = d
  BY <1>1
<1>6. n \in DOMAIN idx /\ y[n] = idx[n] /\ (n > 1 => n - 1 \in DOMAIN idx /\ x[n-1] = idx[n-1])
  <2>1. n \in 1 .. Len(idx) /\ n \in 1 .. idxDurable + 1
        /\ (n > 1 => n - 1 \in 1 .. idxDurable /\ n - 1 \in 1 .. Len(idx))
    BY <1>1
  <2>2. DOMAIN idx = 1 .. Len(idx)
    BY <1>1
  <2> HIDE DEF x, y, n
  <2> QED
    BY <1>3, <2>1, <2>2
<1>7. /\ idx[n].offset \in Nat /\ idx[n].offset <= durable
      /\ n > 1 => idx[n-1].offset \in Nat /\ idx[n-1].offset <= idx[n].offset
  <2>1. idx[n].offset \in Nat /\ idx[n].offset <= durable
    BY <1>2, <1>6, RecordOffsets
  <2>2. n > 1 => idx[n-1].offset \in Nat
    BY <1>2, <1>6, RecordOffsets
  <2>3. n > 1 => idx[n-1].offset <= idx[n].offset
    BY <1>1, <1>2, <1>6 DEF OffsetsInOrder
  <2> QED
    BY <2>1, <2>2, <2>3
<1>8. ~idx[n].discontinuity => n > 1 /\ Stored!Unbroken(d, idx[n-1].offset, idx[n].offset)
  <2> SUFFICES ASSUME ~idx[n].discontinuity
               PROVE  n > 1 /\ Stored!Unbroken(d, idx[n-1].offset, idx[n].offset)
    OBVIOUS
  <2>1. /\ n > 1
        /\ \A k \in idx[n-1].offset + 1 .. idx[n].offset :
             k > idx[n-1].offset + 1 => Follows(log[k-1], log[k])
    BY <1>2, <1>6 DEF ContinuousBetweenRecords
  <2> SUFFICES ASSUME NEW k \in idx[n-1].offset + 2 .. idx[n].offset
               PROVE  Stored!Follows(d[k-1], d[k])
    BY <2>1 DEF Stored!Unbroken
  <2>2. k \in 1 .. durable /\ k - 1 \in 1 .. durable
    BY <1>1, <1>7, <2>1
  <2>3. k \in idx[n-1].offset + 1 .. idx[n].offset /\ k > idx[n-1].offset + 1
    BY <1>7, <2>1
  <2>4. Follows(log[k-1], log[k])
    BY <2>1, <2>3
  <2> QED
    BY <1>4, <2>2, <2>4 DEF Follows, Stored!Follows
<1>9. \A k \in DOMAIN x : y[k] = x[k]
  BY <1>1, <1>3
<1>10. n = Len(x) + 1 /\ n > 1 => n - 1 = Len(x)
  BY <1>1, <1>3
<1> HIDE DEF x, y, d
<1>11. Len(x) + 1 = n /\ Len(x') = n /\ \A k \in DOMAIN x : x'[k] = x[k]
  BY <1>3, <1>5, <1>9, <1>10
<1>12. x'[n].offset <= Len(d) /\ (n > 1 => x[n-1].offset <= x'[n].offset)
  BY <1>3, <1>4, <1>5, <1>6, <1>7
<1>13. ~x'[n].discontinuity => n > 1 /\ Stored!Unbroken(d, x[n-1].offset, x'[n].offset)
  BY <1>5, <1>6, <1>8
<1> HIDE DEF n
<1> QED
  BY <1>5, <1>11, <1>12, <1>13 DEF Stored!AppendRecord, x, d

\* What pravegasink does to the two streams is what the abstract indexed stream does: through
\* failures, crashes and restarts the server only ever appends an event that is marked or
\* continues the last one, or a record that keeps the constraints of index.rs.
THEOREM SinkImplementsIndexedStream == Spec => StoredSpec
<1>1. SinkInv /\ [Next]_vars => [Stored!Next]_(Stored!vars)
  <2> SUFFICES ASSUME SinkInv, [Next]_vars PROVE [Stored!Next]_(Stored!vars)
    OBVIOUS
  <2>1. CASE StoreData
    BY <2>1, StoreDataAppends DEF Stored!Next
  <2>2. CASE StoreIndex
    BY <2>2, StoreIndexAppends DEF Stored!Next
  <2>3. CASE ~StoreData /\ ~StoreIndex
    BY <2>3, StoredKept DEF Stored!vars
  <2> QED
    BY <2>1, <2>2, <2>3
<1> QED
  BY <1>1, StoredInit, SinkInvariant, PTL DEF Spec, StoredSpec, Stored!Spec
-----------------------------------------------------------------------------
(* index-min-sec and index-max-sec.  The condition of render is about         *)
(* last_index_time, the properties about the records; the two agree while     *)
(* render may be called, because only render and the stop that ends it write  *)
(* records.  A record time that wraps around U64 would be compared with a     *)
(* sum that is too small.                                                     *)

\* Timestamps and the spacing of records stay within a u64.
SpacingFits == \A b \in Buffers : b.ts + IndexMin < U64 /\ b.ts + IndexMax < U64

InRender == pc \in {"idle", "flush", "event", "syncData", "syncIndex"}

\* The buffer being rendered is one that upstream pushed, and start accepted the settings.
PushedBuffer ==
  /\ InRender => IndexMin <= IndexMax
  /\ pc \in {"flush", "event", "syncData", "syncIndex"} => cur.buf \in Buffers
  /\ last_index_time # NONE => \E b \in Buffers : last_index_time = b.ts

LogSessions == \A k \in DOMAIN log : log[k].session <= session

\* While render may still be called, last_index_time is the time of the session's last record.
LastRecord ==
  (InRender /\ Len(idx) > 0 /\ idx[Len(idx)].session = session) =>
    /\ ~idx[Len(idx)].final
    /\ last_index_time = idx[Len(idx)].ts /\ last_index_time # NONE

\* Event k of the session, of this kind and time, has its record or needs none.
Accounted(k, key, ts) ==
  \E i \in DOMAIN idx :
    /\ LastRecordAt(i, k)
    /\ (idx[i].offset = k - 1 /\ idx[i].ts = ts) \/ NotDue(key, ts, idx[i])

\* What render decided about the buffer.
Decided ==
  /\ (pc = "flush" /\ last_index_time # NONE) =>
        /\ cur.buf.ts >= last_index_time + IndexMin
        /\ ~cur.buf.key => cur.buf.ts > last_index_time + IndexMax
  /\ (pc = "event" /\ cur.buf.ts # NONE) => Accounted(Len(log) + 1, cur.buf.key, cur.buf.ts)

DueInv == PushedBuffer /\ LogSessions /\ LastRecord /\ Decided /\ RecordsWhereDue

LEMMA DueFacts ==
  ASSUME SinkInv
  PROVE  /\ IndexMin \in Nat /\ IndexMax \in Nat /\ U64 \in Nat \ {0}
         /\ last_index_time \in Int /\ cur.buf.ts \in Int /\ cur.buf.key \in BOOLEAN
         /\ log \in Seq(Event) /\ idx \in Seq(IndexRecord) /\ Len(log) \in Nat /\ Len(idx) \in Nat
         /\ session \in Nat /\ durable \in Nat /\ durable <= Len(log)
         /\ idxDurable \in Nat /\ idxDurable <= Len(idx)
         /\ \A i \in DOMAIN idx : /\ idx[i].ts \in Int /\ idx[i].session \in Nat /\ idx[i].final \in BOOLEAN
                                  /\ idx[i].offset \in Nat /\ idx[i].offset <= Len(log)
         /\ \A k \in DOMAIN log : log[k].ts \in Int /\ log[k].session \in Nat
<1>1. TypeOK /\ Bounds /\ IndexWithinData
  BY DEF SinkInv
<1>2. IndexMin \in Nat /\ IndexMax \in Nat /\ U64 \in Nat \ {0}
  BY SinkAssumption
<1>3. last_index_time \in Int /\ cur.buf.ts \in Int /\ cur.buf.key \in BOOLEAN
  BY <1>1 DEF TypeOK, Rendering, Buffer, Time, NONE
<1>4. ASSUME NEW i \in DOMAIN idx
      PROVE  idx[i].ts \in Int /\ idx[i].session \in Nat /\ idx[i].final \in BOOLEAN
  <2>1. idx[i] \in IndexRecord
    BY <1>1 DEF TypeOK
  <2> QED
    BY <2>1 DEF IndexRecord, Time, NONE
<1>5. ASSUME NEW k \in DOMAIN log PROVE log[k].ts \in Int /\ log[k].session \in Nat
  <2>1. log[k] \in Event
    BY <1>1 DEF TypeOK
  <2> QED
    BY <2>1 DEF Event, Time, NONE
<1>6. \A i \in DOMAIN idx : idx[i].offset \in Nat /\ idx[i].offset <= Len(log)
  BY <1>1, RecordOffsets
<1> QED
  BY <1>1, <1>2, <1>3, <1>4, <1>5, <1>6, RecordFacts

\* What a session does to the sequences and to the variables that DueInv is about, in one place.
LEMMA DueSteps ==
  ASSUME SinkInv, [Next]_vars
  PROVE  \/ Start
         \/ Crash
         \/ \E b \in Buffers : Render(b)
         \/ WriteIndexRecord
         \/ WriteEvent
         \/ SyncData \/ SyncIndex
         \/ WriteFinalRecord
         \/ /\ UNCHANGED <<log, idx, session>>
            /\ \/ ~InRender' /\ pc' \notin {"flush", "event"}
                  /\ (last_index_time' = last_index_time \/ last_index_time' = NONE)
               \/ UNCHANGED <<pc, cur, last_index_time>>
            /\ pc' # "crashed" => pc # "crashed"
  BY DEF Next, StartAgain, Stop, RenderSteps, StopSteps, StopIndexFlushed, SealData, SealIndex, FreshState,
     CallFails, SealedStreamRejects, FailCall, WritePanics, StoreData, StoreIndex, vars,
     dataVars, indexVars, stateVars, InRender

LEMMA PushedBufferStep == SinkInv /\ DueInv /\ [Next]_vars => PushedBuffer'
<1> SUFFICES ASSUME SinkInv, DueInv, [Next]_vars PROVE PushedBuffer'
  OBVIOUS
<1>0. PushedBuffer
  BY DEF DueInv
<1>1. CASE Start
  BY <1>0, <1>1 DEF Start, FreshState, PushedBuffer, InRender
<1>2. CASE Crash
  BY <1>2 DEF Crash, FreshState, PushedBuffer, InRender
<1>3. CASE \E b \in Buffers : Render(b)
  BY <1>0, <1>3 DEF Render, stateVars, PushedBuffer, InRender
<1>4. CASE WriteIndexRecord
  BY <1>0, <1>4 DEF WriteIndexRecord, PushedBuffer, InRender
<1>5. CASE WriteEvent
  BY <1>0, <1>5 DEF WriteEvent, stateVars, PushedBuffer, InRender
<1>6. CASE SyncData \/ SyncIndex
  BY <1>0, <1>6 DEF SyncData, SyncIndex, stateVars, PushedBuffer, InRender
<1>7. CASE WriteFinalRecord
  BY <1>0, <1>7 DEF WriteFinalRecord, stateVars, PushedBuffer, InRender
<1>8. CASE \/ ~InRender' /\ (last_index_time' = last_index_time \/ last_index_time' = NONE)
           \/ UNCHANGED <<pc, cur, last_index_time>>
  BY <1>0, <1>8 DEF PushedBuffer, InRender
<1> QED
  BY <1>1, <1>2, <1>3, <1>4, <1>5, <1>6, <1>7, <1>8, DueSteps

LEMMA LogSessionsStep == SinkInv /\ DueInv /\ [Next]_vars => LogSessions'
<1> SUFFICES ASSUME SinkInv, DueInv, [Next]_vars PROVE LogSessions'
  OBVIOUS
<1>0. /\ session \in Nat /\ log \in Seq(Event) /\ durable \in Nat /\ durable <= Len(log)
      /\ \A k \in DOMAIN log : log[k].session \in Nat /\ log[k].session <= session
  BY DueFacts DEF DueInv, LogSessions
<1>1. session' \in Nat /\ session <= session'
  BY <1>0 DEF Next, Start, StartAgain, Render, Stop, RenderSteps, WriteIndexRecord, WriteEvent,
     SyncData, SyncIndex, StopSteps, WriteFinalRecord, StopIndexFlushed, SealData, SealIndex,
     CallFails, SealedStreamRejects, FailCall, WritePanics, Crash, StoreData, StoreIndex, vars
<1>2. TypeOK /\ Bounds /\ log' \in Seq(Event)
  BY TypeStep DEF SinkInv, TypeOK
<1>3. \A k \in DOMAIN log' : (k \in DOMAIN log /\ log'[k] = log[k]) \/ log'[k].session = session
  <2>1. CurrentEvent.session = session
    BY DEF CurrentEvent
  <2>2. CASE log' = Append(log, CurrentEvent)
    BY <1>0, <2>1, <2>2
  <2>3. CASE Len(log') = durable /\ \A k \in 1 .. durable : log'[k] = log[k]
    BY <1>0, <1>2, <2>3
  <2> QED
    BY <1>2, <2>2, <2>3, SequenceStep
<1> QED
  BY <1>0, <1>1, <1>3 DEF LogSessions

LEMMA LastRecordStep == SinkInv /\ RecordInv /\ DueInv /\ [Next]_vars => LastRecord'
<1> SUFFICES ASSUME SinkInv, RecordInv, DueInv, [Next]_vars PROVE LastRecord'
  OBVIOUS
<1>0. /\ session \in Nat /\ log \in Seq(Event) /\ idx \in Seq(IndexRecord) /\ LastRecord
      /\ Len(log) \in Nat /\ Len(idx) \in Nat
      /\ \A i \in DOMAIN idx : /\ idx[i].session \in Nat /\ idx[i].session <= session
                               /\ idx[i].offset \in Nat /\ idx[i].offset <= Len(log)
  BY DueFacts DEF DueInv, RecordInv, Sessions
<1>1. CASE Start
  <2>1. /\ last_index_time' = NONE /\ UNCHANGED <<log, idx>> /\ session' = session + 1
    BY <1>1 DEF Start, FreshState, dataVars, indexVars
  <2>2. Len(idx) > 0 => idx[Len(idx)].session # session + 1
    BY <1>0
  <2> QED
    BY <2>1, <2>2 DEF LastRecord
<1>2. CASE Crash
  BY <1>2 DEF Crash, LastRecord, InRender
<1>3. CASE \E b \in Buffers : Render(b)
  BY <1>0, <1>3 DEF Render, stateVars, indexVars, LastRecord, InRender
<1>4. CASE WriteIndexRecord
  <2>1. CASE pc' = "errored"
    BY <2>1 DEF LastRecord, InRender
  <2>2. CASE pc' # "errored"
    <3>1. /\ pc' = "event" /\ idx' = Append(idx, CurrentRecord) /\ last_index_time' = cur.buf.ts
          /\ cur.buf.ts # NONE
      BY <1>4, <2>2 DEF WriteIndexRecord, SinkInv, Locals
    <3>2. idx'[Len(idx')] = CurrentRecord
      BY <1>0, <3>1
    <3> QED
      BY <3>1, <3>2 DEF LastRecord, InRender, CurrentRecord
  <2> QED
    BY <2>1, <2>2
<1>5. CASE WriteEvent
  BY <1>0, <1>5 DEF WriteEvent, indexVars, stateVars, LastRecord, InRender
<1>6. CASE SyncData \/ SyncIndex
  BY <1>0, <1>6 DEF SyncData, SyncIndex, dataVars, indexVars, stateVars, LastRecord, InRender
<1>7. CASE WriteFinalRecord
  BY <1>7 DEF WriteFinalRecord, LastRecord, InRender
<1>8. CASE UNCHANGED <<log, idx, session>> /\ (~InRender' \/ UNCHANGED <<pc, last_index_time>>)
  BY <1>0, <1>8 DEF LastRecord, InRender
<1> QED
  BY <1>1, <1>2, <1>3, <1>4, <1>5, <1>6, <1>7, <1>8, DueSteps

\* A sum that fits is the sum.
LEMMA WrapAddFits ==
  ASSUME NEW a \in Int, NEW b \in Nat, a >= 0, a + b < U64
  PROVE  WrapAdd(a, b) = a + b
  BY SinkAssumption DEF WrapAdd

LEMMA DecidedStep ==
  ASSUME SpacingFits, SinkInv, RecordInv, DueInv, [Next]_vars
  PROVE  Decided'
<1>0. /\ IndexMin \in Nat /\ IndexMax \in Nat /\ last_index_time \in Int
      /\ log \in Seq(Event) /\ idx \in Seq(IndexRecord) /\ Len(log) \in Nat /\ Len(idx) \in Nat
      /\ Decided /\ LastRecord /\ PushedBuffer
      /\ \A i \in DOMAIN idx : idx[i].offset \in Nat /\ idx[i].offset <= Len(log) /\ idx[i].ts \in Int
  BY DueFacts DEF DueInv
<1>1. CASE Start \/ Crash \/ WriteEvent \/ SyncData \/ SyncIndex \/ WriteFinalRecord
  BY <1>1 DEF Start, Crash, WriteEvent, SyncData, SyncIndex, WriteFinalRecord, Decided
<1>2. ASSUME NEW b \in Buffers, Render(b) PROVE Decided'
  <2>1. /\ cur'.buf = b /\ UNCHANGED <<log, idx, last_index_time, session>> /\ pc = "idle"
        /\ pc' = IF IncludeInIndex(b) THEN "flush" ELSE "event"
    BY <1>2 DEF Render, indexVars, stateVars
  <2>2. b.ts \in Int /\ b.key \in BOOLEAN
    BY SinkAssumption DEF Buffer, Time, NONE
  <2>3. ASSUME last_index_time # NONE
        PROVE  /\ last_index_time \in Nat
               /\ WrapAdd(last_index_time, IndexMin) = last_index_time + IndexMin
               /\ WrapAdd(last_index_time, IndexMax) = last_index_time + IndexMax
    <3>1. last_index_time \in Nat
      BY <2>3 DEF SinkInv, TypeOK, Time
    <3>2. last_index_time + IndexMin < U64 /\ last_index_time + IndexMax < U64
      BY <1>0, <2>3 DEF PushedBuffer, SpacingFits
    <3> QED
      BY <1>0, <3>1, <3>2, WrapAddFits
  <2>4. ASSUME IncludeInIndex(b), last_index_time # NONE
        PROVE  /\ b.ts >= last_index_time + IndexMin
               /\ ~b.key => b.ts > last_index_time + IndexMax
    <3>1. IndexMin <= IndexMax
      BY <1>0, <2>1 DEF PushedBuffer, InRender
    <3> QED
      BY <1>0, <2>2, <2>3, <2>4, <3>1 DEF IncludeInIndex
  <2>5. ASSUME ~IncludeInIndex(b), b.ts # NONE
        PROVE  Accounted(Len(log) + 1, b.key, b.ts)
    <3>1. last_index_time # NONE /\ NotDue(b.key, b.ts, [ts |-> last_index_time])
      BY <1>0, <2>2, <2>3, <2>5 DEF IncludeInIndex, NotDue
    <3>2. Len(idx) > 0 /\ idx[Len(idx)].session = session
      BY <2>1, <3>1 DEF SinkInv, TailContinuous, Alive
    <3>3. NotDue(b.key, b.ts, idx[Len(idx)]) /\ ~idx[Len(idx)].final
      BY <1>0, <2>1, <3>1, <3>2 DEF LastRecord, InRender, NotDue
    <3>4. Len(idx) \in DOMAIN idx /\ LastRecordAt(Len(idx), Len(log) + 1)
      BY <1>0, <3>2, <3>3 DEF LastRecordAt
    <3> QED
      BY <3>3, <3>4 DEF Accounted
  <2>6. Accounted(Len(log) + 1, b.key, b.ts) => Accounted(Len(log) + 1, b.key, b.ts)'
    BY <2>1 DEF Accounted, LastRecordAt, NotDue
  <2>7. pc' = "flush" => Decided'
    BY <2>1, <2>4 DEF Decided
  <2>8. pc' = "event" => Decided'
    BY <2>1, <2>5, <2>6 DEF Decided, Accounted, LastRecordAt, NotDue
  <2> QED
    BY <2>1, <2>7, <2>8
<1>3. CASE WriteIndexRecord
  <2>1. CASE pc' = "errored"
    BY <2>1 DEF Decided
  <2>2. CASE pc' # "errored"
    <3>1. pc' = "event" /\ idx' = Append(idx, CurrentRecord) /\ UNCHANGED <<cur, log, session>>
          /\ CurrentRecord.offset = Len(log)
      BY <1>3, <2>2 DEF WriteIndexRecord, dataVars, CurrentRecord, SinkInv, Locals
    <3> SUFFICES ASSUME NEW n \in Nat, n = Len(idx), NEW m \in Nat, m = Len(log) PROVE Decided'
      BY <1>0
    <3>2. DOMAIN idx' = 1 .. n + 1 /\ idx'[n + 1] = CurrentRecord
      BY <1>0, <3>1
    <3>3. /\ idx'[n + 1].session = session' /\ ~idx'[n + 1].final
          /\ idx'[n + 1].offset = m /\ idx'[n + 1].ts = cur'.buf.ts
      BY <3>1, <3>2 DEF CurrentRecord
    <3>4. LastRecordAt(n + 1, m + 1)'
      BY <3>2, <3>3 DEF LastRecordAt
    <3>5. n + 1 \in DOMAIN idx' /\ m = (m + 1) - 1
      BY <3>2
    <3>6. Accounted(m + 1, cur.buf.key, cur.buf.ts)'
      BY <3>3, <3>4, <3>5 DEF Accounted
    <3>7. Len(log') = m
      BY <3>1
    <3> QED
      BY <3>1, <3>6, <3>7 DEF Decided
  <2> QED
    BY <2>1, <2>2
<1>4. CASE UNCHANGED <<log, idx, session>> /\ (pc' \notin {"flush", "event"} \/ UNCHANGED <<pc, cur, last_index_time>>)
  BY <1>0, <1>4 DEF Decided, Accounted, LastRecordAt, NotDue
<1> QED
  BY <1>1, <1>2, <1>3, <1>4, DueSteps

LEMMA SpacedStep ==
  ASSUME SinkInv, DueInv, [Next]_vars
  PROVE  RecordsAreSpaced'
<1>0. /\ idx \in Seq(IndexRecord) /\ Len(idx) \in Nat /\ idxDurable \in Nat /\ idxDurable <= Len(idx)
      /\ TypeOK /\ Bounds /\ RecordsAreSpaced /\ LastRecord /\ Decided
  BY DueFacts DEF DueInv, RecordsWhereDue, SinkInv
<1>1. idx' \in Seq(IndexRecord)
  BY <1>0, TypeStep DEF TypeOK
<1> SUFFICES ASSUME NEW i \in DOMAIN idx', i > 1, idx'[i].session = idx'[i-1].session, ~idx'[i].final
             PROVE  /\ idx'[i].ts >= idx'[i-1].ts + IndexMin
                    /\ ~idx'[i].random_access => idx'[i].ts > idx'[i-1].ts + IndexMax
  BY DEF RecordsAreSpaced
<1>2. CASE i \in DOMAIN idx /\ idx'[i] = idx[i] /\ idx'[i-1] = idx[i-1]
  BY <1>0, <1>2 DEF RecordsAreSpaced
<1>3. CASE WriteIndexRecord /\ idx' = Append(idx, CurrentRecord)
  <2>1. CASE i \in DOMAIN idx
    <3>1. i - 1 \in DOMAIN idx
      BY <1>0, <2>1
    <3>2. idx'[i] = idx[i] /\ idx'[i-1] = idx[i-1]
      BY <1>0, <1>3, <2>1, <3>1
    <3> QED
      BY <1>2, <2>1, <3>2
  <2>2. CASE i = Len(idx) + 1
    <3>1. i - 1 = Len(idx) /\ Len(idx) \in DOMAIN idx
      BY <1>0, <2>2
    <3>2. idx'[i] = CurrentRecord /\ idx'[i-1] = idx[Len(idx)]
      BY <1>0, <1>3, <2>2, <3>1
    <3>3. pc = "flush" /\ idx[Len(idx)].session = session
      BY <1>3, <3>2 DEF WriteIndexRecord, CurrentRecord
    <3>4. last_index_time = idx[Len(idx)].ts /\ last_index_time # NONE
      BY <1>0, <3>1, <3>3 DEF LastRecord, InRender
    <3> QED
      BY <1>0, <3>2, <3>3, <3>4 DEF Decided, CurrentRecord
  <2> QED
    BY <1>0, <1>3, <2>1, <2>2
<1>4. CASE WriteFinalRecord /\ idx' = Append(idx, FinalRecord)
  <2>1. CASE i \in DOMAIN idx
    <3>1. i - 1 \in DOMAIN idx
      BY <1>0, <2>1
    <3>2. idx'[i] = idx[i] /\ idx'[i-1] = idx[i-1]
      BY <1>0, <1>4, <2>1, <3>1
    <3> QED
      BY <1>2, <2>1, <3>2
  <2>2. CASE i = Len(idx) + 1
    <3>1. idx'[i] = FinalRecord
      BY <1>0, <1>4, <2>2
    <3> QED
      BY <3>1 DEF FinalRecord
  <2> QED
    BY <1>0, <1>4, <2>1, <2>2
<1>5. CASE Len(idx') = idxDurable /\ \A k \in 1 .. idxDurable : idx'[k] = idx[k]
  <2>1. i \in 1 .. idxDurable /\ i - 1 \in 1 .. idxDurable
    BY <1>0, <1>1, <1>5
  <2> QED
    BY <1>0, <1>2, <1>5, <2>1
<1>6. CASE idx' = idx
  BY <1>2, <1>6
<1> QED
  BY <1>0, <1>3, <1>4, <1>5, <1>6, SequenceStep

LEMMA NoneMissingStep ==
  ASSUME SinkInv, RecordInv, DueInv, [Next]_vars
  PROVE  NoRecordIsMissing'
<1>0. /\ session \in Nat /\ log \in Seq(Event) /\ Len(log) \in Nat /\ idx \in Seq(IndexRecord) /\ Len(idx) \in Nat
      /\ NoRecordIsMissing /\ Decided /\ TypeOK /\ Bounds /\ Locals
      /\ \A k \in DOMAIN log : log[k].session \in Nat /\ log[k].session <= session
  BY DueFacts DEF DueInv, RecordsWhereDue, LogSessions, SinkInv
\* A record written later is about a later event, and none is lost while the session runs.
<1>1. ASSUME session' = session, ~Crash, NEW k \in 1 .. Len(log) + 1, NEW key, NEW ts,
             ~WriteIndexRecord \/ k <= Len(log), Accounted(k, key, ts)
      PROVE  Accounted(k, key, ts)'
  <2>1. PICK i \in DOMAIN idx :
          LastRecordAt(i, k) /\ ((idx[i].offset = k - 1 /\ idx[i].ts = ts) \/ NotDue(key, ts, idx[i]))
    BY <1>1 DEF Accounted
  <2>2. ASSUME NEW r, idx' = Append(idx, r), (r.session = session /\ ~r.final) => r.offset >= k
        PROVE  Accounted(k, key, ts)'
    <3>1. /\ DOMAIN idx' = 1 .. Len(idx) + 1 /\ DOMAIN idx = 1 .. Len(idx)
          /\ idx'[Len(idx) + 1] = r /\ \A j \in DOMAIN idx : idx'[j] = idx[j]
      BY <1>0, <2>2
    <3>2. i \in DOMAIN idx' /\ LastRecordAt(i, k)'
      BY <1>1, <2>1, <2>2, <3>1 DEF LastRecordAt
    <3> QED
      BY <2>1, <3>1, <3>2 DEF Accounted, NotDue
  <2>3. CASE WriteIndexRecord /\ idx' = Append(idx, CurrentRecord)
    <3>1. CurrentRecord.offset = Len(log)
      BY <1>0, <2>3 DEF WriteIndexRecord, Locals, CurrentRecord
    <3> QED
      BY <1>0, <1>1, <2>2, <2>3, <3>1
  <2>4. CASE WriteFinalRecord /\ idx' = Append(idx, FinalRecord)
    <3>1. FinalRecord.final
      BY DEF FinalRecord
    <3> QED
      BY <2>2, <2>4, <3>1
  <2>5. CASE idx' = idx
    BY <1>1, <2>5 DEF Accounted, LastRecordAt, NotDue
  <2> QED
    BY <1>0, <1>1, <2>3, <2>4, <2>5, SequenceStep
<1> SUFFICES ASSUME pc' # "crashed", NEW k \in DOMAIN log', log'[k].session = session', log'[k].ts # NONE
             PROVE  Accounted(k, log[k].random_access, log[k].ts)'
  BY DEF NoRecordIsMissing, Accounted
<1>2. CASE Start
  <2>1. log' = log /\ session' = session + 1
    BY <1>2 DEF Start, dataVars
  <2> QED
    BY <1>0, <2>1
<1>3. CASE Crash
  BY <1>3 DEF Crash
<1>4. CASE ~Start /\ ~Crash
  <2>1. session' = session /\ pc # "crashed"
    BY <1>4, DueSteps DEF Render, WriteIndexRecord, WriteEvent, SyncData, SyncIndex, WriteFinalRecord
  <2>2. CASE k \in DOMAIN log /\ log'[k] = log[k]
    <3>1. Accounted(k, log[k].random_access, log[k].ts)
      BY <1>0, <2>1, <2>2 DEF NoRecordIsMissing, Accounted
    <3>2. k \in 1 .. Len(log) + 1 /\ k <= Len(log)
      BY <1>0, <2>2
    <3>3. ASSUME NEW a, NEW t, Accounted(k, a, t) PROVE Accounted(k, a, t)'
      BY <1>1, <1>4, <2>1, <3>2, <3>3
    <3> QED
      BY <2>2, <3>1, <3>3 DEF Accounted
  <2>3. CASE WriteEvent /\ log' = Append(log, CurrentEvent) /\ k = Len(log) + 1
    <3>1. log'[k] = CurrentEvent /\ k \in 1 .. Len(log) + 1
      BY <1>0, <2>3
    <3>2. cur.buf.ts # NONE /\ log'[k].ts = cur.buf.ts /\ log'[k].random_access = cur.buf.key
      BY <3>1 DEF CurrentEvent
    <3>3. pc = "event" /\ ~WriteIndexRecord
      BY <2>3 DEF WriteEvent, WriteIndexRecord
    <3>4. Accounted(k, cur.buf.key, cur.buf.ts)
      BY <1>0, <2>3, <3>2, <3>3 DEF Decided
    <3>5. ASSUME NEW a, NEW t, Accounted(k, a, t) PROVE Accounted(k, a, t)'
      BY <1>1, <1>4, <2>1, <3>1, <3>3, <3>5
    <3> QED
      BY <3>2, <3>4, <3>5 DEF Accounted
  <2>4. log' = log => k \in DOMAIN log /\ log'[k] = log[k]
    OBVIOUS
  <2>5. log' = Append(log, CurrentEvent) => (k \in DOMAIN log /\ log'[k] = log[k]) \/ k = Len(log) + 1
    BY <1>0
  <2> QED
    BY <1>0, <1>4, <2>2, <2>3, <2>4, <2>5, SequenceStep
<1> QED
  BY <1>2, <1>3, <1>4

\* Properties index-min-sec and index-max-sec, for every order of timestamps, every failure and every
\* crash: within a session records are at least index-min apart, a delta unit is indexed only when
\* the last record is more than index-max old, a key frame is indexed or less than index-min after
\* the last indexed buffer, and a delta unit is indexed or at most index-max after it.  A timestamp
\* within index-max of 2^64 nanoseconds is excluded.
THEOREM SinkRecordsWhereDue ==
  ASSUME SpacingFits
  PROVE  Spec => []RecordsWhereDue
<1>1. Init => DueInv
  <2> SUFFICES ASSUME Init PROVE DueInv
    OBVIOUS
  <2>1. DOMAIN idx = {} /\ DOMAIN log = {} /\ Len(idx) = 0 /\ pc = "stopped" /\ last_index_time = NONE
    BY DEF Init
  <2> QED
    BY <2>1 DEF DueInv, PushedBuffer, LogSessions, LastRecord, Decided, InRender, RecordsWhereDue,
                RecordsAreSpaced, NoRecordIsMissing
<1>2. SinkInv /\ RecordInv /\ DueInv /\ [Next]_vars => DueInv'
  <2> SUFFICES ASSUME SinkInv, RecordInv, DueInv, [Next]_vars PROVE DueInv'
    OBVIOUS
  <2>1. RecordsWhereDue'
    BY SpacedStep, NoneMissingStep DEF RecordsWhereDue
  <2>2. PushedBuffer' /\ LogSessions' /\ LastRecord' /\ Decided'
    BY PushedBufferStep, LogSessionsStep, LastRecordStep, DecidedStep
  <2> QED
    BY <2>1, <2>2 DEF DueInv
<1>3. DueInv => RecordsWhereDue
  BY DEF DueInv
<1> QED
  BY <1>1, <1>2, <1>3, SinkInvariant, RecordInvariant, PTL DEF Spec
-----------------------------------------------------------------------------
(* The order of the index and the data, constraints 2 and 3 of index.rs.      *)
(* Upstream in order is not enough.  An index record is written before its    *)
(* event, so an event that is refused as too large, or a failed flush of a    *)
(* SYNC_AFTER buffer, leaves stop with the end of an earlier buffer, behind   *)
(* what is already written.  A sealed stream refuses flushes too, but then    *)
(* stop fails before it writes its record.                                    *)

\* Upstream is in order, no call fails, no event is too large and no timestamp wraps around.
OrderedRun ==
  /\ Upstream = "ordered" /\ ~FlushMayFail
  /\ \A b \in Buffers : ~b.oversize /\ b.ts + b.duration < U64 /\ b.ts + 1 < U64

InBuffer == pc \in {"flush", "event", "syncData", "syncIndex"}

\* The buffer being rendered is later than everything written before it.
CurrentIsLast ==
  InBuffer =>
    /\ cur.buf \in Buffers /\ cur.buf.ts # NONE
    /\ \A i \in DOMAIN idx : idx[i].ts <= cur.buf.ts
    /\ \A k \in DOMAIN log : IF pc \in {"flush", "event"} THEN log[k].ts < cur.buf.ts
                                                          ELSE log[k].ts <= cur.buf.ts

\* The end of the last buffer, as stop will write it, is later than everything written.
FinalIsLast ==
  (pc \in {"idle", "flush", "errored", "stopFlush"} /\ final_timestamp # NONE /\ ~dataSealed) =>
    /\ final_offset = Len(log)
    /\ \A i \in DOMAIN idx : idx[i].ts <= final_timestamp
    /\ \A k \in DOMAIN log : log[k].ts < final_timestamp

\* A record parts the data: what is before its offset is earlier, what is behind is not.
RecordsPartData ==
  \A i \in DOMAIN idx, k \in DOMAIN log :
    IF k <= idx[i].offset THEN log[k].ts < idx[i].ts ELSE idx[i].ts <= log[k].ts

\* What a session writes to a sealed stream is never stored.
SealedKeepsOut ==
  /\ indexSealed \/ pc = "sealIndex" => dataSealed
  /\ (dataSealed /\ Alive /\ pc # "sealIndex" /\ buffers_written > 0) => durable < Len(log)
  /\ final_timestamp # NONE \/ pc \in {"syncData", "syncIndex"} => buffers_written > 0

OrderInv == CurrentIsLast /\ FinalIsLast /\ RecordsPartData /\ SealedKeepsOut /\ IndexSorted

LEMMA OrderFacts ==
  ASSUME SinkInv
  PROVE  /\ final_timestamp \in Int /\ final_offset \in Int
         /\ buffers_written \in Nat /\ dataSealed \in BOOLEAN /\ indexSealed \in BOOLEAN
         /\ TypeOK /\ Bounds
  BY DEF SinkInv, TypeOK, Time, NONE

\* The end of a buffer, as RememberFinal computes it.
LEMMA EndOfBuffer ==
  ASSUME OrderedRun, SinkInv, cur.buf \in Buffers, cur.buf.ts # NONE, NEW end, RememberFinal(end)
  PROVE  final_timestamp' > cur.buf.ts /\ final_timestamp' \in Int /\ final_offset' = end
<1>1. /\ cur.buf.ts \in Nat /\ cur.buf.duration \in Nat
      /\ cur.buf.ts + cur.buf.duration < U64 /\ cur.buf.ts + 1 < U64
  BY SinkAssumption DEF OrderedRun, Buffer, Time
<1>2. CASE cur.buf.duration = 0
  <2>1. final_timestamp' = WrapAdd(cur.buf.ts, 1)
    BY <1>2 DEF RememberFinal
  <2>2. WrapAdd(cur.buf.ts, 1) = cur.buf.ts + 1
    BY <1>1, WrapAddFits
  <2> QED
    BY <1>1, <2>1, <2>2 DEF RememberFinal
<1>3. CASE cur.buf.duration # 0
  <2>1. final_timestamp' = WrapAdd(cur.buf.ts, cur.buf.duration)
    BY <1>3 DEF RememberFinal
  <2>2. WrapAdd(cur.buf.ts, cur.buf.duration) = cur.buf.ts + cur.buf.duration
    BY <1>1, WrapAddFits
  <2> QED
    BY <1>1, <1>3, <2>1, <2>2 DEF RememberFinal
<1> QED
  BY <1>2, <1>3

\* No event is refused, and no call fails but for a sealed stream.
LEMMA OrderSteps ==
  ASSUME OrderedRun, CurrentIsLast, [Next]_vars
  PROVE  /\ ~CallFails /\ ~WritePanics
         /\ WriteEvent => ~cur.buf.oversize
  BY DEF OrderedRun, CallFails, WritePanics, WriteEvent, CurrentIsLast, InBuffer

LEMMA CurrentIsLastStep ==
  ASSUME OrderedRun, SinkInv, OrderInv, [Next]_vars
  PROVE  CurrentIsLast'
<1>0. /\ CurrentIsLast /\ idx \in Seq(IndexRecord) /\ log \in Seq(Event) /\ cur.buf.ts \in Int
      /\ \A i \in DOMAIN idx : idx[i].ts \in Int
      /\ \A k \in DOMAIN log : log[k].ts \in Int
  BY DueFacts DEF OrderInv
<1>1. ASSUME NEW b \in Buffers, Render(b) PROVE CurrentIsLast'
  <2>1. cur'.buf = b /\ UNCHANGED <<log, idx>>
    BY <1>1 DEF Render, indexVars
  <2>2. After(b)
    BY <1>1 DEF Render, Pushes, OrderedRun
  <2>3. pc' \in {"flush", "event"}
    BY <1>1 DEF Render
  <2> QED
    BY <2>1, <2>2, <2>3 DEF After, CurrentIsLast
<1>2. CASE WriteIndexRecord
  <2>1. CASE pc' = "errored"
    BY <2>1 DEF CurrentIsLast, InBuffer
  <2>2. CASE pc' # "errored"
    <3>1. pc = "flush" /\ pc' = "event" /\ idx' = Append(idx, CurrentRecord) /\ UNCHANGED <<cur, log>>
      BY <1>2, <2>2 DEF WriteIndexRecord, dataVars
    <3>2. \A i \in DOMAIN idx' : (i \in DOMAIN idx /\ idx'[i] = idx[i]) \/ idx'[i] = CurrentRecord
      BY <1>0, <3>1
    <3>3. CurrentRecord.ts = cur.buf.ts
      BY DEF CurrentRecord
    <3> QED
      BY <1>0, <3>1, <3>2, <3>3 DEF CurrentIsLast, InBuffer
  <2> QED
    BY <2>1, <2>2
<1>3. CASE WriteEvent
  <2>1. CASE pc' # "syncData"
    BY <1>3, <2>1 DEF WriteEvent, CurrentIsLast, InBuffer
  <2>2. CASE pc' = "syncData"
    <3>1. pc = "event" /\ log' = Append(log, CurrentEvent) /\ UNCHANGED <<cur, idx>>
      BY <1>3, <2>2 DEF WriteEvent, indexVars
    <3>2. \A k \in DOMAIN log' : (k \in DOMAIN log /\ log'[k] = log[k]) \/ log'[k] = CurrentEvent
      BY <1>0, <3>1
    <3>3. CurrentEvent.ts = cur.buf.ts
      BY DEF CurrentEvent
    <3> QED
      BY <1>0, <2>2, <3>1, <3>2, <3>3 DEF CurrentIsLast, InBuffer
  <2> QED
    BY <2>1, <2>2
<1>4. CASE SyncData
  BY <1>0, <1>4 DEF SyncData, dataVars, indexVars, CurrentIsLast, InBuffer
<1>5. CASE StoreData \/ StoreIndex \/ UNCHANGED vars
  <2>1. UNCHANGED <<pc, cur, log, idx>>
    BY <1>5 DEF StoreData, StoreIndex, vars, dataVars, indexVars
  <2> QED
    BY <1>0, <2>1 DEF CurrentIsLast, InBuffer
<1>6. CASE \/ Start \/ StartAgain \/ Stop \/ SyncIndex \/ StopSteps
           \/ CallFails \/ SealedStreamRejects \/ WritePanics \/ Crash
  <2>1. pc' \notin {"flush", "event", "syncData", "syncIndex"}
    BY <1>6 DEF Start, StartAgain, Stop, SyncIndex, StopSteps, WriteFinalRecord, StopIndexFlushed, SealData,
       SealIndex, CallFails, SealedStreamRejects, FailCall, WritePanics, Crash
  <2> QED
    BY <2>1 DEF CurrentIsLast, InBuffer
<1> QED
  BY <1>1, <1>2, <1>3, <1>4, <1>5, <1>6 DEF Next, RenderSteps

LEMMA FinalIsLastStep ==
  ASSUME OrderedRun, SinkInv, OrderInv, [Next]_vars
  PROVE  FinalIsLast'
<1>0. /\ CurrentIsLast /\ FinalIsLast /\ SealedKeepsOut
      /\ idx \in Seq(IndexRecord) /\ log \in Seq(Event) /\ Len(log) \in Nat /\ cur.buf.ts \in Int
      /\ final_timestamp \in Int /\ final_offset \in Int
      /\ \A i \in DOMAIN idx : idx[i].ts \in Int
      /\ \A k \in DOMAIN log : log[k].ts \in Int
  BY DueFacts, OrderFacts DEF OrderInv
<1>1. CASE \E b \in Buffers : Render(b)
  BY <1>0, <1>1 DEF Render, indexVars, stateVars, FinalIsLast
<1>2. CASE WriteIndexRecord
  BY <1>0, <1>2 DEF WriteIndexRecord, dataVars, FinalIsLast
<1>3. CASE WriteEvent
  <2>1. ~cur.buf.oversize /\ pc = "event" /\ cur.buf \in Buffers /\ cur.buf.ts # NONE
    BY <1>0, <1>3, OrderSteps DEF WriteEvent, CurrentIsLast, InBuffer
  <2>2. CASE pc' # "idle"
    BY <1>3, <2>1, <2>2 DEF WriteEvent, FinalIsLast
  <2>3. CASE pc' = "idle"
    <3>1. log' = Append(log, CurrentEvent) /\ UNCHANGED idx /\ RememberFinal(offset + 1) /\ offset = Len(log)
      BY <1>3, <2>1, <2>3 DEF WriteEvent, indexVars, SinkInv, Locals, Alive
    <3>2. \A k \in DOMAIN log' : (k \in DOMAIN log /\ log'[k] = log[k]) \/ log'[k] = CurrentEvent
      BY <1>0, <3>1
    <3>3. CurrentEvent.ts = cur.buf.ts
      BY DEF CurrentEvent
    <3>4. Len(log') = Len(log) + 1
      BY <1>0, <3>1
    <3>5. final_timestamp' > cur.buf.ts /\ final_timestamp' \in Int /\ final_offset' = Len(log')
      BY <2>1, <3>1, <3>4, EndOfBuffer
    <3>6. /\ \A k \in DOMAIN log : log[k].ts < cur.buf.ts
          /\ \A i \in DOMAIN idx : idx[i].ts <= cur.buf.ts
      BY <1>0, <2>1 DEF CurrentIsLast, InBuffer
    <3> QED
      BY <1>0, <3>1, <3>2, <3>3, <3>5, <3>6 DEF FinalIsLast
  <2> QED
    BY <2>2, <2>3
<1>4. CASE SyncData
  BY <1>4 DEF SyncData, FinalIsLast
<1>5. CASE SyncIndex
  <2>1. UNCHANGED <<log, idx>> /\ RememberFinal(offset) /\ offset = Len(log) /\ pc = "syncIndex"
    BY <1>5 DEF SyncIndex, dataVars, indexVars, SinkInv, Locals, Alive
  <2>2. /\ cur.buf \in Buffers /\ cur.buf.ts # NONE
        /\ \A k \in DOMAIN log : log[k].ts <= cur.buf.ts
        /\ \A i \in DOMAIN idx : idx[i].ts <= cur.buf.ts
    BY <1>0, <2>1 DEF CurrentIsLast, InBuffer
  <2>3. final_timestamp' > cur.buf.ts /\ final_timestamp' \in Int /\ final_offset' = Len(log')
    BY <2>1, <2>2, EndOfBuffer
  <2> QED
    BY <1>0, <2>1, <2>2, <2>3 DEF FinalIsLast
<1>6. CASE Stop
  BY <1>0, <1>6 DEF Stop, indexVars, stateVars, FinalIsLast
<1>7. CASE SealedStreamRejects
  <2>1. UNCHANGED <<log, idx, dataSealed, final_timestamp, final_offset>>
    BY <1>7 DEF SealedStreamRejects, FailCall, dataVars, indexVars, stateVars
  <2>2. CASE pc = "flush"
    BY <1>0, <2>1, <2>2 DEF FinalIsLast
  <2>3. CASE pc \in {"syncData", "syncIndex"}
    BY <1>0, <1>7, <2>1, <2>3 DEF SealedStreamRejects, SealedKeepsOut, FinalIsLast
  <2>4. CASE pc \notin {"flush", "syncData", "syncIndex"}
    BY <1>7, <2>4 DEF SealedStreamRejects, FailCall, FinalIsLast
  <2> QED
    BY <2>2, <2>3, <2>4
<1>8. CASE StoreData \/ StoreIndex \/ UNCHANGED vars
  <2>1. UNCHANGED <<pc, log, idx, dataSealed, final_timestamp, final_offset>>
    BY <1>8 DEF StoreData, StoreIndex, vars, dataVars, indexVars, stateVars
  <2> QED
    BY <1>0, <2>1 DEF FinalIsLast
<1>9. CASE Start
  BY <1>9 DEF Start, FreshState, FinalIsLast
<1>10. CASE StartAgain \/ StopSteps \/ Crash
  <2>1. pc' \notin {"idle", "flush", "errored", "stopFlush"}
    BY <1>10 DEF StartAgain, StopSteps, WriteFinalRecord, StopIndexFlushed, SealData, SealIndex, Crash
  <2> QED
    BY <2>1 DEF FinalIsLast
<1>11. ~CallFails /\ ~WritePanics
  BY <1>0, OrderSteps
<1> QED
  BY <1>1, <1>2, <1>3, <1>4, <1>5, <1>6, <1>7, <1>8, <1>9, <1>10, <1>11 DEF Next, RenderSteps

\* The record that stop writes is behind everything that is written.
LEMMA FinalRecordIsLast ==
  ASSUME SinkInv, OrderInv, WriteFinalRecord, HasFinal
  PROVE  /\ final_offset = Len(log)
         /\ \A i \in DOMAIN idx : idx[i].ts <= final_timestamp
         /\ \A k \in DOMAIN log : log[k].ts < final_timestamp
<1>1. pc = "stopFlush" /\ durable = Len(log) /\ final_timestamp # NONE
  BY DEF WriteFinalRecord, DataFlushed, HasFinal
<1>2. durable \in Nat
  BY DueFacts
<1>3. ~dataSealed
  BY <1>1, <1>2 DEF OrderInv, SealedKeepsOut, Alive
<1> QED
  BY <1>1, <1>3 DEF OrderInv, FinalIsLast

LEMMA RecordsPartDataStep ==
  ASSUME OrderedRun, SinkInv, OrderInv, [Next]_vars
  PROVE  RecordsPartData'
<1>0. /\ CurrentIsLast /\ RecordsPartData /\ TypeOK /\ Bounds
      /\ idx \in Seq(IndexRecord) /\ log \in Seq(Event) /\ Len(log) \in Nat /\ cur.buf.ts \in Int
      /\ durable \in Nat /\ durable <= Len(log) /\ idxDurable \in Nat /\ idxDurable <= Len(idx)
      /\ \A i \in DOMAIN idx : idx[i].ts \in Int /\ idx[i].offset \in Nat /\ idx[i].offset <= Len(log)
      /\ \A k \in DOMAIN log : log[k].ts \in Int
  BY DueFacts, OrderFacts DEF OrderInv
<1>1. idx' \in Seq(IndexRecord) /\ log' \in Seq(Event)
  BY <1>0, TypeStep DEF TypeOK
<1>2. ASSUME NEW r, idx' = Append(idx, r), log' = log, r.offset = Len(log),
             \A k \in DOMAIN log : log[k].ts < r.ts
      PROVE  RecordsPartData'
  <2>1. \A i \in DOMAIN idx' : (i \in DOMAIN idx /\ idx'[i] = idx[i]) \/ idx'[i] = r
    BY <1>0, <1>2
  <2>2. \A k \in DOMAIN log : k <= r.offset
    BY <1>0, <1>2
  <2> QED
    BY <1>0, <1>2, <2>1, <2>2 DEF RecordsPartData
<1>3. CASE WriteIndexRecord /\ idx' = Append(idx, CurrentRecord)
  <2>1. pc = "flush" /\ log' = log /\ CurrentRecord.offset = Len(log) /\ CurrentRecord.ts = cur.buf.ts
    BY <1>3 DEF WriteIndexRecord, dataVars, CurrentRecord, SinkInv, Locals
  <2>2. \A k \in DOMAIN log : log[k].ts < cur.buf.ts
    BY <1>0, <2>1 DEF CurrentIsLast, InBuffer
  <2> QED
    BY <1>2, <1>3, <2>1, <2>2
<1>4. CASE WriteFinalRecord /\ HasFinal /\ idx' = Append(idx, FinalRecord)
  <2>1. log' = log /\ FinalRecord.offset = final_offset /\ FinalRecord.ts = final_timestamp
    BY <1>4 DEF WriteFinalRecord, dataVars, FinalRecord
  <2> QED
    BY <1>2, <1>4, <2>1, FinalRecordIsLast
<1>5. CASE WriteEvent /\ ~cur.buf.oversize /\ log' = Append(log, CurrentEvent)
  <2>1. idx' = idx /\ pc = "event" /\ CurrentEvent.ts = cur.buf.ts
    BY <1>5 DEF WriteEvent, indexVars, CurrentEvent
  <2>2. \A k \in DOMAIN log' : (k \in DOMAIN log /\ log'[k] = log[k])
                               \/ (k = Len(log) + 1 /\ log'[k] = CurrentEvent)
    BY <1>0, <1>5
  <2>3. \A i \in DOMAIN idx : idx[i].ts <= cur.buf.ts /\ ~(Len(log) + 1 <= idx[i].offset)
    BY <1>0, <2>1 DEF CurrentIsLast, InBuffer
  <2> QED
    BY <1>0, <2>1, <2>2, <2>3 DEF RecordsPartData
<1>6. CASE /\ Len(log') = durable /\ \A k \in 1 .. durable : log'[k] = log[k]
           /\ Len(idx') = idxDurable /\ \A k \in 1 .. idxDurable : idx'[k] = idx[k]
  <2>1. \A k \in DOMAIN log' : k \in DOMAIN log /\ log'[k] = log[k]
    BY <1>0, <1>1, <1>6
  <2>2. \A i \in DOMAIN idx' : i \in DOMAIN idx /\ idx'[i] = idx[i]
    BY <1>0, <1>1, <1>6
  <2> QED
    BY <1>0, <2>1, <2>2 DEF RecordsPartData
<1>7. CASE log' = log /\ idx' = idx
  BY <1>0, <1>7 DEF RecordsPartData
<1> QED
  <2>1. WriteEvent => idx' = idx
    BY DEF WriteEvent, indexVars
  <2>2. WriteIndexRecord \/ WriteFinalRecord => log' = log
    BY DEF WriteIndexRecord, WriteFinalRecord, dataVars
  <2>3. Crash => /\ Len(log') = durable /\ \A k \in 1 .. durable : log'[k] = log[k]
                 /\ Len(idx') = idxDurable /\ \A k \in 1 .. idxDurable : idx'[k] = idx[k]
    BY <1>0 DEF Crash
  <2> QED
    BY <1>0, <1>3, <1>4, <1>5, <1>6, <1>7, <2>1, <2>2, <2>3, SequenceStep

LEMMA IndexSortedStep ==
  ASSUME OrderedRun, SinkInv, OrderInv, [Next]_vars
  PROVE  IndexSorted'
<1>0. /\ CurrentIsLast /\ IndexSorted /\ TypeOK /\ Bounds
      /\ idx \in Seq(IndexRecord) /\ idxDurable \in Nat /\ idxDurable <= Len(idx)
  BY DueFacts, OrderFacts DEF OrderInv
<1>1. idx' \in Seq(IndexRecord)
  BY <1>0, TypeStep DEF TypeOK
<1>2. ASSUME NEW r, idx' = Append(idx, r), \A i \in DOMAIN idx : idx[i].ts <= r.ts
      PROVE  IndexSorted'
  <2> SUFFICES ASSUME NEW i \in DOMAIN idx', NEW j \in DOMAIN idx', i < j
               PROVE  idx'[i].ts <= idx'[j].ts
    BY DEF IndexSorted
  <2>1. i \in DOMAIN idx /\ idx'[i] = idx[i]
    BY <1>0, <1>2
  <2>2. (j \in DOMAIN idx /\ idx'[j] = idx[j]) \/ idx'[j] = r
    BY <1>0, <1>2
  <2> QED
    BY <1>0, <1>2, <2>1, <2>2 DEF IndexSorted
<1>3. CASE WriteIndexRecord /\ idx' = Append(idx, CurrentRecord)
  <2>1. pc = "flush" /\ CurrentRecord.ts = cur.buf.ts
    BY <1>3 DEF WriteIndexRecord, CurrentRecord
  <2> QED
    BY <1>0, <1>2, <1>3, <2>1 DEF CurrentIsLast, InBuffer
<1>4. CASE WriteFinalRecord /\ HasFinal /\ idx' = Append(idx, FinalRecord)
  <2>1. FinalRecord.ts = final_timestamp
    BY DEF FinalRecord
  <2> QED
    BY <1>2, <1>4, <2>1, FinalRecordIsLast
<1>5. CASE Len(idx') = idxDurable /\ \A k \in 1 .. idxDurable : idx'[k] = idx[k]
  <2>1. \A i \in DOMAIN idx' : i \in DOMAIN idx /\ idx'[i] = idx[i]
    BY <1>0, <1>1, <1>5
  <2> QED
    BY <1>0, <2>1 DEF IndexSorted
<1>6. CASE idx' = idx
  BY <1>0, <1>6 DEF IndexSorted
<1> QED
  BY <1>0, <1>3, <1>4, <1>5, <1>6, SequenceStep

LEMMA SealedKeepsOutStep ==
  ASSUME OrderedRun, SinkInv, OrderInv, [Next]_vars
  PROVE  SealedKeepsOut'
<1>0. /\ SealedKeepsOut /\ CurrentIsLast /\ Len(log) \in Nat /\ durable \in Nat /\ durable <= Len(log)
      /\ log \in Seq(Event) /\ buffers_written \in Nat
  BY DueFacts, OrderFacts DEF OrderInv
<1>1. CASE Start
  BY <1>0, <1>1 DEF Start, FreshState, dataVars, indexVars, SealedKeepsOut
<1>2. CASE WriteEvent
  <2>1. /\ Len(log') = Len(log) + 1 /\ buffers_written' = buffers_written + 1
        /\ UNCHANGED <<durable, dataSealed, indexSealed>> /\ pc' # "sealIndex"
    BY <1>0, <1>2, OrderSteps DEF WriteEvent, indexVars
  <2> QED
    BY <1>0, <2>1 DEF SealedKeepsOut
<1>3. CASE StoreData \/ StoreIndex
  BY <1>0, <1>3 DEF StoreData, StoreIndex, dataVars, indexVars, stateVars, SealedKeepsOut, Alive
<1>4. CASE SealData
  BY <1>0, <1>4 DEF SealData, indexVars, stateVars, SealedKeepsOut
<1>5. CASE SealIndex
  BY <1>0, <1>5 DEF SealIndex, FreshState, dataVars, SealedKeepsOut, Alive
<1>6. CASE StopIndexFlushed
  BY <1>0, <1>6 DEF StopIndexFlushed, FreshState, dataVars, indexVars, stateVars, SealedKeepsOut, Alive
<1>7. CASE Crash
  BY <1>0, <1>7 DEF Crash, FreshState, SealedKeepsOut, Alive
<1>8. CASE SyncData \/ SyncIndex
  <2>1. /\ pc \in {"syncData", "syncIndex"} /\ pc' \in {"syncIndex", "idle"}
        /\ UNCHANGED <<log, durable, dataSealed, indexSealed, buffers_written>>
    BY <1>8 DEF SyncData, SyncIndex, dataVars, indexVars, stateVars
  <2>2. buffers_written > 0
    BY <1>0, <2>1 DEF SealedKeepsOut
  <2> QED
    BY <1>0, <2>1, <2>2 DEF SealedKeepsOut, Alive
<1>9. CASE \/ StartAgain \/ (\E b \in Buffers : Render(b)) \/ Stop
           \/ WriteIndexRecord \/ WriteFinalRecord \/ SealedStreamRejects
  <2>1. /\ UNCHANGED <<log, durable, dataSealed, indexSealed, buffers_written, final_timestamp>>
        /\ pc # "sealIndex" /\ pc' \notin {"syncData", "syncIndex", "sealIndex"} /\ Alive
    BY <1>9 DEF StartAgain, Render, Stop, WriteIndexRecord, WriteFinalRecord, SealedStreamRejects, FailCall,
                dataVars, indexVars, stateVars, Alive
  <2> QED
    BY <1>0, <2>1 DEF SealedKeepsOut
<1>10. CASE UNCHANGED vars
  BY <1>0, <1>10 DEF vars, dataVars, indexVars, stateVars, SealedKeepsOut, Alive
<1>11. ~CallFails /\ ~WritePanics
  BY <1>0, OrderSteps
<1> QED
  BY <1>1, <1>2, <1>3, <1>4, <1>5, <1>6, <1>7, <1>8, <1>9, <1>10, <1>11 DEF Next, RenderSteps, StopSteps

\* Constraints 2 and 3 of index.rs, which IndexSearcher's linear search relies on: as long as upstream
\* is in order, no call fails and no event is too large, the timestamps of the index never go back, and
\* the events between two records have timestamps from the first's to the second's, over any number of
\* stops, crashes, restarts and sealed streams.
THEOREM SinkIndexOrdersData ==
  ASSUME OrderedRun
  PROVE  Spec => []IndexOrdersData
<1>1. Init => OrderInv
  <2> SUFFICES ASSUME Init PROVE OrderInv
    OBVIOUS
  <2>1. /\ DOMAIN idx = {} /\ DOMAIN log = {} /\ pc = "stopped" /\ final_timestamp = NONE
        /\ ~dataSealed /\ ~indexSealed
    BY DEF Init
  <2> QED
    BY <2>1 DEF OrderInv, CurrentIsLast, FinalIsLast, RecordsPartData, SealedKeepsOut, InBuffer, IndexSorted
<1>2. SinkInv /\ OrderInv /\ [Next]_vars => OrderInv'
  <2> SUFFICES ASSUME SinkInv, OrderInv, [Next]_vars PROVE OrderInv'
    OBVIOUS
  <2>1. CurrentIsLast' /\ FinalIsLast' /\ RecordsPartData'
    BY CurrentIsLastStep, FinalIsLastStep, RecordsPartDataStep
  <2>2. SealedKeepsOut' /\ IndexSorted'
    BY SealedKeepsOutStep, IndexSortedStep
  <2> QED
    BY <2>1, <2>2 DEF OrderInv
<1>3. SinkInv /\ OrderInv => IndexOrdersData
  <2> SUFFICES ASSUME SinkInv, OrderInv PROVE IndexOrdersData
    OBVIOUS
  <2>1. /\ log \in Seq(Event) /\ RecordsPartData
        /\ \A i \in DOMAIN idx : idx[i].offset \in Nat /\ idx[i].offset <= Len(log)
    BY DueFacts DEF OrderInv
  <2>2. ASSUME NEW i \in DOMAIN idx, NEW j \in DOMAIN idx, NEW k \in idx[i].offset + 1 .. idx[j].offset
        PROVE  idx[i].ts <= log[k].ts /\ log[k].ts < idx[j].ts
    <3>1. k \in DOMAIN log /\ k <= idx[j].offset /\ ~(k <= idx[i].offset)
      BY <2>1
    <3> QED
      BY <2>1, <3>1 DEF RecordsPartData
  <2> QED
    BY <2>2 DEF IndexOrdersData, OrderInv, TimestampsBetweenRecords
<1> QED
  BY <1>1, <1>2, <1>3, SinkInvariant, PTL DEF Spec
=============================================================================
