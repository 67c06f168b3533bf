----------------------------- MODULE PravegaSink -----------------------------
(***************************************************************************)
(* The GStreamer element pravegasink: start, render and stop as seen by    *)
(* the two Pravega byte streams they write, the data stream and its index. *)
(*                                                                         *)
(* A stream is one sequence with the positions that divide it:             *)
(*     log[1 .. durable]         events stored by the Pravega server       *)
(*     log[durable+1 .. sent]    events handed to the client, in flight    *)
(*     log[sent+1 .. Len(log)]   events in the element's BufWriter         *)
(* and likewise idx[1 .. idxDurable] is the stored index; index records    *)
(* are not buffered, the rest of idx is in flight.  A crash keeps the      *)
(* stored prefix and nothing else.                                         *)
(*                                                                         *)
(* Simplifications: an event has unit size, so that a byte offset is a     *)
(* number of events and the buffer's capacity counts events (BufWriter     *)
(* never splits an event: it is flushed before an event that does not      *)
(* fit).  Events in flight are stored one at a time, in order; a failed    *)
(* flush leaves them in flight, since the client retries on reconnection.  *)
(***************************************************************************)
EXTENDS Integers, Sequences

CONSTANTS
  Buffers,      \* the GStreamer buffers upstream may push
  Upstream,     \* how upstream orders their timestamps: see Pushes
  BufCap,       \* capacity of the BufWriter, in events (property buffer-size)
  IndexMin,     \* property index-min-sec
  IndexMax,     \* property index-max-sec
  Seal,         \* property seal
  U64,          \* 2^64: timestamps are computed modulo U64
  FlushMayFail, \* whether the environment makes flush and seal calls fail
  MaxEvents,    \* bound on the events in the data stream
  MaxSessions   \* bound on the number of successful starts

NONE == -1      \* PravegaTimestamp(None): orders before every Some

Time == Nat \cup {NONE}

Buffer == [ts : Time, duration : Nat, key : BOOLEAN, discont : BOOLEAN,
           sync : BOOLEAN, oversize : BOOLEAN]

ASSUME SinkAssumption ==
  /\ Buffers \subseteq Buffer
  /\ Upstream \in {"any", "ordered"}
  /\ BufCap \in Nat /\ IndexMin \in Nat /\ IndexMax \in Nat
  /\ U64 \in Nat \ {0}
  /\ Seal \in BOOLEAN /\ FlushMayFail \in BOOLEAN
  /\ MaxEvents \in Nat /\ MaxSessions \in Nat

VARIABLES
  pc,              \* what the element's only thread is doing
  cur,             \* the buffer being rendered and render's local variables
  log, sent, durable, dataSealed,
  idx, idxDurable, indexSealed,
  offset,          \* CountingWriter's offset
  last_index_time, final_timestamp, final_offset, buffers_written,
  session          \* number of successful starts (auxiliary)

stateVars == <<offset, last_index_time, final_timestamp, final_offset, buffers_written>>
dataVars  == <<log, sent, durable, dataSealed>>
indexVars == <<idx, idxDurable, indexSealed>>
vars == <<pc, cur, dataVars, indexVars, stateVars, session>>

\* An event also carries the session that wrote it and its number there, and
\* an index record its session and whether stop wrote it: auxiliary fields
\* that no guard reads.
Event == [ts : Time, include : BOOLEAN, random_access : BOOLEAN,
          discontinuity : BOOLEAN, session : Nat, seq : Nat]

IndexRecord == [ts : Time, offset : Nat, random_access : BOOLEAN,
                discontinuity : BOOLEAN, session : Nat, final : BOOLEAN]

Rendering == [buf : Buffer, offset : Nat, include : BOOLEAN, discontinuity : BOOLEAN]

\* "crashed": the process died.  "panicked": a panic poisoned the state mutex.
\* "unreachable": start found State::Started.
\* "errored": render or stop returned an error and the state is still Started;
\* "stopFailed" tells the second case from the first.
PCs == {"stopped", "crashed", "idle", "flush", "event", "syncData", "syncIndex",
        "stopFlush", "stopIndex", "sealData", "sealIndex",
        "errored", "stopFailed", "panicked", "unreachable"}

NoRendering == [buf |-> [ts |-> NONE, duration |-> 0, key |-> FALSE, discont |-> FALSE,
                         sync |-> FALSE, oversize |-> FALSE],
                offset |-> 0, include |-> FALSE, discontinuity |-> FALSE]

Init ==
  /\ pc = "stopped"
  /\ cur = NoRendering
  /\ log = <<>> /\ sent = 0 /\ durable = 0 /\ dataSealed = FALSE
  /\ idx = <<>> /\ idxDurable = 0 /\ indexSealed = FALSE
  /\ offset = 0
  /\ last_index_time = NONE /\ final_timestamp = NONE
  /\ final_offset = NONE /\ buffers_written = 0
  /\ session = 0

\* State::Started as start creates it; State::Stopped keeps nothing of it.
FreshState(tail) ==
  /\ offset' = tail
  /\ last_index_time' = NONE
  /\ final_timestamp' = NONE
  /\ final_offset' = NONE
  /\ buffers_written' = 0

-----------------------------------------------------------------------------
(* start *)

\* Mutant: the client writes from the start of the segment.
TailOffsetWithoutSeek == 0

\* seek_to_tail: the client's write offset becomes the segment's length.
\* CountingWriter::new asks for it.
TailOffset == durable

\* A new State::Started.  A start that finds min > max, or whose scope and
\* stream creation fails, changes nothing.
Start ==
  /\ pc \in {"stopped", "crashed"}
  /\ session < MaxSessions
  /\ IndexMin <= IndexMax
  /\ pc' = "idle"
  /\ FreshState(TailOffset)
  /\ session' = session + 1
  /\ UNCHANGED <<cur, dataVars, indexVars>>

\* GStreamer ignores the error of a failed stop; the next start of the same
\* element finds State::Started and runs into unreachable!.
StartAgain ==
  /\ pc = "stopFailed"
  /\ pc' = "unreachable"
  /\ UNCHANGED <<cur, dataVars, indexVars, stateVars, session>>

-----------------------------------------------------------------------------
(* render *)

\* The order of the timestamps of the buffers upstream pushes.
\*   "any": no order at all (a camera's clock is corrected, RTP timestamps
\*          have no NTP mapping yet, a file is played again)
\*   "ordered": later than everything stored
After(b) ==
  /\ b.ts # NONE
  /\ \A i \in DOMAIN log : log[i].ts < b.ts
  /\ \A i \in DOMAIN idx : idx[i].ts <= b.ts

Pushes(b) ==
  \/ Upstream = "any"
  \/ Upstream = "ordered" /\ After(b)

\* u64 addition in a release build.
WrapAdd(a, b) == (a + b) % U64

\* Mutant: a delta unit is never forced into the index.
IncludeInIndexKeyFrames(b) ==
  /\ b.ts # NONE
  /\ \/ last_index_time = NONE
     \/ b.key /\ b.ts >= WrapAdd(last_index_time, IndexMin)

\* Key frames are indexed unless a record was written less than index-min
\* before; a delta unit only if none was written for more than index-max.
IncludeInIndex(b) ==
  /\ b.ts # NONE
  /\ \/ last_index_time = NONE
     \/ b.key  /\ b.ts >= WrapAdd(last_index_time, IndexMin)
     \/ ~b.key /\ b.ts > WrapAdd(last_index_time, IndexMax)

\* Mutant: the first buffer of a session is not told from the others.
DiscontinuityInSession(b, include) == b.discont \/ (include /\ last_index_time = NONE)

\* Mutant: the first index record of a session is not told from the others.
DiscontinuityOfFirstBuffer(b, include) == b.discont \/ buffers_written = 0

Discontinuity(b, include) ==
  \/ b.discont
  \/ buffers_written = 0
  \/ include /\ last_index_time = NONE

\* Mutant: the BufWriter is not flushed.
FlushBufForgotten == UNCHANGED sent

\* BufWriter::flush_buf.
FlushBuf == sent' = Len(log)

\* render up to its first blocking call: the flush that precedes an index
\* record.  writer_offset is read before anything is written.
Render(b) ==
  /\ pc = "idle"
  /\ Len(log) < MaxEvents
  /\ Pushes(b)
  /\ LET include == IncludeInIndex(b) IN
       /\ cur' = [buf |-> b, offset |-> offset, include |-> include,
                  discontinuity |-> Discontinuity(b, include)]
       /\ IF include THEN pc' = "flush" /\ FlushBuf
                     ELSE pc' = "event" /\ UNCHANGED sent
  /\ UNCHANGED <<log, durable, dataSealed, indexVars, stateVars, session>>

\* ByteStreamWriter::flush returns Ok once the server stored all that was sent.
DataFlushed  == durable = Len(log)
IndexFlushed == idxDurable = Len(idx)

\* Mutant: render does not flush the data before an index record.
NoFlushBeforeRecord == TRUE

\* render's flush before an index record: no reader is to wait for this writer.
FlushedBeforeRecord == DataFlushed

\* The index record of the buffer being rendered.
CurrentRecord ==
  [ts |-> cur.buf.ts, offset |-> cur.offset, random_access |-> cur.buf.key,
   discontinuity |-> cur.discontinuity, session |-> session, final |-> FALSE]

\* The data flush has returned: the index record is written, before the event.
\* IndexRecordWriter refuses a timestamp of 0 and render returns an error.
WriteIndexRecord ==
  /\ pc = "flush"
  /\ FlushedBeforeRecord
  /\ IF cur.buf.ts = 0
       THEN pc' = "errored" /\ cur' = NoRendering /\ UNCHANGED <<idx, last_index_time>>
       ELSE /\ pc' = "event"
            /\ idx' = Append(idx, CurrentRecord)
            /\ last_index_time' = cur.buf.ts
            /\ UNCHANGED cur
  /\ UNCHANGED <<dataVars, idxDurable, indexSealed, offset, final_timestamp,
                 final_offset, buffers_written, session>>

CurrentEvent ==
  [ts |-> cur.buf.ts, include |-> cur.include, random_access |-> cur.buf.key,
   discontinuity |-> cur.discontinuity, session |-> session, seq |-> buffers_written]

\* BufWriter::write of one event: flush first if it does not fit; then write
\* through if it is at least as large as the buffer, else keep it.
SentAfterWrite ==
  IF BufCap <= 1 THEN Len(log) + 1
  ELSE IF Len(log) - sent + 1 > BufCap THEN Len(log)
  ELSE sent

\* Mutant: a duration of 0 is kept.
RememberFinalAsIs(end) ==
  /\ final_timestamp' = IF cur.buf.ts = NONE THEN final_timestamp
                        ELSE WrapAdd(cur.buf.ts, cur.buf.duration)
  /\ final_offset' = end

\* What render remembers for the record that stop writes.
RememberFinal(end) ==
  /\ final_timestamp' = IF cur.buf.ts = NONE THEN final_timestamp
                        ELSE WrapAdd(cur.buf.ts, IF cur.buf.duration = 0 THEN 1
                                                 ELSE cur.buf.duration)
  /\ final_offset' = end

\* EventWriter refuses a payload beyond MAX_PAYLOAD_SIZE and render returns an
\* error.  Otherwise the event is written.  With SYNC_AFTER it is sent at once,
\* and render waits; without, render returns Ok.
WriteEvent ==
  /\ pc = "event"
  /\ IF cur.buf.oversize
       THEN /\ pc' = "errored" /\ cur' = NoRendering
            /\ UNCHANGED <<log, sent, stateVars>>
       ELSE /\ log' = Append(log, CurrentEvent)
            /\ buffers_written' = buffers_written + 1
            /\ offset' = offset + 1
            /\ IF cur.buf.sync
                 THEN /\ pc' = "syncData"
                      /\ sent' = Len(log) + 1
                      /\ UNCHANGED <<cur, final_timestamp, final_offset>>
                 ELSE /\ pc' = "idle" /\ cur' = NoRendering
                      /\ sent' = SentAfterWrite
                      /\ RememberFinal(offset + 1)
            /\ UNCHANGED last_index_time
  /\ UNCHANGED <<durable, dataSealed, indexVars, session>>

\* SYNC_AFTER: wait for the data stream, then for the index stream.
SyncData ==
  /\ pc = "syncData"
  /\ DataFlushed
  /\ pc' = "syncIndex"
  /\ UNCHANGED <<cur, dataVars, indexVars, stateVars, session>>

SyncIndex ==
  /\ pc = "syncIndex"
  /\ IndexFlushed
  /\ pc' = "idle" /\ cur' = NoRendering
  /\ RememberFinal(offset)
  /\ UNCHANGED <<dataVars, indexVars, offset, last_index_time, buffers_written, session>>

-----------------------------------------------------------------------------
(* stop *)

\* GStreamer calls stop once the streaming thread has left render, also after
\* render returned an error.
Stop ==
  /\ pc \in {"idle", "errored"}
  /\ pc' = "stopFlush"
  /\ FlushBuf
  /\ UNCHANGED <<cur, log, durable, dataSealed, indexVars, stateVars, session>>

FinalRecord ==
  [ts |-> final_timestamp, offset |-> final_offset, random_access |-> FALSE,
   discontinuity |-> FALSE, session |-> session, final |-> TRUE]

\* Mutant: the final record is written whatever was rendered.
HasFinalAlways == TRUE

HasFinal == final_offset # NONE /\ final_timestamp # NONE

\* The data flush has returned: the final index record is written, if a buffer
\* with a timestamp was rendered.
WriteFinalRecord ==
  /\ pc = "stopFlush"
  /\ DataFlushed
  /\ IF HasFinal
       THEN IF final_timestamp = 0
              THEN pc' = "stopFailed" /\ UNCHANGED idx
              ELSE pc' = "stopIndex" /\ idx' = Append(idx, FinalRecord)
       ELSE pc' = "stopIndex" /\ UNCHANGED idx
  /\ UNCHANGED <<cur, dataVars, idxDurable, indexSealed, stateVars, session>>

\* Mutant: stop does not flush the index.
NoIndexFlushInStop == TRUE

\* stop's flush of the index, the final record included.
FlushedBeforeStop == IndexFlushed

\* The index flush has returned; without seal the element is now Stopped.
StopIndexFlushed ==
  /\ pc = "stopIndex"
  /\ FlushedBeforeStop
  /\ IF Seal THEN pc' = "sealData" /\ UNCHANGED stateVars
             ELSE pc' = "stopped" /\ FreshState(0)
  /\ UNCHANGED <<cur, dataVars, indexVars, session>>

SealData ==
  /\ pc = "sealData"
  /\ dataSealed' = TRUE
  /\ pc' = "sealIndex"
  /\ UNCHANGED <<cur, log, sent, durable, indexVars, stateVars, session>>

SealIndex ==
  /\ pc = "sealIndex"
  /\ indexSealed' = TRUE
  /\ pc' = "stopped" /\ FreshState(0)
  /\ UNCHANGED <<cur, dataVars, idx, idxDurable, session>>

-----------------------------------------------------------------------------
(* Failures *)

\* A flush or seal call returns an error: render and stop return it at once
\* and leave the state as it is, in particular Started.
FailCall ==
  /\ pc' = IF pc \in {"flush", "syncData", "syncIndex"} THEN "errored" ELSE "stopFailed"
  /\ cur' = NoRendering
  /\ UNCHANGED <<dataVars, indexVars, stateVars, session>>

CallFails ==
  /\ FlushMayFail
  /\ pc \in {"flush", "syncData", "syncIndex", "stopFlush", "stopIndex", "sealData", "sealIndex"}
  /\ FailCall

\* The server refuses what was sent to a sealed segment, so the flush that
\* waits for it fails.
SealedStreamRejects ==
  /\ \/ pc \in {"flush", "syncData", "stopFlush"} /\ dataSealed /\ ~DataFlushed
     \/ pc \in {"syncIndex", "stopIndex"} /\ indexSealed /\ ~IndexFlushed
  /\ FailCall

\* The writes themselves are unwrapped: an I/O error panics while the state
\* mutex is held, and every later call finds it poisoned.
WritePanics ==
  /\ FlushMayFail
  /\ pc \in {"flush", "event", "stopFlush"}
  /\ pc' = "panicked" /\ cur' = NoRendering
  /\ UNCHANGED <<dataVars, indexVars, stateVars, session>>

\* The process dies.
Crash ==
  /\ pc \notin {"stopped", "crashed"}
  /\ pc' = "crashed"
  /\ log' = SubSeq(log, 1, durable) /\ sent' = durable
  /\ idx' = SubSeq(idx, 1, idxDurable)
  /\ cur' = NoRendering /\ FreshState(0)
  /\ UNCHANGED <<durable, dataSealed, idxDurable, indexSealed, session>>

-----------------------------------------------------------------------------
(* The Pravega server *)

StoreData ==
  /\ durable < sent /\ ~dataSealed
  /\ durable' = durable + 1
  /\ UNCHANGED <<pc, cur, log, sent, dataSealed, indexVars, stateVars, session>>

StoreIndex ==
  /\ idxDurable < Len(idx) /\ ~indexSealed
  /\ idxDurable' = idxDurable + 1
  /\ UNCHANGED <<pc, cur, dataVars, idx, indexSealed, stateVars, session>>

-----------------------------------------------------------------------------
RenderSteps == WriteIndexRecord \/ WriteEvent \/ SyncData \/ SyncIndex
StopSteps == WriteFinalRecord \/ StopIndexFlushed \/ SealData \/ SealIndex

Next ==
  \/ Start \/ StartAgain
  \/ \E b \in Buffers : Render(b)
  \/ Stop
  \/ RenderSteps \/ StopSteps
  \/ CallFails \/ SealedStreamRejects \/ WritePanics \/ Crash
  \/ StoreData \/ StoreIndex

Spec == Init /\ [][Next]_vars

\* The server stores what it is sent and a running call takes its next step.
\* Nothing forces upstream to push, the application to stop, or a crash.
Fairness ==
  /\ WF_vars(StoreData) /\ WF_vars(StoreIndex)
  /\ WF_vars(RenderSteps) /\ WF_vars(StopSteps) /\ WF_vars(SealedStreamRejects)

FairSpec == Spec /\ Fairness

-----------------------------------------------------------------------------
(* Properties *)

TypeOK ==
  /\ pc \in PCs /\ cur \in Rendering
  /\ log \in Seq(Event) /\ sent \in Nat /\ durable \in Nat /\ dataSealed \in BOOLEAN
  /\ idx \in Seq(IndexRecord) /\ idxDurable \in Nat /\ indexSealed \in BOOLEAN
  /\ offset \in Nat /\ last_index_time \in Time /\ final_timestamp \in Time
  /\ final_offset \in Time /\ buffers_written \in Nat /\ session \in Nat

\* Constraint 1 of index.rs: whatever index record has been written, stored or
\* still in flight, the data before its offset is already stored, so that no
\* reader of an index record ever waits for the writer.
IndexWithinData == \A i \in DOMAIN idx : idx[i].offset <= durable

\* The offsets of the index never go back, over stops, crashes and restarts.
OffsetsInOrder ==
  \A i, j \in DOMAIN idx : i < j => idx[i].offset <= idx[j].offset

Follows(e, f) == f.session = e.session /\ f.seq = e.seq + 1

\* Whatever a crash, an error or a restart took from the data stream, the
\* event that follows the hole says so.
LossIsMarked ==
  \A k \in DOMAIN log : \/ log[k].discontinuity
                        \/ k > 1 /\ Follows(log[k-1], log[k])

\* Constraint 4 of index.rs: up to a record without discontinuity, the data
\* from the record before it was written continuously, by one session.
ContinuousBetweenRecords ==
  \A i \in DOMAIN idx :
    ~idx[i].discontinuity =>
      /\ i > 1
      /\ \A k \in idx[i-1].offset + 1 .. idx[i].offset :
           /\ log[k].session = idx[i].session
           /\ k > idx[i-1].offset + 1 => Follows(log[k-1], log[k])

\* A reader that starts at an index record finds the very event the record was
\* written for, or, if a crash took that event, one marked as a discontinuity.
RecordPointsAtItsEvent ==
  \A i \in DOMAIN idx :
    (~idx[i].final /\ idx[i].offset < Len(log)) =>
      LET r == idx[i]
          e == log[r.offset + 1]
      IN \/ /\ e.session = r.session /\ e.ts = r.ts /\ e.include
            /\ e.random_access = r.random_access /\ e.discontinuity = r.discontinuity
         \/ e.session > r.session /\ e.discontinuity

\* Within a session, render's records are at least index-min apart, and a delta
\* unit is indexed only when the last record is more than index-max old.
RecordsAreSpaced ==
  \A i \in DOMAIN idx :
    (i > 1 /\ idx[i].session = idx[i-1].session /\ ~idx[i].final) =>
      /\ idx[i].ts >= idx[i-1].ts + IndexMin
      /\ ~idx[i].random_access => idx[i].ts > idx[i-1].ts + IndexMax

\* Record i is the last that render wrote in this session before event k or for it.
LastRecordAt(i, k) ==
  /\ idx[i].session = session /\ ~idx[i].final /\ idx[i].offset < k
  /\ \A j \in DOMAIN idx :
       (j > i /\ idx[j].session = session /\ ~idx[j].final) => idx[j].offset >= k

NotDue(key, ts, r) == IF key THEN ts < r.ts + IndexMin ELSE ts <= r.ts + IndexMax

\* Until the process dies, each of the session's events, key frame or delta unit, is
\* indexed, or it came too soon after the last indexed one.
NoRecordIsMissing ==
  \A k \in DOMAIN log :
    (pc # "crashed" /\ log[k].session = session /\ log[k].ts # NONE) =>
      \E i \in DOMAIN idx :
        /\ LastRecordAt(i, k)
        /\ \/ idx[i].offset = k - 1 /\ idx[i].ts = log[k].ts
           \/ NotDue(log[k].random_access, log[k].ts, idx[i])

\* Properties index-min-sec, "the minimum number of seconds between index records", and
\* index-max-sec, "Force index record if one has not been created in this many seconds,
\* even at delta frames": neither too many records nor too few.
RecordsWhereDue == RecordsAreSpaced /\ NoRecordIsMissing

\* The events between two records have timestamps from the first's inclusive to the
\* second's exclusive.
TimestampsBetweenRecords ==
  \A i, j \in DOMAIN idx :
    i < j => \A k \in idx[i].offset + 1 .. idx[j].offset :
               log[k].ts # NONE => idx[i].ts <= log[k].ts /\ log[k].ts < idx[j].ts

\* Index timestamps never go back.
IndexSorted == \A i, j \in DOMAIN idx : i < j => idx[i].ts <= idx[j].ts

\* Constraints 2 and 3 of index.rs, which IndexSearcher's linear search relies on.
IndexOrdersData == IndexSorted /\ TimestampsBetweenRecords

\* When render of a SYNC_AFTER buffer or stop returns Ok, all that was written
\* is stored; and stop has closed the index at the last rendered buffer.
OkMeansStored ==
  [][(pc = "syncIndex" /\ pc' = "idle") \/ (pc \in {"stopIndex", "sealIndex"} /\ pc' = "stopped") =>
       /\ durable' = Len(log') /\ idxDurable' = Len(idx')
       /\ (pc' = "stopped" /\ final_timestamp # NONE) =>
            LET r == idx'[Len(idx')]
            IN r.final /\ r.session = session /\ r.offset = final_offset]_vars

\* render and stop return, also when the stream they write to is sealed.
InCall == pc \in {"flush", "event", "syncData", "syncIndex",
                  "stopFlush", "stopIndex", "sealData", "sealIndex"}

CallsReturn == InCall ~> ~InCall

\* What the server stores of the two streams keeps the promises readers rely on.
Stored == INSTANCE IndexedStream WITH data <- SubSeq(log, 1, durable),
                                      index <- SubSeq(idx, 1, idxDurable)

StoredSpec == Stored!Spec
=============================================================================
