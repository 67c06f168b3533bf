----------------------------- MODULE PravegaSrc -----------------------------
(***************************************************************************)
(* The GStreamer element pravegasrc: start, do_seek, query, create, stop   *)
(* and set_property as called by three kinds of threads, over a data and   *)
(* an index stream that a writer appends to and a tool truncates.          *)
(*                                                                         *)
(*   application  changes the element's state, seeks, sets properties      *)
(*   streaming    calls create in a loop                                   *)
(*   queriers     ask for the seekable range                               *)
(*                                                                         *)
(* GstBaseSrc (external) runs do_seek and stop only while create is not    *)
(* running (the stream lock), and once the bindings have caught a panic    *)
(* they no longer call the element.                                        *)
(*                                                                         *)
(* Simplifications: an event is EventSize units, its length and the rest,  *)
(* and offsets count units.  A search is one step under the searcher's     *)
(* lock; IndexSearch has its reads and proves the answer used here.        *)
(***************************************************************************)
EXTENDS Integers, Sequences

CONSTANTS
  Records,     \* the index records a writer may append
  AllSettings, \* the values the application gives to the properties
  Wanted,      \* the times the application seeks to
  Queriers,    \* the threads that query
  BufCap,      \* property buffer-size, in units
  U64MAX,      \* u64::MAX, beyond every offset and every timestamp
  MaxUnits,    \* bound on the units in the data stream
  MaxRecords,  \* bound on the records in the index
  MaxSeeks,    \* bound on the seeks of the application
  MaxSessions  \* bound on the number of starts

NONE == -1     \* PravegaTimestamp::NONE, which orders before every Some
MIN == 0       \* PravegaTimestamp::MIN

EventSize == 2
IsEvent(o) == o % EventSize = 0

StartModes == {"no-seek", "earliest", "latest", "timestamp"}
EndModes == {"unbounded", "latest", "latest-indexed", "timestamp"}

\* stream: whether scope, stream and controller are set.
SettingsType == [stream : BOOLEAN, start_mode : StartModes, end_mode : EndModes,
                 start_timestamp : Nat, end_timestamp : Nat]

RecordType == [ts : Nat \ {0}, offset : Nat, random_access : BOOLEAN]

ASSUME SrcAssumption ==
  /\ Records \subseteq RecordType /\ AllSettings \subseteq SettingsType
  /\ Wanted \subseteq Nat
  /\ BufCap \in Nat \ {0}
  /\ U64MAX \in Nat /\ MaxUnits \in 0 .. U64MAX - 1
  /\ \A r \in Records : r.ts <= U64MAX
  /\ MaxRecords \in Nat /\ MaxSeeks \in Nat /\ MaxSessions \in Nat

VARIABLES
  tail, head, sealed,  \* data stream: units stored, truncated before head
  index, indexHead,    \* index stream: stored records, the first indexHead truncated
  settings,
  state,               \* "Stopped" or "Started"
  end,                 \* SeekableTake's end_position
  reader,              \* the three layers around the ByteStreamReader
  app,                 \* what the application's thread does
  streaming,           \* what the streaming thread does
  query,               \* what each querier does
  due,                 \* where the next event is due, if that is known (auxiliary)
  session, seeks       \* starts and seeks so far (auxiliary)

streamVars == <<tail, head, sealed, index, indexHead>>
elementVars == <<settings, state, end, session, seeks>>
vars == <<streamVars, elementVars, reader, app, streaming, query, due>>

\* CountingReader(BufReader(SeekableTake(ByteStreamReader))): offset counts what
\* was read, buf units are buffered, limit is Take's, inner the client's offset.
Reader == [offset : Nat, buf : Nat, limit : Nat, inner : Nat]

\* "starting" holds the locks of state and settings; "searcher" holds the reader
\* and waits for the searcher; "search" and "move" hold both.
AppPCs == {"idle", "starting", "seekFlush", "stopFlush", "searcher", "search", "move", "panicked"}
App == [pc : AppPCs, initial : BOOLEAN, no_seek : BOOLEAN, time : Nat \cup {NONE}, rec : Nat]
IdleApp == [pc |-> "idle", initial |-> FALSE, no_seek |-> FALSE, time |-> NONE, rec |-> 0]

\* "length" and "payload" hold the reader; offset is that of the buffer, at where
\* its bytes really are.
Streaming == [pc : {"off", "ready", "length", "payload", "eos", "error"}, offset : Nat, at : Nat]
StreamingIn(pc) == [pc |-> pc, offset |-> 0, at |-> 0]

\* "state" waits for the state's lock, "searcher" for the searcher that start number session created, "first"
\* and "last" hold it; start and end are the range returned.
Query == [pc : {"idle", "state", "searcher", "first", "last", "done"}, session : Nat,
          start : Nat, end : Nat]
IdleQuery == [pc |-> "idle", session |-> 0, start |-> 0, end |-> 0]

Init ==
  /\ tail = 0 /\ head = 0 /\ sealed = FALSE
  /\ index = <<>> /\ indexHead = 0
  /\ settings \in AllSettings
  /\ state = "Stopped" /\ end = U64MAX
  /\ reader = [offset |-> 0, buf |-> 0, limit |-> U64MAX, inner |-> 0]
  /\ app = IdleApp /\ streaming = StreamingIn("off")
  /\ query = [q \in Queriers |-> IdleQuery]
  /\ due = 0
  /\ session = 0 /\ seeks = 0

-----------------------------------------------------------------------------
(* The writer and the truncation tool *)

StreamStep == UNCHANGED <<elementVars, reader, app, streaming, query, due>>

AppendUnit ==
  /\ ~sealed /\ tail < MaxUnits
  /\ tail' = tail + 1
  /\ UNCHANGED <<head, sealed, index, indexHead>> /\ StreamStep

\* PravegaSink!IndexWithinData and PravegaSink!OffsetsInOrder.
AppendRecord(r) ==
  /\ Len(index) < MaxRecords
  /\ r.offset <= tail /\ IsEvent(r.offset)
  /\ Len(index) > 0 => index[Len(index)].offset <= r.offset
  /\ index' = Append(index, r)
  /\ UNCHANGED <<tail, head, sealed, indexHead>> /\ StreamStep

\* pravegasink flushes whole events before it seals.
SealData ==
  /\ ~sealed /\ IsEvent(tail)
  /\ sealed' = TRUE
  /\ UNCHANGED <<tail, head, index, indexHead>> /\ StreamStep

\* Index and data; TruncateStream has the two as steps of their own.
Truncate(n) ==
  /\ indexHead' = n - 1 /\ head' = index[n].offset
  /\ UNCHANGED <<tail, sealed, index>> /\ StreamStep

-----------------------------------------------------------------------------
(* IndexSearcher *)

IS == INSTANCE IndexSearch WITH
  Searchers <- Queriers, Times <- {r.ts : r \in Records}, Offsets <- {r.offset : r \in Records},
  BufRecords <- 1, head <- indexHead, search <- query

IsEmpty == Len(index) = indexHead

\* The record that search_timestamp or search_timestamp_after returns now.
SearchResult(ts, method) ==
  IS!Answer([IS!IdleSearch EXCEPT !.ts = ts, !.method = method,
                                  !.head = indexHead, !.tail = Len(index)])

get_first_record == SearchResult(MIN, "Before")
get_last_record == SearchResult(U64MAX, "Before")

-----------------------------------------------------------------------------
(* The reader's layers *)

\* Mutant: SeekableTake's limit stays as it was.
SeekWithoutLimit(o) == [offset |-> o, buf |-> 0, limit |-> reader.limit, inner |-> o]

\* Mutant: the BufReader's contents survive the seek.
SeekKeepsBuffer(o) ==
  IF o <= end THEN [offset |-> o, buf |-> reader.buf, limit |-> end - o, inner |-> o]
  ELSE [offset |-> end, buf |-> reader.buf, limit |-> 0, inner |-> end]

\* seek(SeekFrom::Start(o)) through the layers.
SeekTo(o) ==
  IF o <= end THEN [offset |-> o, buf |-> 0, limit |-> end - o, inner |-> o]
  ELSE [offset |-> end, buf |-> 0, limit |-> 0, inner |-> end]

MinOf(a, b) == IF a < b THEN a ELSE b

\* BufReader asks for BufCap units; the client returns some of them.
Filled == 1 .. MinOf(MinOf(BufCap, reader.limit), tail - reader.inner)

AtLimit == reader.buf = 0 /\ reader.limit = 0
AtTail == reader.buf = 0 /\ reader.limit > 0 /\ head <= reader.inner /\ reader.inner = tail

\* What a read of one unit finds: the new reader, or none.
Truncated == reader.buf = 0 /\ reader.limit > 0 /\ reader.inner < head

EndOfFile == AtLimit \/ (AtTail /\ sealed)
WaitsForWriter == streaming.pc \in {"length", "payload"} /\ AtTail /\ ~sealed

ReadUnit ==
  IF reader.buf > 0
  THEN reader' = [reader EXCEPT !.buf = @ - 1, !.offset = @ + 1]
  ELSE /\ head <= reader.inner
       /\ \E k \in Filled :
            reader' = [offset |-> reader.offset + 1, buf |-> k - 1,
                       limit |-> reader.limit - k, inner |-> reader.inner + k]

-----------------------------------------------------------------------------
(* set_property: a short step under the settings' lock, which start holds. *)

SetProperty(s) ==
  /\ app.pc \notin {"starting", "panicked"}
  /\ \E f \in DOMAIN settings : s = [settings EXCEPT ![f] = s[f]]
  /\ settings' = s
  /\ UNCHANGED <<streamVars, state, end, session, seeks, reader, app, streaming, query, due>>

-----------------------------------------------------------------------------
(* start *)

AppStep == UNCHANGED <<streamVars, settings, query>>

\* The locks of the state and of the settings are taken.
Start ==
  /\ app.pc = "idle" /\ state = "Stopped" /\ session < MaxSessions
  /\ app' = [app EXCEPT !.pc = "starting"]
  /\ session' = session + 1
  /\ UNCHANGED <<streamVars, settings, state, end, seeks, reader, streaming, query, due>>

\* A setting is missing, or scope or streams cannot be created: an error, with the
\* locks released.
StartFails ==
  /\ app.pc = "starting"
  /\ app' = IdleApp
  /\ AppStep /\ UNCHANGED <<state, end, session, seeks, reader, streaming, due>>

\* Mutant: one beyond the last unit.
EndOffsetBeyond == IF settings.end_mode = "unbounded" THEN U64MAX ELSE tail + 1

NeedsIndex == settings.end_mode \in {"latest-indexed", "timestamp"}

EndOffset ==
  CASE settings.end_mode = "unbounded" -> U64MAX
    [] settings.end_mode = "latest" -> tail
    [] settings.end_mode = "latest-indexed" -> index[get_last_record].offset
    [] settings.end_mode = "timestamp" ->
         index[SearchResult(settings.end_timestamp, "After")].offset

\* The locks are released and the first seek follows: of times that are all 0.
StartReturns ==
  /\ app.pc = "starting" /\ settings.stream
  /\ NeedsIndex => ~IsEmpty
  /\ state' = "Started"
  /\ end' = EndOffset
  /\ LET o == IF settings.end_mode = "latest" THEN tail ELSE 0 IN
     reader' = [offset |-> o, buf |-> 0, limit |-> EndOffset - o, inner |-> o]
  /\ app' = [IdleApp EXCEPT !.pc = "seekFlush", !.time = MIN]
  /\ AppStep /\ UNCHANGED <<session, seeks, streaming, due>>

\* unwrap: the index is empty, or a read fails.  The locks are poisoned.
StartPanics ==
  /\ app.pc = "starting" /\ settings.stream /\ settings.end_mode # "unbounded"
  /\ app' = [app EXCEPT !.pc = "panicked"]
  /\ AppStep /\ UNCHANGED <<state, end, session, seeks, reader, streaming, due>>

-----------------------------------------------------------------------------
(* do_seek *)

\* The pipeline is flushed; do_seek waits for the create that is under way.
Seek(t) ==
  /\ app.pc = "idle" /\ state = "Started" /\ streaming.pc # "off"
  /\ seeks < MaxSeeks
  /\ app' = [IdleApp EXCEPT !.pc = "seekFlush", !.time = t]
  /\ seeks' = seeks + 1
  /\ AppStep /\ UNCHANGED <<state, end, session, reader, streaming, due>>

Creating == streaming.pc \in {"length", "payload"}

\* The time of the first seek, by start-mode.
StartTime ==
  CASE settings.start_mode = "no-seek" -> NONE
    [] settings.start_mode = "earliest" -> MIN
    [] settings.start_mode = "latest" -> U64MAX
    [] settings.start_mode = "timestamp" -> settings.start_timestamp

\* The settings are read, the state's lock is taken and dropped, the reader's kept.
\* A seek of the application to time 0 looks like the first one.
SeekBegin ==
  /\ app.pc = "seekFlush" /\ ~Creating
  /\ LET initial_seek == app.time = 0 IN
     app' = [app EXCEPT !.pc = "searcher", !.initial = initial_seek,
                        !.no_seek = initial_seek /\ settings.start_mode = "no-seek",
                        !.time = IF initial_seek THEN StartTime ELSE @]
  /\ AppStep /\ UNCHANGED <<state, end, session, seeks, reader, streaming, due>>

QueryHoldsSearcher == \E q \in Queriers : query[q].pc \in {"first", "last"} /\ query[q].session = session
SeekHoldsSearcher == app.pc \in {"search", "move"}

SeekTakesSearcher ==
  /\ app.pc = "searcher" /\ ~QueryHoldsSearcher
  /\ app' = [app EXCEPT !.pc = "search"]
  /\ AppStep /\ UNCHANGED <<state, end, session, seeks, reader, streaming, due>>

SeekSearches ==
  /\ app.pc = "search" /\ ~app.no_seek /\ ~IsEmpty
  /\ app' = [app EXCEPT !.pc = "move", !.rec = SearchResult(app.time, "Before")]
  /\ AppStep /\ UNCHANGED <<state, end, session, seeks, reader, streaming, due>>

SeekMoves ==
  /\ app.pc = "move"
  /\ reader' = SeekTo(index[app.rec].offset)
  /\ due' = MinOf(index[app.rec].offset, end)
  /\ app' = IdleApp
  /\ streaming' = StreamingIn("ready")
  /\ AppStep /\ UNCHANGED <<state, end, session, seeks>>

\* start-mode=no-seek.
SeekToHead ==
  /\ app.pc = "search" /\ app.no_seek
  /\ reader' = SeekTo(head)
  /\ due' = MinOf(head, end)
  /\ app' = IdleApp
  /\ streaming' = StreamingIn("ready")
  /\ AppStep /\ UNCHANGED <<state, end, session, seeks>>

\* Mutant: "Block until the first index record is read." (a TODO of do_seek)
SeekFailsUnlessEmpty ==
  /\ app.pc = "search" /\ ~app.no_seek /\ ~IsEmpty
  /\ app' = IdleApp
  /\ IF streaming.pc = "off"
     THEN state' = "Stopped" /\ UNCHANGED streaming
     ELSE state' = state /\ streaming' = StreamingIn("ready")
  /\ AppStep /\ UNCHANGED <<end, session, seeks, reader, due>>

\* The index is empty, or the search fails: false.  GstBaseSrc stops an element
\* whose first seek fails, and lets it go on where it was otherwise.
SeekFails ==
  /\ app.pc = "search" /\ ~app.no_seek
  /\ app' = IdleApp
  /\ IF streaming.pc = "off"
     THEN state' = "Stopped" /\ UNCHANGED streaming
     ELSE state' = state /\ streaming' = StreamingIn("ready")
  /\ AppStep /\ UNCHANGED <<end, session, seeks, reader, due>>

\* current_head fails: unwrap, with both locks.
SeekPanics ==
  /\ app.pc = "search" /\ app.no_seek
  /\ app' = [app EXCEPT !.pc = "panicked"]
  /\ AppStep /\ UNCHANGED <<state, end, session, seeks, reader, streaming, due>>

-----------------------------------------------------------------------------
(* query, with the format TIME and the query SEEKING *)

QueryStep(q, r) ==
  /\ query' = [query EXCEPT ![q] = r]
  /\ UNCHANGED <<streamVars, elementVars, reader, app, streaming, due>>

\* Mutant: the state's lock cannot be had while create waits: as if create kept it.
StateFreeUnlessCreating == app.pc # "starting" /\ ~Creating

StateIsFree == app.pc # "starting"

QueryCall(q) ==
  /\ query[q].pc = "idle" /\ app.pc # "panicked"
  /\ QueryStep(q, [query[q] EXCEPT !.pc = "state"])

\* The searcher is cloned; the answer is false if the element is not started.
QueryBegin(q) ==
  /\ query[q].pc = "state" /\ StateIsFree
  /\ QueryStep(q, IF state = "Started" /\ app.pc # "panicked"
                  THEN [query[q] EXCEPT !.pc = "searcher", !.session = session]
                  ELSE IdleQuery)

\* The searcher of an earlier start belongs to this query alone.
QueryTakesSearcher(q) ==
  /\ query[q].pc = "searcher"
  /\ \A p \in Queriers : query[p].pc \in {"first", "last"} => query[p].session # query[q].session
  /\ query[q].session = session => ~SeekHoldsSearcher
  /\ QueryStep(q, IF app.pc = "panicked" THEN IdleQuery ELSE [query[q] EXCEPT !.pc = "first"])

\* Mutant: the end is read before the start.
EndFirst == [first |-> "end", last |-> "start"]

ReadOrder == [first |-> "start", last |-> "end"]

AfterRead == [first |-> "last", last |-> "done"]

QueryReads(q) ==
  LET bound == ReadOrder[query[q].pc]
      rec == IF bound = "start" THEN get_first_record ELSE get_last_record
  IN
  /\ query[q].pc \in {"first", "last"} /\ ~IsEmpty
  /\ QueryStep(q, [query[q] EXCEPT !.pc = AfterRead[@],
                     !.start = IF bound = "start" THEN index[rec].ts ELSE @,
                     !.end = IF bound = "end" THEN index[rec].ts ELSE @])

\* A search fails, or finds the index empty: false.
QueryFails(q) ==
  /\ query[q].pc \in {"first", "last"}
  /\ QueryStep(q, IdleQuery)

QueryEnds(q) == query[q].pc = "done" /\ QueryStep(q, IdleQuery)

-----------------------------------------------------------------------------
(* create *)

StreamingStep == UNCHANGED <<streamVars, elementVars, app, query>>

Create ==
  /\ streaming.pc = "ready" /\ app.pc = "idle"
  /\ streaming' = [pc |-> "length", offset |-> reader.offset, at |-> reader.inner - reader.buf]
  /\ StreamingStep /\ UNCHANGED <<reader, due>>

ReadLength ==
  /\ streaming.pc = "length"
  /\ ReadUnit
  /\ streaming' = [streaming EXCEPT !.pc = "payload"]
  /\ StreamingStep /\ UNCHANGED due

ReadPayload ==
  /\ streaming.pc = "payload"
  /\ ReadUnit
  /\ streaming' = StreamingIn("ready")
  /\ due' = IF due = NONE THEN NONE ELSE due + EventSize
  /\ StreamingStep

\* UnexpectedEof: the task ends; a seek starts it again.
ReadEnds ==
  /\ Creating /\ EndOfFile
  /\ streaming' = StreamingIn("eos")
  /\ StreamingStep /\ UNCHANGED <<reader, due>>

\* Truncated data or another error of the client.  Between length and payload it
\* leaves the reader inside an event, until a seek succeeds.
CreateFails ==
  /\ Creating
  /\ streaming' = StreamingIn("error")
  /\ due' = IF streaming.pc = "payload" THEN NONE ELSE due
  /\ StreamingStep /\ UNCHANGED reader

-----------------------------------------------------------------------------
(* stop *)

StopBegin ==
  /\ app.pc = "idle" /\ state = "Started"
  /\ app' = [app EXCEPT !.pc = "stopFlush"]
  /\ AppStep /\ UNCHANGED <<state, end, session, seeks, reader, streaming, due>>

Stop ==
  /\ app.pc = "stopFlush" /\ ~Creating
  /\ state' = "Stopped"
  /\ app' = IdleApp /\ streaming' = StreamingIn("off")
  /\ AppStep /\ UNCHANGED <<end, session, seeks, reader, due>>

-----------------------------------------------------------------------------
StreamNext ==
  \/ AppendUnit \/ SealData
  \/ \E r \in Records : AppendRecord(r)
  \/ \E n \in indexHead + 1 .. Len(index) : Truncate(n)

AppCalls ==
  \/ Start \/ StopBegin
  \/ \E t \in Wanted : Seek(t)
  \/ \E s \in AllSettings : SetProperty(s)

AppSteps ==
  \/ StartFails \/ StartReturns \/ StartPanics
  \/ SeekBegin \/ SeekTakesSearcher \/ SeekSearches \/ SeekMoves \/ SeekToHead
  \/ SeekFails \/ SeekPanics \/ Stop

QuerySteps(q) ==
  QueryBegin(q) \/ QueryTakesSearcher(q) \/ QueryReads(q)
  \/ QueryFails(q) \/ QueryEnds(q)

CreateSteps == ReadLength \/ ReadPayload \/ ReadEnds \/ CreateFails

Next ==
  \/ StreamNext \/ AppCalls \/ AppSteps \/ Create \/ CreateSteps
  \/ \E q \in Queriers : QueryCall(q) \/ QuerySteps(q)

Spec == Init /\ [][Next]_vars

\* A call that can go on goes on, and do_seek gets the searcher's lock although
\* queries come and go (a player's timer queries four times a second, each for a
\* few reads).  Nobody has to write, seal, truncate, or call.
FairSpec ==
  /\ Spec
  /\ SF_vars(SeekTakesSearcher)
  /\ WF_vars(AppSteps) /\ WF_vars(ReadLength \/ ReadPayload \/ ReadEnds \/ (Truncated /\ CreateFails))
  /\ \A q \in Queriers : WF_vars(QuerySteps(q))

-----------------------------------------------------------------------------
(* Properties *)

TypeOK ==
  /\ tail \in Nat /\ head \in Nat /\ sealed \in BOOLEAN
  /\ index \in Seq(Records) /\ indexHead \in Nat
  /\ settings \in SettingsType /\ state \in {"Stopped", "Started"}
  /\ end \in 0 .. U64MAX
  /\ reader \in Reader /\ app \in App /\ streaming \in Streaming
  /\ query \in [Queriers -> Query]
  /\ due \in Nat \cup {NONE}
  /\ session \in Nat /\ seeks \in Nat

\* The three layers agree, after any mixture of reads, refills and seeks, also
\* beyond the end: CountingReader's offset is where the next byte comes from, and
\* Take's limit is what remains before end_offset.
LayersAgree ==
  /\ reader.offset = reader.inner - reader.buf
  /\ reader.inner <= end /\ reader.limit = end - reader.inner

\* A buffer is the whole event that was due: the next one, or the one at the
\* offset of the record that the last seek found; its offsets are those of its
\* bytes.  It is not if a read failed inside an event and the seek after it failed
\* too: GstBaseSrc then goes on where the reader is.
BufferIsDueEvent ==
  [][(streaming.pc = "payload" /\ streaming'.pc = "ready" /\ due # NONE) =>
       /\ IsEvent(due) /\ streaming.at = due
       /\ streaming.offset = due /\ reader'.offset = due + EventSize]_vars

\* end-mode, "Stop immediately before the located position" and "immediately
\* after that byte": the end is reported only at end_offset, or at the end of a
\* sealed stream.
EosOnlyAtEnd ==
  streaming.pc = "eos" =>
    \/ reader.offset = end
    \/ sealed /\ reader.offset = tail

\* With an end-mode other than unbounded the element never waits for the writer.
BoundedNeverWaits == WaitsForWriter => end = U64MAX

\* Playback ends at the end that was set, and never later.
EndIsKept == EosOnlyAtEnd /\ BoundedNeverWaits

IsSorted == \A i \in 1 .. Len(index) - 1 : index[i].ts <= index[i+1].ts

\* The seekable range, two searches of a stream that moves, starts before it ends.
RangeInOrder ==
  IsSorted => \A q \in Queriers : query[q].pc = "done" => query[q].start <= query[q].end

\* query never waits for the writer, however long create waits at the tail.
QueryReturns == \A q \in Queriers : query[q].pc # "idle" ~> query[q].pc = "idle"

\* start, do_seek and stop wait for nothing but a create that waits for the writer.
CallsWaitOnlyForWriter ==
  app.pc \notin {"idle", "panicked"} ~> app.pc \in {"idle", "panicked"} \/ WaitsForWriter

\* start-mode: "Start at the most recent random-access point."
StartsAtRandomAccess ==
  app.pc = "move" /\ app.initial => index[app.rec].random_access
=============================================================================
