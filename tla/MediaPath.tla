------------------------------ MODULE MediaPath ------------------------------
(***************************************************************************)
(* What a camera captures, on its way to a viewer: the clock of the        *)
(* pipeline in front of pravegasink, the timestamp that render gives a     *)
(* buffer, the frames in the data and index streams, and their readers:    *)
(* pravegasrc, which gives them a PTS again, the HTTP server, which reads  *)
(* a window of the data and prints times, and the browser, which sends the *)
(* times back.                                                             *)
(*                                                                         *)
(* When a record is written, and what of it survives a crash, is in        *)
(* PravegaSink; here a record is written at any event with a timestamp.    *)
(***************************************************************************)
EXTENDS EventSerde, FiniteSets

CONSTANTS
  Instants,     \* when the camera captures, in nanoseconds TAI
  RawPts,       \* PTS before the first RTCP report
  Payloads,
  Sources,      \* what the clock in front of the sink may be
  Indexes,      \* values of index-min-sec and index-max-sec, in nanoseconds
  FlagSets,     \* flags that render gives events
  MaxEvents,    \* bound on the events written, and on the records
  MaxSettings   \* bound on the settings that differ from the default

Modes == {"realtime-clock", "ntp", "tai"}

ASSUME MediaAssumption ==
  /\ Instants \subseteq PravegaTimestamp \ {NONE} /\ RawPts \subseteq 0 .. MAX
  /\ Payloads \subseteq Seq(Words) /\ Sources \subseteq Modes
  /\ Indexes \subseteq Nat /\ FlagSets \subseteq Flags /\ MaxEvents \in Nat

VARIABLES
  source,    \* the clock that the PTS in front of the sink are of
  settings,  \* the sink's
  started,   \* whether the sink is
  data,      \* the data stream, in words
  index,     \* the index stream, in words
  written,   \* the events written and what they were made of (auxiliary)
  records,   \* the index records written (auxiliary)
  reader,    \* EventReader over a Take
  got        \* the events it has read

vars == <<source, settings, started, data, index, written, records, reader, got>>

Settings == [stream : {"", "scope/stream"}, timestamp_mode : Modes,
             index_min_nanos : Nat, index_max_nanos : Nat]

DefaultSettings == [stream |-> "", timestamp_mode |-> "realtime-clock",
                    index_min_nanos |-> 1, index_max_nanos |-> 2]

\* begin: where the reader was opened; pos, limit: Take; event_length: the EventReader's.
Reader == [pc : {"closed", "length", "event", "end", "error"}, begin : Nat, pos : Nat,
           limit : Nat, event_length : Nat]
ClosedReader == [pc |-> "closed", begin |-> 0, pos |-> 0, limit |-> 0, event_length |-> 0]

Init ==
  /\ source \in Sources
  /\ settings = DefaultSettings /\ started = FALSE
  /\ data = <<>> /\ index = <<>> /\ written = <<>> /\ records = <<>>
  /\ reader = ClosedReader /\ got = <<>>

-----------------------------------------------------------------------------
(* pravegasink: set_property and start *)

streams == <<data, index, written, records, reader, got>>

\* set_stream: a value that is not scope/stream is refused, the old one stays.
SetStream(v) ==
  IF v = "scope/stream" THEN [settings EXCEPT !.stream = v] ELSE settings

\* index-min-sec and index-max-sec: the cast to u64 saturates.
Nanos(n) == IF n > MAX THEN MAX ELSE n

\* Bounded to settings made before the first event: render reads them anew for each.
SetProperty ==
  /\ written = <<>> /\ records = <<>>
  /\ \/ \E v \in {"scope/stream", "stream"} : settings' = SetStream(v)
     \/ \E v \in Modes : settings' = [settings EXCEPT !.timestamp_mode = v]
     \/ \E v \in Indexes : settings' = [settings EXCEPT !.index_min_nanos = Nanos(v)]
     \/ \E v \in Indexes : settings' = [settings EXCEPT !.index_max_nanos = Nanos(v)]
  /\ Cardinality({f \in DOMAIN settings : settings'[f] # DefaultSettings[f]}) <= MaxSettings
  /\ UNCHANGED <<source, started, streams>>

Start ==
  /\ ~started
  /\ settings.index_min_nanos <= settings.index_max_nanos /\ settings.stream # ""
  /\ started' = TRUE
  /\ UNCHANGED <<source, settings, streams>>

-----------------------------------------------------------------------------
(* pravegasink: render, as far as the frames go *)

timestamp(pts) ==
  CASE settings.timestamp_mode = "realtime-clock" -> from_unix_nanoseconds(pts)  \* with base_time
    [] settings.timestamp_mode = "ntp" -> from_ntp_nanoseconds(pts)
    [] settings.timestamp_mode = "tai" -> from_nanoseconds(pts)

\* Mutant: the record points behind the event, at the next one.
RecordOfNext(e) ==
  [timestamp |-> e.timestamp, offset |-> Len(data) + Len(Frame(e)),
   random_access |-> e.flags.random_access, discontinuity |-> e.flags.discontinuity]

RecordOf(e) ==
  [timestamp |-> e.timestamp, offset |-> Len(data),
   random_access |-> e.flags.random_access, discontinuity |-> e.flags.discontinuity]

\* flags: as they should be, but a buffer without a timestamp is not indexed.
EventOf(pts, payload, flags) ==
  [timestamp |-> timestamp(pts), payload |-> payload,
   flags |-> [flags EXCEPT !.include_in_index = @ /\ timestamp(pts) # NONE]]

\* origin: the instant, NONE if unknown.  A refused record is an error of render before
\* the event, a refused event one after the record.
Write(pts, origin, payload, flags) ==
  LET e == EventOf(pts, payload, flags)
      indexed == e.flags.include_in_index
  IN
  /\ started /\ Len(written) < MaxEvents /\ Len(records) < MaxEvents
  /\ ~indexed \/ AcceptsRecord(RecordOf(e))
  /\ IF indexed
     THEN index' = index \o RecordFrame(RecordOf(e)) /\ records' = Append(records, RecordOf(e))
     ELSE UNCHANGED <<index, records>>
  /\ IF Accepts(e)
     THEN /\ data' = data \o Frame(e)
          /\ written' = Append(written, [event |-> e, offset |-> Len(data), origin |-> origin,
                                         pts |-> pts, mode |-> settings.timestamp_mode])
     ELSE UNCHANGED <<data, written>>
  /\ UNCHANGED <<source, settings, started, reader, got>>

\* Clocks cannot show what is no u64.
Plus(a, b) == IF a = NONE \/ b = NONE \/ a + b >= MAX THEN NONE ELSE a + b
Minus(a, b) == IF a = NONE \/ b = NONE \/ a < b THEN NONE ELSE a - b

\* What each timestamp-mode says that its PTS are.
SourcePts(x) ==
  CASE source = "realtime-clock" -> Minus(x, UTC_TO_TAI_SECONDS)
    [] source = "ntp" -> Plus(Minus(x, UTC_TO_TAI_SECONDS), UNIX_TO_NTP_SECONDS)
    [] source = "tai" -> x

\* A buffer of the camera.
Capture(x, payload, flags) ==
  /\ SourcePts(x) # NONE
  /\ Write(SourcePts(x), x, payload, flags)

\* rtspsrc takes some seconds to receive the RTCP timestamps.
CaptureBeforeRtcp(pts, payload, flags) ==
  /\ source = "ntp" /\ pts < UNIX_TO_NTP_SECONDS
  /\ Write(pts, NONE, payload, flags)

-----------------------------------------------------------------------------
(* A reader of data from begin, at an event, to end, at any byte *)

Open(begin, end) ==
  /\ reader.pc = "closed"
  /\ reader' = [pc |-> "length", begin |-> begin, pos |-> begin, limit |-> end - begin,
                event_length |-> 0]
  /\ got' = <<>>
  /\ UNCHANGED <<source, settings, started, data, index, written, records>>

ReaderStep == UNCHANGED <<source, settings, started, data, index, written, records>>

IsWhole(n) == n <= reader.limit

\* read_exact within Take: at the limit the rest is consumed and the reader ends.
read_required_buffer_length ==
  /\ reader.pc = "length"
  /\ reader' =
       IF ~IsWhole(PREFIX)
       THEN [reader EXCEPT !.pc = "end", !.pos = @ + reader.limit, !.limit = 0]
       ELSE [reader EXCEPT !.pc = IF ValidLength(event_length(data, reader.pos)) THEN "event" ELSE "error",
                           !.pos = @ + PREFIX, !.limit = @ - PREFIX,
                           !.event_length = event_length(data, reader.pos)]
  /\ UNCHANGED got /\ ReaderStep

read_event ==
  LET n == reader.event_length IN
  /\ reader.pc = "event"
  /\ IF ~IsWhole(n)
     THEN /\ reader' = [reader EXCEPT !.pc = "end", !.pos = @ + reader.limit, !.limit = 0]
          /\ UNCHANGED got
     ELSE /\ reader' = [reader EXCEPT !.pc = "length", !.pos = @ + n, !.limit = @ - n]
          /\ got' = Append(got, EventAt(data, reader.pos, n))
  /\ ReaderStep

Close ==
  /\ reader.pc \in {"end", "error"}
  /\ reader' = ClosedReader /\ got' = <<>>
  /\ ReaderStep

-----------------------------------------------------------------------------
Next ==
  \/ SetProperty \/ Start
  \/ \E payload \in Payloads, flags \in FlagSets :
       \/ \E x \in Instants : Capture(x, payload, flags)
       \/ \E pts \in RawPts : CaptureBeforeRtcp(pts, payload, flags)
  \/ \E i \in DOMAIN written : \E end \in written[i].offset .. Len(data) : Open(written[i].offset, end)
  \/ read_required_buffer_length \/ read_event \/ Close

Spec == Init /\ [][Next]_vars

-----------------------------------------------------------------------------
(* Properties *)

Written == [event : Event, offset : Nat, origin : PravegaTimestamp, pts : PravegaTimestamp, mode : Modes]

TypeOK ==
  /\ source \in Sources /\ settings \in Settings /\ started \in BOOLEAN
  /\ data \in Seq(Nat) /\ index \in Seq(Nat)
  /\ written \in Seq(Written) /\ records \in Seq(Record)
  /\ reader \in Reader

\* An instant has one timestamp, whatever clock the camera's pipeline uses ("This
\* allows different streams to be correlated precisely"), and a buffer whose time
\* is not known yet has none, if timestamp-mode is the source's.
SameInstant ==
  \A i \in DOMAIN written :
    LET w == written[i] IN w.mode = source => w.event.timestamp = w.origin

\* What is read back: a timestamp of 0 is none.
ReadBack(e) == [e EXCEPT !.timestamp = FromWire(ToWire(@))]

\* The written events of which the window [begin, end) has every word.
InWindow(begin, end) ==
  LET whole == {i \in DOMAIN written :
                  /\ begin <= written[i].offset
                  /\ written[i].offset + Len(Frame(written[i].event)) <= end}
      first == CHOOSE i \in whole : \A j \in whole : i <= j
  IN IF whole = {} THEN <<>> ELSE [k \in 1 .. Cardinality(whole) |-> written[first + k - 1].event]

\* A window of the data gives the events written there, in order, those that are
\* whole and no others, of every size the writer accepts, whatever was appended
\* meanwhile; the end of the window is no error.
EventsComeBack ==
  /\ reader.pc # "error"
  /\ reader.pc = "end" =>
       LET events == InWindow(reader.begin, reader.pos) IN
       /\ Len(got) = Len(events)
       /\ \A k \in DOMAIN got : got[k] = ReadBack(events[k])

\* The index reads back as the records written, each at an event or at the tail (where
\* a refused event would have been), and each indexed event is found from a record
\* with its timestamp.
RecordsFindEvents ==
  /\ \A k \in DOMAIN records :
       /\ RecordAt(index, RECORD_SIZE * (k - 1)) = records[k]
       /\ \/ records[k].offset = Len(data)
          \/ \E i \in DOMAIN written : written[i].offset = records[k].offset
  /\ \A i \in DOMAIN written : written[i].event.flags.include_in_index =>
       \E k \in DOMAIN records :
         LET offset == records[k].offset
             e == EventAt(data, offset + PREFIX, event_length(data, offset))
         IN /\ offset < Len(data) /\ e = ReadBack(written[i].event)
            /\ e.timestamp = records[k].timestamp
=============================================================================
