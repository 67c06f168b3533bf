# Verification of the Pravega video components

This directory holds a TLA+ model of the part of this repository that stores
video in Pravega and finds it again: the GStreamer elements `pravegasink` and
`pravegasrc`, the index that links time to byte offsets, the formats of timestamps, events and records, the HLS server, the truncation
tool, the video player and the DeepStream protocol adapter. TLC checks the models
on small instances (`MC*.tla`, `*.cfg`); TLAPS checks proofs of what matters most
for every value of the constants (`*Proofs.tla`).

    tlc -config MCPravegaSink_failures.cfg MCPravegaSink
    tlc -config MCPravegaSrc_calls.cfg MCPravegaSrc
    tlapm PravegaSinkProofs.tla

A configuration is named after its module (`MCIndexSearch.cfg`,
`MCHlsPlaylist_polls.cfg`, ...); `PROJECT.json` lists the runs, the source lines
of every definition, the hazards and the theorems.

## 1. The system

A video stream is two Pravega byte streams: the data stream, a sequence of
framed events (`pravega-video/src/event_serde.rs`), and the index stream, a
sequence of fixed-size records, each a timestamp, an offset into the data and
flags (`pravega-video/src/index.rs`). Both are only appended to at the tail and
truncated at the head. There is no transaction over the two; everything a reader
may rely on follows from the order in which writers write and readers read.

| Component | State | Operations | Talks to |
|---|---|---|---|
| `pravegasink` | `Settings`, `State` (both behind mutexes): writers with their buffer and offset, last index time, final timestamp and offset, buffers written | `set_property`, `start`, `render` per buffer, `stop` | appends to data and index streams; called by the GStreamer streaming thread |
| `pravegasrc` | `Settings`, `State`: reader (own mutex), index searcher (own mutex) | `start`, `do_seek`, `query`, `create` per buffer, `stop` | reads both streams; called by the streaming thread and by application threads |
| `IndexSearcher` | a buffered reader of the index | `search_timestamp`, `search_timestamp_after`, first and last record | reads the index while others append and truncate; used by `pravegasrc`, HLS server, truncation |
| event framing | none | `EventWriter::write`, `EventReader` in two steps | used by sink, src, HLS server |
| `PravegaTimestamp`, `TimeDelta` | none | conversions NTP, Unix, TAI, arithmetic | used everywhere |
| reader and writer adapters | position and limit | `read`, `write`, `seek` | stacked in `pravegasrc` and `pravegasink` |
| HLS server | none between requests | playlist (two searches and a scan), segment, list | reads both streams for each request |
| `pravega-tools truncate` | none | search, truncate index, truncate data | moves the heads of both streams |
| video player | GTK widgets, pipeline | position timer, slider callback, bus callback | queries and seeks `pravegasrc` |
| DeepStream adapter | writer pool, runtime | connect, send, send_async, disconnect | writes event streams from C |
| `rtspsrcsimulator` | first PTS, offset | `set_property`, `sink_chain` | nothing: its module is not compiled (section 12) |
| applications, scripts, Python, web page | a pipeline | run | use the elements |

Hard behaviours, and what makes each component correct:

- **Sink**: flushes, index write and event write are separate steps on two
  streams that readers see in between; any of them may fail, the write itself
  panics, the process may die; another process resumes at the stored tail.
  Correct means: a stored record never points past stored data (constraint 1 of
  `index.rs`), data and index mark every hole (constraint 4), record timestamps
  bracket the data's (constraints 2 and 3), `Ok` after `SYNC_AFTER` or `stop`
  means stored, calls return.
- **Index search**: four or more reads of a stream that moves at both ends, over
  records that may go back in time. Correct means: it ends before the tail it saw
  (a read at the tail would wait for the writer), and on a sorted index it returns
  the record that brackets the wanted time.
- **Truncation**: two streams, two steps, a crash in between. Correct means: every
  index record that can be found points to data that exists.
- **Source**: `create` blocks at the tail with the reader locked; `do_seek` takes
  two locks; `query` one. Correct means: no deadlock, a query is never blocked by
  the tail, playback starts at the record that was found.
- **HLS**: begin and end of a playlist come from separate searches. Correct means:
  media sequence numbers name the same segment in every poll, `ENDLIST` is final,
  no segment spans a hole.
- **Timestamps**: widths and the value 0; **adapter**: lock across an await,
  unordered sends; **player**: callbacks that raise each other.

`PROJECT.json` lists each hazard with its line and the properties that watch it.

## 2. Modules

| Module | Models | Checked by | Proved |
|---|---|---|---|
| `PravegaSink` | start, render, stop, failures, crashes | `sink_failures`, `sink_ordered`, `sink_live` | `PravegaSinkProofs` |
| `IndexedStream` | what a stored stream promises to readers | `sink_live` (the sink implements it) | `PravegaSinkProofs` |
| `IndexSearch` | the search, read by read, against append and truncate | `search` | `IndexSearchProofs` |
| `TruncateStream` | overlapping runs of the tool that may die | `truncate` | `TruncateStreamProofs` |
| `PravegaSrc` | threads and locks, start and end modes | `src_calls`, `src_latest` | `PravegaSrcProofs` |
| `HlsPlaylist` | two searches, playlist and segments, polls | `hls_polls`, `hls_waits` | `HlsPlaylistProofs` |
| `Timestamps`, `EventSerde`, `MediaPath` | widths, framing, from camera to viewer | `media_frames` | `MediaPathProofs` |
| `ProtocolAdapter` | pool, synchronous and asynchronous sends | `adapter_sends` | `ProtocolAdapterProofs` |
| `Player` | callbacks of the main loop and of the pipeline | `player_plays` | `PlayerProofs` |

How they build on each other (`->` extends or instantiates):

    PravegaSinkProofs     -> PravegaSink -> (implements) IndexedStream
    TruncateStreamProofs  -> TruncateStream -> IndexSearch
                          -> IndexSearchProofs -> IndexSearch
    PravegaSrcProofs      -> PravegaSrc -> IndexSearch;  -> IndexSearchProofs
    HlsPlaylistProofs     -> HlsPlaylist -> IndexSearch; -> IndexSearchProofs
    MediaPathProofs       -> MediaPath -> EventSerde -> Timestamps
    ProtocolAdapterProofs -> ProtocolAdapter
    PlayerProofs          -> Player

`TruncateStream` runs the search of `IndexSearch` read by read. `PravegaSrc` and
`HlsPlaylist` make a search one step, whose result is `IndexSearch!Answer`: that a
search returns it whatever happens meanwhile is `FindsAnswer`, proved for every
index. What they assume of the writer (records never beyond the data, offsets in
order, records at the beginning of an event) is what `PravegaSink` guarantees
(`IndexWithinData`, `OffsetsInOrder`, `RecordPointsAtItsEvent`).

A definition whose comment begins with "Mutant" is a plausible bug of the
definition that follows it. Nothing uses it: put in that definition's place, it
breaks the property that `PROJECT.json` names.

## 3. `PravegaSink`

The element has one thread in `render` or `stop` at a time (both hold the state
mutex throughout), so the model has one program counter. Its values are the
points at which the thread blocks or at which another party can see a
difference: `flush` (waiting for the data stream before an index record),
`event` (record written, event not yet), `syncData`, `syncIndex` (`SYNC_AFTER`),
`stopFlush`, `stopIndex`, `sealData`, `sealIndex`. Steps between two such points
are one action.

| Action | Code (`pravegasink/imp.rs`) |
|---|---|
| `Start`, `StartAgain` | `start`; the second is the `unreachable!` branch |
| `Render` | `render` up to the flush before an index record: include, discontinuity |
| `WriteIndexRecord` | flush returned; `IndexRecordWriter::write` |
| `WriteEvent` | `EventWriter::write` into the `BufWriter`, counters |
| `SyncData`, `SyncIndex` | flushes of `SYNC_AFTER`, then the final values |
| `Stop`, `WriteFinalRecord`, `StopIndexFlushed`, `SealData`, `SealIndex` | `stop` |
| `CallFails`, `SealedStreamRejects`, `WritePanics`, `Crash` | errors, unwraps, death |
| `StoreData`, `StoreIndex` | the Pravega server |

A stream is one sequence with two positions, stored and sent, and the rest in
the `BufWriter`. Events have unit size. `session`, `seq` and `final` are auxiliary.

### Runs

| Run | Question |
|---|---|
| `sink_failures` | Which buffers get a record, and what do the streams guarantee if everything may fail? Timestamps in any order or missing, three sessions: a record for each event that is due by `index-min-sec` or `index-max-sec` and for no other, the marks, the offsets, what a record points at, and what `Ok` means. |
| `sink_ordered` | With ordered timestamps, is the index sorted and does it bracket the data? |
| `sink_live` | Do calls return, on sealed streams too? Do the stored streams implement `IndexedStream`? |

Bounds: three events with failures (four with ordered timestamps, two with seal),
three sessions where failures are explored (a hole, its mark, and a restart over the
mark need three), two with ordered timestamps; a buffer capacity of two, so that
events can be buffered, in flight and stored at once; timestamps up to 4 (5 where
ordered) with an `index-min` of 1 and an `index-max` of 2, so that the two can be told apart and
intervals below, at and above each occur, for key frames and for delta units: after a
record at 1, a delta unit at 3 is not overdue and one at 4 is; `U64` is large, overflow is not the question of these runs. Deadlock checking
is off: the application may stop for good.

What the model shows beyond these properties, with other constants or without the
condition in a property:

- With `index-max-sec` = infinity the property saturates at `u64::MAX` and the
  addition to the last index time wraps, so that every delta unit after a record is
  indexed: the opposite of "never".
- With B-frames the last buffer's timestamp is not the largest, and the final
  record's goes back.
- After a failed `SYNC_AFTER` flush `final_offset` stays behind: the final record
  is not at the tail.
- A `start` after a `stop` that failed finds `Started` and hits `unreachable!`.

Fairness (`FairSpec`): the server stores what it was sent unless the stream is
sealed, and a running call takes its next step. Upstream, the application and
failures owe nothing. The code justifies it: `flush` waits for the client's
own tasks, which run in the client's runtime whatever the element does.

### Proofs (`PravegaSinkProofs`)

Assumption: `SinkAssumption`, the types of the constants, for any number of
buffers, sessions and events, any capacity and any thresholds. Proved from it alone:
`TypeOK`, `IndexWithinData`, `OffsetsInOrder`, `LossIsMarked`,
`ContinuousBetweenRecords`, `RecordPointsAtItsEvent`, `OkMeansStored`, and the
refinement `StoredSpec`; with a condition each, `RecordsWhereDue` and
`IndexOrdersData`. None is inductive alone. For the first five `SinkInv` adds

- `Positions`: outside a session everything is stored, which is why the tail found
  by `seek_to_tail` is where the log ends;
- `Locals`: `offset` is the log's length, so is the `writer_offset` held across a
  flush; a session with a final timestamp has a last index time;
- `FinalOffset`: the final record cannot be before a record already written;
- `SessionTail`: the last event is the session's last;
- `TailContinuous`: data after the session's last record is the session's own.

Each lemma `...Step` is one conjunct over all actions; `SequenceStep` says how a
step may change the two sequences, which is all the properties of the sequences need.

`RecordPointsAtItsEvent` and `OkMeansStored` need more, `RecordInv`, proved over `SinkInv`:

- `Pending`: a record at the end of the data, whose event is not written yet, is the one that
  `render` has just written, or of an earlier session, in which case the next event
  starts its session and is marked as a discontinuity;
- `Sessions`: no record is of a session to come;
- `Closing`: `SYNC_AFTER` flushes the index only when the data is stored, and once
  `stop` has written its record, the index ends with it, at `final_offset`.

**Refinement** (`SinkImplementsIndexedStream`). `IndexedStream`'s sequences are the
stored prefixes of the sink's. `StoreData` appends one event, which is marked or
follows the one before it by `LossIsMarked`; `StoreIndex` appends one record, within
the stored data and after the last record by `IndexWithinData` and `OffsetsInOrder`, and
continuous by `ContinuousBetweenRecords`; every other step, a crash that drops what was sent and not
stored included, leaves the stored prefixes (`StoredKept`). So whatever is proved of
any reader of an `IndexedStream` holds of this sink's.

**Where records are due** (`SinkRecordsWhereDue`). Neither too many: a session's records are
`index-min-sec` apart, those of delta units more than `index-max-sec` (`RecordsAreSpaced`). Nor too few: as long as the
process lives, an event of its session with a timestamp, key frame or delta unit, has a record of its own, or it
was not yet due after the session's last record before it (`NoRecordIsMissing`). (After a crash a record that was
still buffered is lost, and that is what the marks are for.) The condition in `render` is about
`last_index_time`, the property about records. `DueInv` relates them: while `render` may be
called, the session's last record, if it has one, is not final and has that time
(`LastRecord`); between the decision and the write, what was decided still holds
(`Decided`); the buffer being rendered was pushed by upstream and `start` has accepted the
settings (`PushedBuffer`), which matters because `index-min-sec` above
`index-max-sec` would leave key frames out. Upstream and failures are arbitrary. The condition is
`SpacingFits`: a timestamp plus either interval is below 2^64. It is needed: above it the sum in
`render` saturates or wraps (see the infinite `index-max-sec` above).

**Order** (`SinkIndexOrdersData`). `OrderInv` says that the buffer being
rendered is later than everything written (`CurrentIsLast`), that so is the end which `stop` will
write (`FinalIsLast`), and that a record parts the data, by sent events and not only stored ones
(`RecordsPartData`). On a sealed stream `stop` fails before its record, because there is
always something unstored to flush (`SealedKeepsOut`). The condition is `OrderedRun`; it holds
of the run `sink_ordered`, and also covers sealed streams, which that run leaves out. Each part of it is needed: besides
upstream in order, no `SYNC_AFTER` flush fails and no event is refused as too large, since
both leave `stop` with the end of an earlier buffer, behind what is written already; and the
end of a buffer is below 2^64. Crashes, panics and restarts are not excluded.

Only model-checked: liveness, out of the prover's reach.

## 4. `IndexSearch`

`search_timestamp_and_return_index_offset` makes several reads of the index
stream, and between any two of them the writer may append and somebody may
truncate. A searcher's `pc` names the read that comes next; each read, with the
computation up to the next one, is one action. `index` holds every record ever
stored, `head` how many are truncated, so that record numbers stand for byte
offsets. `search_timestamp`, `search_timestamp_after`, `get_first_record` and
`get_last_record` are calls with a given method and time.

| Action | Code (`index.rs`) |
|---|---|
| `Begin` | the call; also after an earlier search returned or failed |
| `ReadHead` | `current_head` |
| `ReadTail` | `seek(End(0))`, and the check that there is a record |
| `ReadLast` | the last record, unless the wanted time is `MIN` (or None) |
| `ReadFirst` | the record at the head read at the beginning |
| `Scan` | one round of the loop: `Misses`, else `Match` |
| `ReadFails` | any `?` |
| `AppendRecord`, `Truncate` | the sink's append, a truncation by anybody: external |

A record comes from the `BufReader` if it is in it: it may then be found although
it is truncated meanwhile. How far a read fills the buffer depends on the
network: any number of records up to its capacity. A read of a truncated record
fails; a read at the tail waits (the action is disabled).

| Run | Question |
|---|---|
| `search` | Does a search end, before the tail it saw, on an index in any order? Is its result the documented one? If the index is sorted, does it bracket the wanted time? Does `UnexpectedEof` mean that the index is empty? |

On an index that goes back in time, `Before` may return a record later than the
wanted time although an earlier one exists: the scan stops at the first record that
is not earlier, as the code documents for a sorted index.

Bounds: four records with three different timestamps, so that a search can pass
two records, match exactly or not, and meet a rewind on either side of the
answer; wanted times below, at, between and above them, `MIN` and None; a buffer
of two records, so that some records are buffered and others read.
Deadlock checking is off: when the index is full and the search is over nothing
needs to happen.

Fairness (`FairSpec`): a searcher that can read does. It is a loop on a thread
of its own that waits only in reads. `Scan` is disabled at the tail, so that
`SearchReturns` fails if a search ever gets there.

### Proofs (`IndexSearchProofs`)

For every number of searchers, index, order of timestamps and wanted time:
`NeverWaits`, `EofMeansEmpty` and `FindsAnswer`. `SearchInv` says of each search
what its `pc` implies: the range `head + 1 .. tail` is not empty and stored;
while `first` or `scan`, the last record is later than the wanted time, which
is why the scan stops before the tail (lemma `NotTheLast`); all records passed
are earlier; when `found`, the result is `Outcome`, the documented one with its
witness. An append or a truncation keeps all of it (lemma `OtherSearchKept`),
each read is a lemma, and they are combined for any step that
`SearchAction` allows, so that modules above this one reuse them.
`Brackets` follows from `Outcome` when the records are in order (`OutcomeBrackets`; that
neighbours in order make all in order is `SortedInPairs`). `AnswerIsRecord`, that the answer is one of
the records between head and tail, is what `PravegaSrcProofs` and
`HlsPlaylistProofs` use. `SearchReturns` is liveness and stays with TLC.

## 5. `TruncateStream`

`truncate_stream` of `pravega-tools` over `IndexSearch`: a run (`Tools`) searches,
truncates the index at the record found, truncates the data at that record's
offset; between any two of these it may die, and other runs may overtake it.

| Action | Code |
|---|---|
| `TruncateStart`, `CutFound` | the search with `Before` (`pravega-tools.rs:93`) and its `unwrap` |
| `TruncateIndex`, `TruncateData` | lines 96 and 98; truncating again changes nothing |
| `ToolDies` | death or a failed `unwrap` |

The run `truncate` asks: does every record that can be found point to data that
exists? On a sorted index, is only deleted what is older than a time that was given? Bounds: two
runs of the tool, so that one overtakes the other between its steps, each with one of two times to cut at;
three records with timestamps below, at and above these; offsets that repeat or grow. The two runs are
symmetric. A reader whose data goes after it has searched is in `PravegaSrc`.

### Proofs (`TruncateStreamProofs`)

For any number of runs: `RecordsPointToData` and `OnlyOldIsDeleted`. The first is not inductive: `TruncateInv0` adds that
offsets are in order, that a run about to truncate found a record, and that a run
about to truncate the data has the head at or behind its record; `SearchInv`
supplies that the record is one that is stored. The assumptions are the types of the
constants. `OnlyOldIsDeleted`
is inductive (`CutInv`) given `TruncateInv0`: the times passed to the tool only grow in number, and
what a run finds is bracketed (`FoundBrackets` of the search), so that all before it is as
old as its time (`FoundIsCut`).

## 6. `PravegaSrc`

Three kinds of threads call the element: the application (state changes, seeks,
properties), the streaming thread (`create` in a loop), and any thread that queries.
A program counter per thread names the lock it waits for or holds, or the read it is
in. `GstBaseSrc` (external) runs `do_seek` and `stop` only while `create` is not
running, and no longer calls an element that has panicked.

| Action | Code (`pravegasrc/imp.rs`) |
|---|---|
| `SetProperty` | `set_property` |
| `Start`, `StartFails`, `StartReturns`, `StartPanics` | `start`: the locks; a missing setting, or a scope or stream that cannot be created; end offset by end-mode, the layers; its unwraps |
| `Seek`, `SeekBegin` | the flush; `do_seek` up to the reader's lock, with the first seek's time by start-mode |
| `SeekTakesSearcher`, `SeekSearches`, `SeekMoves`, `SeekToHead` | the searcher's lock, the search, the move of the layers |
| `SeekFails`, `SeekPanics` | `false`, or the unwrap of `current_head` |
| `QueryCall`, `QueryBegin`, `QueryTakesSearcher`, `QueryReads`, `QueryFails`, `QueryEnds` | `query` SEEKING: the searcher cloned under the state's lock, first and last record |
| `Create`, `ReadLength`, `ReadPayload`, `ReadEnds`, `CreateFails` | `create`, through `CountingReader(BufReader(SeekableTake(ByteStreamReader)))` |
| `StopBegin`, `Stop` | `stop` |
| `AppendUnit`, `AppendRecord`, `SealData`, `Truncate` | sink and truncation tool: external |

Simplifications: an event is two units, its length and the rest, and offsets count
units; a search is one step under the searcher's lock; a truncation moves both heads
at once. `due`, where the next event is due, is auxiliary.

| Run | Question |
|---|---|
| `src_calls` | Do the layers agree on the offset? Does playback end at the end that was set, without waiting there? Is each buffer the whole event that was due, after seeks and refills? Is the seekable range in order? Does a query return although `create` waits for the writer, and do `start`, `do_seek`, `stop` wait for nothing else? No deadlock. |
| `src_latest` | violated: start-mode `latest` is documented as "Start at the most recent random-access point", but takes the last record, which after a `stop` of the sink is its final record, no random access |

Bounds: two events, so that a seek moves forth or back over a whole one and an end
lies in between; two records, one random access and one not; one querier, which races
the seek for the searcher; one session with one seek after the first; a buffer of two units; every
end-mode once, with three start-modes (`earliest` seeks as `timestamp` does), and one setting may be
changed to the next before or after start. Deadlock is checked.

Fairness: steps that have all they need are taken (weak), and `do_seek` gets the
searcher's lock between queries (strong: queries come four times a second and hold it
for a few reads). The writer, the tool and the application owe nothing, so that
`create` may wait for good.

### Proofs (`PravegaSrcProofs`)

For any settings, buffer size, number of queriers and order of steps: `LayersAgree`,
`EndIsKept`, `BufferIsDueEvent`, `RangeInOrder`. `SrcInv` is `TypeOK`, `StoredInv` (records
lie within the data, in order), `LayersAgree`, `LockInv` (a seek or stop that has
passed its flush has no `create` beside it), `DueInv` (where the reader is, in terms of
`due`, for each point of `create`), `EosOnlyAtEnd` and `QueryInv` (what a query has read
is a record that is stored). `QueryReturns` and `CallsWaitOnlyForWriter` are liveness
and only checked.

## 7. `HlsPlaylist`

A request keeps nothing in the server; what a browser has is the last playlist.

| Action | Code (`pravega-video-server/src/main.rs`) |
|---|---|
| `Poll`, `SearchBegin`, `SearchEnd` | `get_m3u8_playlist`: the two searches, `index_size`, `have_all_data` |
| `ReadRecord` | one round of its loop: a segment, a gap, the average duration |
| `Respond`, `PollFails` | the answer; any unwrap |
| `TsRequest`, `TsLength`, `TsPayload` | `get_mpeg_transport_stream`, event by event within its `Take` |
| `AppendRecord`, `Truncate` | sink and tool: external |

| Run | Question |
|---|---|
| `hls_polls` | Does a sequence number name the same segment in every poll, with records appended and truncated between the two searches? Is no segment spanning a hole or a rewind, and the next one marked? Is `ENDLIST` final? Is a segment served as whole events? Does a poll return without the writer? |
| `hls_waits` | violated: "Ensure EOF instead of waiting (potentially forever) for appends": on an index that goes back the first record found may lie beyond the second, `index_size` wraps, and the request waits |

Bounds: four records out of five kinds (a segment, a flagged one, a jump within and
beyond the average, a rewind), two polls of one browser, all of the stream or an interval.
More browsers do not interact. Deadlock checking is off: a browser need not poll again.
Fairness: a request that can go on does, and one whose unwrap fails does so.

### Proofs (`HlsPlaylistProofs`)

For any number of browsers, polls and records: `NumberedByRecord`, `GapsAreMarked`,
`ServedWhole` and `EndListIsFinal`. `HlsInv` adds `IndexInv` (the head is a record), `PollOK` (the entries made so far are
about the records between the playlist's number and the one that is read next), `ListOK` (the
same of an answered playlist) and `RequestOK` (position and limit add up to the
segment's end). `ServedWhole` rests on `HlsAssumption`: records are at whole events, which the
sink guarantees.

`EndListIsFinal` relates two answers any number of steps apart, with truncation
in between. `EndInv`, for timestamps that increase, carries from one to the other what a search
in an ordered index gives (`SearchSorted`): a playlist with an ENDLIST ends at the
first record that is not before its end, as far as records are left (`ListEnds`); a poll knows the
last record it will read (`LastToRead`), which exists and is not before its first one, so that `index_size`
does not wrap (`PollEnds`); and that record is the last one of the playlist before, or the
poll has no segment to offer, because the truncation has passed that end (`SameEnd`, `NoEntries`).
The same invariant gives `HlsSortedNeverWaits`: on an index in order the "EOF instead of waiting"
that `hls_waits` refutes in general is true. `PollReturns` is liveness and only checked.

## 8. `Timestamps`, `EventSerde`, `MediaPath`

`Timestamps` has the arithmetic and conversions of `timestamp.rs` with their widths
(`u64` sums that wrap, the `i64` of chrono, casts from `i128`). `EventSerde` has events and index records
as sequences of words, one word for each field and each unit of payload. `MediaPath`
puts them in a row: the camera, the sink's timestamp by
`timestamp-mode`, frames in the two streams, and `EventReader` over any window of the
data.

| Action | Code |
|---|---|
| `SetProperty`, `Start` | `pravegasink` `set_property`, the checks of `start`, `numeric.rs` |
| `Capture`, `CaptureBeforeRtcp` | a buffer with the PTS its clock gives it (external); `render` as far as frames go |
| `Open`, `read_required_buffer_length`, `read_event`, `Close` | `EventReader` in its two steps, as used by `pravegasrc` and the HLS server |

The run `media_frames` asks: has an instant one timestamp whatever clock its pipeline
uses? Do events read back from any window, those that are whole and no others? Do
records lead to their events? Bounds: `U64` is
64, large enough for the two epochs (3 and 8) and the instants 0 and 20 to be on either side of each; one PTS of
before the first RTCP report; payloads that are empty, as large as fits, and
too large; three events; at most two properties set. Deadlock checking is off: when
events and settings are at their bound and the reader is idle there is nothing left to do. Only safety is asked
here: waiting is in `PravegaSrc`.

### Proofs (`MediaPathProofs`)

For every width, every distance of the epochs and every payload: a timestamp comes back
from Unix time (`UnixComesBack`) and from the text in a playlist (`ShownTimeComesBack`, up to
the end of an `i64`), differences add up (`DistancesAddUp`), an event and a record come back from their words
wherever they are in the stream (`EventComesBack`, `RecordComesBack`), and
`SameInstant` (`MediaSameInstant`) over `MediaInv`, which adds the types and that the
reader stays within the data.

The other properties are about all frames of a stream at once; each has its invariant over `MediaInv`, and
`PathSteps` reduces the actions to three kinds (a buffer rendered, `Wrote`; a reader's step; neither).

- `EventsComeBack`: `Layout`, the data is the frames one after the other, each where `written` says,
  so that an event's frame begins where the one before ends. `ReaderInv` is the
  reader's position in terms of it: at the beginning of the next frame, behind its length, or
  at the end of the window within it. `FrameReadBack` carries `EventComesBack` to a frame in
  the middle of a stream, `SplitAt` being what makes the stream the three parts that theorem asks for. `WindowIsRead`
  then compares the two descriptions of the window's events, the reader's and `InWindow`'s.
- `RecordsFindEvents`: `IndexInv`, the index is the records one after the other, each at an
  event or at the tail, where the next event will begin if the one it was for was refused.

## 9. `ProtocolAdapter`

A synchronous send blocks its thread, an asynchronous one is a task; both take the
pool's mutex, then a writer's. The mutexes are Tokio's, so a waiting task is in a
queue, and a panic does not poison.

| Action | Code (`pravega_protocol_adapter/src/lib.rs`) |
|---|---|
| `nvds_msgapi_connect`, `nvds_msgapi_disconnect` | the functions |
| `nvds_msgapi_send`, `nvds_msgapi_send_async` | the call and the spawn |
| `EnterPool`, `FindWriter`, `BeginCreate`, `CreateWriter`, `CreatePanics` | `get_or_create` across its await |
| `LockWriter`, `WriteEvent`, `GetResult`, `Answer` | the rest of a send and its callback |
| `Store`, `StoreFails` | the Pravega client: external |

The run `adapter_sends` asks: is there one writer per stream, although sends to a new
topic race and one panics? Is a send that is answered with `OK` stored, once? Are
callbacks in the order of the stream? Is every send answered? Bounds: two topics, two
threads and three sends: two sends race for a writer while the third has another or
waits behind them; one failure, at any place. A send whose
creation panicked gets no answer, and in a synchronous one the panic would leave
`extern "C"` and abort the process: `EverySendAnswered` excludes both. Deadlock
checking is off: the process ends. Fairness: the runtime runs every task that can go on
and the server answers.

### Proofs (`ProtocolAdapterProofs`)

For any number of topics, threads, sends and failures: `OneWriterPerStream`, `OkIsDurable`,
`AnsweredInOrder`. `AdapterInv` is `TypeOK`, `PoolInv` (pool and writers
name each other), `HoldsInv` (who holds which mutex at which point), `ResultsInv`, `SentInv` and
`StreamInv` (an event is with the client or stored, once, and a writer has at most one that
awaits its result), `AnswersInv`, and `AnsweredInOrder` itself. `EverySendAnswered` is liveness and only checked.

## 10. `Player`

The GTK main loop runs one callback at a time; the pipeline's threads and the stream
move between the two queries of the position timer and its update of the slider.

| Action | Code (`pravega-video-player.rs`) |
|---|---|
| `Run`, `Shutdown`, `DeleteEvent` | `run` around `gtk::main` |
| `Click`, `PlayFails` | the buttons; `set_state` and its `expect` |
| `MoveSlider` | `value-changed` |
| `QueryRange`, `QueryPosition`, `UpdateSlider` | the 250 ms timer |
| `Message` | the bus watch |
| `PadAdded` | `pad-added` of decodebin |
| `Preroll`, `Play`, `SourceFails`, `EndOfStream`, `Append1`, `Truncate`, `Seal` | GStreamer and the stream: external |

The stream has video, or video and audio; it may be empty, at the beginning or because all of it was truncated.
A start needs a record in the index (`pravegasrc`'s first seek fails otherwise, and `expect` panics: `PlayFails`); a later
seek may fail and leave the source where it was. The source may fail at any time, also before the first frame
is shown, or wait there for the writer. The player only logs the error; the bus of the model carries the
`Eos` that follows when the pipeline plays and its sinks are linked.

The run `player_plays` asks: does playback that truncation has overtaken, and that an
error may have stopped, go on without the user? Does each start or seek show the
stream, or end in an error or at the end of what there is to read? Bounds: three frames; two clicks, which
make a stop and a second start, or a move of the slider and a stop. Fairness: the timer
fires (strong, as it is disabled while a callback runs and while the pipeline is in Ready), its steps, preroll and
pads follow; the source does not have to fail.

Both properties say in their formula what they leave out. `OvertakenGoesOn` leaves out a slider that stands at the very
time of the first frame left, since GTK then emits no `value-changed` and nothing seeks, and a stream with no
frames left. `StartShowsVideo` leaves out, besides a failed source and one with nothing to read, a
stream with audio that was stopped and started again (`StaleAudioSink`): `pad-added` adds a new audio sink and
leaves the old one in the pipeline without a peer, for which the preroll waits. This is what the code does, and
without that disjunct the run fails: after a stop and a start nothing is shown, no error is reported, and
the timer, which needs a position, does not help.

### Proofs (`PlayerProofs`)

Both questions of the run are liveness and only checked. Proved are the types (`PlayerTypes`), whose point is
the slider: the timer sets it from a range and a position that were queried at different
instants, and its value lies within the range it is given.

## 11. What is proved, and what is not

Every theorem holds for every value of the constants that satisfies the named assumption of its module;
`SinkRecordsWhereDue` and `SinkIndexOrdersData` state one condition more (`SpacingFits`, `OrderedRun`), and
no other assumption is used. The assumptions are types and, in `TimestampsAssumption`,
`SerdeAssumption` and `HlsAssumption`, facts of the code named there. The bounds on
sessions, events, polls and the like are constants too: the theorems hold for each of
them. Type correctness of every module with a proof is a conjunct of its inductive
invariant.

Every invariant, action property and refinement that a passing run checks is a theorem. Only checked by
TLC is liveness, which is out of the prover's reach: `CallsReturn`, `SearchReturns`, `QueryReturns`,
`CallsWaitOnlyForWriter`, `PollReturns`, `EverySendAnswered`, `OvertakenGoesOn`, `StartShowsVideo`.
The two runs that expect a violation (`src_latest`, `hls_waits`) are counterexamples, not claims.

## 12. Not modelled

- `list_video_streams` and the warp filters of the HLS server: the first lists the
  controller's streams without state, the others are routing and static files.
- `create_client_config`: reads a credentials file. Credentials in general.
- `get_index_records`, for debugging and tests: nothing it does outlives it.
- `rtspsrcsimulator`: `gst-plugin-pravega/src/lib.rs:11-24` neither declares the module nor registers
  the element, so that it is not compiled.
- Plugin registration: once, no state. Logging, property descriptions, caps, retention policy.
- Payload memory of asynchronous sends: the copy belongs to the task alone.
- `nvds_msgapi_do_work`, `subscribe`, version and connection-signature functions: constant answers.
- Applications, the experiments with the client, Python applications and elements,
  DeepStream demos, scripts, containers, notebooks: they build a pipeline or call the client in a straight line and
  have no state of their own. The web page wraps hls.js.
- The integration tests: read as a source of expectations; their harness starts a
  Pravega process and compares video.
- GStreamer, GTK and Pravega themselves: modelled only as the code uses them, by actions marked external.
