----------------------------- MODULE HlsPlaylist -----------------------------
(***************************************************************************)
(* The HTTP server: get_m3u8_playlist and get_mpeg_transport_stream, for   *)
(* browsers that poll while records are appended and truncated.            *)
(*                                                                         *)
(* Record numbers stand for byte offsets in the index.  A search is one    *)
(* step (IndexSearch has its reads); the searches, and the reads of the    *)
(* records, are steps of their own.  An event of the data is EventSize     *)
(* units, its length and the rest.  Durations are tenths of a second and   *)
(* their moving average is rounded down to a tenth.                        *)
(***************************************************************************)
EXTENDS Integers, Sequences

CONSTANTS
  Browsers,
  Records,     \* the index records a writer may append
  Bounds,      \* <<begin, end>> of the playlists that are asked for
  U64MAX,      \* u64::MAX: PravegaTimestamp::MAX, and where index_size wraps
  MaxRecords,  \* bound on the records in the index
  MaxPolls     \* bound on the polls of a browser

MIN == 0
EventSize == 2

RecordType == [ts : Nat \ {0}, offset : Nat, discontinuity : BOOLEAN]

ASSUME HlsAssumption ==
  /\ Records \subseteq RecordType /\ Bounds \subseteq Nat \X Nat
  /\ \A r \in Records : r.offset % EventSize = 0  \* PravegaSink!RecordPointsAtItsEvent
  /\ U64MAX \in Nat /\ MaxRecords \in 0 .. U64MAX /\ MaxPolls \in Nat

VARIABLES
  index,    \* the stored index records
  head,     \* the first head of them are truncated
  dataHead, \* the data before this offset is truncated
  poll,     \* the playlist request of each browser
  playlist, \* the playlist each browser has
  ts        \* the transport stream request of each browser

streamVars == <<index, head, dataHead>>
vars == <<streamVars, poll, playlist, ts>>

Entry == [gap : BOOLEAN, discont : BOOLEAN, begin : Nat, end : Nat]

\* number: EXT-X-MEDIA-SEQUENCE; final: EXT-X-ENDLIST.
Playlist == [bounds : Bounds \cup {<<>>}, number : Nat, entries : Seq(Entry), final : BOOLEAN]
NoPlaylist == [bounds |-> <<>>, number |-> 0, entries |-> <<>>, final |-> FALSE]

\* limit is that of the Take, target the target duration, next the record to read.
\* "failed": an unwrap or an assert panics, the browser gets no answer.
Polls == [pc : {"idle", "begin", "end", "read", "failed"}, list : Playlist, next : Nat,
          limit : Nat, prev : Nat, target : Nat, next_segment_discont : BOOLEAN, count : Nat]

InitialTarget == 100

IdlePoll(n) == [pc |-> "idle", list |-> NoPlaylist, next |-> 0, limit |-> 0, prev |-> 0,
                target |-> InitialTarget, next_segment_discont |-> FALSE, count |-> n]

Requests == [pc : {"idle", "length", "payload", "done", "failed"}, begin : Nat, end : Nat,
             pos : Nat, limit : Nat, chunks : Nat]
IdleRequest == [pc |-> "idle", begin |-> 0, end |-> 0, pos |-> 0, limit |-> 0, chunks |-> 0]

Init ==
  /\ index = <<>> /\ head = 0 /\ dataHead = 0
  /\ poll = [b \in Browsers |-> IdlePoll(0)]
  /\ playlist = [b \in Browsers |-> NoPlaylist]
  /\ ts = [b \in Browsers |-> IdleRequest]

-----------------------------------------------------------------------------
(* The writer and the truncation tool *)

AppendRecord(r) ==
  /\ Len(index) < MaxRecords
  /\ Len(index) > 0 => index[Len(index)].offset <= r.offset
  /\ index' = Append(index, r)
  /\ UNCHANGED <<head, dataHead, poll, playlist, ts>>

Truncate(n) ==
  /\ head' = n - 1 /\ dataHead' = index[n].offset
  /\ UNCHANGED <<index, poll, playlist, ts>>

-----------------------------------------------------------------------------
(* get_m3u8_playlist *)

IS == INSTANCE IndexSearch WITH
  Searchers <- Browsers, Times <- {r.ts : r \in Records}, Offsets <- {r.offset : r \in Records},
  Wanted <- {}, BufRecords <- 1, search <- poll

SearchAfter(t) ==
  IS!Answer([IS!IdleSearch EXCEPT !.ts = t, !.method = "After", !.head = head, !.tail = Len(index)])

PollStep(b, p) == poll' = [poll EXCEPT ![b] = p] /\ UNCHANGED <<streamVars, ts>>

Working(b) == poll[b].pc \in {"begin", "end", "read"}

\* begin and end default to MIN and MAX.  assert: begin is not after end.
Poll(b, bounds) ==
  /\ ~Working(b) /\ poll[b].count < MaxPolls
  /\ LET p == IdlePoll(poll[b].count + 1) IN
     PollStep(b, IF bounds[1] <= bounds[2]
                 THEN [p EXCEPT !.pc = "begin", !.list.bounds = bounds]
                 ELSE [p EXCEPT !.pc = "failed"])
  /\ UNCHANGED playlist

PollFails(b) ==
  /\ Working(b)
  /\ PollStep(b, [IdlePoll(poll[b].count) EXCEPT !.pc = "failed"])
  /\ UNCHANGED playlist

\* Mutant: the number of the record among those that are not truncated.
NumberAfterHead(n) == n - head

\* The index has the records since it was created, also those truncated.
MediaSequenceNumber(n) == n

\* The first record, by its number.
SearchBegin(b) ==
  /\ poll[b].pc = "begin" /\ Len(index) > 0
  /\ LET n == SearchAfter(poll[b].list.bounds[1]) IN
     PollStep(b, [poll[b] EXCEPT !.pc = "end", !.next = n,
                                 !.list.number = MediaSequenceNumber(n)])
  /\ UNCHANGED playlist

\* Mutant: one record too many.
SizeBeyond(first, last) == last + 2 - first

\* index_size, which wraps in a release build.
IndexSize(first, last) == (last + 1 - first) % (U64MAX + 1)

\* Mutant: the end is thought to be stored once a record is at it or before.
HasDataUpTo(n, end) == index[n].ts <= end

HaveAllData(n, end) == index[n].ts >= end

SearchEnd(b) ==
  /\ poll[b].pc = "end"
  /\ LET end == poll[b].list.bounds[2]
         n == SearchAfter(end)
     IN PollStep(b, [poll[b] EXCEPT !.pc = "read", !.limit = IndexSize(poll[b].next, n),
                                    !.list.final = HaveAllData(n, end)])
  /\ UNCHANGED playlist

\* Mutant: a timestamp that goes back is not looked for.
DiscontUnlessFlagged(p, q, target) ==
  index[q].discontinuity \/ (index[q].ts - index[p].ts) * 10 > target + 10

\* A flag, a rewind, or a jump well beyond the target duration.
Discont(p, q, target) ==
  \/ index[q].discontinuity
  \/ index[q].ts < index[p].ts
  \/ (index[q].ts - index[p].ts) * 10 > target + 10

Gap == [gap |-> TRUE, discont |-> TRUE, begin |-> 0, end |-> 0]

Segment(p, q, discont) ==
  [gap |-> FALSE, discont |-> discont, begin |-> index[p].offset, end |-> index[q].offset]

\* Mutant: a gap is left out of the playlist.
AddNothing(p, q) == [p EXCEPT !.next_segment_discont = TRUE]

AddGap(p, q) ==
  [p EXCEPT !.list.entries = Append(@, Gap), !.next_segment_discont = TRUE]

\* Mutant: the segment after a gap is not marked.
AddUnmarkedSegment(p, q) ==
  [p EXCEPT !.list.entries = Append(@, Segment(p.prev, q, FALSE)),
            !.target = (@ * 9 + (index[q].ts - index[p.prev].ts) * 10) \div 10]

AddSegment(p, q) ==
  [p EXCEPT !.list.entries = Append(@, Segment(p.prev, q, p.next_segment_discont)),
            !.next_segment_discont = FALSE,
            !.target = (@ * 9 + (index[q].ts - index[p.prev].ts) * 10) \div 10]

AddEntry(p, q) ==
  IF p.prev = 0 THEN p
  ELSE IF Discont(p.prev, q, p.target) THEN AddGap(p, q) ELSE AddSegment(p, q)

\* A read of the next record; one of a truncated record fails, one beyond the
\* tail waits.
ReadRecord(b) ==
  LET p == poll[b] IN
  /\ p.pc = "read" /\ p.limit > 0
  /\ head < p.next /\ p.next <= Len(index)
  /\ PollStep(b, [AddEntry(p, p.next) EXCEPT !.prev = p.next, !.next = @ + 1, !.limit = @ - 1])
  /\ UNCHANGED playlist

\* The end of the Take: the playlist is complete.
Respond(b) ==
  /\ poll[b].pc = "read" /\ poll[b].limit = 0
  /\ PollStep(b, IdlePoll(poll[b].count))
  /\ playlist' = [playlist EXCEPT ![b] = poll[b].list]

-----------------------------------------------------------------------------
(* get_mpeg_transport_stream *)

TsStep(b, r) == ts' = [ts EXCEPT ![b] = r] /\ UNCHANGED <<streamVars, poll, playlist>>

\* Mutant: the limit is the end, not the length.
LimitToEnd(begin, end) == end

Limit(begin, end) == end - begin

\* A browser asks for a segment of its playlist.
TsRequest(b, e) ==
  /\ ts[b].pc \in {"idle", "done", "failed"} /\ ~e.gap
  /\ TsStep(b, [pc |-> "length", begin |-> e.begin, end |-> e.end, pos |-> e.begin,
                limit |-> Limit(e.begin, e.end), chunks |-> 0])

\* Reads of truncated data fail; those at the limit end.
TsLength(b) ==
  LET r == ts[b] IN
  /\ r.pc = "length"
  /\ TsStep(b, IF r.limit = 0 THEN [r EXCEPT !.pc = "done"]
               ELSE IF r.pos < dataHead THEN [r EXCEPT !.pc = "failed"]
               ELSE [r EXCEPT !.pc = "payload", !.pos = @ + 1, !.limit = @ - 1])

TsPayload(b) ==
  LET r == ts[b] IN
  /\ r.pc = "payload"
  /\ TsStep(b, IF r.limit = 0 THEN [r EXCEPT !.pc = "done"]
               ELSE IF r.pos < dataHead THEN [r EXCEPT !.pc = "failed"]
               ELSE [r EXCEPT !.pc = "length", !.pos = @ + 1, !.limit = @ - 1, !.chunks = @ + 1])

-----------------------------------------------------------------------------
PollSteps(b) == SearchBegin(b) \/ SearchEnd(b) \/ ReadRecord(b) \/ Respond(b)

CannotGoOn(b) ==
  \/ poll[b].pc = "begin" /\ index = <<>>
  \/ poll[b].pc = "read" /\ poll[b].limit > 0 /\ poll[b].next <= head

Next ==
  \/ \E r \in Records : AppendRecord(r)
  \/ \E n \in head + 1 .. Len(index) : Truncate(n)
  \/ \E b \in Browsers :
       \/ \E bounds \in Bounds : Poll(b, bounds)
       \/ PollSteps(b) \/ PollFails(b)
       \/ \E i \in DOMAIN playlist[b].entries : TsRequest(b, playlist[b].entries[i])
       \/ TsLength(b) \/ TsPayload(b)

Spec == Init /\ [][Next]_vars

\* A request that can go on goes on.  Nobody has to append.
FairSpec ==
  /\ Spec
  /\ \A b \in Browsers : WF_vars(PollSteps(b) \/ (CannotGoOn(b) /\ PollFails(b)))

-----------------------------------------------------------------------------
(* Properties *)

TypeOK ==
  /\ index \in Seq(Records) /\ head \in Nat /\ dataHead \in Nat
  /\ poll \in [Browsers -> Polls]
  /\ playlist \in [Browsers -> Playlist]
  /\ ts \in [Browsers -> Requests]

\* "Media Sequence Number will always equal the index record number, even after
\* truncation": the entry with number n is about the records n and n + 1, with the
\* gaps counted, whatever was appended or truncated since the two searches.
NumberedByRecord ==
  \A b \in Browsers :
    LET list == playlist[b] IN
    \A i \in DOMAIN list.entries :
      LET e == list.entries[i]
          n == list.number + i - 1
      IN /\ n + 1 <= Len(index)
         /\ ~e.gap => e.begin = index[n].offset /\ e.end = index[n + 1].offset

\* A segment is continuous, and the first one after a gap is marked, so that the
\* browser resets its decoder.
GapsAreMarked ==
  \A b \in Browsers :
    LET list == playlist[b] IN
    \A i \in DOMAIN list.entries :
      ~list.entries[i].gap =>
        LET n == list.number + i - 1 IN
        /\ index[n].ts <= index[n + 1].ts /\ ~index[n + 1].discontinuity
        /\ i > 1 /\ list.entries[i - 1].gap => list.entries[i].discont

\* The last record of a playlist.
LastNumber(list) == list.number + Len(list.entries)

IsSorted == \A i \in 1 .. Len(index) - 1 : index[i].ts < index[i+1].ts

\* "If the caller specified an end time and we already have an index record beyond
\* this, then future appends will not affect our result": with timestamps that
\* increase, what a browser polls after an ENDLIST ends at the same time.
EndListIsFinal ==
  [][\A b \in Browsers :
       (/\ IsSorted /\ playlist[b].final
        /\ playlist'[b].bounds = playlist[b].bounds /\ playlist'[b] # playlist[b]
        /\ playlist'[b].entries # <<>>) =>
         /\ playlist'[b].final
         /\ index[LastNumber(playlist'[b])].ts = index[LastNumber(playlist[b])].ts]_vars

Waits(b) == poll[b].pc = "read" /\ poll[b].limit > 0 /\ poll[b].next > Len(index)

\* "Ensure EOF instead of waiting (potentially forever) for appends when we get to
\* the current end."
NeverWaits == \A b \in Browsers : ~Waits(b)

\* A poll ends without the writer's help, with timestamps that increase.  (With two
\* equal ones the two searches of a poll may already disagree; see NeverWaits.)
PollReturns == \A b \in Browsers : Working(b) ~> ~Working(b) \/ ~IsSorted

\* A segment is served as the whole events between its two records and no others.
ServedWhole ==
  \A b \in Browsers :
    LET r == ts[b] IN
    /\ r.pc # "idle" => r.pos + r.limit = r.end
    /\ r.pc = "done" => r.chunks * EventSize = r.end - r.begin
=============================================================================
