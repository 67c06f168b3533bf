-------------------------- MODULE HlsPlaylistProofs --------------------------
(***************************************************************************)
(* What a playlist says, and what a segment is served as, proved for any   *)
(* number of browsers, every index, and any appends and truncation between *)
(* the steps of a poll.                                                    *)
(*                                                                         *)
(* A poll carries the number of the record that it reads next; the entries *)
(* it has made are about the records from the playlist's number to the one *)
(* before it.  The index is append-only, so what an entry says stays true. *)
(* With timestamps that increase, it also carries the number of the last   *)
(* record it will read, which is that of a playlist with an ENDLIST before *)
(* it, unless the truncation has left it no segment.                       *)
(***************************************************************************)
EXTENDS HlsPlaylist, SequenceTheorems, TLAPS

ISP == INSTANCE IndexSearchProofs WITH
  Searchers <- Browsers, Times <- {r.ts : r \in Records}, Offsets <- {r.offset : r \in Records},
  Wanted <- {}, BufRecords <- 1, search <- poll

\* A search of an index that is not empty finds one of its records.
LEMMA SearchFindsRecord ==
  ASSUME index \in Seq(Records), head \in Nat, head < Len(index), NEW t \in Nat
  PROVE  SearchAfter(t) \in head + 1 .. Len(index)
  <1> DEFINE s == [IS!IdleSearch EXCEPT !.ts = t, !.method = "After",
                                        !.head = head, !.tail = Len(index)]
  <1>1. s \in ISP!Search /\ s.head = head /\ s.tail = Len(index)
    <2>1. Len(index) \in Nat
      OBVIOUS
    <2> DEFINE n == Len(index)
    <2>2. IS!IdleSearch \in ISP!Search
      BY DEF IS!IdleSearch, IS!MIN, ISP!Search, ISP!Methods
    <2> HIDE DEF n
    <2>3. s \in ISP!Search /\ s.head = head /\ s.tail = n
      BY <2>1, <2>2 DEF n, ISP!Search, ISP!Methods
    <2> QED
      BY <2>3 DEF n
  <1>2. \A i \in 1 .. Len(index) : index[i].ts \in Nat
    <2>1. \A r \in Records : r.ts \in Nat
      BY HlsAssumption DEF RecordType
    <2> QED
      BY <2>1
  <1>3. IS!Answer(s) = ISP!Answer(s)
    BY DEF IS!Answer, ISP!Answer, IS!LastIsAnswer, ISP!LastIsAnswer, IS!Choice, ISP!Choice,
      IS!IsFirst, ISP!IsFirst, IS!MIN, ISP!MIN
  <1>4. ISP!Answer(s) \in s.head + 1 .. s.tail
    <2>1. s.head < s.tail /\ \A i \in s.head + 1 .. s.tail : index[i].ts \in Nat
      BY <1>1, <1>2
    <2>2. ISP!SearchAssumption
      BY HlsAssumption DEF ISP!SearchAssumption, RecordType
    <2> HIDE DEF s
    <2> QED
      BY <1>1, <2>1, <2>2, ISP!AnswerIsRecord
  <1> QED
    BY <1>1, <1>3, <1>4 DEF SearchAfter

-----------------------------------------------------------------------------
(* The inductive invariant *)

\* The truncated records are not all; the offsets of the others do not go back.
IndexInv ==
  /\ head = 0 \/ head < Len(index)
  /\ \A i \in 1 .. Len(index) - 1 : index[i].offset <= index[i + 1].offset

\* Entry i of a playlist with this number is about records n and n + 1 of the index x.
EntryOK(x, entries, number, i) ==
  LET n == number + i - 1
      e == entries[i]
  IN /\ n \in 1 .. Len(x) - 1
     /\ ~e.gap =>
          /\ e.begin = x[n].offset /\ e.end = x[n + 1].offset
          /\ x[n].ts <= x[n + 1].ts /\ ~x[n + 1].discontinuity
          /\ (i > 1 /\ entries[i - 1].gap) => e.discont

ListOK(x, list) == \A i \in DOMAIN list.entries : EntryOK(x, list.entries, list.number, i)

\* A poll, between two of its steps.
PollOK(x, p) ==
  /\ p.pc \in {"end", "read"} => p.next \in Nat \ {0} /\ p.next <= Len(x) + 1
  /\ p.pc = "end" => p.next <= Len(x)
  /\ p.pc \in {"begin", "end"} => p.list.bounds \in Bounds /\ p.list.entries = <<>> /\ p.prev = 0
  /\ p.pc = "end" => p.list.number = p.next
  /\ p.pc \in {"end", "read"} => p.list.number >= 1
  /\ p.pc = "read" =>
       /\ ListOK(x, p.list)
       /\ p.prev = 0 => p.list.entries = <<>> /\ p.next = p.list.number
       /\ p.prev # 0 =>
            /\ p.next = p.prev + 1 /\ p.prev <= Len(x)
            /\ p.prev = p.list.number + Len(p.list.entries)
            /\ (Len(p.list.entries) > 0 /\ p.list.entries[Len(p.list.entries)].gap)
                 => p.next_segment_discont

\* A segment, between two of its reads.
RequestOK(r) ==
  r.pc # "idle" =>
    /\ r.pos + r.limit = r.end /\ (r.end - r.begin) % EventSize = 0
    /\ r.pc \in {"length", "done"} => r.pos = r.begin + r.chunks * EventSize
    /\ r.pc = "payload" => r.pos = r.begin + r.chunks * EventSize + 1
    /\ r.pc = "done" => r.limit = 0

\* All of it.
HlsInv ==
  /\ TypeOK /\ IndexInv
  /\ \A b \in Browsers : PollOK(index, poll[b]) /\ ListOK(index, playlist[b]) /\ RequestOK(ts[b])

\* The initial states.
LEMMA HlsInvInit == Init => HlsInv
  <1> SUFFICES ASSUME Init PROVE HlsInv
    OBVIOUS
  <1>1. NoPlaylist \in Playlist /\ NoPlaylist.entries = <<>>
    BY EmptySeq DEF NoPlaylist, Playlist
  <1>2. IdlePoll(0) \in Polls /\ IdlePoll(0).pc = "idle"
    BY <1>1 DEF IdlePoll, Polls, InitialTarget
  <1>3. IdleRequest \in Requests /\ IdleRequest.pc = "idle"
    BY DEF IdleRequest, Requests
  <1>4. index \in Seq(Records) /\ index = <<>> /\ Len(index) = 0
    BY EmptySeq DEF Init
  <1>5. TypeOK
    BY <1>1, <1>2, <1>3, <1>4 DEF Init, TypeOK
  <1>6. IndexInv
    BY <1>4 DEF Init, IndexInv
  <1>7. ASSUME NEW b \in Browsers PROVE PollOK(index, poll[b]) /\ ListOK(index, playlist[b]) /\ RequestOK(ts[b])
    <2>1. PollOK(index, poll[b])
      BY <1>2 DEF Init, PollOK
    <2>2. ListOK(index, playlist[b])
      BY <1>1 DEF Init, ListOK
    <2>3. RequestOK(ts[b])
      BY <1>3 DEF Init, RequestOK
    <2> QED
      BY <2>1, <2>2, <2>3
  <1> QED
    BY <1>5, <1>6, <1>7 DEF HlsInv

-----------------------------------------------------------------------------
(* The writer and the truncation tool *)

\* The index grows at its end, and its head stays below it.
LEMMA IndexGrows ==
  ASSUME HlsInv, index' \in Seq(Records), head' \in Nat, dataHead' \in Nat, IndexInv',
         Len(index) <= Len(index'), \A i \in 1 .. Len(index) : index'[i] = index[i],
         UNCHANGED <<poll, playlist, ts>>
  PROVE  HlsInv'
  <1>1. TypeOK'
    BY DEF HlsInv, TypeOK
  <1>2. Len(index) \in Nat /\ Len(index') \in Nat
    BY DEF HlsInv, TypeOK
  <1>3. ASSUME NEW entries \in Seq(Entry), NEW number \in Nat, NEW i \in DOMAIN entries,
               EntryOK(index, entries, number, i)
        PROVE  EntryOK(index', entries, number, i)
    <2> DEFINE n == number + i - 1
    <2>1. n \in 1 .. Len(index) - 1
      BY <1>3 DEF EntryOK
    <2> HIDE DEF n
    <2>2. n \in 1 .. Len(index) /\ n + 1 \in 1 .. Len(index) /\ n \in 1 .. Len(index') - 1
      BY <1>2, <2>1
    <2>3. index'[n] = index[n] /\ index'[n + 1] = index[n + 1]
      BY <2>2
    <2> QED
      BY <1>3, <2>2, <2>3 DEF EntryOK, n
  <1>4. ASSUME NEW list \in Playlist, ListOK(index, list) PROVE ListOK(index', list)
    <2>1. list.entries \in Seq(Entry) /\ list.number \in Nat
      BY DEF Playlist
    <2> QED
      BY <1>3, <1>4, <2>1 DEF ListOK
  <1>5. ASSUME NEW p \in Polls, PollOK(index, p) PROVE PollOK(index', p)
    <2>1. p.list \in Playlist /\ p.next \in Nat /\ p.prev \in Nat
      BY DEF Polls
    <2>2. ListOK(index, p.list) => ListOK(index', p.list)
      BY <1>4, <2>1
    <2> QED
      BY <1>2, <1>5, <2>1, <2>2 DEF PollOK
  <1>6. ASSUME NEW b \in Browsers
        PROVE  PollOK(index', poll'[b]) /\ ListOK(index', playlist'[b]) /\ RequestOK(ts'[b])
    <2>1. poll[b] \in Polls /\ playlist[b] \in Playlist
      BY DEF HlsInv, TypeOK
    <2>2. PollOK(index, poll[b]) /\ ListOK(index, playlist[b]) /\ RequestOK(ts[b])
      BY DEF HlsInv
    <2> QED
      BY <1>4, <1>5, <2>1, <2>2
  <1> QED
    BY <1>1, <1>6 DEF HlsInv

\* An append or a truncation keeps the invariant.
LEMMA StreamKept ==
  ASSUME HlsInv,
         (\E r \in Records : AppendRecord(r)) \/ (\E n \in head + 1 .. Len(index) : Truncate(n))
  PROVE  HlsInv'
  <1>1. /\ index \in Seq(Records) /\ Len(index) \in Nat /\ head \in Nat /\ dataHead \in Nat /\ IndexInv
        /\ \A i \in 1 .. Len(index) : index[i].offset \in Nat
    <2>1. \A r \in Records : r.offset \in Nat
      BY HlsAssumption DEF RecordType
    <2> QED
      BY <2>1 DEF HlsInv, TypeOK
  <1>2. ASSUME NEW r \in Records, AppendRecord(r) PROVE HlsInv'
    <2>1. /\ index' = Append(index, r) /\ UNCHANGED <<head, dataHead, poll, playlist, ts>>
          /\ Len(index) > 0 => index[Len(index)].offset <= r.offset
      BY <1>2 DEF AppendRecord
    <2>2. /\ index' \in Seq(Records) /\ Len(index') = Len(index) + 1
          /\ \A i \in 1 .. Len(index) : index'[i] = index[i]
          /\ index'[Len(index) + 1] = r
      BY <1>1, <2>1, AppendProperties
    <2>3. IndexInv'
      <3>1. ASSUME NEW i \in 1 .. Len(index') - 1 PROVE index'[i].offset <= index'[i + 1].offset
        <4>1. CASE i = Len(index)
          BY <1>1, <2>1, <2>2, <4>1
        <4>2. CASE i \in 1 .. Len(index) - 1
          BY <1>1, <2>2, <4>2 DEF IndexInv
        <4> QED
          BY <1>1, <2>2, <4>1, <4>2
      <3> QED
        BY <1>1, <2>1, <2>2, <3>1 DEF IndexInv
    <2>4. Len(index) <= Len(index')
      BY <1>1, <2>2
    <2> QED
      BY <1>1, <2>1, <2>2, <2>3, <2>4, IndexGrows
  <1>3. ASSUME NEW n \in head + 1 .. Len(index), Truncate(n) PROVE HlsInv'
    <2>1. /\ head' = n - 1 /\ dataHead' = index[n].offset /\ UNCHANGED <<index, poll, playlist, ts>>
      BY <1>3 DEF Truncate
    <2>2. n \in 1 .. Len(index) /\ head' \in Nat /\ dataHead' \in Nat
      BY <1>1, <2>1
    <2>3. IndexInv'
      BY <1>1, <2>1, <2>2 DEF IndexInv
    <2> QED
      BY <1>1, <2>1, <2>2, <2>3, IndexGrows
  <1> QED
    BY <1>2, <1>3
-----------------------------------------------------------------------------
(* get_m3u8_playlist *)

\* A step of a poll keeps the invariant if its own part of it holds after the step.
LEMMA PollKept ==
  ASSUME HlsInv, NEW b \in Browsers, NEW p \in Polls, PollOK(index, p), PollStep(b, p),
         UNCHANGED playlist
  PROVE  HlsInv'
  <1>1. /\ poll' = [poll EXCEPT ![b] = p] /\ UNCHANGED <<index, head, dataHead, playlist, ts>>
        /\ poll \in [Browsers -> Polls]
    BY DEF PollStep, streamVars, HlsInv, TypeOK
  <1>2. TypeOK' /\ IndexInv'
    BY <1>1 DEF HlsInv, TypeOK, IndexInv
  <1>3. ASSUME NEW c \in Browsers
        PROVE  PollOK(index', poll'[c]) /\ ListOK(index', playlist'[c]) /\ RequestOK(ts'[c])
    <2>1. poll'[c] = IF c = b THEN p ELSE poll[c]
      BY <1>1
    <2> QED
      BY <1>1, <2>1 DEF HlsInv
  <1> QED
    BY <1>2, <1>3 DEF HlsInv

\* A playlist that ends with a new entry is good if the entry is.
LEMMA EntryAdded ==
  ASSUME NEW x, NEW list \in Playlist, ListOK(x, list), NEW e \in Entry, NEW more \in Seq(Entry),
         more = Append(list.entries, e), EntryOK(x, more, list.number, Len(list.entries) + 1)
  PROVE  \A i \in DOMAIN more : EntryOK(x, more, list.number, i)
  <1> DEFINE entries == list.entries
             len == Len(entries)
  <1>1. entries \in Seq(Entry) /\ len \in Nat /\ DOMAIN entries = 1 .. len
    BY DEF Playlist
  <1>2. /\ Len(more) = len + 1 /\ DOMAIN more = 1 .. len + 1
        /\ \A i \in 1 .. len : more[i] = entries[i]
    BY <1>1, AppendProperties
  <1> SUFFICES ASSUME NEW i \in DOMAIN more PROVE EntryOK(x, more, list.number, i)
    OBVIOUS
  <1>3. CASE i = len + 1
    BY <1>3
  <1>4. CASE i \in 1 .. len
    <2>1. EntryOK(x, entries, list.number, i)
      BY <1>1, <1>4 DEF ListOK
    <2>2. more[i] = entries[i] /\ (i > 1 => more[i - 1] = entries[i - 1])
      BY <1>1, <1>2, <1>4
    <2> QED
      BY <2>1, <2>2 DEF EntryOK
  <1> QED
    BY <1>1, <1>2, <1>3, <1>4

\* A record that is read adds the entry about itself and the one before it.
LEMMA ReadRecordKept ==
  ASSUME HlsInv, NEW b \in Browsers, ReadRecord(b)
  PROVE  HlsInv'
  <1> DEFINE p == poll[b]
             q == p.next
  <1>1. /\ p \in Polls /\ p.pc = "read" /\ p.limit > 0 /\ q \in 1 .. Len(index)
        /\ Len(index) \in Nat /\ PollOK(index, p) /\ UNCHANGED playlist
        /\ p.limit \in Nat /\ p.prev \in Nat /\ p.target \in Nat /\ p.list \in Playlist
        /\ p.next_segment_discont \in BOOLEAN
        /\ p.list.entries \in Seq(Entry) /\ p.list.number \in Nat /\ q = p.next
    BY DEF ReadRecord, HlsInv, TypeOK, Polls, PollOK, Playlist
  <1>2. PollStep(b, [AddEntry(p, q) EXCEPT !.prev = q, !.next = @ + 1, !.limit = @ - 1])
    BY DEF ReadRecord
  <1>3. \A i \in 1 .. Len(index) :
          index[i].ts \in Nat /\ index[i].offset \in Nat /\ index[i].discontinuity \in BOOLEAN
    <2>1. \A r \in Records : r.ts \in Nat /\ r.offset \in Nat /\ r.discontinuity \in BOOLEAN
      BY HlsAssumption DEF RecordType
    <2>2. index \in Seq(Records)
      BY DEF HlsInv, TypeOK
    <2> QED
      BY <2>1, <2>2
  <1>4. p.limit - 1 \in Nat /\ q + 1 \in Nat
    BY <1>1
  <1> HIDE DEF p, q
  <1>5. CASE p.prev = 0
    <2> DEFINE n == [p EXCEPT !.prev = q, !.next = q + 1, !.limit = p.limit - 1]
    <2>1. PollStep(b, n)
      <3>1. AddEntry(p, q) = p
        BY <1>5 DEF AddEntry
      <3>2. [p EXCEPT !.prev = q, !.next = @ + 1, !.limit = @ - 1] = n
        BY <1>1 DEF Polls
      <3> HIDE DEF n
      <3> QED
        BY <1>2, <3>1, <3>2
    <2>2. n \in Polls
      BY <1>1, <1>4 DEF Polls
    <2>3. /\ n.pc = "read" /\ n.prev = q /\ n.next = q + 1 /\ n.list = p.list
          /\ p.list.entries = <<>> /\ q = p.list.number
      BY <1>1, <1>5 DEF Polls, PollOK
    <2> HIDE DEF n
    <2>4. PollOK(index, n)
      <3>1. Len(p.list.entries) = 0
        BY <2>3
      <3> QED
        BY <1>1, <2>3, <3>1 DEF PollOK
    <2> QED
      BY <1>1, <2>1, <2>2, <2>4, PollKept
  <1>6. CASE p.prev # 0
    <2> DEFINE len == Len(p.list.entries)
    <2>1. /\ q = p.prev + 1 /\ p.prev = p.list.number + len /\ ListOK(index, p.list)
          /\ (len > 0 /\ p.list.entries[len].gap) => p.next_segment_discont
          /\ len \in Nat /\ p.list.number >= 1
      BY <1>1, <1>6 DEF PollOK
    <2>7. ASSUME NEW e \in Entry
          PROVE  /\ Append(p.list.entries, e) \in Seq(Entry) /\ Len(Append(p.list.entries, e)) = len + 1
                 /\ Append(p.list.entries, e)[len + 1] = e
                 /\ len > 0 => Append(p.list.entries, e)[len] = p.list.entries[len]
      <3>1. /\ Append(p.list.entries, e) \in Seq(Entry) /\ Len(Append(p.list.entries, e)) = len + 1
            /\ Append(p.list.entries, e)[len + 1] = e
            /\ \A i \in 1 .. len : Append(p.list.entries, e)[i] = p.list.entries[i]
        BY <1>1, AppendProperties
      <3>2. len > 0 => len \in 1 .. len
        BY <2>1
      <3> QED
        BY <3>1, <3>2
    <2> HIDE DEF len
    \* What either kind of entry makes of the poll.
    <2>2. ASSUME NEW e \in Entry, NEW d \in BOOLEAN, NEW t \in Nat,
                 EntryOK(index, Append(p.list.entries, e), p.list.number, len + 1), e.gap => d,
                 PollStep(b, [p EXCEPT !.list.entries = Append(p.list.entries, e),
                                       !.next_segment_discont = d, !.target = t,
                                       !.prev = q, !.next = q + 1, !.limit = p.limit - 1])
          PROVE  HlsInv'
      <3> DEFINE more == Append(p.list.entries, e)
                 list == [p.list EXCEPT !.entries = more]
                 n == [p EXCEPT !.list = list, !.next_segment_discont = d, !.target = t,
                                !.prev = q, !.next = q + 1, !.limit = p.limit - 1]
      <3>1. /\ more \in Seq(Entry) /\ Len(more) = len + 1 /\ more[len + 1] = e
        BY <2>7
      <3>2. list \in Playlist /\ list.entries = more /\ list.number = p.list.number
        BY <1>1, <3>1 DEF Playlist
      <3>3. ListOK(index, list)
        <4>1. \A i \in DOMAIN more : EntryOK(index, more, p.list.number, i)
          BY <1>1, <2>1, <2>2, <3>1, EntryAdded DEF len
        <4> QED
          BY <3>2, <4>1 DEF ListOK
      <3> HIDE DEF more
      <3>4. PollStep(b, n)
        <4>1. [p EXCEPT !.list.entries = more, !.next_segment_discont = d, !.target = t,
                        !.prev = q, !.next = q + 1, !.limit = p.limit - 1] = n
          BY <1>1 DEF Polls
        <4> HIDE DEF n
        <4> QED
          BY <2>2, <4>1 DEF more
      <3> HIDE DEF list
      <3>5. n \in Polls
        BY <1>1, <1>4, <3>2 DEF Polls
      <3>6. /\ n.pc = "read" /\ n.prev = q /\ n.next = q + 1 /\ n.list = list
            /\ n.next_segment_discont = d
        BY <1>1 DEF Polls
      <3> HIDE DEF n
      <3>7. PollOK(index, n)
        <4>1. q = list.number + Len(list.entries) /\ Len(list.entries) = len + 1
          <5>1. q = p.list.number + (len + 1)
            <6>1. p.list.number \in Nat /\ len \in Nat
              BY <1>1, <2>1
            <6>2. q = (p.list.number + len) + 1
              BY <2>1
            <6> QED
              BY <6>1, <6>2
          <5> QED
            BY <3>1, <3>2, <5>1
        <4>2. list.entries[Len(list.entries)].gap => d
          BY <2>2, <3>1, <3>2, <4>1
        <4> QED
          <5>1. /\ q + 1 \in Nat \ {0} /\ q + 1 <= Len(index) + 1 /\ list.number >= 1
                /\ q # 0 /\ q <= Len(index)
            <6>1. q \in Nat /\ 1 <= q /\ q <= Len(index) /\ Len(index) \in Nat
              BY <1>1
            <6>2. list.number >= 1
              BY <2>1, <3>2
            <6> QED
              BY <6>1, <6>2
          <5> QED
            BY <3>3, <3>6, <4>1, <4>2, <5>1 DEF PollOK
      <3> QED
        BY <1>1, <3>4, <3>5, <3>7, PollKept
    <2>3. p.list.number + (len + 1) - 1 = p.prev /\ p.prev \in 1 .. Len(index) - 1
      BY <1>1, <1>6, <2>1
    <2>4. CASE Discont(p.prev, q, p.target)
      <3>1. Gap \in Entry /\ Gap.gap = TRUE
        BY DEF Gap, Entry
      <3> DEFINE more == Append(p.list.entries, Gap)
      <3>2. more[len + 1] = Gap
        BY <2>7, <3>1
      <3>3. EntryOK(index, more, p.list.number, len + 1)
        BY <2>3, <3>1, <3>2 DEF EntryOK
      <3> HIDE DEF more
      <3>4. AddEntry(p, q) = [p EXCEPT !.list.entries = more, !.next_segment_discont = TRUE]
        BY <1>6, <2>4 DEF AddEntry, AddGap, more
      <3>5. PollStep(b, [p EXCEPT !.list.entries = more,
                                  !.next_segment_discont = TRUE, !.target = p.target,
                                  !.prev = q, !.next = q + 1, !.limit = p.limit - 1])
        <4> DEFINE a == AddEntry(p, q)
        <4>1. a = [p EXCEPT !.list.entries = more, !.next_segment_discont = TRUE, !.target = p.target]
          BY <1>1, <3>4 DEF Polls
        <4>2. a.next = q /\ a.limit = p.limit
          BY <1>1, <4>1 DEF Polls
        <4> HIDE DEF a
        <4>3. PollStep(b, [a EXCEPT !.prev = q, !.next = q + 1, !.limit = p.limit - 1])
          BY <1>2, <4>2 DEF a
        <4> QED
          BY <4>1, <4>3
      <3> QED
        BY <1>1, <2>2, <3>1, <3>3, <3>5 DEF more
    <2>5. CASE ~Discont(p.prev, q, p.target)
      <3> DEFINE e == Segment(p.prev, q, p.next_segment_discont)
                 t == (p.target * 9 + (index[q].ts - index[p.prev].ts) * 10) \div 10
                 more == Append(p.list.entries, e)
      <3>1. /\ index[p.prev].ts <= index[q].ts /\ ~index[q].discontinuity
            /\ p.prev \in 1 .. Len(index) /\ index[q].ts \in Nat /\ index[p.prev].ts \in Nat
        <4>1. p.prev \in 1 .. Len(index)
          BY <1>1, <2>3
        <4>2. index[q].ts \in Nat /\ index[p.prev].ts \in Nat
          BY <1>1, <1>3, <4>1
        <4>3. ~(index[q].ts < index[p.prev].ts) /\ ~index[q].discontinuity
          BY <2>5 DEF Discont
        <4> QED
          BY <4>1, <4>2, <4>3
      <3>2. /\ e \in Entry /\ e.gap = FALSE /\ e.discont = p.next_segment_discont
            /\ e.begin = index[p.prev].offset /\ e.end = index[q].offset
        BY <1>1, <1>3, <3>1 DEF Segment, Entry
      <3>3. t \in Nat
        <4>1. ASSUME NEW a \in Nat, NEW c \in Nat, NEW d \in Nat, c <= d
              PROVE  (a * 9 + (d - c) * 10) \div 10 \in Nat
          BY <4>1
        <4> QED
          BY <1>1, <3>1, <4>1
      <3>4. more[len + 1] = e /\ (len > 0 => more[len] = p.list.entries[len])
        BY <2>7, <3>2
      <3>5. EntryOK(index, more, p.list.number, len + 1)
        <4>1. (len + 1) - 1 = len /\ (len + 1 > 1 => len > 0) /\ p.prev + 1 = q
          BY <2>1
        <4> HIDE DEF e, more
        <4> QED
          BY <2>1, <2>3, <3>1, <3>2, <3>4, <4>1 DEF EntryOK
      <3> HIDE DEF e, more, t
      <3>6. AddEntry(p, q) = [p EXCEPT !.list.entries = more, !.next_segment_discont = FALSE,
                                       !.target = t]
        BY <1>6, <2>5 DEF AddEntry, AddSegment, more, e, t
      <3>7. PollStep(b, [p EXCEPT !.list.entries = more,
                                  !.next_segment_discont = FALSE, !.target = t,
                                  !.prev = q, !.next = q + 1, !.limit = p.limit - 1])
        BY <1>1, <1>2, <3>6 DEF Polls
      <3> QED
        BY <1>1, <2>2, <3>2, <3>3, <3>5, <3>7 DEF more
    <2> QED
      BY <2>4, <2>5
  <1> QED
    BY <1>5, <1>6

\* A poll that begins, searches or fails.
LEMMA SearchesKept ==
  ASSUME HlsInv, NEW b \in Browsers,
         (\E bounds \in Bounds : Poll(b, bounds)) \/ SearchBegin(b) \/ SearchEnd(b) \/ PollFails(b)
  PROVE  HlsInv'
  <1> DEFINE p == poll[b]
  <1>1. /\ p \in Polls /\ PollOK(index, p) /\ p.count \in Nat /\ p.list \in Playlist
        /\ index \in Seq(Records) /\ Len(index) \in Nat /\ head \in Nat /\ IndexInv
    BY DEF HlsInv, TypeOK, Polls
  <1>2. ASSUME NEW n \in Nat, NEW pc \in {"idle", "failed"}
        PROVE  /\ [IdlePoll(n) EXCEPT !.pc = pc] \in Polls
               /\ PollOK(index, [IdlePoll(n) EXCEPT !.pc = pc])
    <2>1. NoPlaylist \in Playlist
      BY EmptySeq DEF NoPlaylist, Playlist
    <2>2. IdlePoll(n) \in Polls
      BY <2>1 DEF IdlePoll, Polls, InitialTarget
    <2>3. [IdlePoll(n) EXCEPT !.pc = pc] \in Polls /\ [IdlePoll(n) EXCEPT !.pc = pc].pc = pc
      BY <2>2 DEF Polls
    <2> QED
      BY <2>3 DEF PollOK
  <1>3. ASSUME NEW bounds \in Bounds, Poll(b, bounds) PROVE HlsInv'
    <2>1. p.count + 1 \in Nat
      BY <1>1
    <2> DEFINE i == IdlePoll(p.count + 1)
    <2>2. CASE ~(bounds[1] <= bounds[2])
      BY <1>2, <1>3, <2>1, <2>2, PollKept DEF Poll
    <2>3. CASE bounds[1] <= bounds[2]
      <3> DEFINE l == [NoPlaylist EXCEPT !.bounds = bounds]
                 n == [i EXCEPT !.pc = "begin", !.list = l]
      <3>1. i \in Polls /\ i.list = NoPlaylist /\ i.prev = 0
        <4>1. NoPlaylist \in Playlist
          BY EmptySeq DEF NoPlaylist, Playlist
        <4> QED
          BY <2>1, <4>1 DEF IdlePoll, Polls, InitialTarget
      <3>2. NoPlaylist \in Playlist /\ NoPlaylist.entries = <<>>
        BY EmptySeq DEF NoPlaylist, Playlist
      <3>3. l \in Playlist /\ l.entries = <<>> /\ l.bounds \in Bounds
        BY <3>2 DEF Playlist
      <3>4. PollStep(b, [i EXCEPT !.pc = "begin", !.list.bounds = bounds]) /\ UNCHANGED playlist
        BY <1>3, <2>3 DEF Poll
      <3> HIDE DEF i
      <3>5. [i EXCEPT !.pc = "begin", !.list.bounds = bounds] = n
        BY <3>1 DEF Polls
      <3> HIDE DEF l
      <3>6. n \in Polls /\ n.pc = "begin" /\ n.list = l /\ n.prev = 0
        BY <3>1, <3>3 DEF Polls
      <3> HIDE DEF n
      <3>7. PollOK(index, n)
        BY <3>3, <3>6 DEF PollOK
      <3> QED
        BY <3>4, <3>5, <3>6, <3>7, PollKept
    <2> QED
      BY <2>2, <2>3
  <1>4. CASE PollFails(b)
    BY <1>1, <1>2, <1>4, PollKept DEF PollFails
  <1>5. CASE SearchBegin(b)
    <2> DEFINE n == SearchAfter(p.list.bounds[1])
               l == [p.list EXCEPT !.number = n]
               r == [p EXCEPT !.pc = "end", !.next = n, !.list = l]
    <2>1. /\ p.pc = "begin" /\ Len(index) > 0 /\ p.list.entries = <<>> /\ p.prev = 0
          /\ p.list.bounds \in Bounds
      BY <1>1, <1>5 DEF SearchBegin, PollOK
    <2>2. n \in 1 .. Len(index)
      <3>1. head < Len(index)
        BY <1>1, <2>1 DEF IndexInv
      <3>2. p.list.bounds[1] \in Nat
        BY <2>1, HlsAssumption
      <3>3. n \in head + 1 .. Len(index)
        BY <1>1, <3>1, <3>2, SearchFindsRecord
      <3> QED
        BY <1>1, <3>3
    <2>3. PollStep(b, [p EXCEPT !.pc = "end", !.next = n, !.list.number = n]) /\ UNCHANGED playlist
      BY <1>5 DEF SearchBegin, MediaSequenceNumber
    <2> HIDE DEF p, n
    <2>4. [p EXCEPT !.pc = "end", !.next = n, !.list.number = n] = r
      BY <1>1 DEF Polls
    <2>5. l \in Playlist /\ l.entries = <<>> /\ l.number = n /\ n \in Nat /\ l.bounds = p.list.bounds
      BY <1>1, <2>1, <2>2 DEF Playlist
    <2> HIDE DEF l
    <2>6. r \in Polls /\ r.pc = "end" /\ r.next = n /\ r.list = l /\ r.prev = 0
      BY <1>1, <2>1, <2>5 DEF Polls
    <2> HIDE DEF r
    <2>7. PollOK(index, r)
      <3>1. n \in Nat \ {0} /\ n <= Len(index) + 1 /\ n <= Len(index) /\ n >= 1
        BY <1>1, <2>2
      <3> QED
        BY <2>1, <2>5, <2>6, <3>1 DEF PollOK
    <2> QED
      BY <2>3, <2>4, <2>6, <2>7, PollKept
  <1>6. CASE SearchEnd(b)
    <2> DEFINE n == SearchAfter(p.list.bounds[2])
               f == HaveAllData(n, p.list.bounds[2])
               m == IndexSize(p.next, n)
               l == [p.list EXCEPT !.final = f]
               r == [p EXCEPT !.pc = "read", !.limit = m, !.list = l]
    <2>1. /\ p.pc = "end" /\ p.list.entries = <<>> /\ p.prev = 0 /\ p.next \in 1 .. Len(index)
          /\ p.list.number = p.next /\ p.list.bounds \in Bounds
      BY <1>1, <1>6 DEF SearchEnd, PollOK
    <2>2. n \in 1 .. Len(index)
      <3>1. head < Len(index)
        BY <1>1, <2>1 DEF IndexInv
      <3>2. p.list.bounds[2] \in Nat
        BY <2>1, HlsAssumption
      <3>3. n \in head + 1 .. Len(index)
        BY <1>1, <3>1, <3>2, SearchFindsRecord
      <3> QED
        BY <1>1, <3>3
    <2>3. m \in Nat /\ f \in BOOLEAN
      <3>1. \A i \in Int : i % (U64MAX + 1) \in Nat
        BY HlsAssumption
      <3>2. n + 1 - p.next \in Int
        BY <1>1, <2>1, <2>2
      <3> QED
        BY <3>1, <3>2 DEF IndexSize, HaveAllData
    <2>4. PollStep(b, [p EXCEPT !.pc = "read", !.limit = m, !.list.final = f]) /\ UNCHANGED playlist
      BY <1>6 DEF SearchEnd
    <2> HIDE DEF p, n, m, f
    <2>5. [p EXCEPT !.pc = "read", !.limit = m, !.list.final = f] = r
      BY <1>1 DEF Polls
    <2>6. l \in Playlist /\ l.entries = <<>> /\ l.number = p.next
      BY <1>1, <2>1, <2>3 DEF Playlist
    <2> HIDE DEF l
    <2>7. r \in Polls /\ r.pc = "read" /\ r.next = p.next /\ r.list = l /\ r.prev = 0
      BY <1>1, <2>1, <2>3, <2>6 DEF Polls
    <2> HIDE DEF r
    <2>8. PollOK(index, r)
      <3>1. p.next \in Nat \ {0} /\ p.next <= Len(index) + 1 /\ p.next >= 1
        BY <1>1, <2>1
      <3>2. ListOK(index, l)
        BY <2>6 DEF ListOK
      <3> QED
        BY <2>6, <2>7, <3>1, <3>2 DEF PollOK
    <2> QED
      BY <2>4, <2>5, <2>7, <2>8, PollKept
  <1> QED
    BY <1>3, <1>4, <1>5, <1>6

\* A complete playlist is the browser's.
LEMMA RespondKept ==
  ASSUME HlsInv, NEW b \in Browsers, Respond(b)
  PROVE  HlsInv'
  <1> DEFINE p == poll[b]
             i == IdlePoll(p.count)
  <1>1. /\ p \in Polls /\ p.pc = "read" /\ p.list \in Playlist /\ ListOK(index, p.list) /\ p.count \in Nat
        /\ poll' = [poll EXCEPT ![b] = i] /\ playlist' = [playlist EXCEPT ![b] = p.list]
        /\ UNCHANGED <<index, head, dataHead, ts>>
        /\ poll \in [Browsers -> Polls] /\ playlist \in [Browsers -> Playlist]
    BY DEF Respond, PollStep, streamVars, HlsInv, TypeOK, Polls, PollOK
  <1>2. i \in Polls /\ i.pc = "idle"
    <2>1. NoPlaylist \in Playlist
      BY EmptySeq DEF NoPlaylist, Playlist
    <2> QED
      BY <1>1, <2>1 DEF IdlePoll, Polls, InitialTarget
  <1> HIDE DEF p, i
  <1>3. PollOK(index, i)
    BY <1>2 DEF PollOK
  <1>4. TypeOK' /\ IndexInv'
    BY <1>1, <1>2 DEF HlsInv, TypeOK, IndexInv
  <1>5. ASSUME NEW c \in Browsers
        PROVE  PollOK(index', poll'[c]) /\ ListOK(index', playlist'[c]) /\ RequestOK(ts'[c])
    <2>1. /\ poll'[c] = IF c = b THEN i ELSE poll[c]
          /\ playlist'[c] = IF c = b THEN p.list ELSE playlist[c]
      BY <1>1
    <2> QED
      BY <1>1, <1>3, <2>1 DEF HlsInv
  <1> QED
    BY <1>4, <1>5 DEF HlsInv

-----------------------------------------------------------------------------
(* get_mpeg_transport_stream *)

\* A step of a request keeps the invariant if its own part of it holds after the step.
LEMMA TsKept ==
  ASSUME HlsInv, NEW b \in Browsers, NEW r \in Requests, RequestOK(r), TsStep(b, r)
  PROVE  HlsInv'
  <1>1. /\ ts' = [ts EXCEPT ![b] = r] /\ UNCHANGED <<index, head, dataHead, poll, playlist>>
        /\ ts \in [Browsers -> Requests]
    BY DEF TsStep, streamVars, HlsInv, TypeOK
  <1>2. TypeOK' /\ IndexInv'
    BY <1>1 DEF HlsInv, TypeOK, IndexInv
  <1>3. ASSUME NEW c \in Browsers
        PROVE  PollOK(index', poll'[c]) /\ ListOK(index', playlist'[c]) /\ RequestOK(ts'[c])
    <2>1. ts'[c] = IF c = b THEN r ELSE ts[c]
      BY <1>1
    <2> QED
      BY <1>1, <2>1 DEF HlsInv
  <1> QED
    BY <1>2, <1>3 DEF HlsInv

\* A segment begins and ends at an event, and does not end before it begins.
LEMMA SegmentInOrder ==
  ASSUME HlsInv, NEW b \in Browsers, NEW i \in DOMAIN playlist[b].entries,
         ~playlist[b].entries[i].gap
  PROVE  LET e == playlist[b].entries[i] IN
         e.begin \in Nat /\ e.end \in Nat /\ e.begin <= e.end /\ (e.end - e.begin) % EventSize = 0
  <1> DEFINE n == playlist[b].number + i - 1
             e == playlist[b].entries[i]
  <1>1. n \in 1 .. Len(index) - 1 /\ e.begin = index[n].offset /\ e.end = index[n + 1].offset
    BY DEF HlsInv, ListOK, EntryOK
  <1> HIDE DEF n, e
  <1>2. index \in Seq(Records) /\ index[n].offset <= index[n + 1].offset
    BY <1>1 DEF HlsInv, TypeOK, IndexInv
  <1>3. index[n] \in Records /\ index[n + 1] \in Records
    <2>1. n \in 1 .. Len(index) /\ n + 1 \in 1 .. Len(index)
      BY <1>1, <1>2
    <2> QED
      BY <1>2, <2>1
  <1>4. \A r \in Records : r.offset \in Nat /\ r.offset % 2 = 0
    BY HlsAssumption DEF RecordType, EventSize
  <1>5. /\ e.begin \in Nat /\ e.end \in Nat /\ e.begin % 2 = 0 /\ e.end % 2 = 0 /\ e.begin <= e.end
    BY <1>1, <1>2, <1>3, <1>4
  <1> QED
    BY <1>5 DEF e, EventSize

\* Every step of a request keeps the invariant.
LEMMA TsStepsKept ==
  ASSUME HlsInv, NEW b \in Browsers,
         \/ \E i \in DOMAIN playlist[b].entries : TsRequest(b, playlist[b].entries[i])
         \/ TsLength(b) \/ TsPayload(b)
  PROVE  HlsInv'
  <1>1. ASSUME NEW i \in DOMAIN playlist[b].entries, TsRequest(b, playlist[b].entries[i])
        PROVE  HlsInv'
    <2> DEFINE e == playlist[b].entries[i]
               r == [pc |-> "length", begin |-> e.begin, end |-> e.end, pos |-> e.begin,
                     limit |-> e.end - e.begin, chunks |-> 0]
    <2>1. TsStep(b, r) /\ ~e.gap
      BY <1>1 DEF TsRequest, Limit
    <2>2. e.begin \in Nat /\ e.end \in Nat /\ e.begin <= e.end /\ (e.end - e.begin) % EventSize = 0
      BY <2>1, SegmentInOrder
    <2> HIDE DEF e
    <2>3. r \in Requests
      BY <2>2 DEF Requests
    <2>4. RequestOK(r)
      BY <2>2 DEF RequestOK, EventSize
    <2> QED
      BY <2>1, <2>3, <2>4, TsKept
  <1> DEFINE r == ts[b]
  <1>2. /\ r \in Requests /\ RequestOK(r) /\ r.pos \in Nat /\ r.limit \in Nat /\ r.chunks \in Nat
        /\ r.begin \in Nat /\ r.end \in Nat
    BY DEF HlsInv, TypeOK, Requests
  <1> HIDE DEF r
  <1>3. \A pc \in {"done", "failed"} :
          /\ [r EXCEPT !.pc = pc] \in Requests /\ [r EXCEPT !.pc = pc].pc = pc
          /\ [r EXCEPT !.pc = pc].pos = r.pos /\ [r EXCEPT !.pc = pc].limit = r.limit
          /\ [r EXCEPT !.pc = pc].begin = r.begin /\ [r EXCEPT !.pc = pc].end = r.end
          /\ [r EXCEPT !.pc = pc].chunks = r.chunks
    BY <1>2 DEF Requests
  <1>4. CASE TsLength(b)
    <2>1. r.pc = "length" /\ r.pos + r.limit = r.end /\ (r.end - r.begin) % EventSize = 0
          /\ r.pos = r.begin + r.chunks * EventSize
      BY <1>2, <1>4 DEF TsLength, RequestOK, r
    <2>2. CASE r.limit = 0
      BY <1>2, <1>3, <1>4, <2>1, <2>2, TsKept DEF TsLength, RequestOK, r
    <2>3. CASE r.limit # 0 /\ r.pos < dataHead
      BY <1>2, <1>3, <1>4, <2>1, <2>3, TsKept DEF TsLength, RequestOK, r
    <2>4. CASE r.limit # 0 /\ ~(r.pos < dataHead)
      <3> DEFINE n == [r EXCEPT !.pc = "payload", !.pos = @ + 1, !.limit = @ - 1]
      <3>1. TsStep(b, n)
        BY <1>4, <2>4 DEF TsLength, r
      <3>2. n \in Requests
        <4>1. r.pos + 1 \in Nat /\ r.limit - 1 \in Nat
          BY <1>2, <2>4
        <4> QED
          BY <1>2, <4>1 DEF Requests
      <3>3. /\ n.pc = "payload" /\ n.pos = r.pos + 1 /\ n.limit = r.limit - 1 /\ n.begin = r.begin
            /\ n.end = r.end /\ n.chunks = r.chunks
        BY <1>2 DEF Requests
      <3> HIDE DEF n
      <3>4. RequestOK(n)
        BY <1>2, <2>1, <3>3 DEF RequestOK, EventSize
      <3> QED
        BY <3>1, <3>2, <3>4, TsKept
    <2> QED
      BY <2>2, <2>3, <2>4
  <1>5. CASE TsPayload(b)
    <2>1. r.pc = "payload" /\ r.pos + r.limit = r.end /\ (r.end - r.begin) % EventSize = 0
          /\ r.pos = r.begin + r.chunks * EventSize + 1
      BY <1>2, <1>5 DEF TsPayload, RequestOK, r
    <2>2. r.limit # 0
      BY <1>2, <2>1 DEF EventSize
    <2>3. CASE r.pos < dataHead
      BY <1>2, <1>3, <1>5, <2>1, <2>2, <2>3, TsKept DEF TsPayload, RequestOK, r
    <2>4. CASE ~(r.pos < dataHead)
      <3> DEFINE n == [r EXCEPT !.pc = "length", !.pos = @ + 1, !.limit = @ - 1, !.chunks = @ + 1]
      <3>1. TsStep(b, n)
        BY <1>5, <2>2, <2>4 DEF TsPayload, r
      <3>2. n \in Requests
        <4>1. r.pos + 1 \in Nat /\ r.limit - 1 \in Nat /\ r.chunks + 1 \in Nat
          BY <1>2, <2>2
        <4> QED
          BY <1>2, <4>1 DEF Requests
      <3>3. /\ n.pc = "length" /\ n.pos = r.pos + 1 /\ n.limit = r.limit - 1 /\ n.begin = r.begin
            /\ n.end = r.end /\ n.chunks = r.chunks + 1
        BY <1>2 DEF Requests
      <3> HIDE DEF n
      <3>4. RequestOK(n)
        BY <1>2, <2>1, <3>3 DEF RequestOK, EventSize
      <3> QED
        BY <3>1, <3>2, <3>4, TsKept
    <2> QED
      BY <2>3, <2>4
  <1> QED
    BY <1>1, <1>4, <1>5

-----------------------------------------------------------------------------
(* The theorems *)

\* The invariant holds of every state that the polls and the requests of any number of
\* browsers, the writer and the truncation tool reach.
THEOREM HlsInvariant == Spec => []HlsInv
  <1>1. HlsInv /\ [Next]_vars => HlsInv'
    <2> SUFFICES ASSUME HlsInv, [Next]_vars PROVE HlsInv'
      OBVIOUS
    <2>1. CASE UNCHANGED vars
      BY <2>1 DEF vars, streamVars, HlsInv, TypeOK, IndexInv
    <2>2. CASE (\E r \in Records : AppendRecord(r)) \/ (\E n \in head + 1 .. Len(index) : Truncate(n))
      BY <2>2, StreamKept
    <2>3. ASSUME NEW b \in Browsers,
                 \/ \E bounds \in Bounds : Poll(b, bounds)
                 \/ PollSteps(b) \/ PollFails(b)
                 \/ \E i \in DOMAIN playlist[b].entries : TsRequest(b, playlist[b].entries[i])
                 \/ TsLength(b) \/ TsPayload(b)
          PROVE  HlsInv'
      BY <2>3, SearchesKept, ReadRecordKept, RespondKept, TsStepsKept DEF PollSteps
    <2> QED
      BY <2>1, <2>2, <2>3 DEF Next
  <1> QED
    BY <1>1, HlsInvInit, PTL DEF Spec

\* An entry's media sequence number is the number of its record, the gaps counted, whatever
\* was appended or truncated since get_m3u8_playlist searched for the first one.
THEOREM HlsNumberedByRecord == Spec => []NumberedByRecord
  <1>1. HlsInv => NumberedByRecord
    <2> SUFFICES ASSUME HlsInv, NEW b \in Browsers, NEW i \in DOMAIN playlist[b].entries
                 PROVE  LET e == playlist[b].entries[i]
                            n == playlist[b].number + i - 1
                        IN /\ n + 1 <= Len(index)
                           /\ ~e.gap => e.begin = index[n].offset /\ e.end = index[n + 1].offset
      BY DEF NumberedByRecord
    <2>1. EntryOK(index, playlist[b].entries, playlist[b].number, i) /\ Len(index) \in Nat
      BY DEF HlsInv, ListOK, TypeOK
    <2> QED
      BY <2>1 DEF EntryOK
  <1> QED
    BY <1>1, HlsInvariant, PTL

\* A segment is continuous, and the one after a gap is marked as a discontinuity.
THEOREM HlsGapsAreMarked == Spec => []GapsAreMarked
  <1>1. HlsInv => GapsAreMarked
    <2> SUFFICES ASSUME HlsInv, NEW b \in Browsers, NEW i \in DOMAIN playlist[b].entries,
                        ~playlist[b].entries[i].gap
                 PROVE  LET n == playlist[b].number + i - 1 IN
                        /\ index[n].ts <= index[n + 1].ts /\ ~index[n + 1].discontinuity
                        /\ i > 1 /\ playlist[b].entries[i - 1].gap => playlist[b].entries[i].discont
      BY DEF GapsAreMarked
    <2>1. EntryOK(index, playlist[b].entries, playlist[b].number, i)
      BY DEF HlsInv, ListOK
    <2> QED
      BY <2>1 DEF EntryOK
  <1> QED
    BY <1>1, HlsInvariant, PTL

\* get_mpeg_transport_stream serves the whole events between two records and no others.
THEOREM HlsServedWhole == Spec => []ServedWhole
  <1>1. HlsInv => ServedWhole
    <2> SUFFICES ASSUME HlsInv, NEW b \in Browsers
                 PROVE  /\ ts[b].pc # "idle" => ts[b].pos + ts[b].limit = ts[b].end
                        /\ ts[b].pc = "done" => ts[b].chunks * EventSize = ts[b].end - ts[b].begin
      BY DEF ServedWhole
    <2>1. RequestOK(ts[b]) /\ ts[b] \in Requests
      BY DEF HlsInv, TypeOK
    <2> QED
      BY <2>1 DEF RequestOK, Requests, EventSize
  <1> QED
    BY <1>1, HlsInvariant, PTL

-----------------------------------------------------------------------------
(* The end of a playlist *)

\* Every record before n, of those that are left, is before t.
AllBefore(n, t) == \A m \in head + 1 .. n - 1 : index[m].ts < t

\* A playlist with an ENDLIST ends at the first record that is not before its end.
ListEnds(list) ==
  list.final =>
    /\ LastNumber(list) \in 1 .. Len(index) /\ list.bounds \in Bounds
    /\ index[LastNumber(list)].ts >= list.bounds[2] /\ AllBefore(LastNumber(list), list.bounds[2])

\* The last record that a poll will read.
LastToRead(p) == p.next + p.limit - 1

PollEnds(p) ==
  /\ p.pc \in {"begin", "end"} => p.list.bounds[1] <= p.list.bounds[2]
  /\ p.pc = "end" => AllBefore(p.next, p.list.bounds[1])
  /\ p.pc = "read" =>
       /\ LastToRead(p) \in 1 .. Len(index) /\ (p.limit > 0 \/ p.prev # 0)
       /\ p.list.bounds \in Bounds
       /\ p.list.final = (index[LastToRead(p)].ts >= p.list.bounds[2])
       /\ AllBefore(LastToRead(p), p.list.bounds[2])

\* A poll that has no segment for the browser: at most a record to read, or one that is truncated.
NoEntries(p) ==
  /\ p.list.entries = <<>>
  /\ p.limit = 0 \/ (p.prev = 0 /\ (p.limit = 1 \/ p.next <= head))

SameEnd(list, p) ==
  (p.pc = "read" /\ list.final /\ p.list.bounds = list.bounds) =>
    LastToRead(p) = LastNumber(list) \/ NoEntries(p)

EndInv ==
  /\ Len(index) <= MaxRecords
  /\ IsSorted => \A b \in Browsers :
       ListEnds(playlist[b]) /\ PollEnds(poll[b]) /\ SameEnd(playlist[b], poll[b])

LEMMA HlsTypes ==
  ASSUME HlsInv
  PROVE  /\ index \in Seq(Records) /\ Len(index) \in Nat /\ head \in Nat
         /\ head < Len(index) \/ index = <<>> \/ head = 0
         /\ \A i \in 1 .. Len(index) : index[i].ts \in Nat
         /\ \A bounds \in Bounds : bounds[1] \in Nat /\ bounds[2] \in Nat
         /\ U64MAX \in Nat /\ MaxRecords \in Nat /\ MaxRecords <= U64MAX
<1>1. index \in Seq(Records) /\ Len(index) \in Nat /\ head \in Nat /\ IndexInv
  BY DEF HlsInv, TypeOK
<1>2. \A r \in Records : r.ts \in Nat
  BY HlsAssumption DEF RecordType
<1> QED
  BY <1>1, <1>2, HlsAssumption DEF IndexInv

\* A set of natural numbers has a least one.
LEMMA LeastNumber ==
  ASSUME NEW T \in SUBSET Nat, T # {}
  PROVE  \E n \in T : \A m \in T : n <= m
<1>1. ISP!SearchAssumption
  BY HlsAssumption DEF ISP!SearchAssumption, RecordType
<1> QED
  BY <1>1, ISP!LeastOf, Zenon

\* Timestamps that increase from one record to the next increase.
LEMMA StrictPairs ==
  ASSUME HlsInv, IsSorted, NEW i \in 1 .. Len(index), NEW j \in 1 .. Len(index), i < j
  PROVE  index[i].ts < index[j].ts
<1>1. Len(index) \in Nat /\ \A k \in 1 .. Len(index) : index[k].ts \in Nat
  BY HlsTypes
<1> DEFINE T == {k \in i + 1 .. Len(index) : ~(index[i].ts < index[k].ts)}
<1>2. T \in SUBSET Nat
  BY <1>1
<1>3. ASSUME T # {} PROVE FALSE
  <2>1. PICK k \in T : \A m \in T : k <= m
    BY <1>2, <1>3, LeastNumber
  <2>2. k \in i + 1 .. Len(index) /\ k - 1 \in 1 .. Len(index) - 1 /\ (k - 1) + 1 = k
    BY <1>1, <2>1
  <2>3. index[k - 1].ts < index[k].ts
    BY <2>2 DEF IsSorted
  <2>4. k # i + 1
    BY <1>1, <2>1, <2>3
  <2>5. k - 1 \in i + 1 .. Len(index) /\ k - 1 \notin T
    BY <1>1, <2>1, <2>2, <2>4
  <2>6. index[i].ts < index[k - 1].ts
    BY <2>5
  <2>7. index[i].ts \in Nat /\ index[k - 1].ts \in Nat /\ index[k].ts \in Nat
    BY <1>1, <2>2
  <2> QED
    BY <2>1, <2>3, <2>6, <2>7
<1> QED
  BY <1>1, <1>3

\* In an index in order, a search finds the first record that is not before the time, or the last.
LEMMA SearchSorted ==
  ASSUME HlsInv, IsSorted, head < Len(index), NEW t \in Nat
  PROVE  /\ SearchAfter(t) \in head + 1 .. Len(index)
         /\ index[SearchAfter(t)].ts >= t \/ SearchAfter(t) = Len(index)
         /\ AllBefore(SearchAfter(t), t)
<1> DEFINE s == [IS!IdleSearch EXCEPT !.ts = t, !.method = "After", !.head = head, !.tail = Len(index)]
           c == CHOOSE n \in head + 1 .. Len(index) : IS!IsFirst(n, head + 1, t)
<1>0. /\ index \in Seq(Records) /\ Len(index) \in Nat /\ head \in Nat
      /\ \A i \in 1 .. Len(index) : index[i].ts \in Nat
  BY HlsTypes
<1>1. s.ts = t /\ s.method = "After" /\ s.head = head /\ s.tail = Len(index)
  BY DEF IS!IdleSearch
<1>2. SearchAfter(t) = IF IS!LastIsAnswer(s) THEN Len(index) ELSE c
  <2> HIDE DEF s
  <2>1. IS!Answer(s) = IF IS!LastIsAnswer(s) THEN Len(index) ELSE IS!Choice(s, c)
    BY <1>1 DEF IS!Answer
  <2>2. IS!Choice(s, c) = c
    BY <1>1 DEF IS!Choice
  <2> QED
    BY <2>1, <2>2 DEF SearchAfter, s
<1> HIDE DEF s
<1>3. CASE IS!LastIsAnswer(s)
  <2>1. index[Len(index)].ts <= t
    BY <1>1, <1>3 DEF IS!LastIsAnswer
  <2>2. ASSUME NEW m \in head + 1 .. Len(index) - 1 PROVE index[m].ts < t
    <3>1. m \in 1 .. Len(index) /\ Len(index) \in 1 .. Len(index) /\ m < Len(index)
      BY <1>0
    <3>2. index[m].ts < index[Len(index)].ts
      BY <3>1, StrictPairs
    <3> QED
      BY <1>0, <2>1, <3>1, <3>2
  <2> QED
    BY <1>0, <1>2, <1>3, <2>2 DEF AllBefore
<1>4. CASE ~IS!LastIsAnswer(s)
  <2> DEFINE T == {n \in head + 1 .. Len(index) : index[n].ts >= t}
  <2>1. T # {} /\ T \in SUBSET Nat
    <3>1. CASE t <= 0
      <4>1. head + 1 \in head + 1 .. Len(index) /\ head + 1 \in 1 .. Len(index)
        BY <1>0
      <4>2. index[head + 1].ts >= t
        BY <1>0, <3>1, <4>1
      <4> QED
        BY <1>0, <4>1, <4>2
    <3>2. CASE t > 0
      <4>1. ~(index[Len(index)].ts <= t)
        BY <1>1, <1>4, <3>2 DEF IS!LastIsAnswer, IS!MIN
      <4>2. Len(index) \in head + 1 .. Len(index) /\ index[Len(index)].ts >= t
        BY <1>0, <4>1
      <4> QED
        BY <1>0, <4>2
    <3> QED
      BY <3>1, <3>2
  <2>2. PICK n \in T : \A m \in T : n <= m
    BY <2>1, LeastNumber
  <2>3. IS!IsFirst(n, head + 1, t) /\ n \in head + 1 .. Len(index)
    <3>1. ASSUME NEW m \in head + 1 .. n - 1 PROVE index[m].ts < t
      <4>1. m \in head + 1 .. Len(index) /\ m \notin T
        BY <1>0, <2>2
      <4>2. index[m].ts \in Nat
        BY <1>0, <4>1
      <4> QED
        BY <4>1, <4>2
    <3> QED
      BY <2>2, <3>1 DEF IS!IsFirst
  <2>4. c \in head + 1 .. Len(index) /\ IS!IsFirst(c, head + 1, t)
    BY <2>3
  <2> HIDE DEF c, T
  <2> QED
    BY <1>2, <1>4, <2>4 DEF IS!IsFirst, AllBefore
<1> QED
  BY <1>3, <1>4

-----------------------------------------------------------------------------
(* The steps *)

LEMMA EndInvInit == Init => EndInv
<1> SUFFICES ASSUME Init PROVE EndInv
  OBVIOUS
<1>1. Len(index) <= MaxRecords
  BY HlsAssumption DEF Init
<1>2. ASSUME NEW b \in Browsers PROVE playlist[b].final = FALSE /\ poll[b].pc = "idle"
  BY DEF Init, NoPlaylist, IdlePoll
<1> QED
  BY <1>1, <1>2 DEF EndInv, ListEnds, PollEnds, SameEnd

\* More records and fewer of the old ones change nothing.
LEMMA EndStreamKept ==
  ASSUME HlsInv, EndInv, NEW more \in Seq(Records), NEW h \in Nat, index' = more, head' = h, head <= h,
         Len(index) <= Len(more), Len(more) <= MaxRecords, \A i \in 1 .. Len(index) : more[i] = index[i],
         UNCHANGED <<poll, playlist>>
  PROVE  EndInv'
<1> SUFFICES ASSUME IsSorted', NEW b \in Browsers
             PROVE  ListEnds(playlist[b])' /\ PollEnds(poll[b])' /\ SameEnd(playlist[b], poll[b])'
  BY DEF EndInv
<1>1. Len(index) \in Nat /\ head \in Nat /\ Len(more) \in Nat
  BY HlsTypes
<1>2. IsSorted
  <2> SUFFICES ASSUME NEW i \in 1 .. Len(index) - 1 PROVE index[i].ts < index[i + 1].ts
    BY DEF IsSorted
  <2>1. i \in 1 .. Len(more) - 1 /\ i \in 1 .. Len(index) /\ i + 1 \in 1 .. Len(index)
    BY <1>1
  <2>2. more[i].ts < more[i + 1].ts
    BY <2>1 DEF IsSorted
  <2> QED
    BY <2>1, <2>2
<1>3. ListEnds(playlist[b]) /\ PollEnds(poll[b]) /\ SameEnd(playlist[b], poll[b])
  BY <1>2 DEF EndInv
<1>4. ASSUME NEW n \in 1 .. Len(index), NEW t, AllBefore(n, t)
      PROVE  \A m \in h + 1 .. n - 1 : more[m].ts < t
  <2> SUFFICES ASSUME NEW m \in h + 1 .. n - 1 PROVE more[m].ts < t
    OBVIOUS
  <2>1. m \in head + 1 .. n - 1 /\ m \in 1 .. Len(index)
    BY <1>1
  <2> QED
    BY <1>4, <2>1 DEF AllBefore
<1>5. \A n \in 1 .. Len(index) : n \in 1 .. Len(more) /\ more[n] = index[n]
  BY <1>1
<1>6. playlist'[b] = playlist[b] /\ poll'[b] = poll[b]
  OBVIOUS
<1>7. ListEnds(playlist[b])'
  <2> SUFFICES ASSUME NEW list, list = playlist[b], list.final,
                      NEW n, n = LastNumber(list), NEW t, t = list.bounds[2]
               PROVE  /\ n \in 1 .. Len(more) /\ list.bounds \in Bounds /\ more[n].ts >= t
                      /\ \A m \in h + 1 .. n - 1 : more[m].ts < t
    BY <1>6 DEF ListEnds, AllBefore, LastNumber
  <2>1. n \in 1 .. Len(index) /\ list.bounds \in Bounds /\ index[n].ts >= t /\ AllBefore(n, t)
    BY <1>3 DEF ListEnds
  <2> QED
    BY <1>4, <1>5, <2>1
<1>8. PollEnds(poll[b])'
  <2> SUFFICES ASSUME NEW p, p = poll[b]
               PROVE  /\ p.pc \in {"begin", "end"} => p.list.bounds[1] <= p.list.bounds[2]
                      /\ p.pc = "end" => \A m \in h + 1 .. p.next - 1 : more[m].ts < p.list.bounds[1]
                      /\ p.pc = "read" =>
                           /\ LastToRead(p) \in 1 .. Len(more) /\ (p.limit > 0 \/ p.prev # 0)
                           /\ p.list.bounds \in Bounds
                           /\ p.list.final = (more[LastToRead(p)].ts >= p.list.bounds[2])
                           /\ \A m \in h + 1 .. LastToRead(p) - 1 : more[m].ts < p.list.bounds[2]
    BY <1>6 DEF PollEnds, AllBefore, LastToRead
  <2>1. p.pc = "end" => p.next \in 1 .. Len(index)
    BY <1>1 DEF HlsInv, PollOK
  <2>2. PollEnds(p)
    BY <1>3
  <2>3. ASSUME p.pc = "end" PROVE \A m \in h + 1 .. p.next - 1 : more[m].ts < p.list.bounds[1]
    BY <1>4, <2>1, <2>2, <2>3 DEF PollEnds
  <2>4. ASSUME p.pc = "read"
        PROVE  /\ LastToRead(p) \in 1 .. Len(more) /\ (p.limit > 0 \/ p.prev # 0)
               /\ p.list.bounds \in Bounds
               /\ p.list.final = (more[LastToRead(p)].ts >= p.list.bounds[2])
               /\ \A m \in h + 1 .. LastToRead(p) - 1 : more[m].ts < p.list.bounds[2]
    <3> DEFINE n == LastToRead(p)
    <3>1. /\ n \in 1 .. Len(index) /\ (p.limit > 0 \/ p.prev # 0) /\ p.list.bounds \in Bounds
          /\ p.list.final = (index[n].ts >= p.list.bounds[2]) /\ AllBefore(n, p.list.bounds[2])
      BY <2>2, <2>4 DEF PollEnds
    <3> HIDE DEF n
    <3>2. /\ n \in 1 .. Len(more) /\ more[n] = index[n]
          /\ \A m \in h + 1 .. n - 1 : more[m].ts < p.list.bounds[2]
      BY <1>4, <1>5, <3>1
    <3> QED
      BY <3>1, <3>2 DEF n
  <2> QED
    BY <2>2, <2>3, <2>4 DEF PollEnds
<1>9. SameEnd(playlist[b], poll[b])'
  <2>1. poll[b].next \in Nat
    BY DEF HlsInv, TypeOK, Polls
  <2>2. poll[b].next <= head => poll[b].next <= h
    BY <1>1, <2>1
  <2> QED
    BY <1>3, <1>6, <2>2 DEF SameEnd, LastToRead, LastNumber, NoEntries
<1> QED
  BY <1>7, <1>8, <1>9

LEMMA EndStreamSteps ==
  ASSUME HlsInv, EndInv,
         (\E r \in Records : AppendRecord(r)) \/ (\E n \in head + 1 .. Len(index) : Truncate(n))
  PROVE  EndInv'
<1>1. index \in Seq(Records) /\ Len(index) \in Nat /\ head \in Nat /\ MaxRecords \in Nat
      /\ Len(index) <= MaxRecords
  BY HlsTypes DEF EndInv
<1>2. ASSUME NEW r \in Records, AppendRecord(r) PROVE EndInv'
  <2> SUFFICES ASSUME NEW more, more = Append(index, r) PROVE EndInv'
    OBVIOUS
  <2>1. index' = more /\ head' = head /\ UNCHANGED <<poll, playlist>> /\ Len(index) < MaxRecords
    BY <1>2 DEF AppendRecord
  <2>2. more \in Seq(Records) /\ Len(more) = Len(index) + 1 /\ \A i \in 1 .. Len(index) : more[i] = index[i]
    BY <1>1
  <2>3. head <= head /\ Len(index) <= Len(more) /\ Len(more) <= MaxRecords
    BY <1>1, <2>1, <2>2
  <2> QED
    BY <1>1, <2>1, <2>2, <2>3, EndStreamKept
<1>3. ASSUME NEW n \in head + 1 .. Len(index), Truncate(n) PROVE EndInv'
  <2> SUFFICES ASSUME NEW h \in Nat, h = n - 1 PROVE EndInv'
    BY <1>1
  <2>1. index' = index /\ head' = h /\ UNCHANGED <<poll, playlist>>
    BY <1>3 DEF Truncate
  <2>2. head <= h /\ Len(index) <= Len(index)
    BY <1>1
  <2> QED
    BY <1>1, <2>1, <2>2, EndStreamKept
<1> QED
  BY <1>2, <1>3

\* A step of a poll keeps the invariant if its own part of it holds after the step.
LEMMA EndPollKept ==
  ASSUME HlsInv, EndInv, NEW b \in Browsers, NEW p,
         IsSorted => PollEnds(p) /\ SameEnd(playlist[b], p),
         PollStep(b, p), UNCHANGED playlist
  PROVE  EndInv'
<1>1. poll' = [poll EXCEPT ![b] = p] /\ UNCHANGED <<index, head, playlist>> /\ poll \in [Browsers -> Polls]
  BY DEF PollStep, streamVars, HlsInv, TypeOK
<1> SUFFICES ASSUME IsSorted, NEW c \in Browsers
             PROVE  ListEnds(playlist[c])' /\ PollEnds(poll[c])' /\ SameEnd(playlist[c], poll[c])'
  BY <1>1 DEF EndInv, IsSorted
<1>2. poll'[c] = IF c = b THEN p ELSE poll[c]
  BY <1>1
<1>3. ListEnds(playlist[c]) /\ PollEnds(poll[c]) /\ SameEnd(playlist[c], poll[c])
  BY DEF EndInv
<1>4. ListEnds(playlist[c])'
  BY <1>1, <1>3 DEF ListEnds, AllBefore, LastNumber
<1>5. CASE c = b
  BY <1>1, <1>2, <1>4, <1>5 DEF PollEnds, SameEnd, AllBefore, LastToRead, LastNumber, NoEntries
<1>6. CASE c # b
  BY <1>1, <1>2, <1>3, <1>4, <1>6 DEF PollEnds, SameEnd, AllBefore, LastToRead, LastNumber, NoEntries
<1> QED
  BY <1>5, <1>6

LEMMA EndPollStarts ==
  ASSUME HlsInv, EndInv, NEW b \in Browsers, (\E bounds \in Bounds : Poll(b, bounds)) \/ PollFails(b)
  PROVE  EndInv'
<1>1. ASSUME NEW p, PollStep(b, p), UNCHANGED playlist, p.pc \in {"idle", "begin", "failed"},
             p.pc = "begin" => p.list.bounds[1] <= p.list.bounds[2]
      PROVE  EndInv'
  <2>1. PollEnds(p) /\ SameEnd(playlist[b], p)
    BY <1>1 DEF PollEnds, SameEnd
  <2> QED
    BY <1>1, <2>1, EndPollKept
<1>2. CASE PollFails(b)
  <2> DEFINE p == [IdlePoll(poll[b].count) EXCEPT !.pc = "failed"]
  <2>1. PollStep(b, p) /\ UNCHANGED playlist
    BY <1>2 DEF PollFails
  <2>2. p.pc = "failed"
    BY DEF IdlePoll
  <2> HIDE DEF p
  <2> QED
    BY <1>1, <2>1, <2>2
<1>3. ASSUME NEW bounds \in Bounds, Poll(b, bounds) PROVE EndInv'
  <2> DEFINE i == IdlePoll(poll[b].count + 1)
             p == IF bounds[1] <= bounds[2]
                  THEN [i EXCEPT !.pc = "begin", !.list.bounds = bounds]
                  ELSE [i EXCEPT !.pc = "failed"]
  <2>1. PollStep(b, p) /\ UNCHANGED playlist
    BY <1>3 DEF Poll
  <2>2. p.pc \in {"begin", "failed"} /\ (p.pc = "begin" => bounds[1] <= bounds[2] /\ p.list.bounds = bounds)
    BY DEF IdlePoll, NoPlaylist
  <2> HIDE DEF p
  <2> QED
    BY <1>1, <2>1, <2>2
<1> QED
  BY <1>2, <1>3

\* What a poll finds as its first record.
LEMMA EndSearchBegin ==
  ASSUME HlsInv, EndInv, NEW b \in Browsers, SearchBegin(b)
  PROVE  EndInv'
<1> SUFFICES ASSUME NEW p, p = poll[b], NEW n, n = SearchAfter(p.list.bounds[1]) PROVE EndInv'
  OBVIOUS
<1> DEFINE r == [p EXCEPT !.pc = "end", !.next = n, !.list.number = MediaSequenceNumber(n)]
<1>1. PollStep(b, r) /\ UNCHANGED playlist /\ p.pc = "begin" /\ Len(index) > 0
  BY DEF SearchBegin
<1>2. p \in Polls /\ p.list.bounds \in Bounds
  BY <1>1 DEF HlsInv, TypeOK, PollOK
<1>3. r.pc = "end" /\ r.next = n /\ r.list.bounds = p.list.bounds
  BY <1>2 DEF Polls, Playlist
<1> HIDE DEF r
<1>4. ASSUME IsSorted PROVE PollEnds(r) /\ SameEnd(playlist[b], r)
  <2>1. p.list.bounds[1] <= p.list.bounds[2]
    BY <1>1, <1>4 DEF EndInv, PollEnds
  <2>2. head < Len(index) /\ p.list.bounds[1] \in Nat
    BY <1>1, <1>2, HlsTypes
  <2>3. AllBefore(n, p.list.bounds[1])
    BY <1>4, <2>2, SearchSorted
  <2> QED
    BY <1>3, <2>1, <2>3 DEF PollEnds, SameEnd
<1> QED
  BY <1>1, <1>4, EndPollKept

\* As its last one: that of the playlist before, or the first that is left.
LEMMA EndSearchEnd ==
  ASSUME HlsInv, EndInv, NEW b \in Browsers, SearchEnd(b)
  PROVE  EndInv'
<1> SUFFICES ASSUME NEW p, p = poll[b], NEW t, t = p.list.bounds[2], NEW n, n = SearchAfter(t),
                    NEW f, f = HaveAllData(n, t), NEW m, m = IndexSize(p.next, n)
             PROVE  EndInv'
  OBVIOUS
<1> DEFINE r == [p EXCEPT !.pc = "read", !.limit = m, !.list.final = f]
<1>1. PollStep(b, r) /\ UNCHANGED playlist /\ p.pc = "end"
  BY DEF SearchEnd
<1>2. /\ p \in Polls /\ p.list.bounds \in Bounds /\ p.next \in Nat \ {0} /\ p.next <= Len(index)
      /\ p.prev = 0 /\ p.list.entries = <<>>
  BY <1>1 DEF HlsInv, TypeOK, PollOK
<1>3. /\ r.pc = "read" /\ r.next = p.next /\ r.limit = m /\ r.prev = 0 /\ r.list.bounds = p.list.bounds
      /\ r.list.final = f /\ r.list.entries = <<>>
  BY <1>2 DEF Polls, Playlist
<1> HIDE DEF r
<1>4. ASSUME IsSorted PROVE PollEnds(r) /\ SameEnd(playlist[b], r)
  <2>1. /\ Len(index) \in Nat /\ head \in Nat /\ head < Len(index) /\ t \in Nat
        /\ p.list.bounds[1] \in Nat
        /\ \A i \in 1 .. Len(index) : index[i].ts \in Nat
    <3>1. Len(index) > 0
      BY <1>2, HlsTypes
    <3> QED
      BY <1>2, <3>1, HlsTypes
  <2>2. n \in head + 1 .. Len(index) /\ (index[n].ts >= t \/ n = Len(index)) /\ AllBefore(n, t)
    BY <1>4, <2>1, SearchSorted
  <2>3. p.list.bounds[1] <= t /\ AllBefore(p.next, p.list.bounds[1])
    BY <1>1, <1>4 DEF EndInv, PollEnds
  \* The last is not before the first.
  <2>4. p.next <= n
    <3> SUFFICES ASSUME n < p.next PROVE FALSE
      BY <1>2, <2>1, <2>2
    <3>1. n \in head + 1 .. p.next - 1 /\ n # Len(index) /\ n \in 1 .. Len(index)
      BY <1>2, <2>1, <2>2
    <3>2. index[n].ts < p.list.bounds[1] /\ index[n].ts >= t /\ index[n].ts \in Nat
      BY <2>1, <2>2, <2>3, <3>1 DEF AllBefore
    <3> QED
      BY <2>1, <2>3, <3>2
  <2>5. m = n + 1 - p.next
    <3>1. n + 1 - p.next \in 0 .. U64MAX /\ U64MAX \in Nat
      <4>1. Len(index) <= MaxRecords /\ MaxRecords <= U64MAX /\ U64MAX \in Nat /\ MaxRecords \in Nat
        BY HlsTypes DEF EndInv
      <4> QED
        BY <1>2, <2>1, <2>2, <2>4, <4>1
    <3>2. (n + 1 - p.next) % (U64MAX + 1) = n + 1 - p.next
      BY <3>1
    <3> QED
      BY <3>2 DEF IndexSize
  <2>6. LastToRead(r) = n /\ m > 0
    BY <1>2, <1>3, <2>1, <2>2, <2>4, <2>5 DEF LastToRead
  <2>7. f = (index[n].ts >= t)
    BY DEF HaveAllData
  <2>8. PollEnds(r)
    <3>1. n \in 1 .. Len(index)
      BY <2>1, <2>2
    <3> QED
      BY <1>2, <1>3, <2>2, <2>6, <2>7, <3>1 DEF PollEnds
  <2>9. SameEnd(playlist[b], r)
    <3> SUFFICES ASSUME NEW list, list = playlist[b], list.final, list.bounds = p.list.bounds,
                        NEW z, z = LastNumber(list)
                 PROVE  n = z \/ NoEntries(r)
      BY <1>3, <2>6 DEF SameEnd
    <3>1. z \in 1 .. Len(index) /\ index[z].ts >= t
      BY <1>4 DEF EndInv, ListEnds
    <3>2. CASE z > head
      <4>1. CASE z < n
        <5>1. index[z].ts < t
          <6>1. z \in head + 1 .. n - 1
            BY <2>1, <2>2, <3>1, <3>2, <4>1
          <6> QED
            BY <2>2, <6>1 DEF AllBefore
        <5> QED
          BY <2>1, <3>1, <5>1
      <4>2. CASE n < z
        <5>1. n # Len(index) /\ n \in 1 .. Len(index)
          BY <2>1, <2>2, <3>1, <4>2
        \* The search of the playlist before found none between its head and z.
        <5>2. AllBefore(z, t)
          BY <1>4 DEF EndInv, ListEnds
        <5>3. n \in head + 1 .. z - 1
          BY <2>1, <2>2, <3>1, <4>2
        <5>4. index[n].ts < t /\ index[n].ts >= t
          BY <2>2, <5>1, <5>2, <5>3 DEF AllBefore
        <5> QED
          BY <2>1, <5>1, <5>4
      <4> QED
        BY <2>1, <2>2, <3>1, <4>1, <4>2
    <3>3. CASE z <= head
      <4>1. head + 1 \in 1 .. Len(index) /\ z < head + 1
        BY <2>1, <3>1, <3>3
      <4>2. index[head + 1].ts >= t
        <5>1. index[z].ts < index[head + 1].ts
          BY <1>4, <3>1, <4>1, StrictPairs
        <5>2. index[z].ts \in Nat /\ index[head + 1].ts \in Nat
          BY <2>1, <3>1, <4>1
        <5> QED
          BY <2>1, <3>1, <5>1, <5>2
      <4>3. n = head + 1
        <5> SUFFICES ASSUME n # head + 1 PROVE FALSE
          OBVIOUS
        <5>1. head + 1 \in head + 1 .. n - 1
          BY <2>1, <2>2
        <5>2. index[head + 1].ts < t /\ index[head + 1].ts \in Nat
          BY <2>1, <2>2, <4>1, <5>1 DEF AllBefore
        <5> QED
          BY <2>1, <4>2, <5>2
      <4>4. m = 1 \/ p.next <= head
        BY <1>2, <2>1, <2>4, <2>5, <4>3
      <4> QED
        BY <1>3, <4>4 DEF NoEntries
    <3> QED
      BY <2>1, <3>1, <3>2, <3>3
  <2> QED
    BY <2>8, <2>9
<1> QED
  BY <1>1, <1>4, EndPollKept

\* Reading moves towards the last record.
LEMMA EndReadRecord ==
  ASSUME HlsInv, EndInv, NEW b \in Browsers, ReadRecord(b)
  PROVE  EndInv'
<1> SUFFICES ASSUME NEW p, p = poll[b] PROVE EndInv'
  OBVIOUS
<1> DEFINE a == AddEntry(p, p.next)
           r == [a EXCEPT !.prev = p.next, !.next = @ + 1, !.limit = @ - 1]
<1>1. PollStep(b, r) /\ UNCHANGED playlist /\ p.pc = "read" /\ p.limit > 0 /\ head < p.next
  BY DEF ReadRecord
<1>2. p \in Polls /\ p.next \in Nat /\ p.limit \in Nat /\ head \in Nat /\ p.next # 0
  <2>1. p \in Polls /\ PollOK(index, p)
    BY DEF HlsInv, TypeOK
  <2> QED
    BY <1>1, <2>1, HlsTypes DEF Polls, PollOK
<1>3. /\ a.pc = "read" /\ a.next = p.next /\ a.limit = p.limit /\ a.list.bounds = p.list.bounds
      /\ a.list.final = p.list.final /\ (p.prev = 0 => a.list = p.list)
      /\ DOMAIN a = DOMAIN p
  BY <1>1, <1>2 DEF AddEntry, AddGap, AddSegment, Polls, Playlist
<1> HIDE DEF a
<1>4. /\ r.pc = "read" /\ r.next = p.next + 1 /\ r.limit = p.limit - 1 /\ r.prev = p.next
      /\ r.list = a.list
  BY <1>2, <1>3 DEF Polls
<1> HIDE DEF r
<1>5. LastToRead(r) = LastToRead(p)
  BY <1>2, <1>4 DEF LastToRead
<1>6. ASSUME IsSorted PROVE PollEnds(r) /\ SameEnd(playlist[b], r)
  <2>1. PollEnds(p) /\ SameEnd(playlist[b], p)
    BY <1>6 DEF EndInv
  <2>2. PollEnds(r)
    BY <1>1, <1>2, <1>3, <1>4, <1>5, <2>1 DEF PollEnds
  <2>3. ASSUME NoEntries(p) PROVE NoEntries(r)
    <3>1. p.prev = 0 /\ p.limit = 1 /\ p.list.entries = <<>>
      BY <1>1, <1>2, <2>3 DEF NoEntries
    <3> QED
      BY <1>3, <1>4, <3>1 DEF NoEntries
  <2>4. SameEnd(playlist[b], r)
    BY <1>1, <1>3, <1>4, <1>5, <2>1, <2>3 DEF SameEnd
  <2> QED
    BY <2>2, <2>4
<1> QED
  BY <1>1, <1>6, EndPollKept

\* The last record that was to be read is the last of the playlist.
LEMMA LastIsRead ==
  ASSUME HlsInv, EndInv, IsSorted, NEW b \in Browsers, Respond(b)
  PROVE  LastNumber(poll[b].list) = LastToRead(poll[b])
<1> SUFFICES ASSUME NEW p, p = poll[b] PROVE LastNumber(p.list) = LastToRead(p)
  OBVIOUS
<1>1. p.pc = "read" /\ p.limit = 0 /\ p \in Polls /\ PollOK(index, p) /\ PollEnds(p)
  BY DEF Respond, HlsInv, TypeOK, EndInv
<1>2. p.prev # 0 /\ p.prev \in Nat /\ p.next = p.prev + 1 /\ p.prev = LastNumber(p.list)
  BY <1>1 DEF PollEnds, PollOK, Polls, LastNumber
<1> QED
  BY <1>1, <1>2 DEF LastToRead

LEMMA EndRespond ==
  ASSUME HlsInv, EndInv, NEW b \in Browsers, Respond(b)
  PROVE  EndInv'
<1> SUFFICES ASSUME NEW p, p = poll[b] PROVE EndInv'
  OBVIOUS
<1>1. /\ p.pc = "read" /\ p.limit = 0 /\ poll \in [Browsers -> Polls] /\ playlist \in [Browsers -> Playlist]
      /\ UNCHANGED <<index, head>> /\ poll' = [poll EXCEPT ![b] = IdlePoll(p.count)]
      /\ playlist' = [playlist EXCEPT ![b] = p.list]
  BY DEF Respond, PollStep, streamVars, HlsInv, TypeOK
<1> SUFFICES ASSUME IsSorted, NEW c \in Browsers
             PROVE  ListEnds(playlist[c])' /\ PollEnds(poll[c])' /\ SameEnd(playlist[c], poll[c])'
  BY <1>1 DEF EndInv, IsSorted
<1>2. /\ poll'[c] = (IF c = b THEN IdlePoll(p.count) ELSE poll[c])
      /\ playlist'[c] = (IF c = b THEN p.list ELSE playlist[c])
  BY <1>1
<1>3. CASE c = b
  <2>1. poll'[c].pc = "idle"
    BY <1>2, <1>3 DEF IdlePoll
  <2>2. PollEnds(p) /\ LastNumber(p.list) = LastToRead(p)
    BY LastIsRead DEF EndInv
  <2>3. ListEnds(p.list)
    <3>1. /\ LastToRead(p) \in 1 .. Len(index) /\ p.list.bounds \in Bounds
          /\ p.list.final = (index[LastToRead(p)].ts >= p.list.bounds[2])
          /\ AllBefore(LastToRead(p), p.list.bounds[2])
      BY <1>1, <2>2 DEF PollEnds
    <3> QED
      BY <2>2, <3>1 DEF ListEnds
  <2>4. ListEnds(playlist[c])'
    BY <1>1, <1>2, <1>3, <2>3 DEF ListEnds, AllBefore, LastNumber
  <2> QED
    BY <2>1, <2>4 DEF PollEnds, SameEnd
<1>4. CASE c # b
  <2>1. ListEnds(playlist[c]) /\ PollEnds(poll[c]) /\ SameEnd(playlist[c], poll[c])
    BY DEF EndInv
  <2> QED
    BY <1>1, <1>2, <1>4, <2>1
       DEF ListEnds, PollEnds, SameEnd, AllBefore, LastToRead, LastNumber, NoEntries
<1> QED
  BY <1>3, <1>4

LEMMA EndUnchanged ==
  ASSUME EndInv, UNCHANGED <<index, head, poll, playlist>>
  PROVE  EndInv'
BY DEF EndInv, IsSorted, ListEnds, PollEnds, SameEnd, AllBefore, LastToRead, LastNumber, NoEntries

LEMMA EndInvStep == HlsInv /\ EndInv /\ [Next]_vars => EndInv'
<1> SUFFICES ASSUME HlsInv, EndInv, [Next]_vars PROVE EndInv'
  OBVIOUS
<1>1. CASE UNCHANGED vars
  BY <1>1, EndUnchanged DEF vars, streamVars
<1>2. CASE (\E r \in Records : AppendRecord(r)) \/ (\E n \in head + 1 .. Len(index) : Truncate(n))
  BY <1>2, EndStreamSteps
<1>3. ASSUME NEW b \in Browsers, (\E bounds \in Bounds : Poll(b, bounds)) \/ PollSteps(b) \/ PollFails(b)
      PROVE  EndInv'
  BY <1>3, EndPollStarts, EndSearchBegin, EndSearchEnd, EndReadRecord, EndRespond DEF PollSteps
<1>4. ASSUME NEW b \in Browsers,
             \/ \E i \in DOMAIN playlist[b].entries : TsRequest(b, playlist[b].entries[i])
             \/ TsLength(b) \/ TsPayload(b)
      PROVE  EndInv'
  <2>1. UNCHANGED <<index, head, poll, playlist>>
    BY <1>4 DEF TsRequest, TsLength, TsPayload, TsStep, streamVars
  <2> QED
    BY <2>1, EndUnchanged
<1> QED
  BY <1>1, <1>2, <1>3, <1>4 DEF Next

\* Only an answer changes a playlist.
LEMMA OnlyRespond ==
  ASSUME [Next]_vars, HlsInv, NEW b \in Browsers, playlist'[b] # playlist[b]
  PROVE  Respond(b)
<1>1. playlist \in [Browsers -> Playlist]
  BY DEF HlsInv, TypeOK
<1>2. ASSUME UNCHANGED playlist PROVE FALSE
  BY <1>2
<1>3. CASE UNCHANGED vars \/ (\E r \in Records : AppendRecord(r))
           \/ (\E n \in head + 1 .. Len(index) : Truncate(n))
  BY <1>2, <1>3 DEF vars, AppendRecord, Truncate
<1>4. ASSUME NEW c \in Browsers,
             \/ \E bounds \in Bounds : Poll(c, bounds)
             \/ SearchBegin(c) \/ SearchEnd(c) \/ ReadRecord(c) \/ PollFails(c)
             \/ \E i \in DOMAIN playlist[c].entries : TsRequest(c, playlist[c].entries[i])
             \/ TsLength(c) \/ TsPayload(c)
      PROVE  FALSE
  BY <1>2, <1>4 DEF Poll, SearchBegin, SearchEnd, ReadRecord, PollFails, TsRequest, TsLength, TsPayload, TsStep
<1>5. ASSUME NEW c \in Browsers, Respond(c) PROVE Respond(b)
  <2>1. playlist' = [playlist EXCEPT ![c] = poll[c].list]
    BY <1>5 DEF Respond
  <2>2. c = b
    BY <1>1, <2>1
  <2> QED
    BY <1>5, <2>2
<1> QED
  BY <1>3, <1>4, <1>5 DEF Next, PollSteps

\* get_m3u8_playlist's "future appends will not affect our result": with timestamps that increase,
\* what a browser polls after an ENDLIST is complete too, and ends at the same record, whatever was
\* appended and truncated meanwhile.
THEOREM HlsEndListIsFinal == Spec => EndListIsFinal
<1>1. ASSUME HlsInv, EndInv, [Next]_vars, NEW b \in Browsers, IsSorted, playlist[b].final,
             playlist'[b].bounds = playlist[b].bounds, playlist'[b] # playlist[b],
             playlist'[b].entries # <<>>
      PROVE  /\ playlist'[b].final
             /\ index[LastNumber(playlist'[b])].ts = index[LastNumber(playlist[b])].ts
  <2>1. Respond(b)
    BY <1>1, OnlyRespond
  <2> SUFFICES ASSUME NEW p, p = poll[b], NEW list, list = playlist[b], p.list = playlist'[b]
               PROVE  p.list.final /\ index[LastNumber(p.list)].ts = index[LastNumber(list)].ts
    <3>1. playlist'[b] = poll[b].list
      BY <1>1, <2>1 DEF Respond, HlsInv, TypeOK
    <3> QED
      BY <3>1
  <2>2. p.pc = "read" /\ p.limit = 0 /\ LastNumber(p.list) = LastToRead(p)
    BY <1>1, <2>1, LastIsRead DEF Respond
  <2>3. ListEnds(list) /\ PollEnds(p) /\ SameEnd(list, p)
    BY <1>1 DEF EndInv
  <2>4. LastToRead(p) = LastNumber(list)
    BY <1>1, <2>2, <2>3 DEF SameEnd, NoEntries
  <2>5. index[LastNumber(list)].ts >= list.bounds[2]
    BY <1>1, <2>3 DEF ListEnds
  <2>6. p.list.final
    BY <1>1, <2>2, <2>3, <2>4, <2>5 DEF PollEnds
  <2> QED
    BY <2>2, <2>4, <2>6
<1>2. HlsInv /\ EndInv /\ [Next]_vars =>
        \A b \in Browsers :
          (/\ IsSorted /\ playlist[b].final
           /\ playlist'[b].bounds = playlist[b].bounds /\ playlist'[b] # playlist[b]
           /\ playlist'[b].entries # <<>>) =>
            /\ playlist'[b].final
            /\ index[LastNumber(playlist'[b])].ts = index[LastNumber(playlist[b])].ts
  BY <1>1
<1> QED
  BY <1>2, HlsInvariant, EndInvInit, EndInvStep, PTL DEF Spec, EndListIsFinal

\* "Ensure EOF instead of waiting (potentially forever) for appends" is true of an index whose
\* timestamps increase: no record that a poll still has to read is beyond the tail.
THEOREM HlsSortedNeverWaits == Spec => [](IsSorted => NeverWaits)
<1>1. HlsInv /\ EndInv => (IsSorted => NeverWaits)
  <2> SUFFICES ASSUME HlsInv, EndInv, IsSorted, NEW b \in Browsers, Waits(b) PROVE FALSE
    BY DEF NeverWaits
  <2>1. poll[b].pc = "read" /\ poll[b].limit > 0 /\ poll[b].next > Len(index)
    BY DEF Waits
  <2>2. poll[b].next \in Nat /\ poll[b].limit \in Nat /\ Len(index) \in Nat
    BY DEF HlsInv, TypeOK, Polls
  <2>3. poll[b].next + poll[b].limit - 1 <= Len(index)
    <3>1. LastToRead(poll[b]) \in 1 .. Len(index)
      BY <2>1 DEF EndInv, PollEnds
    <3> QED
      BY <2>2, <3>1 DEF LastToRead
  <2> QED
    BY <2>1, <2>2, <2>3
<1> QED
  BY <1>1, HlsInvariant, EndInvInit, EndInvStep, PTL DEF Spec
=============================================================================
