---------------------------- MODULE MediaPathProofs ----------------------------
(***************************************************************************)
(* What timestamp.rs does to a time and back, and what event_serde.rs and  *)
(* index.rs do to an event and a record and back, for every width of the   *)
(* integers, every distance between the clocks and every payload; that an  *)
(* instant has one timestamp; that a window of the data gives the events   *)
(* that are whole in it; and that the records of the index are where the   *)
(* events they stand for are.                                              *)
(***************************************************************************)
EXTENDS MediaPath, SequenceTheorems, FiniteSetTheorems, TLAPS

-----------------------------------------------------------------------------
(* timestamp.rs *)

\* A number below the modulus is its own remainder.
LEMMA SmallMod ==
  ASSUME NEW n \in Nat \ {0}, NEW a \in 0 .. n - 1
  PROVE  a % n = a
  OBVIOUS

\* The Unix time of a timestamp gives the timestamp again, unless it is before the Unix
\* epoch.
THEOREM UnixComesBack ==
  ASSUME NEW t \in UTC_TO_TAI_SECONDS .. MAX
  PROVE  from_unix_nanoseconds(to_unix_nanoseconds(t)) = t
  BY SmallMod, TimestampsAssumption DEF from_unix_nanoseconds, to_unix_nanoseconds, MAX, NONE

\* A browser that sends back the time of a segment asks for that segment: between the
\* epochs and the end of an i64, after which chrono has no nanoseconds.
THEOREM ShownTimeComesBack ==
  ASSUME NEW t \in UTC_TO_TAI_SECONDS .. MAX, t < U64 \div 2 + UTC_TO_TAI_SECONDS
  PROVE  or(from_date_time(to_iso_8601(t)), MIN) = t
  <1>1. to_iso_8601(t) = t - UTC_TO_TAI_SECONDS
    BY TimestampsAssumption DEF to_iso_8601, to_system_time, to_unix_nanoseconds, NONE, MAX
  <1>2. timestamp_nanos(t - UTC_TO_TAI_SECONDS) = t - UTC_TO_TAI_SECONDS
    BY TimestampsAssumption DEF timestamp_nanos, MAX
  <1>3. from_date_time(to_iso_8601(t)) = t
    BY <1>1, <1>2, SmallMod, TimestampsAssumption
    DEF from_date_time, from_unix_nanoseconds, NONE, MAX
  <1> QED
    BY <1>3, TimestampsAssumption DEF or, NONE, MAX

\* Distances are signed and add up, although the sum is computed in an i128 and cast.
THEOREM DistancesAddUp ==
  ASSUME NEW t \in MIN .. MAX, NEW u \in MIN .. MAX
  PROVE  AddDelta(t, Sub(u, t)) = u /\ SubDelta(u, Sub(u, t)) = t
  <1>1. Sub(u, t) = u - t /\ Sub(u, t) # NoDelta
    BY TimestampsAssumption DEF Sub, NONE, NoDelta, MIN, MAX
  <1>2. t + (u - t) = u /\ u - (u - t) = t
    BY TimestampsAssumption DEF MIN, MAX
  <1> QED
    BY <1>1, <1>2, SmallMod, TimestampsAssumption DEF AddDelta, SubDelta, NONE, MIN, MAX

-----------------------------------------------------------------------------
(* event_serde.rs and index.rs *)

\* The flags of the header survive the byte.
LEMMA FlagsComeBack ==
  ASSUME NEW f \in Flags
  PROVE  FlagsOf(Bits(f)) = f /\ Bits(f) \in Nat
  BY DEF FlagsOf, Bits, Flags

\* A sequence of words of the payload is one of words.
LEMMA WordsAreWords ==
  ASSUME NEW q \in Seq(Words)
  PROVE  q \in Seq(Nat)
  <1>1. Words \subseteq Nat
    BY SerdeAssumption
  <1> QED
    BY <1>1, SeqMonotonic

\* The words of a part of the stream.
LEMMA WordsAt ==
  ASSUME NEW a \in Seq(Nat), NEW f \in Seq(Nat), NEW b \in Seq(Nat)
  PROVE  /\ (a \o f) \o b \in Seq(Nat)
         /\ Len((a \o f) \o b) = Len(a) + Len(f) + Len(b)
         /\ Len(a) \in Nat /\ Len(f) \in Nat /\ Len(b) \in Nat
         /\ \A k \in 1 .. Len(f) : ((a \o f) \o b)[Len(a) + k] = f[k]
  <1>1. Len(a) \in Nat /\ Len(f) \in Nat /\ Len(b) \in Nat
    OBVIOUS
  <1>2. /\ a \o f \in Seq(Nat) /\ Len(a \o f) = Len(a) + Len(f)
        /\ \A k \in 1 .. Len(f) : (a \o f)[Len(a) + k] = f[k]
    BY <1>1, ConcatProperties
  <1>3. /\ (a \o f) \o b \in Seq(Nat)
        /\ Len((a \o f) \o b) = Len(a) + Len(f) + Len(b)
        /\ \A k \in 1 .. Len(a) + Len(f) : ((a \o f) \o b)[k] = (a \o f)[k]
    BY <1>1, <1>2, ConcatProperties
  <1> QED
    BY <1>1, <1>2, <1>3

\* A part of the stream, given its words.
LEMMA PartOf ==
  ASSUME NEW s \in Seq(Nat), NEW i \in Nat, NEW q \in Seq(Nat), i + Len(q) <= Len(s),
         \A k \in 1 .. Len(q) : s[i + k] = q[k]
  PROVE  SubSeq(s, i + 1, i + Len(q)) = q
  <1>1. Len(q) \in Nat /\ \A k \in i + 1 .. i + Len(q) : s[k] \in Nat
    OBVIOUS
  <1>2. /\ SubSeq(s, i + 1, i + Len(q)) \in Seq(Nat)
        /\ Len(SubSeq(s, i + 1, i + Len(q))) = Len(q)
        /\ \A k \in 1 .. Len(q) : SubSeq(s, i + 1, i + Len(q))[k] = s[i + k]
    BY <1>1, SubSeqProperties
  <1> QED
    BY <1>1, <1>2, SeqEqual

\* A header of four words and a payload.
LEMMA HeaderAndPayload ==
  ASSUME NEW h \in Seq(Nat), NEW q \in Seq(Nat), Len(h) = 4
  PROVE  /\ h \o q \in Seq(Nat) /\ Len(h \o q) = 4 + Len(q)
         /\ (h \o q)[2] = h[2] /\ (h \o q)[3] = h[3] /\ (h \o q)[4] = h[4]
         /\ \A k \in 1 .. Len(q) : (h \o q)[4 + k] = q[k]
  <1>1. Len(q) \in Nat
    OBVIOUS
  <1>2. /\ h \o q \in Seq(Nat) /\ Len(h \o q) = 4 + Len(q)
        /\ \A i \in 1 .. 4 + Len(q) : (h \o q)[i] = IF i <= 4 THEN h[i] ELSE q[i - 4]
    <2>1. /\ h \o q \in Seq(Nat) /\ Len(h \o q) = Len(h) + Len(q)
          /\ \A i \in 1 .. Len(h) + Len(q) :
               (h \o q)[i] = IF i <= Len(h) THEN h[i] ELSE q[i - Len(h)]
      BY ConcatProperties, Zenon
    <2>2. Len(h) = 4
      OBVIOUS
    <2> QED
      BY <2>1, <2>2, Zenon
  <1>3. 2 \in 1 .. 4 + Len(q) /\ 3 \in 1 .. 4 + Len(q) /\ 4 \in 1 .. 4 + Len(q)
    BY <1>1
  <1>4. ASSUME NEW k \in 1 .. Len(q) PROVE (h \o q)[4 + k] = q[k]
    <2>1. 4 + k \in 1 .. 4 + Len(q) /\ ~(4 + k <= 4) /\ (4 + k) - 4 = k
      BY <1>1
    <2> QED
      BY <1>2, <2>1
  <1> QED
    BY <1>2, <1>3, <1>4

\* The same anywhere in a stream.
LEMMA FrameAt ==
  ASSUME NEW a \in Seq(Nat), NEW b \in Seq(Nat), NEW f \in Seq(Nat), NEW q \in Seq(Nat),
         Len(f) = 4 + Len(q), \A k \in 1 .. Len(q) : f[4 + k] = q[k]
  PROVE  /\ ((a \o f) \o b)[Len(a) + 2] = f[2]
         /\ ((a \o f) \o b)[Len(a) + 3] = f[3]
         /\ ((a \o f) \o b)[Len(a) + 4] = f[4]
         /\ SubSeq((a \o f) \o b, (Len(a) + 4) + 1, (Len(a) + 4) + Len(q)) = q
         /\ Len(a) \in Nat /\ Len(q) \in Nat
  <1> DEFINE s == (a \o f) \o b
             la == Len(a)
             lq == Len(q)
  <1>1. /\ s \in Seq(Nat) /\ Len(s) = la + Len(f) + Len(b)
        /\ la \in Nat /\ lq \in Nat /\ Len(b) \in Nat
        /\ \A k \in 1 .. 4 + lq : s[la + k] = f[k]
    <2>1. /\ s \in Seq(Nat) /\ Len(s) = la + Len(f) + Len(b)
          /\ la \in Nat /\ Len(b) \in Nat
          /\ \A k \in 1 .. Len(f) : s[la + k] = f[k]
      BY WordsAt, ZenonT(60)
    <2>2. lq \in Nat
      OBVIOUS
    <2>3. Len(f) = 4 + lq
      OBVIOUS
    <2> HIDE DEF s, la, lq
    <2> QED
      BY <2>1, <2>2, <2>3, Zenon
  <1> HIDE DEF s, la, lq
  <1>2. 2 \in 1 .. 4 + lq /\ 3 \in 1 .. 4 + lq /\ 4 \in 1 .. 4 + lq
    BY <1>1
  <1>3. ASSUME NEW k \in 1 .. lq PROVE s[(la + 4) + k] = q[k]
    <2>1. 4 + k \in 1 .. 4 + lq /\ la + (4 + k) = (la + 4) + k
      BY <1>1
    <2> QED
      BY <1>1, <2>1 DEF lq
  <1>4. SubSeq(s, (la + 4) + 1, (la + 4) + Len(q)) = q
    <2>1. la + 4 \in Nat /\ (la + 4) + lq <= Len(s)
      BY <1>1 DEF lq
    <2> QED
      BY <1>1, <1>3, <2>1, PartOf DEF lq
  <1> QED
    BY <1>1, <1>2, <1>4 DEF s, la, lq

\* Its payload.
LEMMA PayloadAt ==
  ASSUME NEW a \in Seq(Nat), NEW b \in Seq(Nat), NEW f \in Seq(Nat), NEW q \in Seq(Nat),
         Len(f) = 4 + Len(q), \A k \in 1 .. Len(q) : f[4 + k] = q[k]
  PROVE  SubSeq((a \o f) \o b, (Len(a) + 4) + 1, (Len(a) + 4) + Len(q)) = q
  BY FrameAt, ZenonT(60)

\* An event that the writer accepts is read back as it was written, wherever its frame
\* is in the stream and whatever follows it; a timestamp of 0 is none.
THEOREM EventComesBack ==
  ASSUME NEW a \in Seq(Nat), NEW b \in Seq(Nat), NEW e \in Event, Accepts(e)
  PROVE  LET s == (a \o Frame(e)) \o b
             n == event_length(s, Len(a))
         IN ValidLength(n) /\ EventAt(s, Len(a) + PREFIX, n) = ReadBack(e)
  <1> DEFINE h == <<0, Len(e.payload) + HEADER, Bits(e.flags), ToWire(e.timestamp)>>
             s == (a \o Frame(e)) \o b
             n == Len(e.payload) + HEADER
  <1>1. /\ e.payload \in Seq(Nat) /\ Len(e.payload) \in Nat
        /\ e.flags \in Flags /\ e.timestamp \in PravegaTimestamp
    BY WordsAreWords DEF Event
  <1>2. Bits(e.flags) \in Nat /\ ToWire(e.timestamp) \in Nat
    BY <1>1, FlagsComeBack, TimestampsAssumption DEF ToWire, PravegaTimestamp, NONE, MIN, MAX
  <1>3. h \in Seq(Nat) /\ Len(h) = 4
    BY <1>1, <1>2 DEF HEADER
  <1>4. /\ s[Len(a) + 2] = n /\ s[Len(a) + 3] = Bits(e.flags)
        /\ s[Len(a) + 4] = ToWire(e.timestamp)
        /\ SubSeq(s, (Len(a) + 4) + 1, (Len(a) + 4) + Len(e.payload)) = e.payload
        /\ Len(a) \in Nat
    <2>1. Frame(e) = h \o e.payload
      BY DEF Frame
    <2>2. h[2] = n /\ h[3] = Bits(e.flags) /\ h[4] = ToWire(e.timestamp)
      OBVIOUS
    <2> HIDE DEF h, s, n
    <2>3. /\ Frame(e) \in Seq(Nat) /\ Len(Frame(e)) = 4 + Len(e.payload)
          /\ Frame(e)[2] = n /\ Frame(e)[3] = Bits(e.flags) /\ Frame(e)[4] = ToWire(e.timestamp)
          /\ \A k \in 1 .. Len(e.payload) : Frame(e)[4 + k] = e.payload[k]
      <3>1. /\ h \o e.payload \in Seq(Nat) /\ Len(h \o e.payload) = 4 + Len(e.payload)
            /\ (h \o e.payload)[2] = h[2] /\ (h \o e.payload)[3] = h[3]
            /\ (h \o e.payload)[4] = h[4]
            /\ \A k \in 1 .. Len(e.payload) : (h \o e.payload)[4 + k] = e.payload[k]
        BY <1>1, <1>3, HeaderAndPayload, Zenon
      <3> QED
        BY <2>1, <2>2, <3>1, Zenon
    <2>4. /\ s[Len(a) + 2] = Frame(e)[2] /\ s[Len(a) + 3] = Frame(e)[3]
          /\ s[Len(a) + 4] = Frame(e)[4]
          /\ SubSeq(s, (Len(a) + 4) + 1, (Len(a) + 4) + Len(e.payload)) = e.payload
          /\ Len(a) \in Nat
      <3> DEFINE f == Frame(e)
                 q == e.payload
      <3>1. q \in Seq(Nat) /\ f \in Seq(Nat)
        BY <1>1, <2>3, Zenon
      <3>2. Len(f) = 4 + Len(q) /\ \A k \in 1 .. Len(q) : f[4 + k] = q[k]
        BY <2>3, Zenon
      <3> HIDE DEF f, q
      <3>3. /\ ((a \o f) \o b)[Len(a) + 2] = f[2]
            /\ ((a \o f) \o b)[Len(a) + 3] = f[3]
            /\ ((a \o f) \o b)[Len(a) + 4] = f[4]
            /\ SubSeq((a \o f) \o b, (Len(a) + 4) + 1, (Len(a) + 4) + Len(q)) = q
            /\ Len(a) \in Nat
        <4>1. /\ ((a \o f) \o b)[Len(a) + 2] = f[2]
              /\ ((a \o f) \o b)[Len(a) + 3] = f[3]
              /\ ((a \o f) \o b)[Len(a) + 4] = f[4]
          BY <3>1, <3>2, FrameAt
        <4>2. SubSeq((a \o f) \o b, (Len(a) + 4) + 1, (Len(a) + 4) + Len(q)) = q
          BY <3>1, <3>2, PayloadAt, Zenon
        <4>3. Len(a) \in Nat
          OBVIOUS
        <4> QED
          BY <4>1, <4>2, <4>3, Zenon
      <3> QED
        BY <3>3, Zenon DEF f, q, s
    <2> QED
      BY <2>3, <2>4, Zenon
  <1> HIDE DEF s
  <1>5. event_length(s, Len(a)) = n
    BY <1>4 DEF event_length, PREFIX
  <1>6. ValidLength(n)
    BY <1>1, SerdeAssumption DEF Accepts, ValidLength, MAX_PAYLOAD_SIZE, PREFIX, HEADER
  <1>7. /\ (Len(a) + PREFIX) + 1 = Len(a) + 3 /\ (Len(a) + PREFIX) + 2 = Len(a) + 4
        /\ (Len(a) + PREFIX) + 1 + HEADER = (Len(a) + 4) + 1
        /\ (Len(a) + PREFIX) + n = (Len(a) + 4) + Len(e.payload)
    <2> DEFINE la == Len(a)
               lq == Len(e.payload)
    <2>1. la \in Nat /\ lq \in Nat
      BY <1>1, <1>4
    <2> HIDE DEF la, lq
    <2>2. /\ (la + 2) + 1 = la + 3 /\ (la + 2) + 2 = la + 4 /\ (la + 2) + 1 + 2 = (la + 4) + 1
          /\ (la + 2) + (lq + 2) = (la + 4) + lq
      BY <2>1
    <2> QED
      BY <2>2 DEF la, lq, PREFIX, HEADER
  <1>8. EventAt(s, Len(a) + PREFIX, n)
          = [timestamp |-> FromWire(ToWire(e.timestamp)), flags |-> e.flags, payload |-> e.payload]
    BY <1>1, <1>4, <1>7, FlagsComeBack DEF EventAt
  <1>9. ReadBack(e)
          = [timestamp |-> FromWire(ToWire(e.timestamp)), flags |-> e.flags, payload |-> e.payload]
    BY DEF ReadBack, Event
  <1> QED
    BY <1>5, <1>6, <1>8, <1>9 DEF s

\* An index record that the writer accepts is read back as it was written, wherever it
\* is in the index.
THEOREM RecordComesBack ==
  ASSUME NEW a \in Seq(Nat), NEW b \in Seq(Nat), NEW r \in Record, AcceptsRecord(r)
  PROVE  RecordAt((a \o RecordFrame(r)) \o b, Len(a)) = r
  <1> DEFINE f == [include_in_index |-> FALSE, random_access |-> r.random_access,
                   discontinuity |-> r.discontinuity]
             s == (a \o RecordFrame(r)) \o b
  <1>1. f \in Flags
    BY DEF Flags, Record
  <1>2. RecordFrame(r) = <<Bits(f), ToWire(r.timestamp), r.offset>>
    BY DEF RecordFrame
  <1>3. Bits(f) \in Nat /\ ToWire(r.timestamp) \in Nat /\ r.offset \in Nat
    BY <1>1, FlagsComeBack, TimestampsAssumption DEF Record, ToWire, PravegaTimestamp, NONE, MIN, MAX
  <1>4. RecordFrame(r) \in Seq(Nat) /\ Len(RecordFrame(r)) = 3
    BY <1>2, <1>3
  <1>5. s[Len(a) + 1] = Bits(f) /\ s[Len(a) + 2] = ToWire(r.timestamp) /\ s[Len(a) + 3] = r.offset
    BY <1>2, <1>4, WordsAt
  <1>6. FromWire(ToWire(r.timestamp)) = r.timestamp
    BY DEF AcceptsRecord, FromWire, ToWire
  <1> QED
    BY <1>1, <1>5, <1>6, FlagsComeBack DEF RecordAt, Record

-----------------------------------------------------------------------------
(* The path *)

\* Frames are sequences of words.
LEMMA FrameType ==
  ASSUME NEW e \in Event
  PROVE  Frame(e) \in Seq(Nat)
  <1>1. e.payload \in Seq(Nat) /\ Len(e.payload) \in Nat /\ e.flags \in Flags /\ e.timestamp \in PravegaTimestamp
    BY WordsAreWords DEF Event
  <1>2. Bits(e.flags) \in Nat /\ ToWire(e.timestamp) \in Nat /\ Len(e.payload) + HEADER \in Nat
    BY <1>1, FlagsComeBack, TimestampsAssumption DEF ToWire, PravegaTimestamp, NONE, MIN, MAX, HEADER
  <1>3. <<0, Len(e.payload) + HEADER, Bits(e.flags), ToWire(e.timestamp)>> \in Seq(Nat)
    BY <1>2
  <1> QED
    BY <1>1, <1>3, ConcatProperties DEF Frame

\* So are those of the index.
LEMMA RecordFrameType ==
  ASSUME NEW r \in Record
  PROVE  RecordFrame(r) \in Seq(Nat)
  <1> DEFINE f == [include_in_index |-> FALSE, random_access |-> r.random_access,
                   discontinuity |-> r.discontinuity]
  <1>1. f \in Flags /\ r.offset \in Nat /\ r.timestamp \in PravegaTimestamp
    BY DEF Flags, Record
  <1>2. Bits(f) \in Nat /\ ToWire(r.timestamp) \in Nat
    BY <1>1, FlagsComeBack, TimestampsAssumption DEF ToWire, PravegaTimestamp, NONE, MIN, MAX
  <1> HIDE DEF f
  <1> QED
    BY <1>1, <1>2 DEF RecordFrame, f

\* The reader stays within the data.
ReaderInData == reader.pos + reader.limit <= Len(data)

MediaInv == TypeOK /\ ReaderInData /\ SameInstant

\* The timestamps that render computes.
LEMMA TimestampType ==
  ASSUME NEW pts \in PravegaTimestamp, settings \in Settings
  PROVE  timestamp(pts) \in PravegaTimestamp
  <1>1. \A n \in Nat : n % U64 \in MIN .. MAX
    BY TimestampsAssumption DEF MIN, MAX
  <1>2. ASSUME NEW n \in Nat \cup {NONE} PROVE from_unix_nanoseconds(n) \in PravegaTimestamp
    <2>1. n # NONE => n + UTC_TO_TAI_SECONDS \in Nat
      BY TimestampsAssumption DEF NONE
    <2> QED
      BY <1>1, <2>1 DEF from_unix_nanoseconds, PravegaTimestamp
  <1>3. pts \in Nat \cup {NONE}
    BY DEF PravegaTimestamp, MIN, MAX
  <1>4. pts >= UNIX_TO_NTP_SECONDS => pts - UNIX_TO_NTP_SECONDS \in Nat
    BY <1>3, TimestampsAssumption DEF NONE
  <1>5. from_ntp_nanoseconds(pts) \in PravegaTimestamp
    BY <1>2, <1>4 DEF from_ntp_nanoseconds, PravegaTimestamp
  <1> QED
    BY <1>2, <1>3, <1>5 DEF timestamp, from_nanoseconds, Settings, Modes

\* ClockTime arithmetic stays within a u64 and NONE.
LEMMA ClockTimes ==
  ASSUME NEW a \in PravegaTimestamp, NEW b \in PravegaTimestamp
  PROVE  Plus(a, b) \in PravegaTimestamp /\ Minus(a, b) \in PravegaTimestamp
  BY TimestampsAssumption DEF Plus, Minus, PravegaTimestamp, NONE, MIN, MAX

\* What a camera captures at x gets the timestamp x, in the mode of its own pipeline.
LEMMA InstantComesBack ==
  ASSUME NEW x \in Instants, source \in Modes, SourcePts(x) # NONE,
         settings.timestamp_mode = source
  PROVE  timestamp(SourcePts(x)) = x
  <1>1. x \in MIN .. MAX
    BY MediaAssumption DEF PravegaTimestamp
  <1>2. CASE source = "realtime-clock"
    <2>1. SourcePts(x) = x - UTC_TO_TAI_SECONDS /\ x >= UTC_TO_TAI_SECONDS
      BY <1>1, <1>2, TimestampsAssumption DEF SourcePts, Minus, NONE, MIN, MAX
    <2> QED
      BY <1>1, <1>2, <2>1, UnixComesBack
      DEF timestamp, to_unix_nanoseconds
  <1>3. CASE source = "ntp"
    <2>1. /\ SourcePts(x) = (x - UTC_TO_TAI_SECONDS) + UNIX_TO_NTP_SECONDS
          /\ x >= UTC_TO_TAI_SECONDS
      BY <1>1, <1>3, TimestampsAssumption DEF SourcePts, Plus, Minus, NONE, MIN, MAX
    <2>2. /\ SourcePts(x) >= UNIX_TO_NTP_SECONDS
          /\ SourcePts(x) - UNIX_TO_NTP_SECONDS = x - UTC_TO_TAI_SECONDS
      BY <1>1, <2>1, TimestampsAssumption DEF MIN, MAX
    <2>3. timestamp(SourcePts(x)) = from_unix_nanoseconds(x - UTC_TO_TAI_SECONDS)
      BY <1>3, <2>2 DEF timestamp, from_ntp_nanoseconds
    <2> QED
      BY <1>1, <2>1, <2>3, UnixComesBack DEF to_unix_nanoseconds
  <1>4. CASE source = "tai"
    BY <1>4 DEF SourcePts, timestamp, from_nanoseconds
  <1> QED
    BY <1>2, <1>3, <1>4 DEF Modes

\* An event of a buffer.
LEMMA EventOfType ==
  ASSUME NEW pts \in PravegaTimestamp, NEW payload \in Payloads, NEW flags \in FlagSets,
         settings \in Settings
  PROVE  EventOf(pts, payload, flags) \in Event /\ EventOf(pts, payload, flags).timestamp = timestamp(pts)
  BY TimestampType, MediaAssumption DEF EventOf, Event, Flags

\* A buffer that is written keeps the types, and its event has the timestamp of the mode.
LEMMA WriteKept ==
  ASSUME MediaInv, NEW pts \in PravegaTimestamp, NEW origin \in PravegaTimestamp,
         NEW payload \in Payloads, NEW flags \in FlagSets,
         Write(pts, origin, payload, flags),
         settings.timestamp_mode = source => timestamp(pts) = origin
  PROVE  MediaInv'
  <1> DEFINE e == EventOf(pts, payload, flags)
             w == [event |-> e, offset |-> Len(data), origin |-> origin, pts |-> pts,
                   mode |-> settings.timestamp_mode]
             r == RecordOf(e)
  <1>1. /\ settings \in Settings /\ data \in Seq(Nat) /\ index \in Seq(Nat)
        /\ written \in Seq(Written) /\ records \in Seq(Record) /\ Len(data) \in Nat
        /\ reader \in Reader
    BY DEF MediaInv, TypeOK
  <1>2. e \in Event /\ e.timestamp = timestamp(pts)
    BY <1>1, EventOfType
  <1>3. w \in Written /\ w.event.timestamp = timestamp(pts) /\ w.origin = origin
        /\ w.mode = settings.timestamp_mode
    BY <1>1, <1>2 DEF Written, Settings
  <1>4. r \in Record
    BY <1>1, <1>2 DEF Record, RecordOf, Event, Flags
  <1>5. /\ UNCHANGED <<source, settings, started, reader, got>>
        /\ \/ index' = index \o RecordFrame(r) /\ records' = Append(records, r)
           \/ UNCHANGED <<index, records>>
        /\ \/ data' = data \o Frame(e) /\ written' = Append(written, w)
           \/ UNCHANGED <<data, written>>
    BY DEF Write
  <1>6. Frame(e) \in Seq(Nat) /\ RecordFrame(r) \in Seq(Nat)
    BY <1>2, <1>4, FrameType, RecordFrameType
  <1> HIDE DEF e, w, r
  <1>7. index' \in Seq(Nat) /\ records' \in Seq(Record)
    <2>1. index \o RecordFrame(r) \in Seq(Nat) /\ Append(records, r) \in Seq(Record)
      BY <1>1, <1>4, <1>6, ConcatProperties, AppendProperties
    <2> QED
      BY <1>1, <1>5, <2>1, Zenon
  <1>8. data' \in Seq(Nat) /\ Len(data) <= Len(data') /\ written' \in Seq(Written)
    <2>1. /\ data \o Frame(e) \in Seq(Nat) /\ Len(data \o Frame(e)) = Len(data) + Len(Frame(e))
          /\ Append(written, w) \in Seq(Written)
      BY <1>1, <1>3, <1>6, ConcatProperties, AppendProperties
    <2>2. Len(Frame(e)) \in Nat
      BY <1>6
    <2>3. Len(data) <= Len(data \o Frame(e)) /\ Len(data) <= Len(data)
      BY <1>1, <2>1, <2>2
    <2> QED
      BY <1>1, <1>5, <2>1, <2>3, Zenon
  <1>9. TypeOK'
    BY <1>5, <1>7, <1>8 DEF MediaInv, TypeOK
  <1>10. ReaderInData'
    BY <1>1, <1>5, <1>8 DEF MediaInv, ReaderInData, Reader
  <1>11. SameInstant'
    <2>1. CASE UNCHANGED written
      BY <1>5, <2>1 DEF MediaInv, SameInstant
    <2>2. CASE written' = Append(written, w)
      <3> SUFFICES ASSUME NEW i \in 1 .. Len(written) + 1, written'[i].mode = source
                   PROVE  written'[i].event.timestamp = written'[i].origin
        BY <1>1, <1>5, <2>2, AppendProperties DEF SameInstant
      <3>1. CASE i = Len(written) + 1
        <4>1. written'[i] = w
          BY <1>1, <1>3, <2>2, <3>1, AppendProperties
        <4> QED
          BY <1>3, <4>1
      <3>2. CASE i \in 1 .. Len(written)
        <4>1. written'[i] = written[i]
          BY <1>1, <1>3, <2>2, <3>2, AppendProperties
        <4>2. i \in DOMAIN written
          BY <1>1, <3>2
        <4> QED
          BY <4>1, <4>2 DEF MediaInv, SameInstant
      <3> QED
        BY <1>1, <3>1, <3>2
    <2> QED
      BY <1>5, <2>1, <2>2
  <1> QED
    BY <1>9, <1>10, <1>11 DEF MediaInv

\* What SourcePts says is a PTS.
LEMMA SourcePtsType ==
  ASSUME NEW x \in Instants, source \in Modes
  PROVE  SourcePts(x) \in PravegaTimestamp /\ x \in PravegaTimestamp
  <1>1. x \in PravegaTimestamp
    BY MediaAssumption
  <1>2. UTC_TO_TAI_SECONDS \in PravegaTimestamp /\ UNIX_TO_NTP_SECONDS \in PravegaTimestamp
    BY TimestampsAssumption DEF PravegaTimestamp, MIN, MAX
  <1>3. Minus(x, UTC_TO_TAI_SECONDS) \in PravegaTimestamp
    BY <1>1, <1>2, ClockTimes
  <1>4. Plus(Minus(x, UTC_TO_TAI_SECONDS), UNIX_TO_NTP_SECONDS) \in PravegaTimestamp
    BY <1>2, <1>3, ClockTimes
  <1> QED
    BY <1>1, <1>3, <1>4 DEF SourcePts, Modes

\* An action that leaves the written events and the data alone, and the reader with it.
LEMMA SettingsKept ==
  ASSUME MediaInv, UNCHANGED <<source, data, index, written, records, reader>>,
         settings' \in Settings, started' \in BOOLEAN
  PROVE  MediaInv'
  BY DEF MediaInv, TypeOK, ReaderInData, SameInstant

\* An action of the reader.
LEMMA ReaderKept ==
  ASSUME MediaInv, ReaderStep, reader' \in Reader, reader'.pos + reader'.limit <= Len(data)
  PROVE  MediaInv'
  BY DEF MediaInv, TypeOK, ReaderInData, SameInstant, ReaderStep

\* A reader that has consumed what is left of its window.
LEMMA ReaderEnds ==
  ASSUME NEW rd \in Reader, NEW len \in Nat, rd.pos + rd.limit <= len,
         NEW after, after = [rd EXCEPT !.pc = "end", !.pos = @ + rd.limit, !.limit = 0]
  PROVE  after \in Reader /\ after.pos + after.limit <= len
  <1>1. rd.pos + rd.limit \in Nat /\ (rd.pos + rd.limit) + 0 <= len
    BY DEF Reader
  <1>2. after.pos = rd.pos + rd.limit /\ after.limit = 0
    BY DEF Reader
  <1>3. after \in Reader
    BY <1>1 DEF Reader
  <1> QED
    BY <1>1, <1>2, <1>3

\* A reader that has consumed an event of n words.
LEMMA ReaderMoves ==
  ASSUME NEW rd \in Reader, NEW len \in Nat, rd.pos + rd.limit <= len,
         NEW n \in Nat, n <= rd.limit,
         NEW after, after = [rd EXCEPT !.pc = "length", !.pos = @ + n, !.limit = @ - n]
  PROVE  after \in Reader /\ after.pos + after.limit <= len
  <1>1. rd.pos + n \in Nat /\ rd.limit - n \in Nat /\ (rd.pos + n) + (rd.limit - n) <= len
    BY DEF Reader
  <1>2. after.pos = rd.pos + n /\ after.limit = rd.limit - n
    BY DEF Reader
  <1>3. after \in Reader
    BY <1>1 DEF Reader
  <1> QED
    BY <1>1, <1>2, <1>3

\* The invariant holds of the initial state and is kept by every step.
LEMMA MediaInvInductive ==
  /\ Init => MediaInv
  /\ MediaInv /\ [Next]_vars => MediaInv'
  <1>1. Init => MediaInv
    <2> SUFFICES ASSUME Init PROVE MediaInv
      OBVIOUS
    <2>1. DefaultSettings \in Settings
      BY DEF DefaultSettings, Settings, Modes
    <2>2. ClosedReader \in Reader /\ 0 \in 0 .. MAX /\ NONE \in PravegaTimestamp
      BY TimestampsAssumption DEF ClosedReader, Reader, PravegaTimestamp, MAX
    <2>3. TypeOK
      <3>1. <<>> \in Seq(Nat) /\ <<>> \in Seq(Written) /\ <<>> \in Seq(Record)
        BY EmptySeq
      <3> QED
        BY <2>1, <2>2, <3>1, Zenon DEF Init, TypeOK
    <2>4. ReaderInData
      BY DEF Init, ReaderInData, ClosedReader
    <2>5. SameInstant
      BY DEF Init, SameInstant
    <2> QED
      BY <2>3, <2>4, <2>5 DEF MediaInv
  <1>2. ASSUME MediaInv, [Next]_vars PROVE MediaInv'
    <2> USE <1>2
    <2>0. /\ source \in Sources /\ settings \in Settings /\ started \in BOOLEAN
          /\ data \in Seq(Nat) /\ written \in Seq(Written) /\ reader \in Reader
          /\ reader.pos + reader.limit <= Len(data)
      BY DEF MediaInv, TypeOK, ReaderInData
    <2>1. CASE SetProperty
      <3>1. settings' \in Settings
        <4>1. ASSUME NEW v \in {"scope/stream", "stream"} PROVE SetStream(v) \in Settings
          BY <2>0 DEF SetStream, Settings
        <4>2. ASSUME NEW v \in Modes PROVE [settings EXCEPT !.timestamp_mode = v] \in Settings
          BY <2>0 DEF Settings
        <4>3. ASSUME NEW v \in Indexes PROVE Nanos(v) \in Nat
          BY MediaAssumption, TimestampsAssumption DEF Nanos, MAX
        <4>4. ASSUME NEW n \in Nat
              PROVE  /\ [settings EXCEPT !.index_min_nanos = n] \in Settings
                     /\ [settings EXCEPT !.index_max_nanos = n] \in Settings
          BY <2>0 DEF Settings
        <4> QED
          BY <2>1, <4>1, <4>2, <4>3, <4>4, Zenon DEF SetProperty
      <3> QED
        BY <2>0, <2>1, <3>1, SettingsKept DEF SetProperty, streams
    <2>2. CASE Start
      BY <2>0, <2>2, SettingsKept DEF Start, streams
    <2>3. ASSUME NEW payload \in Payloads, NEW flags \in FlagSets, NEW x \in Instants,
                 Capture(x, payload, flags)
          PROVE  MediaInv'
      <3>1. source \in Modes /\ SourcePts(x) # NONE /\ Write(SourcePts(x), x, payload, flags)
        BY <2>0, <2>3, MediaAssumption DEF Capture
      <3>2. SourcePts(x) \in PravegaTimestamp /\ x \in PravegaTimestamp
        BY <3>1, SourcePtsType
      <3>3. settings.timestamp_mode = source => timestamp(SourcePts(x)) = x
        BY <3>1, InstantComesBack
      <3> QED
        BY <2>0, <3>1, <3>2, <3>3, WriteKept
    <2>4. ASSUME NEW payload \in Payloads, NEW flags \in FlagSets, NEW pts \in RawPts,
                 CaptureBeforeRtcp(pts, payload, flags)
          PROVE  MediaInv'
      <3>1. /\ source = "ntp" /\ pts < UNIX_TO_NTP_SECONDS /\ Write(pts, NONE, payload, flags)
        BY <2>4 DEF CaptureBeforeRtcp
      <3>2. pts \in PravegaTimestamp /\ NONE \in PravegaTimestamp
        BY MediaAssumption DEF PravegaTimestamp, MIN
      <3>3. settings.timestamp_mode = source => timestamp(pts) = NONE
        BY <3>1, MediaAssumption, TimestampsAssumption
        DEF timestamp, from_ntp_nanoseconds, from_unix_nanoseconds, NONE
      <3> QED
        BY <2>0, <3>1, <3>2, <3>3, WriteKept
    <2>5. ASSUME NEW i \in DOMAIN written, NEW end \in written[i].offset .. Len(data),
                 Open(written[i].offset, end)
          PROVE  MediaInv'
      <3> DEFINE b == written[i].offset
      <3>1. b \in Nat /\ Len(data) \in Nat
        <4>1. written[i] \in Written
          BY <2>0
        <4> QED
          BY <2>0, <4>1 DEF Written
      <3>2. /\ reader' = [pc |-> "length", begin |-> b, pos |-> b, limit |-> end - b, event_length |-> 0]
            /\ ReaderStep
        BY <2>5 DEF Open, ReaderStep
      <3>3. end - b \in Nat /\ b + (end - b) <= Len(data)
        BY <3>1
      <3> HIDE DEF b
      <3>4. reader' \in Reader /\ reader'.pos + reader'.limit <= Len(data)
        BY <3>1, <3>2, <3>3 DEF Reader
      <3> QED
        BY <3>2, <3>4, ReaderKept
    <2>6. CASE read_required_buffer_length
      <3> DEFINE n == event_length(data, reader.pos)
      <3>1. ReaderStep /\ reader.pos \in Nat /\ reader.limit \in Nat /\ Len(data) \in Nat
        BY <2>0, <2>6 DEF read_required_buffer_length, Reader
      <3>2. CASE ~IsWhole(PREFIX)
        <4>1. reader' = [reader EXCEPT !.pc = "end", !.pos = @ + reader.limit, !.limit = 0]
          BY <2>6, <3>2 DEF read_required_buffer_length
        <4>2. reader' \in Reader /\ reader'.pos + reader'.limit <= Len(data)
          BY <2>0, <3>1, <4>1, ReaderEnds
        <4> QED
          BY <3>1, <4>2, ReaderKept
      <3>3. CASE IsWhole(PREFIX)
        <4>1. reader' = [reader EXCEPT !.pc = IF ValidLength(n) THEN "event" ELSE "error",
                                       !.pos = @ + PREFIX, !.limit = @ - PREFIX, !.event_length = n]
          BY <2>6, <3>3 DEF read_required_buffer_length
        <4>2. reader.pos + PREFIX \in 1 .. Len(data) /\ reader.limit - PREFIX \in Nat
          <5>1. reader.pos + reader.limit <= Len(data) /\ reader.limit >= PREFIX
            BY <2>0, <3>3 DEF IsWhole
          <5> QED
            BY <3>1, <5>1 DEF PREFIX
        <4>3. n \in Nat
          BY <2>0, <4>2 DEF event_length
        <4> HIDE DEF n
        <4>4. reader' \in Reader
          <5>1. reader.pos + PREFIX \in Nat
            BY <3>1 DEF PREFIX
          <5> DEFINE pc == IF ValidLength(n) THEN "event" ELSE "error"
          <5>2. pc \in {"event", "error"}
            OBVIOUS
          <5> HIDE DEF pc
          <5> QED
            BY <2>0, <3>1, <4>1, <4>2, <4>3, <5>1, <5>2 DEF Reader, pc
        <4>5. reader'.pos + reader'.limit <= Len(data)
          BY <2>0, <3>1, <4>1, <4>2 DEF Reader, PREFIX
        <4> QED
          BY <3>1, <4>4, <4>5, ReaderKept
      <3> QED
        BY <3>2, <3>3
    <2>7. CASE read_event
      <3> DEFINE n == reader.event_length
      <3>1. /\ ReaderStep /\ reader.pos \in Nat /\ reader.limit \in Nat /\ Len(data) \in Nat
            /\ n \in Nat
        BY <2>0, <2>7 DEF read_event, Reader
      <3>2. \/ reader' = [reader EXCEPT !.pc = "end", !.pos = @ + reader.limit, !.limit = 0]
            \/ /\ n <= reader.limit
               /\ reader' = [reader EXCEPT !.pc = "length", !.pos = @ + n, !.limit = @ - n]
        BY <2>7 DEF read_event, IsWhole
      <3> HIDE DEF n
      <3>3. reader' \in Reader /\ reader'.pos + reader'.limit <= Len(data)
        BY <2>0, <3>1, <3>2, ReaderMoves, ReaderEnds
      <3> QED
        BY <3>1, <3>3, ReaderKept
    <2>8. CASE Close
      <3>1. ReaderStep /\ reader' = ClosedReader
        BY <2>8 DEF Close
      <3>2. reader' \in Reader /\ reader'.pos + reader'.limit <= Len(data)
        BY <2>0, <3>1 DEF ClosedReader, Reader
      <3> QED
        BY <3>1, <3>2, ReaderKept
    <2>9. CASE UNCHANGED vars
      BY <2>0, <2>9, SettingsKept DEF vars
    <2> QED
      BY <2>1, <2>2, <2>3, <2>4, <2>5, <2>6, <2>7, <2>8, <2>9 DEF Next
  <1> QED
    BY <1>1, <1>2

\* An instant has one timestamp, whatever clock the camera's pipeline uses, if
\* timestamp-mode is the source's: three code paths in render agree.
THEOREM MediaSameInstant == Spec => []SameInstant
  <1>1. MediaInv => SameInstant
    BY DEF MediaInv
  <1> QED
    BY <1>1, MediaInvInductive, PTL DEF Spec

-----------------------------------------------------------------------------
(* What a step does to the streams and their readers *)

\* A buffer with event e was rendered: record r is written if e is indexed, and event e,
\* remembered as w, unless it is too large.
Wrote(e, w, r) ==
  /\ w.event = e /\ w.offset = Len(data)
  /\ r.offset = Len(data) /\ r.timestamp = e.timestamp
  /\ UNCHANGED <<reader, got>>
  /\ IF e.flags.include_in_index
     THEN index' = index \o RecordFrame(r) /\ records' = Append(records, r) /\ AcceptsRecord(r)
     ELSE UNCHANGED <<index, records>>
  /\ IF Accepts(e)
     THEN data' = data \o Frame(e) /\ written' = Append(written, w)
     ELSE UNCHANGED <<data, written>>

LEMMA WriteWrote ==
  ASSUME MediaInv, NEW pts \in PravegaTimestamp, NEW origin \in PravegaTimestamp,
         NEW payload \in Payloads, NEW flags \in FlagSets, Write(pts, origin, payload, flags)
  PROVE  \E e \in Event, w \in Written, r \in Record : Wrote(e, w, r)
<1> DEFINE e == EventOf(pts, payload, flags)
           w == [event |-> e, offset |-> Len(data), origin |-> origin, pts |-> pts,
                 mode |-> settings.timestamp_mode]
           r == RecordOf(e)
<1>1. settings \in Settings /\ Len(data) \in Nat
  BY DEF MediaInv, TypeOK
<1>2. e \in Event
  BY <1>1, EventOfType
<1>3. w \in Written /\ w.event = e /\ w.offset = Len(data)
  BY <1>1, <1>2 DEF Written, Settings
<1>4. r \in Record /\ r.offset = Len(data) /\ r.timestamp = e.timestamp
  BY <1>1, <1>2 DEF Record, RecordOf, Event, Flags
<1>5. /\ UNCHANGED <<reader, got>>
      /\ ~e.flags.include_in_index \/ AcceptsRecord(r)
      /\ IF e.flags.include_in_index
         THEN index' = index \o RecordFrame(r) /\ records' = Append(records, r)
         ELSE UNCHANGED <<index, records>>
      /\ IF Accepts(e)
         THEN data' = data \o Frame(e) /\ written' = Append(written, w)
         ELSE UNCHANGED <<data, written>>
  BY DEF Write
<1>6. Wrote(e, w, r)
  <2> HIDE DEF e, w, r
  <2> QED
    BY <1>3, <1>4, <1>5 DEF Wrote
<1> HIDE DEF e, w, r
<1> QED
  BY <1>2, <1>3, <1>4, <1>6

LEMMA PathSteps ==
  ASSUME MediaInv, [Next]_vars
  PROVE  \/ UNCHANGED <<data, index, written, records, reader, got>>
         \/ \E e \in Event, w \in Written, r \in Record : Wrote(e, w, r)
         \/ /\ ReaderStep
            /\ \/ \E i \in DOMAIN written : \E end \in written[i].offset .. Len(data) :
                    Open(written[i].offset, end)
               \/ read_required_buffer_length \/ read_event \/ Close
<1>0. source \in Sources
  BY DEF MediaInv, TypeOK
<1>1. CASE SetProperty \/ Start \/ UNCHANGED vars
  BY <1>1 DEF SetProperty, Start, streams, vars
<1>2. ASSUME NEW payload \in Payloads, NEW flags \in FlagSets, NEW x \in Instants,
             Capture(x, payload, flags)
      PROVE  \E e \in Event, w \in Written, r \in Record : Wrote(e, w, r)
  <2>1. source \in Modes /\ Write(SourcePts(x), x, payload, flags)
    BY <1>0, <1>2, MediaAssumption DEF Capture
  <2>2. SourcePts(x) \in PravegaTimestamp /\ x \in PravegaTimestamp
    BY <2>1, SourcePtsType
  <2> QED
    BY <2>1, <2>2, WriteWrote
<1>3. ASSUME NEW payload \in Payloads, NEW flags \in FlagSets, NEW pts \in RawPts,
             CaptureBeforeRtcp(pts, payload, flags)
      PROVE  \E e \in Event, w \in Written, r \in Record : Wrote(e, w, r)
  <2>1. Write(pts, NONE, payload, flags)
    BY <1>3 DEF CaptureBeforeRtcp
  <2>2. pts \in PravegaTimestamp /\ NONE \in PravegaTimestamp
    BY MediaAssumption DEF PravegaTimestamp, MIN
  <2> QED
    BY <2>1, <2>2, WriteWrote
<1>4. CASE \/ \E i \in DOMAIN written : \E end \in written[i].offset .. Len(data) :
                Open(written[i].offset, end)
           \/ read_required_buffer_length \/ read_event \/ Close
  BY <1>4 DEF Open, read_required_buffer_length, read_event, Close, ReaderStep
<1> QED
  BY <1>1, <1>2, <1>3, <1>4 DEF Next

-----------------------------------------------------------------------------
(* The data stream *)

\* Where the frame of event i ends, and where the frame of event i begins or will begin.
FrameEnd(i) == written[i].offset + Len(Frame(written[i].event))
Place(i) == IF i \in DOMAIN written THEN written[i].offset ELSE Len(data)

\* The data is the frames of the events, one after the other.
Layout ==
  /\ \A i \in DOMAIN written :
       LET f == Frame(written[i].event) IN
       /\ Accepts(written[i].event)
       /\ Place(i + 1) = FrameEnd(i)
       /\ \A k \in 1 .. Len(f) : data[written[i].offset + k] = f[k]
  /\ \A i \in DOMAIN written, j \in 1 .. Len(written) + 1 : i < j => FrameEnd(i) <= Place(j)

\* The length of a frame, and the length in it.
LEMMA FrameLength ==
  ASSUME NEW e \in Event
  PROVE  /\ Frame(e) \in Seq(Nat) /\ Len(e.payload) \in Nat
         /\ Len(Frame(e)) = Len(e.payload) + PREFIX + HEADER
         /\ Frame(e)[PREFIX] = Len(e.payload) + HEADER
<1> DEFINE h == <<0, Len(e.payload) + HEADER, Bits(e.flags), ToWire(e.timestamp)>>
<1>1. /\ e.payload \in Seq(Nat) /\ Len(e.payload) \in Nat
      /\ e.flags \in Flags /\ e.timestamp \in PravegaTimestamp
  BY WordsAreWords DEF Event
<1>2. Bits(e.flags) \in Nat /\ ToWire(e.timestamp) \in Nat
  BY <1>1, FlagsComeBack, TimestampsAssumption DEF ToWire, PravegaTimestamp, NONE, MIN, MAX
<1>3. h \in Seq(Nat) /\ Len(h) = 4 /\ h[2] = Len(e.payload) + HEADER
  BY <1>1, <1>2 DEF HEADER
<1>4. Frame(e) = h \o e.payload
  BY DEF Frame
<1> HIDE DEF h
<1>5. Len(Frame(e)) = 4 + Len(e.payload) /\ Frame(e)[2] = h[2]
  BY <1>1, <1>3, <1>4, HeaderAndPayload
<1> QED
  BY <1>1, <1>3, <1>5, FrameType DEF PREFIX, HEADER

\* A stream with the words of f at pos is what is before, f, and what follows.
LEMMA SplitAt ==
  ASSUME NEW d \in Seq(Nat), NEW pos \in Nat, NEW f \in Seq(Nat), pos + Len(f) <= Len(d),
         \A k \in 1 .. Len(f) : d[pos + k] = f[k]
  PROVE  \E a \in Seq(Nat), b \in Seq(Nat) : Len(a) = pos /\ d = (a \o f) \o b
<1> DEFINE a == SubSeq(d, 1, pos)
           m == pos + Len(f)
           b == SubSeq(d, m + 1, Len(d))
<1>1. Len(f) \in Nat /\ Len(d) \in Nat /\ m \in Nat /\ m <= Len(d) /\ m = pos + Len(f)
  OBVIOUS
<1> HIDE DEF m
<1>2. a \in Seq(Nat) /\ Len(a) = pos /\ \A k \in 1 .. pos : a[k] = d[k]
  OBVIOUS
<1>3. b \in Seq(Nat) /\ Len(b) = Len(d) - m /\ \A k \in 1 .. Len(d) - m : b[k] = d[m + k]
  <2>1. \A k \in m + 1 .. Len(d) : d[k] \in Nat
    BY <1>1
  <2>2. /\ b \in Seq(Nat)
        /\ Len(b) = IF m + 1 <= Len(d) THEN Len(d) - (m + 1) + 1 ELSE 0
        /\ \A k \in 1 .. Len(d) - (m + 1) + 1 : b[k] = d[(m + 1) + k - 1]
    BY <1>1, <2>1, SubSeqProperties
  <2> QED
    BY <1>1, <2>2
<1> HIDE DEF a, b
<1>4. /\ a \o f \in Seq(Nat) /\ Len(a \o f) = m
      /\ \A k \in 1 .. m : (a \o f)[k] = IF k <= pos THEN a[k] ELSE f[k - pos]
  BY <1>1, <1>2, ConcatProperties
<1>5. \A k \in 1 .. m : (a \o f)[k] = d[k]
  <2> SUFFICES ASSUME NEW k \in 1 .. m PROVE (a \o f)[k] = d[k]
    OBVIOUS
  <2>1. CASE k <= pos
    BY <1>1, <1>2, <1>4, <2>1
  <2>2. CASE k > pos
    <3>1. k - pos \in 1 .. Len(f) /\ pos + (k - pos) = k
      BY <1>1, <2>2
    <3>2. f[k - pos] = d[k]
      BY <3>1
    <3>3. ~(k <= pos)
      BY <1>1, <2>2
    <3>4. (a \o f)[k] = IF k <= pos THEN a[k] ELSE f[k - pos]
      BY <1>4, Zenon
    <3> QED
      BY <3>2, <3>3, <3>4, Zenon
  <2> QED
    <3>1. k <= pos \/ k > pos
      BY <1>1
    <3> QED
      BY <2>1, <2>2, <3>1, Zenon
<1> DEFINE c == a \o f
           s == c \o b
<1> HIDE DEF c
<1>6. c \in Seq(Nat) /\ Len(c) = m /\ \A k \in 1 .. m : c[k] = d[k]
  BY <1>4, <1>5 DEF c
<1>7. /\ s \in Seq(Nat) /\ Len(s) = Len(d)
      /\ \A k \in 1 .. Len(d) : s[k] = IF k <= m THEN c[k] ELSE b[k - m]
  <2>1. /\ s \in Seq(Nat) /\ Len(s) = Len(c) + Len(b)
        /\ \A k \in 1 .. Len(c) + Len(b) : s[k] = IF k <= Len(c) THEN c[k] ELSE b[k - Len(c)]
    <3>1. c \in Seq(Nat) /\ b \in Seq(Nat)
      BY <1>3, <1>6, Zenon
    <3> QED
      BY <3>1, ConcatProperties, Zenon
  <2>2. Len(c) = m /\ Len(c) + Len(b) = Len(d)
    BY <1>1, <1>3, <1>6
  <2> HIDE DEF s
  <2> QED
    BY <2>1, <2>2
<1> HIDE DEF s
<1>8. ASSUME NEW k \in 1 .. Len(d) PROVE s[k] = d[k]
  <2>1. CASE k <= m
    BY <1>1, <1>6, <1>7, <2>1
  <2>2. CASE k > m
    <3>1. k - m \in 1 .. Len(d) - m /\ m + (k - m) = k /\ ~(k <= m)
      BY <1>1, <2>2
    <3> QED
      BY <1>3, <1>7, <2>2, <3>1
  <2> QED
    BY <1>1, <2>1, <2>2
<1>9. s = d
  BY <1>7, <1>8, SeqEqual
<1> QED
  BY <1>2, <1>3, <1>9 DEF s, c

\* The frame of an event, read at its place.
LEMMA FrameReadBack ==
  ASSUME NEW d \in Seq(Nat), NEW pos \in Nat, NEW e \in Event, Accepts(e),
         pos + Len(Frame(e)) <= Len(d), \A k \in 1 .. Len(Frame(e)) : d[pos + k] = Frame(e)[k]
  PROVE  /\ event_length(d, pos) = Len(e.payload) + HEADER
         /\ ValidLength(event_length(d, pos))
         /\ EventAt(d, pos + PREFIX, event_length(d, pos)) = ReadBack(e)
<1>1. PICK a \in Seq(Nat), b \in Seq(Nat) : Len(a) = pos /\ d = (a \o Frame(e)) \o b
  BY SplitAt, FrameType
<1>2. ValidLength(event_length(d, pos)) /\ EventAt(d, pos + PREFIX, event_length(d, pos)) = ReadBack(e)
  BY <1>1, EventComesBack
<1>3. PREFIX \in 1 .. Len(Frame(e)) /\ Frame(e)[PREFIX] = Len(e.payload) + HEADER
  BY FrameLength DEF PREFIX, HEADER
<1>4. event_length(d, pos) = Len(e.payload) + HEADER
  BY <1>3 DEF event_length
<1> QED
  BY <1>2, <1>4

\* Types of what is written.
LEMMA WrittenFacts ==
  ASSUME written \in Seq(Written), NEW i \in DOMAIN written
  PROVE  /\ written[i].event \in Event /\ written[i].offset \in Nat
         /\ Frame(written[i].event) \in Seq(Nat) /\ Len(Frame(written[i].event)) \in Nat
         /\ Len(written[i].event.payload) \in Nat
         /\ FrameEnd(i) = written[i].offset + Len(written[i].event.payload) + PREFIX + HEADER
         /\ FrameEnd(i) \in Nat
<1>1. written[i].event \in Event /\ written[i].offset \in Nat
  <2>1. written[i] \in Written
    OBVIOUS
  <2> QED
    BY <2>1 DEF Written
<1>2. /\ Frame(written[i].event) \in Seq(Nat) /\ Len(written[i].event.payload) \in Nat
      /\ Len(Frame(written[i].event)) = Len(written[i].event.payload) + PREFIX + HEADER
  BY <1>1, FrameLength
<1> HIDE DEF PREFIX, HEADER
<1>3. PREFIX \in Nat /\ HEADER \in Nat
  BY DEF PREFIX, HEADER
<1>4. FrameEnd(i) = written[i].offset + Len(Frame(written[i].event))
  BY Zenon DEF FrameEnd
<1>5. Len(Frame(written[i].event)) \in Nat
  BY <1>2, <1>3
<1>6. /\ FrameEnd(i) = written[i].offset + Len(written[i].event.payload) + PREFIX + HEADER
      /\ FrameEnd(i) \in Nat
  BY <1>1, <1>2, <1>3, <1>4, <1>5
<1> QED
  BY <1>1, <1>2, <1>5, <1>6, Zenon

\* Appending a frame leaves the frames before it where they are.
LEMMA WroteEvent ==
  ASSUME MediaInv, NEW e \in Event, NEW w \in Written, NEW r, Wrote(e, w, r), Accepts(e)
  PROVE  /\ Len(written') = Len(written) + 1 /\ written'[Len(written) + 1] = w
         /\ \A i \in DOMAIN written : i \in DOMAIN written' /\ written'[i] = written[i]
         /\ DOMAIN written' = 1 .. Len(written) + 1 /\ DOMAIN written = 1 .. Len(written)
         /\ Len(written) \in Nat /\ Len(data) \in Nat
         /\ Len(data') = Len(data) + Len(Frame(e))
         /\ \A k \in 1 .. Len(data) : data'[k] = data[k]
         /\ \A k \in 1 .. Len(Frame(e)) : data'[Len(data) + k] = Frame(e)[k]
<1>1. written \in Seq(Written) /\ data \in Seq(Nat) /\ Frame(e) \in Seq(Nat)
  BY FrameType DEF MediaInv, TypeOK
<1>2. written' = Append(written, w) /\ data' = data \o Frame(e)
  BY DEF Wrote
<1>3. /\ Len(data') = Len(data) + Len(Frame(e))
      /\ \A k \in 1 .. Len(data) : data'[k] = data[k]
      /\ \A k \in 1 .. Len(Frame(e)) : data'[Len(data) + k] = Frame(e)[k]
  BY <1>1, <1>2, ConcatProperties
<1>4. /\ Len(written') = Len(written) + 1 /\ written'[Len(written) + 1] = w
      /\ \A i \in DOMAIN written : i \in DOMAIN written' /\ written'[i] = written[i]
      /\ DOMAIN written' = 1 .. Len(written) + 1 /\ DOMAIN written = 1 .. Len(written)
  BY <1>1, <1>2
<1> QED
  BY <1>1, <1>3, <1>4

\* So they stay at their places, and the new one is at the end.
LEMMA PlacesKept ==
  ASSUME MediaInv, Layout, NEW e \in Event, NEW w \in Written, NEW r, Wrote(e, w, r), Accepts(e),
         NEW n \in Nat, n = Len(written)
  PROVE  /\ \A j \in 1 .. n + 1 : Place(j)' = Place(j)
         /\ \A i \in 1 .. n : /\ written'[i] = written[i] /\ FrameEnd(i)' = FrameEnd(i)
                              /\ FrameEnd(i) \in Nat /\ FrameEnd(i) <= Len(data)
         /\ Place(n + 2)' = Len(data) + Len(Frame(e))
         /\ FrameEnd(n + 1)' = Len(data) + Len(Frame(e))
<1>1. /\ written'[n + 1] = w
      /\ \A i \in 1 .. n : written'[i] = written[i]
      /\ DOMAIN written' = 1 .. n + 1 /\ DOMAIN written = 1 .. n
      /\ Len(data) \in Nat
      /\ Len(data') = Len(data) + Len(Frame(e))
  BY WroteEvent
<1>2. w.event = e /\ w.offset = Len(data)
  BY DEF Wrote
<1>3. written \in Seq(Written)
  BY DEF MediaInv, TypeOK
<1>4. \A j \in 1 .. n + 1 : Place(j)' = Place(j)
  BY <1>1, <1>2 DEF Place
<1>5. Place(n + 2)' = Len(data) + Len(Frame(e))
  BY <1>1 DEF Place
<1>6. FrameEnd(n + 1)' = Len(data) + Len(Frame(e))
  BY <1>1, <1>2 DEF FrameEnd
<1>7. \A i \in 1 .. n : FrameEnd(i)' = FrameEnd(i)
  BY <1>1 DEF FrameEnd
<1>8. \A i \in 1 .. n : FrameEnd(i) \in Nat
  BY <1>1, <1>3, WrittenFacts
<1>9. ASSUME NEW i \in 1 .. n PROVE FrameEnd(i) <= Len(data)
  <2>1. n + 1 \in 1 .. Len(written) + 1 /\ i < n + 1 /\ Place(n + 1) = Len(data)
    BY <1>1 DEF Place
  <2> QED
    BY <1>1, <2>1 DEF Layout
<1> QED
  BY <1>1, <1>4, <1>5, <1>6, <1>7, <1>8, <1>9

LEMMA LayoutStep == MediaInv /\ Layout /\ [Next]_vars => Layout'
<1> SUFFICES ASSUME MediaInv, Layout, [Next]_vars PROVE Layout'
  OBVIOUS
<1>1. CASE UNCHANGED <<data, written>>
  BY <1>1 DEF Layout, Place, FrameEnd
<1>2. ASSUME NEW e \in Event, NEW w \in Written, NEW r \in Record, Wrote(e, w, r), Accepts(e)
      PROVE  Layout'
  <2> SUFFICES ASSUME NEW n \in Nat, n = Len(written), NEW fe, fe = Frame(e) PROVE Layout'
    BY <1>2, WroteEvent
  <2>1. /\ Len(written') = n + 1 /\ written'[n + 1] = w
        /\ \A i \in 1 .. n : written'[i] = written[i]
        /\ DOMAIN written' = 1 .. n + 1 /\ DOMAIN written = 1 .. n
        /\ Len(data) \in Nat
        /\ Len(data') = Len(data) + Len(fe)
        /\ \A k \in 1 .. Len(data) : data'[k] = data[k]
        /\ \A k \in 1 .. Len(fe) : data'[Len(data) + k] = fe[k]
    BY <1>2, WroteEvent
  <2>2. w.event = e /\ w.offset = Len(data) /\ Len(fe) \in Nat
    BY <1>2, FrameLength DEF Wrote
  <2>3. written \in Seq(Written)
    BY DEF MediaInv, TypeOK
  <2>4. /\ \A j \in 1 .. n + 1 : Place(j)' = Place(j)
        /\ Place(n + 2)' = Len(data) + Len(fe) /\ FrameEnd(n + 1)' = Len(data) + Len(fe)
    BY <1>2, PlacesKept
  <2>5. \A i \in 1 .. n : FrameEnd(i)' = FrameEnd(i) /\ FrameEnd(i) \in Nat /\ FrameEnd(i) <= Len(data)
    BY <1>2, PlacesKept
  <2>6. ASSUME NEW i \in DOMAIN written'
        PROVE  /\ Accepts(written'[i].event)
               /\ Place(i + 1)' = FrameEnd(i)'
               /\ \A k \in 1 .. Len(Frame(written'[i].event)) :
                    data'[written'[i].offset + k] = Frame(written'[i].event)[k]
    <3>1. CASE i = n + 1
      <4>1. i + 1 = n + 2 /\ written'[i] = w
        BY <2>1, <3>1
      <4>2. Place(i + 1)' = FrameEnd(i)'
        BY <2>4, <3>1, <4>1
      <4> QED
        BY <1>2, <2>1, <2>2, <4>1, <4>2
    <3>2. CASE i \in 1 .. n
      <4>1. /\ Accepts(written[i].event) /\ Place(i + 1) = FrameEnd(i)
            /\ \A k \in 1 .. Len(Frame(written[i].event)) :
                 data[written[i].offset + k] = Frame(written[i].event)[k]
        BY <2>1, <3>2 DEF Layout
      <4>2. written'[i] = written[i] /\ i + 1 \in 1 .. n + 1
        BY <2>1, <3>2
      <4>3. Place(i + 1)' = FrameEnd(i)'
        BY <2>4, <2>5, <3>2, <4>1, <4>2
      <4>4. \A k \in 1 .. Len(Frame(written[i].event)) : written[i].offset + k \in 1 .. Len(data)
        <5>1. /\ written[i].offset \in Nat /\ Len(Frame(written[i].event)) \in Nat
              /\ written[i].offset + Len(Frame(written[i].event)) <= Len(data)
          BY <2>1, <2>3, <2>5, <3>2, WrittenFacts DEF FrameEnd
        <5> QED
          BY <2>1, <5>1
      <4> QED
        BY <2>1, <4>1, <4>2, <4>3, <4>4
    <3> QED
      BY <2>1, <3>1, <3>2
  <2>7. ASSUME NEW i \in DOMAIN written', NEW j \in 1 .. Len(written') + 1, i < j
        PROVE  FrameEnd(i)' <= Place(j)'
    <3>1. CASE j = n + 2 /\ i = n + 1
      BY <2>1, <2>2, <2>4, <3>1
    <3>2. CASE j = n + 2 /\ i \in 1 .. n
      BY <2>1, <2>2, <2>4, <2>5, <3>2
    <3>3. CASE j \in 1 .. n + 1 /\ i \in 1 .. n
      <4>1. FrameEnd(i) <= Place(j)
        BY <2>1, <2>7, <3>3 DEF Layout
      <4> QED
        BY <2>4, <2>5, <3>3, <4>1
    <3> QED
      <4>1. i \in 1 .. n + 1 /\ j \in 1 .. n + 2
        BY <2>1, <2>7
      <4>2. \/ j = n + 2 /\ i = n + 1
            \/ j = n + 2 /\ i \in 1 .. n
            \/ j \in 1 .. n + 1 /\ i \in 1 .. n
        BY <2>7, <4>1
      <4> QED
        BY <3>1, <3>2, <3>3, <4>2, Zenon
  <2> QED
    BY <2>6, <2>7 DEF Layout
<1>3. CASE ReaderStep
  BY <1>1, <1>3 DEF ReaderStep
<1> QED
  BY <1>1, <1>2, <1>3, PathSteps DEF Wrote

LEMMA LayoutInvariant == Spec => []Layout
<1>1. Init => Layout
  <2> SUFFICES ASSUME Init PROVE Layout
    OBVIOUS
  <2>1. DOMAIN written = {}
    BY DEF Init
  <2> QED
    BY <2>1 DEF Layout
<1> QED
  BY <1>1, MediaInvInductive, LayoutStep, PTL DEF Spec

-----------------------------------------------------------------------------
(* Its reader *)

\* The reader was opened at event f and has read the events from there.
ReadFrom(f) ==
  LET next == f + Len(got) IN
  /\ written[f].offset = reader.begin /\ next <= Len(written) + 1
  /\ \A k \in 1 .. Len(got) : got[k] = ReadBack(written[f + k - 1].event)
  /\ reader.pc = "length" => reader.pos = Place(next)
  /\ reader.pc = "event" =>
       /\ next \in DOMAIN written /\ reader.pos = written[next].offset + PREFIX
       /\ reader.event_length = Len(written[next].event.payload) + HEADER
  /\ reader.pc = "end" =>
       \A j \in DOMAIN written : IF j < next THEN FrameEnd(j) <= reader.pos ELSE reader.pos < FrameEnd(j)

ReaderInv ==
  /\ got \in Seq(Event) /\ reader.pc # "error"
  /\ reader.pc # "closed" => \E f \in DOMAIN written : ReadFrom(f)

\* What the lemmas need of the types.
LEMMA PathTypes ==
  ASSUME MediaInv
  PROVE  /\ data \in Seq(Nat) /\ Len(data) \in Nat
         /\ written \in Seq(Written) /\ Len(written) \in Nat /\ DOMAIN written = 1 .. Len(written)
         /\ reader \in Reader /\ reader.pos \in Nat /\ reader.limit \in Nat /\ reader.begin \in Nat
         /\ reader.event_length \in Nat /\ reader.pos + reader.limit <= Len(data)
<1>1. data \in Seq(Nat) /\ written \in Seq(Written) /\ reader \in Reader
  BY DEF MediaInv, TypeOK
<1>2. /\ reader.pos \in Nat /\ reader.limit \in Nat /\ reader.begin \in Nat
      /\ reader.event_length \in Nat
  BY <1>1 DEF Reader
<1> QED
  BY <1>1, <1>2 DEF MediaInv, ReaderInData

\* A frame as numbers.
LEMMA FrameParts ==
  ASSUME written \in Seq(Written), NEW i \in DOMAIN written
  PROVE  \E o \in Nat, p \in Nat :
           /\ written[i].offset = o /\ Len(written[i].event.payload) = p
           /\ FrameEnd(i) = o + p + 4
<1> DEFINE o == written[i].offset
           p == Len(written[i].event.payload)
<1>1. o \in Nat /\ p \in Nat /\ FrameEnd(i) = o + p + PREFIX + HEADER
  BY WrittenFacts
<1> HIDE DEF o, p
<1>2. o + p + PREFIX + HEADER = o + p + 4
  BY <1>1 DEF PREFIX, HEADER
<1> QED
  BY <1>1, <1>2 DEF o, p

\* What is read back is an event.
LEMMA ReadBackType ==
  ASSUME NEW e \in Event
  PROVE  ReadBack(e) \in Event
<1>1. e.timestamp \in PravegaTimestamp
  BY DEF Event
<1>2. FromWire(ToWire(e.timestamp)) \in PravegaTimestamp
  BY <1>1 DEF FromWire, ToWire, PravegaTimestamp
<1> QED
  BY <1>2 DEF ReadBack, Event

\* The events that end at p or before, if p is at or in the frame that begins at Place(g).
LEMMA EndsBefore ==
  ASSUME MediaInv, Layout, NEW p \in Nat, NEW g \in 1 .. Len(written) + 1, Place(g) <= p,
         g \in DOMAIN written => p < FrameEnd(g)
  PROVE  \A j \in DOMAIN written : IF j < g THEN FrameEnd(j) <= p ELSE p < FrameEnd(j)
<1> SUFFICES ASSUME NEW j \in DOMAIN written PROVE IF j < g THEN FrameEnd(j) <= p ELSE p < FrameEnd(j)
  OBVIOUS
<1>1. /\ written \in Seq(Written) /\ Len(written) \in Nat /\ DOMAIN written = 1 .. Len(written)
      /\ Len(data) \in Nat
  BY PathTypes
<1>2. FrameEnd(j) \in Nat /\ written[j].offset \in Nat /\ written[j].offset <= FrameEnd(j)
  <2>1. /\ FrameEnd(j) \in Nat /\ written[j].offset \in Nat /\ Len(written[j].event.payload) \in Nat
        /\ FrameEnd(j) = written[j].offset + Len(written[j].event.payload) + PREFIX + HEADER
    BY <1>1, WrittenFacts
  <2> QED
    BY <2>1 DEF PREFIX, HEADER
<1>3. CASE j < g
  <2>1. FrameEnd(j) <= Place(g)
    BY <1>3 DEF Layout
  <2>2. Place(g) \in Nat
    BY <1>1, WrittenFacts DEF Place
  <2> QED
    BY <1>2, <1>3, <2>1, <2>2
<1>4. CASE j = g
  BY <1>4
<1>5. CASE g < j
  <2>1. g \in DOMAIN written /\ j \in 1 .. Len(written) + 1
    BY <1>1, <1>5
  <2>2. FrameEnd(g) <= written[j].offset
    BY <1>5, <2>1 DEF Layout, Place
  <2>3. FrameEnd(g) \in Nat /\ p < FrameEnd(g)
    BY <1>1, <2>1, WrittenFacts
  <2> QED
    BY <1>1, <1>2, <1>5, <2>2, <2>3
<1> QED
  BY <1>1, <1>3, <1>4, <1>5

LEMMA ReaderInvWrote ==
  ASSUME MediaInv, Layout, ReaderInv, NEW e \in Event, NEW w \in Written, NEW r, Wrote(e, w, r)
  PROVE  ReaderInv'
<1>1. UNCHANGED <<reader, got>>
  BY DEF Wrote
<1>2. CASE ~Accepts(e)
  <2>1. UNCHANGED <<data, written>>
    BY <1>2 DEF Wrote
  <2> QED
    BY <1>1, <2>1 DEF ReaderInv, ReadFrom, Place, FrameEnd
<1>3. CASE Accepts(e)
  <2>1. /\ written \in Seq(Written) /\ Len(written) \in Nat /\ DOMAIN written = 1 .. Len(written)
        /\ Len(data) \in Nat /\ reader.pos \in Nat /\ reader.limit \in Nat
        /\ reader.pos + reader.limit <= Len(data)
    BY PathTypes
  <2>2. got \in Seq(Event) /\ reader.pc # "error"
    BY DEF ReaderInv
  <2> SUFFICES ASSUME reader.pc # "closed" PROVE \E f \in DOMAIN written' : ReadFrom(f)'
    BY <1>1, <2>2 DEF ReaderInv
  <2>3. PICK f \in DOMAIN written : ReadFrom(f)
    BY DEF ReaderInv
  <2> SUFFICES ASSUME NEW n \in Nat, n = Len(written), NEW g \in Nat, g = f + Len(got)
               PROVE  \E j \in DOMAIN written' : ReadFrom(j)'
    <3>0. Len(written) \in Nat /\ f \in 1 .. Len(written)
      BY <2>1
    <3>1. Len(written) \in Nat /\ f \in Nat /\ Len(got) \in Nat
      <4>1. Len(got) \in Nat
        BY <2>2
      <4> QED
        BY <3>0, <4>1
    <3>2. f + Len(got) \in Nat
      BY <3>1
    <3> QED
      BY <3>1, <3>2
  <2>4. /\ DOMAIN written' = 1 .. n + 1 /\ Len(written') = n + 1
        /\ \A j \in 1 .. n + 1 : Place(j)' = Place(j)
        /\ \A i \in 1 .. n : written'[i] = written[i] /\ FrameEnd(i)' = FrameEnd(i)
        /\ FrameEnd(n + 1)' = Len(data) + Len(Frame(e))
    BY <1>3, PlacesKept, WroteEvent
  <2>5. /\ written[f].offset = reader.begin /\ g <= n + 1 /\ g \in 1 .. n + 1
        /\ \A k \in 1 .. Len(got) : got[k] = ReadBack(written[f + k - 1].event)
        /\ reader.pc = "length" => reader.pos = Place(g)
        /\ reader.pc = "event" =>
             /\ g \in 1 .. n /\ reader.pos = written[g].offset + PREFIX
             /\ reader.event_length = Len(written[g].event.payload) + HEADER
        /\ reader.pc = "end" =>
             \A j \in 1 .. n : IF j < g THEN FrameEnd(j) <= reader.pos ELSE reader.pos < FrameEnd(j)
    BY <2>1, <2>2, <2>3 DEF ReadFrom
  <2>6. \A k \in 1 .. Len(got) : f + k - 1 \in 1 .. n
    BY <2>1, <2>2, <2>5
  <2>7. reader.pos < FrameEnd(n + 1)'
    <3>1. Len(Frame(e)) \in Nat /\ Len(Frame(e)) > 0
      BY FrameLength DEF PREFIX, HEADER
    <3> QED
      BY <2>1, <2>4, <3>1
  <2>8. \A k \in 1 .. Len(got) : got[k] = ReadBack(written'[f + k - 1].event)
    BY <2>4, <2>5, <2>6
  <2>9. reader.pc = "end" =>
          \A j \in 1 .. n + 1 : IF j < g THEN FrameEnd(j)' <= reader.pos ELSE reader.pos < FrameEnd(j)'
    <3> SUFFICES ASSUME reader.pc = "end", NEW j \in 1 .. n + 1
                 PROVE  IF j < g THEN FrameEnd(j)' <= reader.pos ELSE reader.pos < FrameEnd(j)'
      OBVIOUS
    <3>1. CASE j = n + 1
      BY <2>5, <2>7, <3>1
    <3>2. CASE j \in 1 .. n
      BY <2>4, <2>5, <3>2
    <3> QED
      BY <3>1, <3>2
  <2>10. ReadFrom(f)'
    <3>1. /\ written'[f].offset = reader.begin /\ g <= Len(written') + 1 /\ g = f + Len(got)
      BY <2>1, <2>4, <2>5
    <3>2. reader.pc = "length" => reader.pos = Place(g)'
      BY <2>4, <2>5
    <3>3. reader.pc = "event" =>
             /\ g \in DOMAIN written' /\ reader.pos = written'[g].offset + PREFIX
             /\ reader.event_length = Len(written'[g].event.payload) + HEADER
      BY <2>4, <2>5
    <3> QED
      BY <1>1, <2>4, <2>8, <2>9, <3>1, <3>2, <3>3 DEF ReadFrom
  <2> QED
    BY <2>1, <2>4, <2>10
<1> QED
  BY <1>2, <1>3

\* Reading: the window ends in a frame, or the frame of the next event is there.
LEMMA ReaderInvLength ==
  ASSUME MediaInv, Layout, ReaderInv, read_required_buffer_length
  PROVE  ReaderInv'
<1>1. /\ written \in Seq(Written) /\ Len(written) \in Nat /\ DOMAIN written = 1 .. Len(written)
      /\ data \in Seq(Nat) /\ Len(data) \in Nat /\ reader.pos \in Nat /\ reader.limit \in Nat
      /\ reader.pos + reader.limit <= Len(data) /\ reader \in Reader
  BY PathTypes
<1>2. UNCHANGED <<data, written, got>> /\ reader.pc = "length" /\ got \in Seq(Event)
  BY DEF read_required_buffer_length, ReaderStep, ReaderInv
<1>3. PICK f \in DOMAIN written : ReadFrom(f)
  BY <1>2 DEF ReaderInv
<1> SUFFICES ASSUME NEW g \in Nat, g = f + Len(got) PROVE ReaderInv'
  BY <1>1, <1>2
<1>4. /\ written[f].offset = reader.begin /\ g <= Len(written) + 1 /\ g \in 1 .. Len(written) + 1
      /\ \A k \in 1 .. Len(got) : got[k] = ReadBack(written[f + k - 1].event)
      /\ reader.pos = Place(g)
  BY <1>1, <1>2, <1>3 DEF ReadFrom
<1>5. g \in DOMAIN written =>
        /\ reader.pos = written[g].offset
        /\ FrameEnd(g) = reader.pos + Len(written[g].event.payload) + PREFIX + HEADER
        /\ Len(written[g].event.payload) \in Nat
  BY <1>1, <1>4, WrittenFacts DEF Place
<1>6. CASE ~IsWhole(PREFIX)
  <2>1. /\ reader' = [reader EXCEPT !.pc = "end", !.pos = @ + reader.limit, !.limit = 0]
        /\ reader.limit < PREFIX
    BY <1>1, <1>6 DEF read_required_buffer_length, IsWhole, PREFIX
  <2>2. reader'.pc = "end" /\ reader'.begin = reader.begin /\ reader'.pos = reader.pos + reader.limit
    BY <1>1, <2>1 DEF Reader
  <2>3. \A j \in DOMAIN written : IF j < g THEN FrameEnd(j) <= reader'.pos ELSE reader'.pos < FrameEnd(j)
    <3>1. reader'.pos \in Nat /\ Place(g) <= reader'.pos
      BY <1>1, <1>4, <2>2
    <3>2. g \in DOMAIN written => reader'.pos < FrameEnd(g)
      <4> SUFFICES ASSUME g \in DOMAIN written PROVE reader'.pos < FrameEnd(g)
        OBVIOUS
      <4>1. PICK o \in Nat, p \in Nat : written[g].offset = o /\ FrameEnd(g) = o + p + 4
        BY <1>1, FrameParts
      <4>2. reader.pos = o /\ reader.limit < 2
        BY <1>5, <2>1, <4>1 DEF PREFIX
      <4> QED
        BY <1>1, <2>2, <4>1, <4>2
    <3> QED
      BY <1>4, <3>1, <3>2, EndsBefore
  <2>4. ReadFrom(f)'
    BY <1>2, <1>4, <2>2, <2>3 DEF ReadFrom, FrameEnd
  <2> QED
    BY <1>2, <1>3, <2>2, <2>4 DEF ReaderInv
<1>7. CASE IsWhole(PREFIX)
  <2> DEFINE n == event_length(data, reader.pos)
  <2>1. /\ reader' = [reader EXCEPT !.pc = IF ValidLength(n) THEN "event" ELSE "error",
                                    !.pos = @ + PREFIX, !.limit = @ - PREFIX, !.event_length = n]
        /\ reader.limit >= PREFIX
    BY <1>1, <1>7 DEF read_required_buffer_length, IsWhole, PREFIX
  <2>2. g \in DOMAIN written
    <3>1. reader.pos < Len(data)
      BY <1>1, <2>1 DEF PREFIX
    <3> QED
      BY <1>1, <1>4, <3>1 DEF Place
  <2>3. /\ written[g].event \in Event /\ Accepts(written[g].event)
        /\ written[g].offset + Len(Frame(written[g].event)) <= Len(data)
        /\ \A k \in 1 .. Len(Frame(written[g].event)) :
             data[written[g].offset + k] = Frame(written[g].event)[k]
    <3>1. FrameEnd(g) <= Len(data)
      <4>1. g < Len(written) + 1 /\ Len(written) + 1 \in 1 .. Len(written) + 1
            /\ Place(Len(written) + 1) = Len(data)
        BY <1>1, <2>2 DEF Place
      <4> QED
        BY <2>2, <4>1 DEF Layout
    <3> QED
      BY <1>1, <2>2, <3>1, WrittenFacts DEF Layout, FrameEnd
  <2>4. ValidLength(n) /\ n = Len(written[g].event.payload) + HEADER
    <3>1. written[g].offset \in Nat /\ reader.pos = written[g].offset
      BY <1>1, <1>5, <2>2, WrittenFacts
    <3>2. /\ event_length(data, written[g].offset) = Len(written[g].event.payload) + HEADER
          /\ ValidLength(event_length(data, written[g].offset))
      BY <1>1, <2>3, <3>1, FrameReadBack
    <3> QED
      BY <3>1, <3>2
  <2> HIDE DEF n
  <2>5. /\ reader'.pc = "event" /\ reader'.begin = reader.begin
        /\ reader'.pos = reader.pos + PREFIX /\ reader'.event_length = n
    BY <1>1, <2>1, <2>4 DEF Reader
  <2>6. ReadFrom(f)'
    BY <1>2, <1>4, <1>5, <2>2, <2>4, <2>5 DEF ReadFrom
  <2> QED
    BY <1>2, <1>3, <2>5, <2>6 DEF ReaderInv
<1> QED
  BY <1>6, <1>7

LEMMA ReaderInvEvent ==
  ASSUME MediaInv, Layout, ReaderInv, read_event
  PROVE  ReaderInv'
<1>1. /\ written \in Seq(Written) /\ Len(written) \in Nat /\ DOMAIN written = 1 .. Len(written)
      /\ data \in Seq(Nat) /\ Len(data) \in Nat /\ reader.pos \in Nat /\ reader.limit \in Nat
      /\ reader.pos + reader.limit <= Len(data) /\ reader \in Reader
  BY PathTypes
<1>2. UNCHANGED <<data, written>> /\ reader.pc = "event" /\ got \in Seq(Event)
  BY DEF read_event, ReaderStep, ReaderInv
<1>3. PICK f \in DOMAIN written : ReadFrom(f)
  BY <1>2 DEF ReaderInv
<1> SUFFICES ASSUME NEW m \in Nat, m = Len(got), NEW g \in Nat, g = f + m PROVE ReaderInv'
  BY <1>1, <1>2
<1>4. /\ written[f].offset = reader.begin /\ g \in DOMAIN written /\ g \in 1 .. Len(written) + 1
      /\ \A k \in 1 .. m : got[k] = ReadBack(written[f + k - 1].event)
      /\ reader.pos = written[g].offset + PREFIX
      /\ reader.event_length = Len(written[g].event.payload) + HEADER
  <2>1. /\ written[f].offset = reader.begin /\ g \in DOMAIN written
        /\ \A k \in 1 .. Len(got) : got[k] = ReadBack(written[f + k - 1].event)
        /\ reader.pos = written[g].offset + PREFIX
        /\ reader.event_length = Len(written[g].event.payload) + HEADER
    BY <1>2, <1>3 DEF ReadFrom
  <2>2. g \in 1 .. Len(written) + 1
    BY <1>1, <2>1
  <2> QED
    BY <2>1, <2>2
<1>5. /\ FrameEnd(g) = written[g].offset + Len(written[g].event.payload) + PREFIX + HEADER
      /\ Len(written[g].event.payload) \in Nat /\ written[g].offset \in Nat
      /\ written[g].event \in Event
  BY <1>1, <1>4, WrittenFacts
<1> DEFINE n == reader.event_length
<1>0. PICK o \in Nat, p \in Nat :
        /\ written[g].offset = o /\ Len(written[g].event.payload) = p
        /\ FrameEnd(g) = o + p + 4 /\ reader.pos = o + 2 /\ n = p + 2
  BY <1>1, <1>4, FrameParts DEF PREFIX, HEADER
<1>6. CASE ~IsWhole(n)
  <2>1. /\ reader' = [reader EXCEPT !.pc = "end", !.pos = @ + reader.limit, !.limit = 0]
        /\ ~(n <= reader.limit) /\ got' = got
    BY <1>6 DEF read_event, IsWhole
  <2>2. reader'.pc = "end" /\ reader'.begin = reader.begin /\ reader'.pos = reader.pos + reader.limit
    BY <1>1, <2>1 DEF Reader
  <2>3. \A j \in DOMAIN written : IF j < g THEN FrameEnd(j) <= reader'.pos ELSE reader'.pos < FrameEnd(j)
    <3>1. reader'.pos \in Nat /\ Place(g) <= reader'.pos
      <4>1. Place(g) = o
        BY <1>0, <1>4 DEF Place
      <4>2. reader.limit \in Nat /\ reader'.pos = (o + 2) + reader.limit
        BY <1>0, <1>1, <2>2, Zenon DEF Reader
      <4>3. reader'.pos \in Nat /\ o <= reader'.pos
        BY <4>2
      <4> QED
        BY <4>1, <4>3, Zenon
    <3>2. reader'.pos < FrameEnd(g)
      <4>1. reader.limit < p + 2
        BY <1>0, <1>1, <2>1
      <4> QED
        BY <1>0, <1>1, <2>2, <4>1
    <3> QED
      BY <1>4, <3>1, <3>2, EndsBefore
  <2>4. ReadFrom(f)'
    BY <1>1, <1>2, <1>4, <2>1, <2>2, <2>3 DEF ReadFrom, FrameEnd
  <2> QED
    BY <1>2, <1>3, <2>1, <2>2, <2>4 DEF ReaderInv
<1>7. CASE IsWhole(n)
  <2> DEFINE e == EventAt(data, reader.pos, n)
  <2>1. /\ reader' = [reader EXCEPT !.pc = "length", !.pos = @ + n, !.limit = @ - n]
        /\ got' = Append(got, e)
    BY <1>7 DEF read_event
  <2>2. reader'.pc = "length" /\ reader'.begin = reader.begin /\ reader'.pos = reader.pos + n
    BY <1>1, <2>1 DEF Reader
  <2>3. /\ Accepts(written[g].event)
        /\ written[g].offset + Len(Frame(written[g].event)) <= Len(data)
        /\ \A k \in 1 .. Len(Frame(written[g].event)) :
             data[written[g].offset + k] = Frame(written[g].event)[k]
    <3>1. FrameEnd(g) <= Len(data)
      <4>1. g < Len(written) + 1 /\ Len(written) + 1 \in 1 .. Len(written) + 1
            /\ Place(Len(written) + 1) = Len(data)
        BY <1>1, <1>4 DEF Place
      <4> QED
        BY <1>4, <4>1 DEF Layout
    <3> QED
      BY <1>1, <1>4, <3>1 DEF Layout, FrameEnd
  <2>4. e = ReadBack(written[g].event)
    <3>1. event_length(data, written[g].offset) = n
      BY <1>1, <1>4, <1>5, <2>3, FrameReadBack
    <3>2. EventAt(data, written[g].offset + PREFIX, event_length(data, written[g].offset))
            = ReadBack(written[g].event)
      BY <1>1, <1>4, <1>5, <2>3, FrameReadBack
    <3> QED
      BY <1>4, <3>1, <3>2
  <2>5. e \in Event
    BY <1>5, <2>4, ReadBackType
  <2>6. Place(g + 1) = FrameEnd(g) /\ reader'.pos = Place(g + 1)
    <3>1. Place(g + 1) = FrameEnd(g)
      BY <1>4 DEF Layout
    <3>2. reader'.pos = FrameEnd(g)
      <4>1. reader'.pos = (o + 2) + (p + 2)
        BY <1>0, <2>2
      <4> QED
        BY <1>0, <4>1
    <3> QED
      BY <3>1, <3>2
  <2> HIDE DEF e, n
  <2>7. /\ got' \in Seq(Event) /\ Len(got') = m + 1 /\ got'[m + 1] = e
        /\ \A k \in 1 .. m : got'[k] = got[k]
    BY <1>2, <2>1, <2>5
  <2>8. \A k \in 1 .. m + 1 : got'[k] = ReadBack(written[f + k - 1].event)
    <3> SUFFICES ASSUME NEW k \in 1 .. m + 1 PROVE got'[k] = ReadBack(written[f + k - 1].event)
      OBVIOUS
    <3>1. CASE k = m + 1
      <4>1. f + k - 1 = g
        BY <1>1, <3>1
      <4> QED
        BY <2>4, <2>7, <3>1, <4>1
    <3>2. CASE k \in 1 .. m
      BY <1>4, <2>7, <3>2
    <3> QED
      BY <3>1, <3>2
  <2>9. g + 1 = f + Len(got') /\ g + 1 <= Len(written) + 1
    <3>1. f \in Nat /\ g \in 1 .. Len(written)
      BY <1>1, <1>3, <1>4
    <3> QED
      <4>1. Len(got') = m + 1 /\ Len(written) \in Nat
        BY <1>1, <2>7
      <4>2. g + 1 = f + (m + 1) /\ g + 1 <= Len(written) + 1
        BY <3>1, <4>1
      <4> QED
        BY <4>1, <4>2
  <2>10. ReadFrom(f)'
    <3>1. reader'.pos = Place(g + 1)'
      BY <1>2, <2>6 DEF Place
    <3> QED
      BY <1>2, <1>4, <2>2, <2>7, <2>8, <2>9, <3>1 DEF ReadFrom
  <2> QED
    BY <1>2, <1>3, <2>2, <2>7, <2>10 DEF ReaderInv
<1> QED
  BY <1>6, <1>7

LEMMA ReaderInvStep == MediaInv /\ Layout /\ ReaderInv /\ [Next]_vars => ReaderInv'
<1> SUFFICES ASSUME MediaInv, Layout, ReaderInv, [Next]_vars PROVE ReaderInv'
  OBVIOUS
<1>1. CASE UNCHANGED <<data, index, written, records, reader, got>>
  BY <1>1 DEF ReaderInv, ReadFrom, Place, FrameEnd
<1>2. ASSUME ReaderStep, NEW i \in DOMAIN written, NEW end \in written[i].offset .. Len(data),
             Open(written[i].offset, end)
      PROVE  ReaderInv'
  <2>1. /\ reader' = [pc |-> "length", begin |-> written[i].offset, pos |-> written[i].offset,
                      limit |-> end - written[i].offset, event_length |-> 0]
        /\ got' = <<>> /\ UNCHANGED <<data, written>>
    BY <1>2 DEF Open
  <2>2. written \in Seq(Written) /\ Len(written) \in Nat /\ DOMAIN written = 1 .. Len(written)
    BY PathTypes
  <2>3. got' \in Seq(Event) /\ Len(got') = 0 /\ i + Len(got') = i
    BY <2>1, <2>2
  <2>4. reader'.pc = "length" /\ reader'.begin = written[i].offset /\ reader'.pos = Place(i)
    BY <2>1 DEF Place
  <2>5. ReadFrom(i)'
    BY <2>1, <2>2, <2>3, <2>4 DEF ReadFrom, Place
  <2> QED
    BY <2>1, <2>3, <2>4, <2>5 DEF ReaderInv
<1>3. CASE Close
  BY <1>3 DEF Close, ClosedReader, ReaderInv
<1> QED
  BY <1>1, <1>2, <1>3, PathSteps, ReaderInvWrote, ReaderInvLength, ReaderInvEvent

\* The events of the window are those that the reader passed.
LEMMA WindowIsRead ==
  ASSUME MediaInv, Layout, ReaderInv, reader.pc = "end"
  PROVE  LET events == InWindow(reader.begin, reader.pos) IN
         Len(got) = Len(events) /\ \A k \in DOMAIN got : got[k] = ReadBack(events[k])
<1>1. /\ written \in Seq(Written) /\ Len(written) \in Nat /\ DOMAIN written = 1 .. Len(written)
      /\ reader.pos \in Nat /\ reader.begin \in Nat /\ got \in Seq(Event)
  BY PathTypes DEF ReaderInv
<1>2. PICK f \in DOMAIN written : ReadFrom(f)
  BY DEF ReaderInv
<1> DEFINE n == Len(got)
           events == InWindow(reader.begin, reader.pos)
           whole == {i \in DOMAIN written : /\ reader.begin <= written[i].offset
                                            /\ FrameEnd(i) <= reader.pos}
           first == CHOOSE i \in whole : \A j \in whole : i <= j
<1>3. /\ n \in Nat /\ f \in Nat /\ f >= 1 /\ f + n <= Len(written) + 1 /\ written[f].offset = reader.begin
      /\ \A k \in 1 .. n : got[k] = ReadBack(written[f + k - 1].event)
      /\ \A j \in DOMAIN written : IF j < f + n THEN FrameEnd(j) <= reader.pos ELSE reader.pos < FrameEnd(j)
  BY <1>1, <1>2 DEF ReadFrom
<1>4. \A i \in DOMAIN written : reader.begin <= written[i].offset <=> f <= i
  <2> SUFFICES ASSUME NEW i \in DOMAIN written PROVE reader.begin <= written[i].offset <=> f <= i
    OBVIOUS
  <2>1. /\ written[i].offset \in Nat /\ FrameEnd(i) \in Nat /\ written[i].offset < FrameEnd(i)
        /\ written[f].offset \in Nat /\ FrameEnd(f) \in Nat /\ written[f].offset < FrameEnd(f)
    <3>1. \A j \in DOMAIN written :
            written[j].offset \in Nat /\ FrameEnd(j) \in Nat /\ written[j].offset < FrameEnd(j)
      <4> SUFFICES ASSUME NEW j \in DOMAIN written
                   PROVE  written[j].offset \in Nat /\ FrameEnd(j) \in Nat /\ written[j].offset < FrameEnd(j)
        OBVIOUS
      <4>1. PICK o \in Nat, p \in Nat : written[j].offset = o /\ FrameEnd(j) = o + p + 4
        BY <1>1, FrameParts
      <4> QED
        BY <4>1
    <3> QED
      BY <3>1
  <2>2. CASE i < f
    <3>1. f \in 1 .. Len(written) + 1 /\ Place(f) = written[f].offset
      BY <1>1 DEF Place
    <3>2. FrameEnd(i) <= written[f].offset
      BY <2>2, <3>1 DEF Layout
    <3> QED
      BY <1>1, <1>3, <2>1, <2>2, <3>2
  <2>3. CASE i = f
    BY <1>1, <1>3, <2>1, <2>3
  <2>4. CASE f < i
    <3>1. i \in 1 .. Len(written) + 1 /\ Place(i) = written[i].offset
      BY <1>1 DEF Place
    <3>2. FrameEnd(f) <= written[i].offset
      BY <2>4, <3>1 DEF Layout
    <3> QED
      BY <1>1, <1>3, <2>1, <2>4, <3>2
  <2> QED
    BY <1>1, <2>2, <2>3, <2>4
<1>5. whole = f .. f + n - 1
  <2>1. ASSUME NEW i \in whole PROVE i \in f .. f + n - 1
    <3>1. i \in DOMAIN written /\ f <= i /\ FrameEnd(i) <= reader.pos
      BY <1>4
    <3>2. FrameEnd(i) \in Nat
      BY <1>1, <3>1, WrittenFacts
    <3>3. i < f + n
      BY <1>1, <1>3, <3>1, <3>2
    <3> QED
      BY <1>1, <1>3, <3>1, <3>3
  <2>2. ASSUME NEW i \in f .. f + n - 1 PROVE i \in whole
    <3>1. i \in DOMAIN written /\ f <= i /\ i < f + n
      BY <1>1, <1>3
    <3> QED
      BY <1>3, <1>4, <3>1
  <2> QED
    BY <2>1, <2>2
<1>6. events = IF whole = {} THEN <<>>
               ELSE [k \in 1 .. Cardinality(whole) |-> written[first + k - 1].event]
  BY DEF InWindow, FrameEnd
<1> HIDE DEF whole, events, n
<1>7. CASE n = 0
  <2>1. whole = {}
    BY <1>3, <1>5, <1>7
  <2>2. events = <<>>
    BY <1>6, <2>1
  <2>3. Len(events) = 0 /\ Len(got) = 0 /\ DOMAIN got = {}
    BY <1>1, <1>7, <2>2 DEF n
  <2> QED
    BY <2>3 DEF events
<1>8. CASE n > 0
  <2>1. f \in whole /\ \A j \in whole : f <= j
    BY <1>3, <1>5, <1>8
  <2>2. first = f
    <3>1. \A i \in whole : (\A j \in whole : i <= j) => i = f
      BY <1>3, <1>5, <2>1
    <3> QED
      BY <2>1, <3>1
  <2>3. Cardinality(whole) = n
    <3>1. f \in Int /\ f + n - 1 \in Int /\ ~(f > f + n - 1) /\ (f + n - 1) - f + 1 = n
      BY <1>3, <1>8
    <3>2. Cardinality(f .. f + n - 1) = IF f > f + n - 1 THEN 0 ELSE (f + n - 1) - f + 1
      BY <3>1, FS_Interval
    <3> QED
      BY <1>5, <3>1, <3>2
  <2>4. events = [k \in 1 .. n |-> written[f + k - 1].event]
    BY <1>6, <2>1, <2>2, <2>3
  <2>5. ASSUME NEW k \in 1 .. n PROVE written[f + k - 1].event \in Event
    <3>1. f + k - 1 \in DOMAIN written
      BY <1>1, <1>3
    <3> QED
      BY <1>1, <3>1, WrittenFacts
  <2>6. events \in Seq(Event) /\ Len(events) = n
    BY <1>3, <2>4, <2>5
  <2>7. DOMAIN got = 1 .. n /\ Len(got) = n
    BY <1>1 DEF n
  <2>8. \A k \in DOMAIN got : got[k] = ReadBack(events[k])
    BY <1>3, <2>4, <2>7
  <2> QED
    BY <2>6, <2>7, <2>8 DEF events
<1> QED
  BY <1>3, <1>7, <1>8

\* A window of the data, opened at an event and ending anywhere, gives the events written there, in
\* order, those that are whole and no others, for every size the writer accepts and whatever is
\* appended meanwhile; the end of the window is no error.
THEOREM MediaEventsComeBack == Spec => []EventsComeBack
<1>1. Init => ReaderInv
  BY DEF Init, ReaderInv, ClosedReader
<1>2. MediaInv /\ Layout /\ ReaderInv => EventsComeBack
  BY WindowIsRead DEF ReaderInv, EventsComeBack
<1> QED
  BY <1>1, <1>2, MediaInvInductive, LayoutInvariant, ReaderInvStep, PTL DEF Spec

-----------------------------------------------------------------------------
(* The index stream *)

\* The index is the records, one after the other, and they find the events.
IndexIsRecords ==
  /\ Len(index) = RECORD_SIZE * Len(records)
  /\ \A k \in DOMAIN records :
       /\ AcceptsRecord(records[k])
       /\ \A j \in 1 .. RECORD_SIZE : index[RECORD_SIZE * (k - 1) + j] = RecordFrame(records[k])[j]

RecordsPointAtEvents ==
  \A k \in DOMAIN records :
    records[k].offset = Len(data) \/ \E i \in DOMAIN written : written[i].offset = records[k].offset

EventsHaveRecords ==
  \A i \in DOMAIN written : written[i].event.flags.include_in_index =>
    \E k \in DOMAIN records :
      records[k].offset = written[i].offset /\ records[k].timestamp = written[i].event.timestamp

IndexInv == IndexIsRecords /\ RecordsPointAtEvents /\ EventsHaveRecords

LEMMA IndexTypes ==
  ASSUME MediaInv
  PROVE  /\ index \in Seq(Nat) /\ records \in Seq(Record) /\ Len(records) \in Nat /\ Len(index) \in Nat
         /\ DOMAIN records = 1 .. Len(records)
<1>1. index \in Seq(Nat) /\ records \in Seq(Record)
  BY DEF MediaInv, TypeOK
<1> QED
  BY <1>1

LEMMA RecordFrameLength ==
  ASSUME NEW r \in Record
  PROVE  RecordFrame(r) \in Seq(Nat) /\ Len(RecordFrame(r)) = 3
<1>1. Len(RecordFrame(r)) = 3
  BY DEF RecordFrame
<1> QED
  BY <1>1, RecordFrameType

\* Appending a record leaves those before it where they are.
LEMMA IndexIsRecordsStep ==
  ASSUME MediaInv, IndexIsRecords, NEW e \in Event, NEW w \in Written, NEW r \in Record, Wrote(e, w, r)
  PROVE  IndexIsRecords'
<1>1. CASE ~e.flags.include_in_index
  BY <1>1 DEF Wrote, IndexIsRecords
<1>2. CASE e.flags.include_in_index
  <2> SUFFICES ASSUME NEW n \in Nat, n = Len(records), NEW m \in Nat, m = Len(index) PROVE IndexIsRecords'
    BY IndexTypes
  <2>1. index' = index \o RecordFrame(r) /\ records' = Append(records, r) /\ AcceptsRecord(r)
    BY <1>2 DEF Wrote
  <2>2. /\ index \in Seq(Nat) /\ records \in Seq(Record) /\ RecordFrame(r) \in Seq(Nat)
        /\ Len(RecordFrame(r)) = 3 /\ Len(index) = 3 * n
    BY IndexTypes, RecordFrameLength DEF IndexIsRecords, RECORD_SIZE
  <2>3. /\ Len(index') = m + 3
        /\ \A k \in 1 .. m : index'[k] = index[k]
        /\ \A j \in 1 .. 3 : index'[m + j] = RecordFrame(r)[j]
    <3>1. /\ Len(index') = m + 3
          /\ \A k \in 1 .. m + 3 : index'[k] = IF k <= m THEN index[k] ELSE RecordFrame(r)[k - m]
      <4>1. /\ Len(index') = Len(index) + Len(RecordFrame(r))
            /\ \A k \in 1 .. Len(index) + Len(RecordFrame(r)) :
                 index'[k] = IF k <= Len(index) THEN index[k] ELSE RecordFrame(r)[k - Len(index)]
        BY <2>1, <2>2, ConcatProperties
      <4>2. Len(index) = m /\ Len(RecordFrame(r)) = 3
        BY <2>2
      <4> QED
        BY <4>1, <4>2, Zenon
    <3>2. \A j \in 1 .. 3 : m + j \in 1 .. m + 3 /\ ~(m + j <= m) /\ (m + j) - m = j
      OBVIOUS
    <3>3. \A k \in 1 .. m : k \in 1 .. m + 3 /\ k <= m
      OBVIOUS
    <3> QED
      BY <3>1, <3>2, <3>3
  <2>4. /\ Len(records') = n + 1 /\ records'[n + 1] = r /\ DOMAIN records' = 1 .. n + 1
        /\ \A k \in 1 .. n : records'[k] = records[k]
    BY <2>1, <2>2
  <2>5. Len(index') = 3 * Len(records')
    BY <2>2, <2>3, <2>4
  <2>6. ASSUME NEW k \in 1 .. n + 1
        PROVE  /\ AcceptsRecord(records'[k])
               /\ \A j \in 1 .. 3 : index'[3 * (k - 1) + j] = RecordFrame(records'[k])[j]
    <3>1. CASE k = n + 1
      <4>1. 3 * (k - 1) = m
        BY <2>2, <3>1
      <4> QED
        BY <2>1, <2>3, <2>4, <3>1, <4>1
    <3>2. CASE k \in 1 .. n
      <4>1. /\ AcceptsRecord(records[k]) /\ records'[k] = records[k]
            /\ \A j \in 1 .. 3 : index[3 * (k - 1) + j] = RecordFrame(records[k])[j]
        BY <2>4, <3>2, IndexTypes DEF IndexIsRecords, RECORD_SIZE
      <4>2. \A j \in 1 .. 3 : 3 * (k - 1) + j \in 1 .. Len(index)
        BY <2>2, <3>2
      <4> QED
        BY <2>3, <4>1, <4>2
    <3> QED
      BY <3>1, <3>2
  <2> QED
    BY <2>4, <2>5, <2>6 DEF IndexIsRecords, RECORD_SIZE
<1> QED
  BY <1>1, <1>2

\* A record at the tail is at the event appended there, and stays there.
LEMMA IndexInvWrote ==
  ASSUME MediaInv, Layout, IndexInv, NEW e \in Event, NEW w \in Written, NEW r \in Record, Wrote(e, w, r)
  PROVE  IndexInv'
<1>1. w.event = e /\ w.offset = Len(data) /\ r.offset = Len(data) /\ r.timestamp = e.timestamp
  BY DEF Wrote
<1>2. \A k \in DOMAIN records' : (k \in DOMAIN records /\ records'[k] = records[k]) \/ records'[k] = r
  BY IndexTypes DEF Wrote
<1>3. \A k \in DOMAIN records : k \in DOMAIN records' /\ records'[k] = records[k]
  BY IndexTypes DEF Wrote
<1>4. CASE ~Accepts(e)
  <2>1. UNCHANGED <<data, written>>
    BY <1>4 DEF Wrote
  <2>2. RecordsPointAtEvents'
    BY <1>1, <1>2, <2>1 DEF RecordsPointAtEvents, IndexInv
  <2>3. EventsHaveRecords'
    BY <1>3, <2>1 DEF EventsHaveRecords, IndexInv
  <2> QED
    BY <2>2, <2>3, IndexIsRecordsStep DEF IndexInv
<1>5. CASE Accepts(e)
  <2> SUFFICES ASSUME NEW n \in Nat, n = Len(written) PROVE IndexInv'
    BY PathTypes
  <2>1. /\ written'[n + 1] = w /\ DOMAIN written' = 1 .. n + 1 /\ DOMAIN written = 1 .. n
        /\ \A i \in 1 .. n : written'[i] = written[i]
    BY <1>5, WroteEvent
  <2>2. RecordsPointAtEvents'
    <3> SUFFICES ASSUME NEW k \in DOMAIN records'
                 PROVE  \E i \in DOMAIN written' : written'[i].offset = records'[k].offset
      BY DEF RecordsPointAtEvents
    <3>1. CASE records'[k].offset = Len(data)
      BY <1>1, <2>1, <3>1
    <3>2. CASE records'[k].offset # Len(data)
      <4>1. k \in DOMAIN records /\ records'[k] = records[k]
        BY <1>1, <1>2, <3>2
      <4>2. \E i \in DOMAIN written : written[i].offset = records[k].offset
        BY <3>2, <4>1 DEF RecordsPointAtEvents, IndexInv
      <4> QED
        BY <2>1, <4>1, <4>2
    <3> QED
      BY <3>1, <3>2
  <2>3. EventsHaveRecords'
    <3> SUFFICES ASSUME NEW i \in DOMAIN written', written'[i].event.flags.include_in_index
                 PROVE  \E k \in DOMAIN records' :
                          /\ records'[k].offset = written'[i].offset
                          /\ records'[k].timestamp = written'[i].event.timestamp
      BY DEF EventsHaveRecords
    <3>1. CASE i = n + 1
      <4>1. e.flags.include_in_index /\ written'[i] = w
        BY <1>1, <2>1, <3>1
      <4>2. records' = Append(records, r)
        BY <4>1 DEF Wrote
      <4>3. Len(records) + 1 \in DOMAIN records' /\ records'[Len(records) + 1] = r
        BY <4>2, IndexTypes
      <4> QED
        BY <1>1, <4>1, <4>3
    <3>2. CASE i \in 1 .. n
      <4>1. written'[i] = written[i] /\ i \in DOMAIN written
        BY <2>1, <3>2
      <4>2. PICK k \in DOMAIN records : /\ records[k].offset = written[i].offset
                                        /\ records[k].timestamp = written[i].event.timestamp
        BY <4>1 DEF EventsHaveRecords, IndexInv
      <4> QED
        BY <1>3, <4>1, <4>2
    <3> QED
      BY <2>1, <3>1, <3>2
  <2> QED
    BY <2>2, <2>3, IndexIsRecordsStep DEF IndexInv
<1> QED
  BY <1>4, <1>5

LEMMA IndexInvStep == MediaInv /\ Layout /\ IndexInv /\ [Next]_vars => IndexInv'
<1> SUFFICES ASSUME MediaInv, Layout, IndexInv, [Next]_vars PROVE IndexInv'
  OBVIOUS
<1>1. CASE UNCHANGED <<data, index, written, records>>
  BY <1>1 DEF IndexInv, IndexIsRecords, RecordsPointAtEvents, EventsHaveRecords
<1>2. CASE ReaderStep
  BY <1>1, <1>2 DEF ReaderStep
<1> QED
  BY <1>1, <1>2, IndexInvWrote, PathSteps

\* An event and a record are found where they were written.
LEMMA IndexFinds ==
  ASSUME MediaInv, Layout, IndexInv
  PROVE  RecordsFindEvents
<1>1. ASSUME NEW k \in DOMAIN records PROVE RecordAt(index, RECORD_SIZE * (k - 1)) = records[k]
  <2>1. /\ index \in Seq(Nat) /\ records[k] \in Record /\ AcceptsRecord(records[k])
        /\ k \in 1 .. Len(records) /\ Len(records) \in Nat /\ Len(index) = 3 * Len(records)
        /\ \A j \in 1 .. 3 : index[3 * (k - 1) + j] = RecordFrame(records[k])[j]
    BY IndexTypes DEF IndexInv, IndexIsRecords, RECORD_SIZE
  <2>2. RecordFrame(records[k]) \in Seq(Nat) /\ Len(RecordFrame(records[k])) = 3
    BY <2>1, RecordFrameLength
  <2>3. 3 * (k - 1) \in Nat /\ 3 * (k - 1) + Len(RecordFrame(records[k])) <= Len(index)
    <3>1. k \in 1 .. Len(records) /\ Len(records) \in Nat
      BY IndexTypes
    <3>2. 3 * (k - 1) \in Nat /\ 3 * (k - 1) + 3 <= 3 * Len(records)
      BY <3>1
    <3> QED
      BY <2>1, <2>2, <3>2
  <2>4. \E a \in Seq(Nat), b \in Seq(Nat) :
          Len(a) = 3 * (k - 1) /\ index = (a \o RecordFrame(records[k])) \o b
    <3> SUFFICES ASSUME NEW pos \in Nat, pos = 3 * (k - 1), NEW f \in Seq(Nat), f = RecordFrame(records[k])
                 PROVE  \E a \in Seq(Nat), b \in Seq(Nat) : Len(a) = pos /\ index = (a \o f) \o b
      BY <2>2, <2>3
    <3>1. pos + Len(f) <= Len(index) /\ Len(f) = 3
      BY <2>2, <2>3
    <3>2. \A j \in 1 .. 3 : index[pos + j] = f[j]
      BY <2>1
    <3>3. \A j \in 1 .. Len(f) : index[pos + j] = f[j]
      BY <3>1, <3>2
    <3>4. index \in Seq(Nat)
      BY <2>1
    <3> QED
      BY <3>1, <3>3, <3>4, SplitAt
  <2> QED
    BY <2>1, <2>4, RecordComesBack DEF RECORD_SIZE
<1>2. ASSUME NEW i \in DOMAIN written, written[i].event.flags.include_in_index
      PROVE  \E k \in DOMAIN records :
               LET offset == records[k].offset
                   e == EventAt(data, offset + PREFIX, event_length(data, offset))
               IN /\ offset < Len(data) /\ e = ReadBack(written[i].event)
                  /\ e.timestamp = records[k].timestamp
  <2>1. PICK k \in DOMAIN records : /\ records[k].offset = written[i].offset
                                    /\ records[k].timestamp = written[i].event.timestamp
    BY <1>2 DEF IndexInv, EventsHaveRecords
  <2>2. /\ data \in Seq(Nat) /\ Len(data) \in Nat /\ written[i].event \in Event
        /\ written[i].offset \in Nat /\ Accepts(written[i].event)
        /\ \A m \in 1 .. Len(Frame(written[i].event)) :
             data[written[i].offset + m] = Frame(written[i].event)[m]
    BY PathTypes, WrittenFacts DEF Layout
  <2>3. FrameEnd(i) <= Len(data)
    <3>1. /\ Len(written) + 1 \in 1 .. Len(written) + 1 /\ i < Len(written) + 1
          /\ Place(Len(written) + 1) = Len(data)
      BY PathTypes DEF Place
    <3> QED
      BY <3>1 DEF Layout
  <2>4. written[i].offset < Len(data)
    <3>1. PICK o \in Nat, p \in Nat : written[i].offset = o /\ FrameEnd(i) = o + p + 4
      BY PathTypes, FrameParts
    <3> QED
      BY <2>2, <2>3, <3>1
  <2>5. EventAt(data, written[i].offset + PREFIX, event_length(data, written[i].offset))
          = ReadBack(written[i].event)
    BY <2>2, <2>3, FrameReadBack DEF FrameEnd
  <2>6. ReadBack(written[i].event).timestamp = written[i].event.timestamp
    <3>1. ToWire(records[k].timestamp) # 0
      BY IndexTypes DEF IndexInv, IndexIsRecords, AcceptsRecord
    <3>2. FromWire(ToWire(written[i].event.timestamp)) = written[i].event.timestamp
      BY <2>1, <3>1 DEF FromWire, ToWire
    <3> QED
      BY <2>2, <3>2 DEF ReadBack, Event
  <2> QED
    BY <2>1, <2>4, <2>5, <2>6
<1> QED
  BY <1>1, <1>2 DEF RecordsFindEvents, IndexInv, RecordsPointAtEvents

\* The index reads back as the records that were written, each of which is at an event or at the
\* tail, and from a record with its timestamp each indexed event is found in the data.
THEOREM MediaRecordsFindEvents == Spec => []RecordsFindEvents
<1>1. Init => IndexInv
  <2> SUFFICES ASSUME Init PROVE IndexInv
    OBVIOUS
  <2>1. DOMAIN records = {} /\ DOMAIN written = {} /\ Len(index) = 0 /\ Len(records) = 0
    BY DEF Init
  <2> QED
    BY <2>1 DEF IndexInv, IndexIsRecords, RecordsPointAtEvents, EventsHaveRecords, RECORD_SIZE
<1> QED
  BY <1>1, MediaInvInductive, LayoutInvariant, IndexInvStep, IndexFinds, PTL DEF Spec
=============================================================================
