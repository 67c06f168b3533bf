----------------------------- MODULE EventSerde -----------------------------
(***************************************************************************)
(* event_serde.rs and the record format of index.rs: events and index      *)
(* records as sequences of words.  A field of the frame (type code, event  *)
(* length, reserved bits with flags, timestamp, offset) is a word, and so  *)
(* is a unit of payload; the sizes of the code are sizes in words here.    *)
(***************************************************************************)
EXTENDS Timestamps, Sequences

CONSTANTS
  MAX_ATOMIC_WRITE_SIZE,
  Words      \* what a unit of payload may be

PREFIX == 2        \* type code and event length: 8 bytes
HEADER == 2        \* flags and timestamp: 12 bytes
RECORD_SIZE == 3   \* 20 bytes

ASSUME SerdeAssumption ==
  /\ MAX_ATOMIC_WRITE_SIZE \in Nat /\ MAX_ATOMIC_WRITE_SIZE >= PREFIX + HEADER
  /\ Words \subseteq Nat

MAX_PAYLOAD_SIZE == MAX_ATOMIC_WRITE_SIZE - (PREFIX + HEADER)

Flags == [include_in_index : BOOLEAN, random_access : BOOLEAN, discontinuity : BOOLEAN]

\* EventHeaderFlags.
Bits(f) ==
  (IF f.include_in_index THEN 1 ELSE 0) + (IF f.random_access THEN 2 ELSE 0)
    + (IF f.discontinuity THEN 4 ELSE 0)

FlagsOf(w) ==
  [include_in_index |-> w % 2 = 1, random_access |-> (w \div 2) % 2 = 1,
   discontinuity |-> (w \div 4) % 2 = 1]

\* unwrap_or_default, and back.
ToWire(t) == IF t = NONE THEN 0 ELSE t
FromWire(w) == IF w = 0 THEN NONE ELSE w

Event == [timestamp : PravegaTimestamp, flags : Flags, payload : Seq(Words)]

-----------------------------------------------------------------------------
(* EventWriter::write.  A payload that is too large is an error. *)

Accepts(e) == Len(e.payload) <= MAX_PAYLOAD_SIZE

Frame(e) == <<0, Len(e.payload) + HEADER, Bits(e.flags), ToWire(e.timestamp)>> \o e.payload

-----------------------------------------------------------------------------
(* EventReader, over stream from position pos *)

\* Mutant: an event of the largest size is refused.
ValidBelowMax(n) == n >= HEADER /\ PREFIX + n < MAX_ATOMIC_WRITE_SIZE

ValidLength(n) == n >= HEADER /\ PREFIX + n <= MAX_ATOMIC_WRITE_SIZE

event_length(stream, pos) == stream[pos + PREFIX]

\* pos is after the event length, n the event length.
EventAt(stream, pos, n) ==
  [timestamp |-> FromWire(stream[pos + 2]), flags |-> FlagsOf(stream[pos + 1]),
   payload |-> SubSeq(stream, pos + 1 + HEADER, pos + n)]

-----------------------------------------------------------------------------
(* IndexRecordWriter::write and IndexRecordReader::read *)

Record == [timestamp : PravegaTimestamp, offset : Nat, random_access : BOOLEAN,
           discontinuity : BOOLEAN]

\* "Timestamp is none or 0" is an error.
AcceptsRecord(r) == ToWire(r.timestamp) # 0

RecordFrame(r) ==
  <<Bits([include_in_index |-> FALSE, random_access |-> r.random_access,
          discontinuity |-> r.discontinuity]),
    ToWire(r.timestamp), r.offset>>

RecordAt(stream, pos) ==
  [timestamp |-> FromWire(stream[pos + 2]), offset |-> stream[pos + 3],
   random_access |-> FlagsOf(stream[pos + 1]).random_access,
   discontinuity |-> FlagsOf(stream[pos + 1]).discontinuity]
=============================================================================
