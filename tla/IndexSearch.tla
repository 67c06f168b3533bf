----------------------------- MODULE IndexSearch -----------------------------
(***************************************************************************)
(* IndexSearcher: a search of the index for a timestamp, as the reads it   *)
(* makes of a stream to which records are appended and whose head is       *)
(* truncated meanwhile.                                                    *)
(*                                                                         *)
(* index holds every record ever stored, records 1 .. head are truncated;  *)
(* a byte offset in the index is a record number times RECORD_SIZE, so     *)
(* record numbers stand for offsets.  A read at the tail waits for the     *)
(* writer: the step is disabled.  A read of truncated data fails.          *)
(***************************************************************************)
EXTENDS Integers, Sequences

CONSTANTS
  Searchers,  \* the searches that run at the same time
  Times,      \* timestamps of records (IndexRecordWriter refuses 0 and None)
  Offsets,    \* offsets of records
  Wanted,     \* timestamps that are searched for; 0 is PravegaTimestamp::MIN
  BufRecords, \* records that fit in the searcher's BufReader
  MaxRecords  \* bound on the records in the index

MIN == 0

ASSUME SearchAssumption ==
  /\ Times \subseteq Nat \ {0} /\ Offsets \subseteq Nat
  /\ Wanted \subseteq Nat \cup {-1}   \* -1 is None, which orders before every Some
  /\ BufRecords \in Nat \ {0} /\ MaxRecords \in Nat

VARIABLES
  index,   \* the stored index records
  head,    \* the number of truncated ones
  search   \* the state of each searcher

streamVars == <<index, head>>
searchVars == <<index, head, search>>

IndexRecord == [ts : Times, offset : Offsets]

Methods == {"Before", "After"}

\* pc: the read that comes next, or how the last search ended: "found" with the
\* record pos, "eof" with UnexpectedEof, "failed" with another error.
\* pos is prev_index_record; the BufReader holds the records up to buffered.
Search == [pc : {"idle", "head", "tail", "last", "first", "scan", "found", "eof", "failed"},
           ts : Nat \cup {-1}, method : Methods,
           head : Nat, tail : Nat, pos : Nat, buffered : Nat]

Reading(p) == search[p].pc \in {"head", "tail", "last", "first", "scan"}
Found(p) == search[p].pc = "found"

IdleSearch == [pc |-> "idle", ts |-> MIN, method |-> "Before",
               head |-> 0, tail |-> 0, pos |-> 0, buffered |-> 0]

Init ==
  /\ index = <<>> /\ head = 0
  /\ search = [p \in Searchers |-> IdleSearch]

-----------------------------------------------------------------------------
(* The writer and the truncation tool, as a searcher sees them *)

\* pravegasink appends: offsets never go back (PravegaSink!OffsetsInOrder);
\* timestamps may (a clock that is corrected, a file that is played again).
AppendRecord(r) ==
  /\ Len(index) < MaxRecords
  /\ Len(index) > 0 => index[Len(index)].offset <= r.offset
  /\ index' = Append(index, r)
  /\ UNCHANGED <<head, search>>

\* Everything before record n goes; truncating what is truncated does nothing.
HeadBefore(n) == IF head < n THEN n - 1 ELSE head

Truncate(n) == head' = HeadBefore(n) /\ UNCHANGED <<index, search>>

-----------------------------------------------------------------------------
(* search_timestamp_and_return_index_offset *)

Step(p, s) == search' = [search EXCEPT ![p] = s] /\ UNCHANGED streamVars

Begin(p, t, m) ==
  /\ ~Reading(p)
  /\ Step(p, [IdleSearch EXCEPT !.pc = "head", !.ts = t, !.method = m])

ReadHead(p) ==
  LET s == search[p] IN
  /\ s.pc = "head"
  /\ Step(p, [s EXCEPT !.pc = "tail", !.head = head])

\* Mutant: an index of one record counts as empty.
TooShort(s) == Len(index) <= s.head + 1

HasNoRecords(s) == Len(index) < s.head + 1

\* Mutant: the last record is not looked at.
AfterTailSkipLast(s) == IF HasNoRecords(s) THEN "eof" ELSE "first"

AfterTail(s) == IF HasNoRecords(s) THEN "eof" ELSE IF s.ts > MIN THEN "last" ELSE "first"

\* seek(End(0)); the last record is read unless the first is wanted.
ReadTail(p) ==
  LET s == search[p] IN
  /\ s.pc = "tail"
  /\ Step(p, [s EXCEPT !.pc = AfterTail(s), !.tail = Len(index)])

\* Every seek empties the BufReader.
ReadLast(p) ==
  LET s == search[p] IN
  /\ s.pc = "last"
  /\ Step(p, IF s.tail <= head THEN [s EXCEPT !.pc = "failed"]
             ELSE IF index[s.tail].ts <= s.ts THEN [s EXCEPT !.pc = "found", !.pos = s.tail]
             ELSE [s EXCEPT !.pc = "first"])

\* A read of record n from the stream leaves the BufReader filled up to one of these.
Filled(n) == {b \in n .. Len(index) : b < n + BufRecords}

\* seek(Start(first_index_offset)), to the head read at the beginning.
ReadFirst(p) ==
  LET s == search[p]
      n == s.head + 1
  IN
  /\ s.pc = "first"
  /\ \E b \in Filled(n) :
       Step(p, IF n <= head THEN [s EXCEPT !.pc = "failed"]
               ELSE [s EXCEPT !.pc = IF s.ts <= index[n].ts THEN "found" ELSE "scan",
                              !.pos = n, !.buffered = b])

\* Mutant: the record after the wanted time whatever the method.
MatchAlwaysAfter(s, n) == [s EXCEPT !.pc = "found", !.pos = n]

\* Record n is the first at or after the wanted time.
Match(s, n) ==
  [s EXCEPT !.pc = "found",
            !.pos = IF s.ts < index[n].ts /\ s.method = "Before" THEN s.pos ELSE n]

\* Mutant: the scan stops only at a later timestamp and keeps the one before.
MissesEqual(s, n) == s.ts >= index[n].ts

Misses(s, n) == s.ts > index[n].ts

\* One round of the linear scan, from the BufReader or from the stream.
Scan(p) ==
  LET s == search[p]
      n == s.pos + 1
  IN
  /\ s.pc = "scan"
  /\ \E b \in IF n <= s.buffered THEN {s.buffered} ELSE Filled(n) :
       Step(p, IF s.buffered < n /\ n <= head THEN [s EXCEPT !.pc = "failed"]
               ELSE IF Misses(s, n) THEN [s EXCEPT !.pos = n, !.buffered = b]
               ELSE [Match(s, n) EXCEPT !.buffered = b])

\* A read of the stream fails; the search returns the error.
ReadFails(p) == Reading(p) /\ Step(p, [search[p] EXCEPT !.pc = "failed"])

SearchStep(p) == ReadHead(p) \/ ReadTail(p) \/ ReadLast(p) \/ ReadFirst(p) \/ Scan(p)

-----------------------------------------------------------------------------
Next ==
  \/ \E r \in IndexRecord : AppendRecord(r)
  \/ \E n \in head + 1 .. Len(index) : Truncate(n)
  \/ \E p \in Searchers, t \in Wanted, m \in Methods : Begin(p, t, m)
  \/ \E p \in Searchers : SearchStep(p) \/ ReadFails(p)

Spec == Init /\ [][Next]_searchVars

\* A searcher that can read reads; nobody has to append, truncate or search.
FairSpec == Spec /\ \A p \in Searchers : WF_searchVars(SearchStep(p))

-----------------------------------------------------------------------------
(* Properties *)

TypeOK ==
  /\ index \in Seq(IndexRecord) /\ head \in Nat
  /\ search \in [Searchers -> Search]

\* The scan stays below the tail that the search found when it began, whatever
\* the order of the timestamps: a search never waits for the writer.
NeverWaits ==
  \A p \in Searchers :
    search[p].pc = "scan" => /\ search[p].pos < search[p].tail
                             /\ search[p].tail <= Len(index)

\* The documented result, for an index in any order, among the records between
\* the head and the tail that the search found: the last if it is not later
\* than the wanted time; else the first that is not earlier, or with Before
\* the one just before that unless it matches exactly or there is none.
IsFirst(n, lo, t) == index[n].ts >= t /\ \A i \in lo .. n - 1 : index[i].ts < t

LastIsAnswer(s) == s.ts > MIN /\ index[s.tail].ts <= s.ts

Choice(s, n) ==
  IF s.method = "After" \/ index[n].ts = s.ts \/ n = s.head + 1 THEN n ELSE n - 1

Answer(s) ==
  IF LastIsAnswer(s) THEN s.tail
  ELSE Choice(s, CHOOSE n \in s.head + 1 .. s.tail : IsFirst(n, s.head + 1, s.ts))

FindsAnswer ==
  \A p \in Searchers : Found(p) => search[p].pos = Answer(search[p])

IsSorted == \A i \in 1 .. Len(index) - 1 : index[i].ts <= index[i+1].ts

\* On a sorted index the data of the wanted time is at or after the record
\* found with Before, and before or at the record found with After; the record
\* is off only when the index has nothing on that side of the wanted time.  An
\* exact match is found with either method.
Brackets ==
  \A p \in Searchers : (Found(p) /\ IsSorted) =>
    LET s == search[p]
        n == s.pos
    IN /\ n \in s.head + 1 .. s.tail
       /\ (\E i \in s.head + 1 .. s.tail : index[i].ts = s.ts) => index[n].ts = s.ts
       /\ s.method = "Before" =>
            /\ index[n].ts <= s.ts \/ n = s.head + 1
            /\ \A i \in n + 1 .. s.tail : s.ts <= index[i].ts
       /\ s.method = "After" =>
            /\ s.ts <= index[n].ts \/ n = s.tail
            /\ \A i \in s.head + 1 .. n - 1 : index[i].ts <= s.ts

\* UnexpectedEof, which do_seek takes for an empty index, means that no record
\* was stored when the search looked, however the head moved meanwhile.
EofMeansEmpty == \A p \in Searchers : search[p].pc = "eof" => search[p].tail = 0

\* A search ends, however the timestamps are ordered, however fast records
\* are appended, and wherever the head moves.
SearchReturns == \A p \in Searchers : Reading(p) ~> ~Reading(p)
=============================================================================
