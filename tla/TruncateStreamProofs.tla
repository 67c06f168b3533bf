------------------------ MODULE TruncateStreamProofs ------------------------
(***************************************************************************)
(* Overlapping and dying runs of the truncation tool keep the data of      *)
(* every record that the index still has, proved for any number of runs.   *)
(*                                                                         *)
(* A run that is about to truncate the data has truncated the index, so    *)
(* that the record it found is at the head or behind it; offsets are in    *)
(* order, so the data it deletes is that of no later record.               *)
(***************************************************************************)
EXTENDS TruncateStream, IndexSearchProofs

OffsetsOrder ==
  \A i, j \in 1 .. Len(index) : i <= j => index[i].offset <= index[j].offset

NothingDeletedYet == Len(index) = 0 => dataHead = 0

StreamInv == OffsetsOrder /\ RecordsPointToData /\ NothingDeletedYet

ToolInv(p) ==
  /\ tool[p] \in {"index", "data"} => Found(p)
  /\ tool[p] = "data" => search[p].pos <= head + 1

ActorInv == \A p \in Searchers : ToolInv(p)

TruncateInv0 == TruncateTypeOK /\ SearchInv /\ StreamInv /\ ActorInv

LEMMA TruncateInitInv == InitTruncate => TruncateInv0
<1> SUFFICES ASSUME InitTruncate PROVE TruncateInv0
  OBVIOUS
<1>1. SearchInv
  BY SearchInvInit DEF InitTruncate
<1>2. TruncateTypeOK
  BY <1>1 DEF SearchInv, TruncateTypeOK, InitTruncate, ToolStates
<1>3. index = <<>> /\ head = 0 /\ dataHead = 0
  BY DEF InitTruncate, Init
<1>4. StreamInv
  BY <1>3 DEF StreamInv, OffsetsOrder, RecordsPointToData, NothingDeletedYet
<1>5. ActorInv
  BY DEF InitTruncate, ActorInv, ToolInv
<1> QED
  BY <1>1, <1>2, <1>4, <1>5 DEF TruncateInv0

\* A record found was stored between the head and the tail the search read.
LEMMA FoundIsStored ==
  ASSUME SearchInv, NEW p \in Searchers, Found(p)
  PROVE  search[p].pos \in 1 .. Len(index)
<1> DEFINE s == search[p]
<1>1. s \in Search /\ Outcome(s) /\ s.head < s.tail /\ s.tail <= Len(index) /\ Len(index) \in Nat
  BY DEF SearchInv, TypeOK, OneSearchInv, Found
<1>2. s.head \in Nat /\ s.tail \in Nat
  BY <1>1 DEF Search
<1>3. CASE s.pos = s.tail
  BY <1>1, <1>2, <1>3
<1>4. CASE \E n \in s.head + 1 .. s.tail : s.pos = Choice(s, n)
  <2>1. PICK n \in s.head + 1 .. s.tail : s.pos = Choice(s, n)
    BY <1>4
  <2>2. s.pos = n \/ (n # s.head + 1 /\ s.pos = n - 1)
    BY <2>1 DEF Choice
  <2> HIDE DEF s
  <2>3. n \in 1 .. Len(index) /\ (n # s.head + 1 => n - 1 \in 1 .. Len(index))
    BY <1>1, <1>2
  <2> QED
    BY <2>2, <2>3 DEF s
<1> QED
  BY <1>1, <1>3, <1>4 DEF Outcome

LEMMA OffsetsAreNat ==
  ASSUME TypeOK, NEW n \in 1 .. Len(index)
  PROVE  index[n].offset \in Nat
<1>1. index[n] \in IndexRecord
  BY DEF TypeOK
<1> QED
  BY <1>1, SearchAssumption DEF IndexRecord

LEMMA SearchPart == TruncateInv0 /\ NextTruncate => SearchInv'
<1> SUFFICES ASSUME TruncateInv0, NextTruncate PROVE SearchInv'
  OBVIOUS
<1>1. SearchInv
  BY DEF TruncateInv0
<1>2. CASE SearchNext
  BY <1>1, <1>2, SearchActionInv DEF SearchNext, SearchAction
<1>3. ASSUME NEW p \in Searchers, NEW t \in Wanted, TruncateStart(p, t) PROVE SearchInv'
  BY <1>1, <1>3, BeginInv DEF TruncateStart, CutMethod, Methods
<1>4. ASSUME NEW p \in Searchers, TruncateIndex(p) PROVE SearchInv'
  <2>1. Found(p)
    BY <1>4 DEF TruncateIndex, ToolSteps, TruncateInv0, ActorInv, ToolInv
  <2>2. search[p].pos \in 1 .. Len(index)
    BY <1>1, <2>1, FoundIsStored
  <2> QED
    BY <1>1, <1>4, <2>2, TruncateInv DEF TruncateIndex
<1>5. CASE UNCHANGED searchVars
  BY <1>1, <1>5, SearchUnchanged
<1> QED
  BY <1>2, <1>3, <1>4, <1>5
     DEF NextTruncate, CutFound, TruncateData, ToolDies, searchVars

\* An append keeps the streams' part: the last record is not truncated, so that
\* its offset, and the new one, is not before dataHead.
LEMMA AppendStream ==
  ASSUME TruncateInv0, NEW r \in IndexRecord, AppendRecord(r), UNCHANGED dataHead
  PROVE  StreamInv'
<1> DEFINE L == Len(index)
<1>1. /\ index \in Seq(IndexRecord) /\ head \in Nat /\ dataHead \in Nat /\ L \in Nat /\ TypeOK
      /\ HeadInv /\ OffsetsOrder /\ RecordsPointToData /\ NothingDeletedYet
  BY DEF TruncateInv0, SearchInv, TypeOK, TruncateTypeOK, StreamInv
<1>2. index' = Append(index, r) /\ UNCHANGED <<head, dataHead>> /\ (L > 0 => index[L].offset <= r.offset)
  BY DEF AppendRecord
<1>3. Len(index') = L + 1 /\ index'[L + 1] = r /\ \A i \in 1 .. L : index'[i] = index[i]
  BY <1>1, <1>2
<1>4. r.offset \in Nat /\ \A i \in 1 .. L : index[i].offset \in Nat
  BY <1>1, OffsetsAreNat, SearchAssumption DEF IndexRecord
<1>5. \A i \in 1 .. L : index[i].offset <= r.offset
  <2> SUFFICES ASSUME NEW i \in 1 .. L PROVE index[i].offset <= r.offset
    OBVIOUS
  <2>1. L > 0 /\ L \in 1 .. L
    BY <1>1
  <2>2. index[i].offset <= index[L].offset
    BY <1>1, <2>1 DEF OffsetsOrder
  <2> QED
    BY <1>2, <1>4, <2>1, <2>2
<1>6. dataHead <= r.offset
  <2>1. CASE L = 0
    BY <1>1, <1>4, <2>1 DEF NothingDeletedYet
  <2>2. CASE L > 0
    <3>1. L \in head + 1 .. L
      BY <1>1, <2>2 DEF HeadInv
    <3>2. dataHead <= index[L].offset
      BY <1>1, <3>1 DEF RecordsPointToData
    <3> QED
      BY <1>1, <1>2, <1>4, <2>2, <3>2
  <2> QED
    BY <1>1, <2>1, <2>2
<1> HIDE DEF L
<1>7. OffsetsOrder'
  BY <1>1, <1>3, <1>4, <1>5 DEF OffsetsOrder, L
<1>8. RecordsPointToData'
  BY <1>1, <1>2, <1>3, <1>6 DEF RecordsPointToData, L
<1>9. NothingDeletedYet'
  BY <1>1, <1>3 DEF NothingDeletedYet
<1> QED
  BY <1>7, <1>8, <1>9 DEF StreamInv

LEMMA TruncateIndexStream ==
  ASSUME TruncateInv0, NEW p \in Searchers, TruncateIndex(p)
  PROVE  StreamInv' /\ search[p].pos <= head' + 1 /\ head <= head'
<1>1. p \in Searchers /\ Found(p) /\ SearchInv
  BY DEF TruncateIndex, ToolSteps, TruncateInv0, ActorInv, ToolInv
<1>2. search[p].pos \in 1 .. Len(index) /\ head \in Nat /\ Len(index) \in Nat
  BY <1>1, FoundIsStored DEF SearchInv, TypeOK
<1>3. UNCHANGED <<index, dataHead>> /\ head' = HeadBefore(search[p].pos)
  BY DEF TruncateIndex, Truncate
<1>4. search[p].pos <= head' + 1 /\ head <= head' /\ head' \in Nat
  BY <1>2, <1>3 DEF HeadBefore
<1>5. StreamInv
  BY DEF TruncateInv0
<1>6. RecordsPointToData'
  BY <1>2, <1>3, <1>4, <1>5 DEF StreamInv, RecordsPointToData
<1> QED
  BY <1>3, <1>4, <1>5, <1>6 DEF StreamInv, OffsetsOrder, NothingDeletedYet

LEMMA TruncateDataStream ==
  ASSUME TruncateInv0, NEW p \in Searchers, TruncateData(p)
  PROVE  StreamInv' /\ dataHead' \in Nat
<1> DEFINE n == search[p].pos
<1>1. p \in Searchers /\ Found(p) /\ n <= head + 1 /\ SearchInv /\ StreamInv /\ dataHead \in Nat
  BY DEF TruncateData, ToolSteps, TruncateInv0, ActorInv, ToolInv, TruncateTypeOK
<1>2. n \in 1 .. Len(index) /\ head \in Nat /\ Len(index) \in Nat /\ TypeOK
  BY <1>1, FoundIsStored DEF SearchInv, TypeOK
<1>3. index[n].offset \in Nat
  BY <1>2, OffsetsAreNat
<1>4. /\ UNCHANGED <<index, head>>
      /\ dataHead' = IF dataHead < index[n].offset THEN index[n].offset ELSE dataHead
  BY DEF TruncateData
<1> HIDE DEF n
<1>5. RecordsPointToData'
  <2> SUFFICES ASSUME NEW i \in head + 1 .. Len(index) PROVE dataHead' <= index[i].offset
    BY <1>4 DEF RecordsPointToData
  <2>1. i \in 1 .. Len(index) /\ n <= i
    BY <1>1, <1>2
  <2>2. dataHead <= index[i].offset /\ index[n].offset <= index[i].offset
    BY <1>1, <1>2, <2>1 DEF StreamInv, RecordsPointToData, OffsetsOrder
  <2> QED
    BY <1>4, <2>2
<1>6. NothingDeletedYet'
  BY <1>2, <1>4 DEF NothingDeletedYet
<1> QED
  BY <1>1, <1>3, <1>4, <1>5, <1>6 DEF StreamInv, OffsetsOrder

\* A search's step leaves the other searches alone; it is taken while reading.
LEMMA SearchMoves ==
  ASSUME TypeOK, NEW p \in Searchers, SearchStep(p) \/ ReadFails(p)
  PROVE  /\ Reading(p) /\ UNCHANGED streamVars
         /\ \A q \in Searchers : q # p => search'[q] = search[q]
<1>1. Reading(p)
  BY DEF SearchStep, ReadFails, ReadHead, ReadTail, ReadLast, ReadFirst, Scan, Reading
<1>2. \E s : Step(p, s)
  BY DEF SearchStep, ReadFails, ReadHead, ReadTail, ReadLast, ReadFirst, Scan
<1> QED
  BY <1>1, <1>2 DEF Step, TypeOK

LEMMA BeginMoves ==
  ASSUME TypeOK, NEW p \in Searchers, NEW t, NEW m, Begin(p, t, m)
  PROVE  /\ UNCHANGED streamVars
         /\ \A q \in Searchers : q # p => search'[q] = search[q]
BY DEF Begin, Step, TypeOK

\* What is known of a tool run stays so while it and its search rest.
LEMMA ToolKept ==
  ASSUME NEW p \in Searchers, ToolInv(p), tool'[p] = tool[p], Found(p) => search'[p] = search[p],
         head \in Nat, head' \in Nat, head <= head', Found(p) => search[p].pos \in Nat
  PROVE  ToolInv(p)'
BY DEF ToolInv, Found

LEMMA ToolPart ==
  ASSUME TruncateInv0, NEW p \in Searchers,
         TruncateIndex(p) \/ TruncateData(p) \/ CutFound(p) \/ ToolDies(p)
  PROVE  TruncateTypeOK' /\ StreamInv' /\ ActorInv'
<1>1. /\ TruncateTypeOK /\ TypeOK /\ SearchInv /\ StreamInv /\ ActorInv
      /\ head \in Nat /\ dataHead \in Nat
  BY DEF TruncateInv0, SearchInv, TypeOK, TruncateTypeOK
<1>2. UNCHANGED <<index, search>>
  BY DEF TruncateIndex, TruncateData, CutFound, ToolDies, Truncate
<1>3. StreamInv' /\ head' \in Nat /\ dataHead' \in Nat /\ head <= head'
  <2>1. CASE TruncateIndex(p)
    BY <1>1, <2>1, TruncateIndexStream, SearchPart DEF NextTruncate, SearchInv, TypeOK, TruncateIndex
  <2>2. CASE TruncateData(p)
    BY <1>1, <2>2, TruncateDataStream DEF TruncateData
  <2>3. CASE CutFound(p) \/ ToolDies(p)
    BY <1>1, <2>3 DEF CutFound, ToolDies, StreamInv, OffsetsOrder, RecordsPointToData, NothingDeletedYet
  <2> QED
    BY <2>1, <2>2, <2>3
<1>4. \A q \in Searchers : Found(q) => search[q].pos \in Nat
  BY <1>1, FoundIsStored
<1>5. /\ tool' \in [Searchers -> ToolStates]
      /\ \A q \in Searchers : q # p => tool'[q] = tool[q]
      /\ tool'[p] = "index" => Found(p)
      /\ tool'[p] = "data" => Found(p) /\ search[p].pos <= head'+1
  <2>1. tool \in [Searchers -> ToolStates] /\ ToolInv(p)
    BY <1>1 DEF TruncateTypeOK, ActorInv
  <2>2. CASE TruncateIndex(p)
    BY <2>1, <2>2, TruncateIndexStream DEF TruncateIndex, ToolSteps, NextStep, ToolStates, ToolInv
  <2>3. CASE TruncateData(p)
    BY <2>1, <2>3 DEF TruncateData, ToolSteps, NextStep, ToolStates
  <2>4. CASE CutFound(p)
    BY <2>1, <2>4 DEF CutFound, ToolSteps, NextStep, ToolStates
  <2>5. CASE ToolDies(p)
    BY <2>1, <2>5 DEF ToolDies, ToolStates
  <2> QED
    BY <2>2, <2>3, <2>4, <2>5
<1>6. TypeOK'
  BY <1>1, <1>2, <1>3 DEF TypeOK
<1>7. TruncateTypeOK'
  BY <1>1, <1>2, <1>3, <1>5, <1>6 DEF TruncateTypeOK
<1>8. ToolInv(p)'
  BY <1>2, <1>5 DEF ToolInv, Found
<1>9. ASSUME NEW q \in Searchers, q # p PROVE ToolInv(q)'
  BY <1>1, <1>2, <1>3, <1>4, <1>5, <1>9, ToolKept DEF ActorInv
<1> QED
  BY <1>3, <1>7, <1>8, <1>9 DEF ActorInv

\* A tool run begins its search, which only it looks at.
LEMMA StartPart ==
  ASSUME TruncateInv0, SearchInv', NEW t \in Wanted,
         \E p \in Searchers : TruncateStart(p, t)
  PROVE  TruncateTypeOK' /\ StreamInv' /\ ActorInv'
<1>1. /\ TruncateTypeOK /\ TypeOK /\ TypeOK' /\ StreamInv /\ ActorInv
      /\ tool \in [Searchers -> ToolStates]
  BY DEF TruncateInv0, SearchInv, TruncateTypeOK
<1>2. ASSUME UNCHANGED <<index, head, dataHead>> PROVE StreamInv'
  BY <1>1, <1>2 DEF StreamInv, OffsetsOrder, RecordsPointToData, NothingDeletedYet
<1>3. ASSUME NEW p \in Searchers, TruncateStart(p, t)
      PROVE  TruncateTypeOK' /\ StreamInv' /\ ActorInv'
  <2>1. /\ UNCHANGED <<index, head, dataHead>>
        /\ \A q \in Searchers : q # p => search'[q] = search[q]
        /\ tool' = [tool EXCEPT ![p] = "search"]
    BY <1>1, <1>3, BeginMoves DEF TruncateStart, ToolSteps, NextStep, streamVars
  <2>2. TruncateTypeOK'
    BY <1>1, <2>1 DEF TruncateTypeOK, ToolStates
  <2>3. ASSUME NEW q \in Searchers PROVE ToolInv(q)'
    BY <1>1, <2>1 DEF ActorInv, ToolInv, Found
  <2> QED
    BY <1>2, <2>1, <2>2, <2>3 DEF ActorInv
<1> QED
  BY <1>3

LEMMA SearchNextPart ==
  ASSUME TruncateInv0, SearchInv', SearchNext, UNCHANGED <<dataHead, tool>>
  PROVE  TruncateTypeOK' /\ StreamInv' /\ ActorInv'
<1>1. TruncateTypeOK /\ TypeOK /\ TypeOK' /\ StreamInv /\ ActorInv
  BY DEF TruncateInv0, SearchInv
<1>2. TruncateTypeOK'
  BY <1>1 DEF TruncateTypeOK
<1>3. ASSUME NEW r \in IndexRecord, AppendRecord(r) PROVE StreamInv' /\ ActorInv'
  <2>1. UNCHANGED <<head, search>>
    BY <1>3 DEF AppendRecord
  <2>2. StreamInv'
    BY <1>3, AppendStream
  <2> QED
    BY <1>1, <2>1, <2>2 DEF ActorInv, ToolInv, Found
<1>4. ASSUME NEW p \in Searchers, SearchStep(p) \/ ReadFails(p) PROVE StreamInv' /\ ActorInv'
  <2>1. /\ UNCHANGED <<index, head>> /\ ~Found(p)
        /\ \A q \in Searchers : q # p => search'[q] = search[q]
    BY <1>1, <1>4, SearchMoves DEF streamVars, Reading, Found
  <2>2. StreamInv'
    BY <1>1, <2>1 DEF StreamInv, OffsetsOrder, RecordsPointToData, NothingDeletedYet
  <2>3. ASSUME NEW q \in Searchers PROVE ToolInv(q)'
    BY <1>1, <2>1 DEF ActorInv, ToolInv, Found
  <2> QED
    BY <2>2, <2>3 DEF ActorInv
<1> QED
  BY <1>2, <1>3, <1>4 DEF SearchNext

LEMMA TruncateStepInv == TruncateInv0 /\ [NextTruncate]_allVars => TruncateInv0'
<1>1. ASSUME TruncateInv0, NextTruncate PROVE TruncateInv0'
  <2>1. SearchInv'
    BY <1>1, SearchPart
  <2> QED
    BY <1>1, <2>1, SearchNextPart, StartPart, ToolPart DEF NextTruncate, TruncateInv0
<1>2. ASSUME TruncateInv0, UNCHANGED allVars PROVE TruncateInv0'
  <2>1. SearchInv'
    BY <1>2, SearchUnchanged DEF TruncateInv0, allVars, searchVars
  <2> QED
    BY <1>2, <2>1 DEF TruncateInv0, allVars, TruncateTypeOK, TypeOK, StreamInv, OffsetsOrder,
       RecordsPointToData, NothingDeletedYet, ActorInv, ToolInv, Found
<1> QED
  BY <1>1, <1>2

-----------------------------------------------------------------------------
\* The inductive invariant of truncate_stream, and the streams.
THEOREM TruncateInvariant == TruncateSpec => []TruncateInv0
BY TruncateInitInv, TruncateStepInv, PTL DEF TruncateSpec

\* Every record of the index points to data that is there: truncate_stream
\* truncates the index first, and the data only up to the record it cut at.
THEOREM TruncateRecordsPointToData == TruncateSpec => []RecordsPointToData
<1>1. TruncateInv0 => RecordsPointToData
  BY DEF TruncateInv0, StreamInv
<1> QED
  BY <1>1, TruncateInvariant, PTL

-----------------------------------------------------------------------------
(* On a sorted index, a run that has found its record has Brackets, proved of *)
(* the search: what lies before the record is older than its time, or was     *)
(* truncated before it began.                                                 *)

CutsBefore == \A p \in Searchers : tool[p] # "idle" => search[p].method = "Before"

CutInv == OnlyOldIsDeleted /\ CutsBefore

\* A search keeps what it searches for.
LEMMA SearchKeepsTime ==
  ASSUME TypeOK, NEW p \in Searchers, SearchStep(p) \/ ReadFails(p)
  PROVE  search'[p].ts = search[p].ts /\ search'[p].method = search[p].method
<1> DEFINE s == search[p]
<1>1. s \in Search /\ search \in [Searchers -> Search]
  BY DEF TypeOK
<1>2. ASSUME NEW z, Step(p, z), z.ts = s.ts, z.method = s.method
      PROVE  search'[p].ts = s.ts /\ search'[p].method = s.method
  BY <1>1, <1>2 DEF Step
<1>3. s = [pc |-> s.pc, ts |-> s.ts, method |-> s.method, head |-> s.head, tail |-> s.tail,
           pos |-> s.pos, buffered |-> s.buffered]
  BY <1>1 DEF Search
<1> HIDE DEF s
<1>4. CASE ReadHead(p)
  BY <1>2, <1>3, <1>4 DEF ReadHead, s
<1>5. CASE ReadTail(p)
  BY <1>2, <1>3, <1>5 DEF ReadTail, s
<1>6. CASE ReadLast(p)
  BY <1>2, <1>3, <1>6 DEF ReadLast, s
<1>7. CASE ReadFirst(p)
  BY <1>2, <1>3, <1>7 DEF ReadFirst, s
<1>8. CASE Scan(p)
  BY <1>2, <1>3, <1>8 DEF Scan, Match, s
<1>9. CASE ReadFails(p)
  BY <1>2, <1>3, <1>9 DEF ReadFails, s
<1> QED
  BY <1>4, <1>5, <1>6, <1>7, <1>8, <1>9 DEF SearchStep, s

\* The times given to the tool stay given.
LEMMA CutsGrow ==
  ASSUME TruncateInv0, CutsBefore, NextTruncate
  PROVE  CutsBefore' /\ cutoffs \subseteq cutoffs'
<1>1. TypeOK /\ tool \in [Searchers -> ToolStates]
  BY DEF TruncateInv0, SearchInv, TruncateTypeOK
<1>2. SUFFICES ASSUME NEW q \in Searchers
               PROVE  /\ tool[q] # "idle" => tool'[q] # "idle" /\ search'[q].ts = search[q].ts
                      /\ tool'[q] # "idle" => search'[q].method = "Before"
  BY DEF CutsBefore, cutoffs
<1>3. CASE SearchNext /\ UNCHANGED tool
  <2>1. search'[q].ts = search[q].ts /\ search'[q].method = search[q].method
    <3>1. CASE \E r \in IndexRecord : AppendRecord(r)
      BY <3>1 DEF AppendRecord
    <3>2. ASSUME NEW p \in Searchers, SearchStep(p) \/ ReadFails(p)
          PROVE  search'[q].ts = search[q].ts /\ search'[q].method = search[q].method
      BY <1>1, <3>2, SearchMoves, SearchKeepsTime
    <3> QED
      BY <1>3, <3>1, <3>2 DEF SearchNext
  <2> QED
    BY <1>3, <2>1 DEF CutsBefore
<1>4. ASSUME NEW p \in Searchers, NEW t \in Wanted, TruncateStart(p, t)
      PROVE  /\ tool[q] # "idle" => tool'[q] # "idle" /\ search'[q].ts = search[q].ts
             /\ tool'[q] # "idle" => search'[q].method = "Before"
  <2>1. tool[p] = "idle" /\ tool' = [tool EXCEPT ![p] = "search"] /\ Begin(p, t, "Before")
    BY <1>4 DEF TruncateStart, ToolSteps, NextStep, CutMethod
  <2>2. search'[p].method = "Before"
    BY <1>1, <2>1 DEF Begin, Step, TypeOK, IdleSearch
  <2>3. q # p => search'[q] = search[q]
    BY <1>1, <2>1, BeginMoves
  <2> QED
    BY <1>1, <2>1, <2>2, <2>3 DEF CutsBefore
<1>5. ASSUME NEW p \in Searchers, CutFound(p) \/ TruncateIndex(p) \/ TruncateData(p) \/ ToolDies(p)
      PROVE  /\ tool[q] # "idle" => tool'[q] # "idle" /\ search'[q].ts = search[q].ts
             /\ tool'[q] # "idle" => search'[q].method = "Before"
  <2>1. UNCHANGED search
    BY <1>5 DEF CutFound, TruncateIndex, Truncate, TruncateData, ToolDies
  <2>2. tool[p] # "idle" /\ \E s \in ToolStates \ {"idle"} : tool' = [tool EXCEPT ![p] = s]
    BY <1>1, <1>5 DEF CutFound, TruncateIndex, TruncateData, ToolDies, ToolSteps, NextStep, ToolStates
  <2> QED
    BY <1>1, <2>1, <2>2 DEF CutsBefore
<1>6. CASE UNCHANGED <<search, tool>>
  BY <1>6 DEF CutsBefore
<1> QED
  BY <1>3, <1>4, <1>5, <1>6 DEF NextTruncate, CutsBefore

\* All before the record that a run has found is older than its time, or gone already.
LEMMA FoundIsCut ==
  ASSUME TruncateInv0, CutInv, IsSorted, NEW p \in Searchers, tool[p] \in {"index", "data"},
         NEW i \in 1 .. Len(index) - 1, i < search[p].pos
  PROVE  \E c \in cutoffs : index[i+1].ts <= c
<1> DEFINE s == search[p]
<1>1. /\ p \in Searchers /\ Found(p) /\ SearchInv /\ TypeOK /\ s \in Search
      /\ s.head <= head /\ s.method = "Before" /\ s.ts \in cutoffs
  BY DEF TruncateInv0, ActorInv, ToolInv, SearchInv, OneSearchInv, TypeOK, CutInv,
     CutsBefore, cutoffs
<1>2. s.pos \in 1 .. Len(index) /\ Len(index) \in Nat /\ s.head \in Nat /\ head \in Nat
      /\ s.ts \in Int
  BY <1>1, FoundIsStored DEF Search, TypeOK
<1>3. index[s.pos].ts <= s.ts \/ s.pos = s.head + 1
  BY <1>1, FoundBrackets DEF Brackets
<1> HIDE DEF s
<1>4. i + 1 \in 1 .. Len(index) /\ i + 1 <= s.pos
  BY <1>2 DEF s
<1>5. CASE index[s.pos].ts <= s.ts
  <2>1. index[i+1].ts <= index[s.pos].ts
    BY <1>1, <1>2, <1>4, SortedInPairs
  <2>2. index[i+1].ts \in Nat /\ index[s.pos].ts \in Nat
    BY <1>1, <1>2, <1>4, TimesAreNat
  <2> QED
    BY <1>1, <1>2, <1>5, <2>1, <2>2
<1>6. CASE s.pos = s.head + 1
  <2>1. i <= head
    BY <1>1, <1>2, <1>4, <1>6
  <2> QED
    BY <2>1 DEF CutInv, OnlyOldIsDeleted
<1> QED
  BY <1>3, <1>5, <1>6

LEMMA CutStep == TruncateInv0 /\ CutInv /\ NextTruncate => CutInv'
<1> SUFFICES ASSUME TruncateInv0, CutInv, NextTruncate PROVE CutInv'
  OBVIOUS
<1>1. CutsBefore' /\ cutoffs \subseteq cutoffs'
  BY CutsGrow DEF CutInv
<1>2. /\ TypeOK /\ SearchInv /\ StreamInv /\ HeadInv /\ ActorInv /\ dataHead \in Nat
      /\ index \in Seq(IndexRecord) /\ Len(index) \in Nat /\ head \in Nat
  BY DEF TruncateInv0, SearchInv, TypeOK, TruncateTypeOK
<1>3. ASSUME UNCHANGED index, IsSorted, NEW i \in 1 .. Len(index) - 1,
             i <= head' \/ index[i].offset < dataHead'
      PROVE  \E c \in cutoffs : index[i+1].ts <= c
  <2>1. CASE i <= head \/ index[i].offset < dataHead
    BY <1>3, <2>1 DEF CutInv, OnlyOldIsDeleted
  <2>2. ASSUME NEW p \in Searchers, TruncateIndex(p), ~(i <= head \/ index[i].offset < dataHead)
        PROVE  \E c \in cutoffs : index[i+1].ts <= c
    <3>1. tool[p] = "index" /\ head' = HeadBefore(search[p].pos) /\ UNCHANGED dataHead
      BY <2>2 DEF TruncateIndex, ToolSteps, Truncate
    <3>2. search[p].pos \in 1 .. Len(index)
      BY <1>2, <3>1, FoundIsStored DEF ActorInv, ToolInv
    <3>3. i < search[p].pos
      BY <1>2, <1>3, <2>2, <3>1, <3>2 DEF HeadBefore
    <3> QED
      BY <1>3, <3>1, <3>3, FoundIsCut
  <2>3. ASSUME NEW p \in Searchers, TruncateData(p), ~(i <= head \/ index[i].offset < dataHead)
        PROVE  \E c \in cutoffs : index[i+1].ts <= c
    <3> DEFINE n == search[p].pos
    <3>1. /\ tool[p] = "data" /\ UNCHANGED head
          /\ dataHead' = IF dataHead < index[n].offset THEN index[n].offset ELSE dataHead
      BY <2>3 DEF TruncateData, ToolSteps
    <3>2. n \in 1 .. Len(index)
      BY <1>2, <3>1, FoundIsStored DEF ActorInv, ToolInv
    <3> HIDE DEF n
    <3>3. index[n].offset \in Nat /\ index[i].offset \in Nat /\ i \in 1 .. Len(index)
      BY <1>2, <1>3, <3>2, OffsetsAreNat
    <3>4. ~(index[n].offset <= index[i].offset)
      BY <1>2, <1>3, <2>3, <3>1, <3>3
    <3>5. i < n
      BY <1>2, <3>2, <3>3, <3>4 DEF StreamInv, OffsetsOrder
    <3> QED
      BY <1>3, <3>1, <3>5, FoundIsCut DEF n
  <2>4. CASE UNCHANGED <<head, dataHead>>
    BY <1>3, <2>1, <2>4
  <2>5. ASSUME NEW p \in Searchers, SearchStep(p) \/ ReadFails(p) PROVE UNCHANGED head
    BY <1>2, <2>5, SearchMoves DEF streamVars
  <2>6. ASSUME NEW p \in Searchers, NEW t, NEW m, Begin(p, t, m) PROVE UNCHANGED head
    BY <1>2, <2>6, BeginMoves DEF streamVars
  <2> QED
    BY <1>2, <2>1, <2>2, <2>3, <2>4, <2>5, <2>6
       DEF NextTruncate, SearchNext, AppendRecord, TruncateStart, CutFound, ToolDies
<1>4. ASSUME NEW r \in IndexRecord, AppendRecord(r), UNCHANGED <<dataHead, tool>>, IsSorted',
             NEW i \in 1 .. Len(index') - 1, i <= head' \/ index'[i].offset < dataHead'
      PROVE  \E c \in cutoffs : index'[i+1].ts <= c
  <2> DEFINE L == Len(index)
  <2>1. /\ UNCHANGED head /\ Len(index') = L + 1 /\ L \in Nat
        /\ \A k \in 1 .. L : index'[k] = index[k]
    BY <1>2, <1>4 DEF AppendRecord
  <2> HIDE DEF L
  <2>2. i < L
    <3> SUFFICES ASSUME i = L PROVE FALSE
      BY <2>1
    <3>1. L \in 1 .. L /\ L \in head + 1 .. L
      BY <1>2, <2>1 DEF HeadInv, L
    <3>2. index'[i].offset = index[L].offset /\ dataHead <= index[L].offset /\ index[L].offset \in Nat
      BY <1>2, <2>1, <3>1, OffsetsAreNat DEF StreamInv, RecordsPointToData, L
    <3> QED
      BY <1>2, <1>4, <2>1, <3>1, <3>2
  <2>3. i \in 1 .. L - 1 /\ index'[i] = index[i] /\ index'[i+1] = index[i+1]
    BY <2>1, <2>2
  <2>4. IsSorted
    <3> SUFFICES ASSUME NEW k \in 1 .. L - 1 PROVE index[k].ts <= index[k+1].ts
      BY DEF IsSorted, L
    <3>1. k \in 1 .. Len(index') - 1 /\ index'[k] = index[k] /\ index'[k+1] = index[k+1]
      BY <2>1
    <3> QED
      BY <1>4, <3>1 DEF IsSorted
  <2>5. i <= head \/ index[i].offset < dataHead
    BY <1>4, <2>1, <2>3
  <2> QED
    BY <2>3, <2>4, <2>5 DEF CutInv, OnlyOldIsDeleted, L
<1>5. OnlyOldIsDeleted'
  <2> SUFFICES ASSUME IsSorted', NEW i \in 1 .. Len(index') - 1,
                      i <= head' \/ index'[i].offset < dataHead'
               PROVE  \E c \in cutoffs : index'[i+1].ts <= c
    BY <1>1 DEF OnlyOldIsDeleted
  <2>1. CASE UNCHANGED index
    BY <1>3, <2>1 DEF IsSorted
  <2>2. CASE \E r \in IndexRecord : AppendRecord(r) /\ UNCHANGED <<dataHead, tool>>
    BY <1>4, <2>2
  <2>3. ASSUME NEW p \in Searchers, SearchStep(p) \/ ReadFails(p) PROVE UNCHANGED index
    BY <1>2, <2>3, SearchMoves DEF streamVars
  <2>4. ASSUME NEW p \in Searchers, NEW t, NEW m, Begin(p, t, m) PROVE UNCHANGED index
    BY <1>2, <2>4, BeginMoves DEF streamVars
  <2> QED
    BY <1>2, <2>1, <2>2, <2>3, <2>4
       DEF NextTruncate, SearchNext, TruncateStart, CutFound, TruncateIndex, Truncate, TruncateData,
           ToolDies
<1> QED
  BY <1>1, <1>5 DEF CutInv

\* With timestamps in order, runs of the tool that overlap and die delete only what is
\* older than a time that one of them was given.
THEOREM TruncateOnlyOldIsDeleted == TruncateSpec => []OnlyOldIsDeleted
<1>1. InitTruncate => CutInv
  BY DEF InitTruncate, Init, CutInv, OnlyOldIsDeleted, CutsBefore
<1>2. CutInv /\ UNCHANGED allVars => CutInv'
  BY DEF CutInv, OnlyOldIsDeleted, CutsBefore, cutoffs, IsSorted, allVars
<1>3. TruncateInv0 /\ CutInv /\ [NextTruncate]_allVars => CutInv'
  BY <1>2, CutStep
<1>4. CutInv => OnlyOldIsDeleted
  BY DEF CutInv
<1> QED
  BY <1>1, <1>3, <1>4, TruncateInvariant, PTL DEF TruncateSpec
=============================================================================
