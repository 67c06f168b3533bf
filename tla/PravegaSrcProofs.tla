--------------------------- MODULE PravegaSrcProofs ---------------------------
(***************************************************************************)
(* What pravegasrc keeps of offsets, ends and ranges, proved for every     *)
(* buffer-size, start-mode and end-mode, and any order of the steps of the *)
(* application, the streaming thread, the queries, the writer and the      *)
(* truncation tool.                                                        *)
(*                                                                         *)
(* The locks do the work: a seek moves the layers of the reader only while *)
(* create does not hold it, so that between two of create's reads the      *)
(* layers agree and the reader is where the next event is due, or at the   *)
(* limit.  The index is append-only, so what a query has read stays true.  *)
(***************************************************************************)
EXTENDS PravegaSrc, SequenceTheorems, TLAPS

ISP == INSTANCE IndexSearchProofs WITH
  Searchers <- Queriers, Times <- {r.ts : r \in Records}, Offsets <- {r.offset : r \in Records},
  BufRecords <- 1, head <- indexHead, search <- query

\* A set of natural numbers has a least one.
LEMMA LeastOf ==
  ASSUME NEW T \in SUBSET Nat, T # {}
  PROVE  \E n \in T : \A m \in T : n <= m
  <1>1. ISP!SearchAssumption
    BY SrcAssumption DEF ISP!SearchAssumption, RecordType
  <1> QED
    BY <1>1, ISP!LeastOf

\* A search of an index that is not empty finds one of its records.
LEMMA SearchFindsRecord ==
  ASSUME index \in Seq(Records), indexHead \in Nat, indexHead < Len(index),
         NEW t \in Nat \cup {NONE}, NEW m \in {"Before", "After"}
  PROVE  SearchResult(t, m) \in indexHead + 1 .. Len(index)
  <1> DEFINE s == [IS!IdleSearch EXCEPT !.ts = t, !.method = m,
                                        !.head = indexHead, !.tail = Len(index)]
  <1>1. s \in ISP!Search /\ s.head = indexHead /\ s.tail = Len(index)
    <2>1. Len(index) \in Nat
      OBVIOUS
    <2> DEFINE n == Len(index)
    <2>2. IS!IdleSearch \in ISP!Search
      BY DEF IS!IdleSearch, IS!MIN, ISP!Search, ISP!Methods
    <2> HIDE DEF n
    <2>3. s \in ISP!Search /\ s.head = indexHead /\ s.tail = n
      BY <2>1, <2>2 DEF n, ISP!Search, ISP!Methods, NONE
    <2> QED
      BY <2>3 DEF n
  <1>2. \A i \in 1 .. Len(index) : index[i].ts \in Nat
    <2>1. \A r \in Records : r.ts \in Nat
      BY SrcAssumption DEF RecordType
    <2> QED
      BY <2>1
  <1>3. IS!Answer(s) = ISP!Answer(s)
    BY DEF IS!Answer, ISP!Answer, IS!LastIsAnswer, ISP!LastIsAnswer, IS!Choice, ISP!Choice, IS!IsFirst, ISP!IsFirst, IS!MIN, ISP!MIN
  <1>4. ISP!Answer(s) \in s.head + 1 .. s.tail
    <2>1. s.head < s.tail /\ \A i \in s.head + 1 .. s.tail : index[i].ts \in Nat
      BY <1>1, <1>2
    <2>2. ISP!SearchAssumption
      BY SrcAssumption DEF ISP!SearchAssumption, RecordType
    <2> HIDE DEF s
    <2> QED
      BY <1>1, <2>1, <2>2, ISP!AnswerIsRecord
  <1> QED
    BY <1>1, <1>3, <1>4 DEF SearchResult

-----------------------------------------------------------------------------
(* The inductive invariant, by what its parts are about *)

\* What is stored: whole events up to a seal, records at the beginning of events.
StoredInv ==
  /\ indexHead <= Len(index) /\ IsEvent(head) /\ (sealed => IsEvent(tail))
  /\ \A i \in DOMAIN index : index[i].offset <= tail /\ IsEvent(index[i].offset)
  /\ end = U64MAX \/ end <= tail
  /\ tail <= MaxUnits

\* What the three locks and the stream lock keep apart.
LockInv ==
  /\ app.pc = "starting" => state = "Stopped"
  /\ app.pc \in {"seekFlush", "searcher", "search", "move"} => state = "Started"
  /\ app.pc \in {"searcher", "search", "move"} => ~Creating
  /\ app.pc = "move" => app.rec \in 1 .. Len(index)
  /\ state = "Stopped" => streaming.pc = "off"

\* Between two events the reader is where the next one is due, or it is at the end.
DueInv ==
  due # NONE =>
    /\ streaming.pc \in {"ready", "length", "eos", "error"} =>
         (reader.offset = due /\ IsEvent(due)) \/ AtLimit
    /\ streaming.pc = "length" => streaming.offset = reader.offset /\ streaming.at = reader.offset
    /\ streaming.pc = "payload" =>
         /\ IsEvent(due) /\ reader.offset = due + 1
         /\ streaming.offset = due /\ streaming.at = due

\* What a query has read are times of records, the end's not before the start's.
QueryInv ==
  \A q \in Queriers :
    /\ query[q].pc = "last" => \E i \in DOMAIN index : query[q].start = index[i].ts
    /\ query[q].pc = "done" =>
         \E i, j \in DOMAIN index :
           i <= j /\ query[q].start = index[i].ts /\ query[q].end = index[j].ts

\* All of it.
SrcInv ==
  TypeOK /\ StoredInv /\ LayersAgree /\ LockInv /\ DueInv /\ EosOnlyAtEnd /\ QueryInv

\* The initial states: nothing is stored, the element is stopped.
LEMMA SrcInvInit == Init => SrcInv
  <1> SUFFICES ASSUME Init PROVE SrcInv
    OBVIOUS
  <1>1. TypeOK
    <2>1. index \in Seq(Records) /\ settings \in SettingsType
      BY EmptySeq, SrcAssumption DEF Init
    <2>2. reader \in Reader /\ end \in 0 .. U64MAX
      BY SrcAssumption DEF Init, Reader
    <2>3. app \in App /\ streaming \in Streaming
      BY DEF Init, App, AppPCs, IdleApp, Streaming, StreamingIn, NONE
    <2>4. query \in [Queriers -> Query]
      BY DEF Init, Query, IdleQuery
    <2>5. due \in Nat \cup {NONE} /\ session \in Nat /\ seeks \in Nat /\ state \in {"Stopped", "Started"}
          /\ tail \in Nat /\ head \in Nat /\ sealed \in BOOLEAN /\ indexHead \in Nat
      BY DEF Init
    <2> QED
      BY <2>1, <2>2, <2>3, <2>4, <2>5 DEF TypeOK
  <1>2. StoredInv
    BY SrcAssumption DEF Init, StoredInv, IsEvent, EventSize
  <1>3. LayersAgree
    BY SrcAssumption DEF Init, LayersAgree
  <1>4. LockInv
    BY DEF Init, LockInv, IdleApp, StreamingIn
  <1>5. DueInv /\ EosOnlyAtEnd
    BY DEF Init, DueInv, EosOnlyAtEnd, StreamingIn
  <1>6. QueryInv
    BY DEF Init, QueryInv, IdleQuery
  <1> QED
    BY <1>1, <1>2, <1>3, <1>4, <1>5, <1>6 DEF SrcInv
-----------------------------------------------------------------------------
(* The writer and the truncation tool *)

\* A step of the writer or the tool that keeps what is stored.
LEMMA StreamKept ==
  ASSUME SrcInv, StreamStep, index' \in Seq(Records), indexHead' \in Nat, head' \in Nat,
         tail' \in Nat, sealed' \in BOOLEAN, StoredInv',
         Len(index) <= Len(index'), \A i \in DOMAIN index : index'[i] = index[i],
         sealed => sealed' /\ tail' = tail
  PROVE  SrcInv'
  <1>1. TypeOK'
    BY DEF SrcInv, TypeOK, StreamStep, elementVars
  <1>2. LayersAgree'
    BY DEF SrcInv, LayersAgree, StreamStep, elementVars
  <1>3. Len(index) \in Nat /\ Len(index') \in Nat /\ DOMAIN index = 1 .. Len(index)
        /\ DOMAIN index' = 1 .. Len(index')
    BY DEF SrcInv, TypeOK
  <1>4. LockInv'
    BY <1>3 DEF SrcInv, LockInv, StreamStep, elementVars, Creating
  <1>5. DueInv'
    BY DEF SrcInv, DueInv, StreamStep, elementVars, AtLimit
  <1>6. EosOnlyAtEnd'
    BY DEF SrcInv, EosOnlyAtEnd, StreamStep, elementVars
  <1>7. QueryInv'
    <2>1. \A i \in DOMAIN index : i \in DOMAIN index'
      BY <1>3
    <2>2. query' = query /\ QueryInv
      BY DEF SrcInv, StreamStep
    <2>3. \A i \in DOMAIN index : index'[i].ts = index[i].ts
      OBVIOUS
    <2> SUFFICES ASSUME NEW q \in Queriers
                 PROVE  /\ query[q].pc = "last" => \E i \in DOMAIN index' : query[q].start = index'[i].ts
                        /\ query[q].pc = "done" =>
                             \E i, j \in DOMAIN index' :
                               /\ i <= j /\ query[q].start = index'[i].ts
                               /\ query[q].end = index'[j].ts
      BY <2>2, Zenon DEF QueryInv
    <2>4. CASE query[q].pc = "last"
      <3>1. PICK i \in DOMAIN index : query[q].start = index[i].ts
        BY <2>2, <2>4, Zenon DEF QueryInv
      <3> QED
        BY <2>1, <2>3, <2>4, <3>1, Zenon
    <2>5. CASE query[q].pc = "done"
      <3>1. PICK i, j \in DOMAIN index :
              i <= j /\ query[q].start = index[i].ts /\ query[q].end = index[j].ts
        BY <2>2, <2>5, Zenon DEF QueryInv
      <3>2. query[q].start = index'[i].ts /\ query[q].end = index'[j].ts
        BY <2>3, <3>1, Zenon
      <3> QED
        BY <2>1, <2>5, <3>1, <3>2, Zenon
    <2> QED
      BY <2>4, <2>5, Zenon
  <1> QED
    BY <1>1, <1>2, <1>4, <1>5, <1>6, <1>7 DEF SrcInv

\* An append, a seal or a truncation keeps the invariant.
LEMMA StreamNextKept ==
  ASSUME SrcInv, StreamNext
  PROVE  SrcInv'
  <1>1. /\ index \in Seq(Records) /\ Len(index) \in Nat /\ indexHead \in Nat /\ head \in Nat
        /\ tail \in Nat /\ sealed \in BOOLEAN /\ end \in Nat /\ StoredInv
    BY SrcAssumption DEF SrcInv, TypeOK
  <1>2. CASE AppendUnit
    <2>1. /\ ~sealed /\ tail < MaxUnits /\ tail' = tail + 1 /\ MaxUnits \in Nat
          /\ UNCHANGED <<head, sealed, index, indexHead, end>>
      BY <1>2, SrcAssumption DEF AppendUnit, StreamStep, elementVars
    <2>2. \A i \in DOMAIN index : index[i].offset \in Nat
      <3>1. \A r \in Records : r.offset \in Nat
        BY SrcAssumption DEF RecordType
      <3> QED
        BY <1>1, <3>1
    <2>3. \A i \in DOMAIN index : index[i].offset <= tail + 1 /\ IsEvent(index[i].offset)
      BY <1>1, <2>2 DEF StoredInv
    <2>4. end = U64MAX \/ end <= tail + 1
      BY <1>1 DEF StoredInv
    <2>5. StoredInv'
      BY <1>1, <2>1, <2>3, <2>4 DEF StoredInv
    <2> QED
      BY <1>1, <1>2, <2>1, <2>5, StreamKept DEF AppendUnit
  <1>3. CASE SealData
    <2>1. StoredInv'
      BY <1>1, <1>3 DEF SealData, StreamStep, elementVars, StoredInv
    <2> QED
      BY <1>1, <1>3, <2>1, StreamKept DEF SealData
  <1>4. ASSUME NEW r \in Records, AppendRecord(r) PROVE SrcInv'
    <2>1. /\ index' = Append(index, r) /\ StreamStep /\ UNCHANGED <<tail, head, sealed, indexHead>>
          /\ r.offset <= tail /\ IsEvent(r.offset)
      BY <1>4 DEF AppendRecord
    <2>2. /\ index' \in Seq(Records) /\ Len(index') = Len(index) + 1
          /\ \A i \in 1 .. Len(index) : index'[i] = index[i]
          /\ index'[Len(index) + 1] = r
      BY <1>1, <2>1, AppendProperties
    <2>3. DOMAIN index' = 1 .. Len(index) + 1 /\ DOMAIN index = 1 .. Len(index)
      BY <1>1, <2>2
    <2>4. StoredInv'
      <3>1. ASSUME NEW i \in DOMAIN index'
            PROVE  index'[i].offset <= tail /\ IsEvent(index'[i].offset)
        <4>1. CASE i = Len(index) + 1
          BY <2>1, <2>2, <4>1
        <4>2. CASE i \in 1 .. Len(index)
          BY <1>1, <2>2, <2>3, <4>2 DEF StoredInv
        <4> QED
          BY <1>1, <2>3, <4>1, <4>2
      <3>2. UNCHANGED <<end, tail, head, sealed, indexHead>>
        BY <2>1 DEF StreamStep, elementVars
      <3>3. indexHead <= Len(index')
        BY <1>1, <2>2 DEF StoredInv
      <3> QED
        BY <1>1, <3>1, <3>2, <3>3 DEF StoredInv
    <2>5. Len(index) <= Len(index')
      BY <1>1, <2>2
    <2> QED
      BY <1>1, <2>1, <2>2, <2>3, <2>4, <2>5, StreamKept
  <1>5. ASSUME NEW n \in indexHead + 1 .. Len(index), Truncate(n) PROVE SrcInv'
    <2>1. /\ indexHead' = n - 1 /\ head' = index[n].offset
          /\ UNCHANGED <<tail, sealed, index>> /\ StreamStep
      BY <1>5 DEF Truncate
    <2>2. n \in 1 .. Len(index) /\ index[n] \in Records
      BY <1>1
    <2>3. index[n].offset \in Nat
      BY <2>2, SrcAssumption DEF RecordType
    <2>4. StoredInv'
      <3>1. UNCHANGED end /\ indexHead' <= Len(index) /\ IsEvent(head')
        BY <1>1, <2>1, <2>2 DEF StreamStep, elementVars, StoredInv
      <3> QED
        BY <1>1, <2>1, <3>1 DEF StoredInv
    <2>5. indexHead' \in Nat /\ head' \in Nat
      BY <1>1, <2>1, <2>3
    <2> QED
      BY <1>1, <2>1, <2>4, <2>5, StreamKept
  <1> QED
    BY <1>2, <1>3, <1>4, <1>5 DEF StreamNext

-----------------------------------------------------------------------------
(* query *)

\* One query.
QueryOK(r) ==
  /\ r.pc = "last" => \E i \in DOMAIN index : r.start = index[i].ts
  /\ r.pc = "done" =>
       \E i, j \in DOMAIN index : i <= j /\ r.start = index[i].ts /\ r.end = index[j].ts

\* A step of a query keeps the invariant if its own part of it holds after the step.
LEMMA QueryKept ==
  ASSUME SrcInv, NEW q \in Queriers, NEW r \in Query, QueryOK(r), QueryStep(q, r)
  PROVE  SrcInv'
  <1>1. /\ query' = [query EXCEPT ![q] = r] /\ query \in [Queriers -> Query]
        /\ UNCHANGED <<tail, head, sealed, index, indexHead, settings, state, end, session, seeks,
                       reader, app, streaming, due>>
    BY DEF QueryStep, streamVars, elementVars, SrcInv, TypeOK
  <1>2. query' \in [Queriers -> Query]
    BY <1>1
  <1>3. TypeOK'
    BY <1>1, <1>2 DEF SrcInv, TypeOK
  <1>4. StoredInv' /\ LayersAgree' /\ LockInv' /\ DueInv' /\ EosOnlyAtEnd'
    BY <1>1 DEF SrcInv, StoredInv, LayersAgree, LockInv, DueInv, EosOnlyAtEnd, Creating, AtLimit
  <1>5. QueryInv'
    <2> SUFFICES ASSUME NEW p \in Queriers
                 PROVE  /\ query'[p].pc = "last" => \E i \in DOMAIN index : query'[p].start = index[i].ts
                        /\ query'[p].pc = "done" =>
                             \E i, j \in DOMAIN index :
                               i <= j /\ query'[p].start = index[i].ts /\ query'[p].end = index[j].ts
      BY <1>1, Zenon DEF QueryInv
    <2>1. CASE p = q
      <3>1. query'[p] = r
        BY <1>1, <2>1
      <3> QED
        BY <3>1, Zenon DEF QueryOK
    <2>2. CASE p # q
      <3>1. query'[p] = query[p]
        BY <1>1, <2>2
      <3>2. QueryInv
        BY DEF SrcInv
      <3> QED
        BY <3>1, <3>2, Zenon DEF QueryInv
    <2> QED
      BY <2>1, <2>2
  <1> QED
    BY <1>3, <1>4, <1>5 DEF SrcInv

\* The last record is later than none.
LEMMA LastIsLast ==
  ASSUME index \in Seq(Records), indexHead \in Nat, indexHead < Len(index)
  PROVE  get_last_record = Len(index)
  <1> DEFINE s == [IS!IdleSearch EXCEPT !.ts = U64MAX, !.method = "Before",
                                        !.head = indexHead, !.tail = Len(index)]
  <1>1. Len(index) \in 1 .. Len(index) /\ U64MAX \in Nat /\ U64MAX > 0
    BY SrcAssumption
  <1>2. index[Len(index)] \in Records
    BY <1>1
  <1>3. index[Len(index)].ts <= U64MAX
    BY <1>2, SrcAssumption
  <1>4. s.ts = U64MAX /\ s.tail = Len(index)
    BY DEF IS!IdleSearch
  <1>5. IS!Answer(s) = Len(index)
    <2> HIDE DEF s
    <2> QED
      BY <1>1, <1>3, <1>4 DEF IS!Answer, IS!LastIsAnswer, IS!MIN
  <1> QED
    BY <1>5 DEF get_last_record, SearchResult

\* Every step of a query keeps the invariant.
LEMMA QueryStepsKept ==
  ASSUME SrcInv, NEW q \in Queriers, QueryCall(q) \/ QuerySteps(q)
  PROVE  SrcInv'
  <1> DEFINE o == query[q]
  <1>1. o \in Query /\ session \in Nat /\ index \in Seq(Records) /\ indexHead \in Nat /\ StoredInv
    BY DEF SrcInv, TypeOK
  <1>2. IdleQuery \in Query /\ QueryOK(IdleQuery)
    BY DEF IdleQuery, Query, QueryOK
  <1>3. \A pc \in {"state", "first"} :
          [o EXCEPT !.pc = pc] \in Query /\ QueryOK([o EXCEPT !.pc = pc])
    BY <1>1 DEF Query, QueryOK
  <1>4. [o EXCEPT !.pc = "searcher", !.session = session] \in Query
        /\ QueryOK([o EXCEPT !.pc = "searcher", !.session = session])
    BY <1>1 DEF Query, QueryOK
  <1>5. CASE QueryCall(q)
    BY <1>3, <1>5, QueryKept DEF QueryCall
  <1>6. CASE QueryBegin(q)
    BY <1>2, <1>4, <1>6, QueryKept DEF QueryBegin
  <1>7. CASE QueryTakesSearcher(q)
    BY <1>2, <1>3, <1>7, QueryKept DEF QueryTakesSearcher
  <1>8. CASE QueryFails(q) \/ QueryEnds(q)
    BY <1>2, <1>8, QueryKept DEF QueryFails, QueryEnds
  <1>9. CASE QueryReads(q)
    <2>1. indexHead < Len(index) /\ (o.pc = "first" \/ o.pc = "last")
      BY <1>1, <1>9 DEF QueryReads, IsEmpty, StoredInv
    <2>2. \A i \in 1 .. Len(index) : index[i].ts \in Nat
      <3>1. \A r \in Records : r.ts \in Nat
        BY SrcAssumption DEF RecordType
      <3> QED
        BY <1>1, <3>1
    <2>3. CASE o.pc = "first"
      <3> DEFINE n == get_first_record
                 r == [o EXCEPT !.pc = "last", !.start = index[n].ts, !.end = o.end]
      <3>1. n \in 1 .. Len(index)
        <4>1. n \in indexHead + 1 .. Len(index)
          BY <1>1, <2>1, SearchFindsRecord DEF get_first_record, MIN
        <4> QED
          BY <1>1, <4>1
      <3>2. QueryStep(q, r)
        BY <1>9, <2>3 DEF QueryReads, ReadOrder, AfterRead
      <3>3. n \in DOMAIN index /\ index[n].ts \in Nat
        BY <1>1, <2>2, <3>1
      <3> HIDE DEF n
      <3>4. r \in Query
        BY <1>1, <3>3 DEF Query
      <3>5. r.pc = "last" /\ r.start = index[n].ts
        BY <1>1 DEF Query
      <3>6. QueryOK(r)
        BY <3>3, <3>5 DEF QueryOK
      <3> QED
        BY <3>2, <3>4, <3>6, QueryKept
    <2>4. CASE o.pc = "last"
      <3> DEFINE n == get_last_record
                 r == [o EXCEPT !.pc = "done", !.start = o.start, !.end = index[n].ts]
      <3>1. n = Len(index)
        BY <1>1, <2>1, LastIsLast
      <3>2. QueryStep(q, r)
        BY <1>9, <2>4 DEF QueryReads, ReadOrder, AfterRead
      <3>3. n \in DOMAIN index /\ index[n].ts \in Nat /\ \A i \in DOMAIN index : i <= n
        BY <1>1, <2>1, <2>2, <3>1
      <3> HIDE DEF n
      <3>4. r \in Query
        BY <1>1, <3>3 DEF Query
      <3>5. r.pc = "done" /\ r.end = index[n].ts /\ r.start = o.start
        BY <1>1 DEF Query
      <3>6. \E i \in DOMAIN index : o.start = index[i].ts
        BY <2>4 DEF SrcInv, QueryInv
      <3>7. QueryOK(r)
        BY <3>3, <3>5, <3>6 DEF QueryOK
      <3> QED
        BY <3>2, <3>4, <3>7, QueryKept
    <2> QED
      BY <2>1, <2>3, <2>4
  <1> QED
    BY <1>5, <1>6, <1>7, <1>8, <1>9 DEF QuerySteps
-----------------------------------------------------------------------------
(* create *)

\* A read of one unit: from the BufReader, or after it has been filled from the stream,
\* within Take's limit and within what is stored.
LEMMA ReadUnitKept ==
  ASSUME reader \in Reader, tail \in Nat, end \in Nat, LayersAgree, ReadUnit
  PROVE  /\ reader' \in Reader /\ reader'.offset = reader.offset + 1 /\ ~AtLimit
         /\ reader'.offset = reader'.inner - reader'.buf
         /\ reader'.inner <= end /\ reader'.limit = end - reader'.inner
  <1>1. /\ reader.offset \in Nat /\ reader.buf \in Nat /\ reader.limit \in Nat /\ reader.inner \in Nat
        /\ reader.offset = reader.inner - reader.buf
        /\ reader.inner <= end /\ reader.limit = end - reader.inner
    BY DEF Reader, LayersAgree
  <1>2. CASE reader.buf > 0
    <2>1. reader' = [reader EXCEPT !.buf = @ - 1, !.offset = @ + 1]
      BY <1>2 DEF ReadUnit
    <2>2. reader.buf - 1 \in Nat /\ reader.offset + 1 = reader.inner - (reader.buf - 1)
      BY <1>1, <1>2
    <2>3. /\ reader' \in Reader /\ reader'.offset = reader.offset + 1
          /\ reader'.buf = reader.buf - 1 /\ reader'.inner = reader.inner /\ reader'.limit = reader.limit
      <3> DEFINE b == reader.buf - 1
                 o == reader.offset + 1
      <3>1. b \in Nat /\ o \in Nat /\ reader' = [reader EXCEPT !.buf = b, !.offset = o]
        BY <1>1, <2>1, <2>2
      <3> HIDE DEF b, o
      <3>2. /\ reader' \in Reader /\ reader'.offset = o /\ reader'.buf = b
            /\ reader'.inner = reader.inner /\ reader'.limit = reader.limit
        BY <3>1 DEF Reader
      <3> QED
        BY <3>2 DEF b, o
    <2> QED
      BY <1>1, <1>2, <2>2, <2>3 DEF AtLimit
  <1>3. CASE reader.buf = 0
    <2>1. PICK k \in Filled :
            reader' = [offset |-> reader.offset + 1, buf |-> k - 1,
                       limit |-> reader.limit - k, inner |-> reader.inner + k]
      BY <1>1, <1>3 DEF ReadUnit
    <2>2. k \in Nat /\ 1 <= k /\ k <= reader.limit
      BY <1>1, <2>1, SrcAssumption DEF Filled, MinOf
    <2>3. /\ reader' \in Reader /\ reader'.offset = reader.offset + 1
          /\ reader'.buf = k - 1 /\ reader'.inner = reader.inner + k /\ reader'.limit = reader.limit - k
      BY <1>1, <2>1, <2>2 DEF Reader
    <2>4. /\ reader.offset + 1 = (reader.inner + k) - (k - 1)
          /\ reader.inner + k <= end /\ reader.limit - k = end - (reader.inner + k)
          /\ reader.limit # 0
      BY <1>1, <1>3, <2>2
    <2> QED
      BY <2>3, <2>4 DEF AtLimit
  <1> QED
    BY <1>1, <1>2, <1>3

\* A step of create keeps the invariant if its own parts of it hold after the step.
LEMMA CreateKept ==
  ASSUME SrcInv, StreamingStep, reader' \in Reader, streaming' \in Streaming,
         due' \in Nat \cup {NONE}, LayersAgree', DueInv', EosOnlyAtEnd',
         state = "Started", app.pc \notin {"searcher", "search", "move"} \/ ~Creating'
  PROVE  SrcInv'
  <1>1. TypeOK'
    BY DEF SrcInv, TypeOK, StreamingStep, streamVars, elementVars
  <1>2. StoredInv'
    BY DEF SrcInv, StoredInv, StreamingStep, streamVars, elementVars
  <1>3. LockInv'
    BY DEF SrcInv, LockInv, StreamingStep, streamVars, elementVars
  <1>4. QueryInv'
    BY Zenon DEF SrcInv, QueryInv, StreamingStep, streamVars, elementVars
  <1> QED
    BY <1>1, <1>2, <1>3, <1>4 DEF SrcInv

\* Every step of create keeps the invariant.
LEMMA CreateStepsKept ==
  ASSUME SrcInv, Create \/ CreateSteps
  PROVE  SrcInv'
  <1>1. /\ reader \in Reader /\ streaming \in Streaming /\ due \in Nat \cup {NONE}
        /\ tail \in Nat /\ end \in Nat /\ LayersAgree /\ DueInv /\ EosOnlyAtEnd
        /\ state \in {"Stopped", "Started"}
        /\ reader.offset \in Nat /\ reader.buf \in Nat /\ reader.limit \in Nat /\ reader.inner \in Nat
        /\ reader.offset = reader.inner - reader.buf
    BY SrcAssumption DEF SrcInv, TypeOK, Reader, LayersAgree
  <1>2. state = "Started" /\ StreamingStep
    BY <1>1 DEF SrcInv, LockInv, Create, CreateSteps, ReadLength, ReadPayload, ReadEnds, CreateFails, Creating
  <1>3. /\ UNCHANGED <<tail, sealed, end>>
        /\ (Creating => app.pc \notin {"searcher", "search", "move"})
    BY <1>2 DEF StreamingStep, streamVars, elementVars, SrcInv, LockInv
  <1>4. \A pc \in {"ready", "eos", "error"} : StreamingIn(pc) \in Streaming /\ StreamingIn(pc).pc = pc
    BY DEF StreamingIn, Streaming
  <1>5. CASE Create
    <2>1. /\ streaming.pc = "ready" /\ app.pc = "idle" /\ UNCHANGED <<reader, due>>
          /\ streaming' = [pc |-> "length", offset |-> reader.offset, at |-> reader.inner - reader.buf]
      BY <1>5 DEF Create
    <2>2. /\ streaming' \in Streaming /\ streaming'.pc = "length"
          /\ streaming'.offset = reader.offset /\ streaming'.at = reader.offset
      BY <1>1, <2>1 DEF Streaming
    <2>3. DueInv'
      BY <1>1, <2>1, <2>2 DEF DueInv, AtLimit
    <2>4. LayersAgree' /\ EosOnlyAtEnd'
      BY <1>1, <1>3, <2>1, <2>2 DEF LayersAgree, EosOnlyAtEnd
    <2> QED
      BY <1>1, <1>2, <2>1, <2>2, <2>3, <2>4, CreateKept
  <1>6. CASE ReadLength
    <2>1. /\ streaming.pc = "length" /\ ReadUnit /\ UNCHANGED due
          /\ streaming' = [streaming EXCEPT !.pc = "payload"]
      BY <1>6 DEF ReadLength
    <2>2. /\ reader' \in Reader /\ reader'.offset = reader.offset + 1 /\ ~AtLimit
          /\ reader'.offset = reader'.inner - reader'.buf
          /\ reader'.inner <= end /\ reader'.limit = end - reader'.inner
      BY <1>1, <2>1, ReadUnitKept
    <2>3. /\ streaming' \in Streaming /\ streaming'.pc = "payload"
          /\ streaming'.offset = streaming.offset /\ streaming'.at = streaming.at
      BY <1>1, <2>1 DEF Streaming
    <2>4. DueInv'
      <3>1. due # NONE => /\ reader.offset = due /\ IsEvent(due)
                          /\ streaming.offset = due /\ streaming.at = due
        BY <1>1, <2>1, <2>2 DEF DueInv
      <3> QED
        BY <2>1, <2>2, <2>3, <3>1 DEF DueInv
    <2>5. LayersAgree' /\ EosOnlyAtEnd'
      BY <1>3, <2>2, <2>3 DEF LayersAgree, EosOnlyAtEnd
    <2>6. app.pc \notin {"searcher", "search", "move"}
      BY <1>3, <2>1 DEF Creating
    <2> QED
      BY <1>1, <1>2, <2>1, <2>2, <2>3, <2>4, <2>5, <2>6, CreateKept
  <1>7. CASE ReadPayload
    <2>1. /\ streaming.pc = "payload" /\ ReadUnit /\ streaming' = StreamingIn("ready")
          /\ due' = IF due = NONE THEN NONE ELSE due + EventSize
      BY <1>7 DEF ReadPayload
    <2>2. /\ reader' \in Reader /\ reader'.offset = reader.offset + 1
          /\ reader'.offset = reader'.inner - reader'.buf
          /\ reader'.inner <= end /\ reader'.limit = end - reader'.inner
      BY <1>1, <2>1, ReadUnitKept
    <2>3. due' \in Nat \cup {NONE}
      BY <1>1, <2>1 DEF EventSize, NONE
    <2>4. DueInv'
      <3>1. due # NONE => reader.offset = due + 1 /\ IsEvent(due) /\ due \in Nat
        BY <1>1, <2>1 DEF DueInv
      <3>2. due # NONE => (due + 1) + 1 = due + EventSize /\ IsEvent(due + EventSize)
        BY <3>1 DEF IsEvent, EventSize
      <3> QED
        BY <1>4, <2>1, <2>2, <3>1, <3>2 DEF DueInv
    <2>5. LayersAgree' /\ EosOnlyAtEnd'
      BY <1>3, <1>4, <2>1, <2>2 DEF LayersAgree, EosOnlyAtEnd
    <2> QED
      BY <1>2, <1>4, <2>1, <2>2, <2>3, <2>4, <2>5, CreateKept DEF Creating
  <1>8. CASE ReadEnds
    <2>1. Creating /\ EndOfFile /\ streaming' = StreamingIn("eos") /\ UNCHANGED <<reader, due>>
      BY <1>8 DEF ReadEnds
    <2>2. EosOnlyAtEnd'
      <3>1. reader.offset = end \/ (sealed /\ reader.offset = tail)
        BY <1>1, <2>1 DEF EndOfFile, AtLimit, AtTail, LayersAgree
      <3> QED
        BY <1>3, <2>1, <3>1 DEF EosOnlyAtEnd
    <2>3. DueInv'
      <3>1. CASE AtLimit
        BY <1>4, <2>1, <3>1 DEF DueInv, AtLimit
      <3>2. CASE AtTail /\ sealed
        <4>1. reader.offset = tail /\ IsEvent(tail)
          BY <1>1, <3>2 DEF AtTail, SrcInv, StoredInv
        <4>2. due # NONE => streaming.pc # "payload"
          <5>1. ASSUME due # NONE, streaming.pc = "payload" PROVE FALSE
            <6>1. tail = due + 1 /\ due \in Nat /\ due % 2 = 0 /\ tail % 2 = 0
              BY <1>1, <4>1, <5>1 DEF DueInv, IsEvent, EventSize
            <6> QED
              BY <6>1
          <5> QED
            BY <5>1
        <4>3. due # NONE => (reader.offset = due /\ IsEvent(due)) \/ AtLimit
          BY <1>1, <2>1, <4>2 DEF DueInv, Creating
        <4> QED
          BY <1>4, <2>1, <4>3 DEF DueInv, AtLimit
      <3> QED
        BY <2>1, <3>1, <3>2 DEF EndOfFile
    <2>4. LayersAgree'
      BY <1>1, <1>3, <2>1 DEF LayersAgree
    <2> QED
      BY <1>1, <1>2, <1>4, <2>1, <2>2, <2>3, <2>4, CreateKept DEF Creating
  <1>9. CASE CreateFails
    <2>1. /\ Creating /\ streaming' = StreamingIn("error") /\ UNCHANGED reader
          /\ due' = IF streaming.pc = "payload" THEN NONE ELSE due
      BY <1>9 DEF CreateFails
    <2>2. DueInv'
      <3>1. CASE streaming.pc = "payload"
        BY <2>1, <3>1 DEF DueInv
      <3>2. CASE streaming.pc = "length"
        <4>1. due' = due
          BY <2>1, <3>2
        <4>2. due # NONE => (reader.offset = due /\ IsEvent(due)) \/ AtLimit
          BY <1>1, <3>2 DEF DueInv
        <4> QED
          BY <1>4, <2>1, <4>1, <4>2 DEF DueInv, AtLimit
      <3> QED
        BY <2>1, <3>1, <3>2 DEF Creating
    <2>3. LayersAgree' /\ EosOnlyAtEnd' /\ due' \in Nat \cup {NONE}
      BY <1>1, <1>3, <1>4, <2>1 DEF LayersAgree, EosOnlyAtEnd
    <2> QED
      BY <1>1, <1>2, <1>4, <2>1, <2>2, <2>3, CreateKept DEF Creating
  <1> QED
    BY <1>5, <1>6, <1>7, <1>8, <1>9 DEF CreateSteps
-----------------------------------------------------------------------------
(* The application's thread *)

\* A step of the application's thread keeps the invariant if its own parts of it hold
\* after the step.
LEMMA AppKept ==
  ASSUME SrcInv, UNCHANGED <<streamVars, query>>, settings' \in SettingsType,
         state' \in {"Stopped", "Started"}, end' \in 0 .. U64MAX, end' = U64MAX \/ end' <= tail,
         app' \in App, reader' \in Reader, streaming' \in Streaming, due' \in Nat \cup {NONE},
         session' \in Nat, seeks' \in Nat,
         LayersAgree', LockInv', DueInv', EosOnlyAtEnd'
  PROVE  SrcInv'
  <1>1. TypeOK'
    BY DEF SrcInv, TypeOK, streamVars
  <1>2. StoredInv'
    BY DEF SrcInv, StoredInv, streamVars
  <1>3. QueryInv'
    BY Zenon DEF SrcInv, QueryInv, streamVars
  <1> QED
    BY <1>1, <1>2, <1>3 DEF SrcInv

\* The same for a step that leaves the reader alone, and what comes out of it.
LEMMA AppOnlyKept ==
  ASSUME SrcInv, UNCHANGED <<streamVars, query, end, reader, streaming, due>>,
         settings' \in SettingsType, state' \in {"Stopped", "Started"}, app' \in App,
         session' \in Nat, seeks' \in Nat, LockInv'
  PROVE  SrcInv'
  <1>1. LayersAgree' /\ DueInv' /\ EosOnlyAtEnd'
    BY DEF SrcInv, LayersAgree, DueInv, EosOnlyAtEnd, AtLimit, streamVars
  <1>2. end' = U64MAX \/ end' <= tail
    BY DEF SrcInv, StoredInv
  <1> QED
    BY <1>1, <1>2, AppKept DEF SrcInv, TypeOK

\* A seek through the layers.
LEMMA SeekToKept ==
  ASSUME end \in Nat, NEW o \in Nat, reader' = SeekTo(o), end' = end
  PROVE  /\ reader' \in Reader /\ LayersAgree'
         /\ (reader'.offset = MinOf(o, end) /\ o <= end) \/ AtLimit'
         /\ MinOf(o, end) \in Nat
  <1>1. CASE o <= end
    <2>1. reader' = [offset |-> o, buf |-> 0, limit |-> end - o, inner |-> o] /\ end - o \in Nat
      BY <1>1 DEF SeekTo
    <2> QED
      BY <1>1, <2>1 DEF Reader, LayersAgree, MinOf
  <1>2. CASE ~(o <= end)
    <2>1. reader' = [offset |-> end, buf |-> 0, limit |-> 0, inner |-> end]
      BY <1>2 DEF SeekTo
    <2> QED
      BY <1>2, <2>1 DEF Reader, LayersAgree, MinOf, AtLimit
  <1> QED
    BY <1>1, <1>2

\* A seek that moved the reader: the event at the offset of the record is due.
LEMMA SeekMovedKept ==
  ASSUME SrcInv, NEW o \in Nat, IsEvent(o), state = "Started",
         reader' = SeekTo(o), due' = MinOf(o, end), app' = IdleApp,
         streaming' = StreamingIn("ready"), AppStep, UNCHANGED <<state, end, session, seeks>>
  PROVE  SrcInv'
  <1>1. end \in Nat
    BY SrcAssumption DEF SrcInv, TypeOK
  <1>2. /\ reader' \in Reader /\ LayersAgree' /\ MinOf(o, end) \in Nat
        /\ (reader'.offset = MinOf(o, end) /\ o <= end) \/ AtLimit'
    BY <1>1, SeekToKept
  <1>3. app' \in App /\ app'.pc = "idle" /\ streaming' \in Streaming /\ streaming'.pc = "ready"
    BY DEF IdleApp, App, AppPCs, StreamingIn, Streaming, NONE
  <1>4. DueInv'
    <2>1. (reader'.offset = due' /\ IsEvent(due')) \/ AtLimit'
      BY <1>1, <1>2 DEF MinOf
    <2> QED
      BY <1>3, <2>1 DEF DueInv
  <1>5. LockInv' /\ EosOnlyAtEnd'
    BY <1>3 DEF LockInv, EosOnlyAtEnd
  <1>6. end' = U64MAX \/ end' <= tail
    BY DEF SrcInv, StoredInv
  <1> QED
    BY <1>2, <1>3, <1>4, <1>5, <1>6, AppKept DEF AppStep, SrcInv, TypeOK

\* Every step of the application's thread keeps the invariant.
LEMMA AppActionsKept ==
  ASSUME SrcInv, AppCalls \/ AppSteps
  PROVE  SrcInv'
  <1>1. /\ app \in App /\ streaming \in Streaming /\ reader \in Reader /\ settings \in SettingsType
        /\ state \in {"Stopped", "Started"} /\ end \in 0 .. U64MAX /\ due \in Nat \cup {NONE}
        /\ session \in Nat /\ seeks \in Nat /\ index \in Seq(Records) /\ Len(index) \in Nat
        /\ indexHead \in Nat /\ tail \in Nat /\ head \in Nat /\ LockInv /\ StoredInv
        /\ U64MAX \in Nat /\ tail < U64MAX
    BY SrcAssumption DEF SrcInv, TypeOK, StoredInv
  <1>2. \A pc \in AppPCs : [app EXCEPT !.pc = pc] \in App /\ [app EXCEPT !.pc = pc].pc = pc
    BY <1>1 DEF App
  <1>3. IdleApp \in App /\ IdleApp.pc = "idle"
    BY DEF IdleApp, App, AppPCs, NONE
  <1>4. \A i \in 1 .. Len(index) : index[i].offset \in Nat /\ index[i].offset <= tail /\ IsEvent(index[i].offset)
    <2>1. \A r \in Records : r.offset \in Nat
      BY SrcAssumption DEF RecordType
    <2> QED
      BY <1>1, <2>1 DEF StoredInv
  <1>5. \A pc \in {"ready", "off"} : StreamingIn(pc) \in Streaming /\ StreamingIn(pc).pc = pc
    BY DEF StreamingIn, Streaming
  <1>6. ASSUME NEW s \in AllSettings, SetProperty(s) PROVE SrcInv'
    <2>1. settings' \in SettingsType
      BY <1>6, SrcAssumption DEF SetProperty
    <2>2. LockInv'
      BY <1>1, <1>6 DEF SetProperty, LockInv, streamVars, Creating
    <2> QED
      BY <1>1, <1>6, <2>1, <2>2, AppOnlyKept DEF SetProperty
  <1>7. CASE Start
    <2>1. app' = [app EXCEPT !.pc = "starting"] /\ state = "Stopped" /\ session' = session + 1
          /\ UNCHANGED <<streamVars, settings, state, end, seeks, reader, streaming, query, due>>
      BY <1>7 DEF Start
    <2>2. app' \in App /\ app'.pc = "starting"
      BY <1>2, <2>1 DEF AppPCs
    <2>3. LockInv'
      BY <1>1, <2>1, <2>2 DEF LockInv
    <2> QED
      BY <1>1, <2>1, <2>2, <2>3, AppOnlyKept
  <1>8. CASE StopBegin
    <2>1. app' = [app EXCEPT !.pc = "stopFlush"] /\ AppStep
          /\ UNCHANGED <<state, end, session, seeks, reader, streaming, due>>
      BY <1>8 DEF StopBegin
    <2>2. app' \in App /\ app'.pc = "stopFlush"
      BY <1>2, <2>1 DEF AppPCs
    <2>3. LockInv'
      BY <1>1, <2>1, <2>2 DEF LockInv
    <2> QED
      BY <1>1, <2>1, <2>2, <2>3, AppOnlyKept DEF AppStep
  <1>9. ASSUME NEW t \in Wanted, Seek(t) PROVE SrcInv'
    <2>1. app' = [IdleApp EXCEPT !.pc = "seekFlush", !.time = t] /\ state = "Started" /\ AppStep
          /\ seeks' = seeks + 1 /\ UNCHANGED <<state, end, session, reader, streaming, due>>
      BY <1>9 DEF Seek
    <2>2. app' \in App /\ app'.pc = "seekFlush"
      BY <1>3, <2>1, SrcAssumption DEF App, AppPCs
    <2>3. LockInv'
      BY <1>1, <2>1, <2>2 DEF LockInv
    <2> QED
      BY <1>1, <2>1, <2>2, <2>3, AppOnlyKept DEF AppStep
  <1>10. CASE StartReturns
    <2> DEFINE e == EndOffset
               o == IF settings.end_mode = "latest" THEN tail ELSE 0
    <2>1. /\ app.pc = "starting" /\ (NeedsIndex => ~IsEmpty) /\ state' = "Started" /\ end' = e
          /\ reader' = [offset |-> o, buf |-> 0, limit |-> e - o, inner |-> o]
          /\ app' = [IdleApp EXCEPT !.pc = "seekFlush", !.time = MIN]
          /\ AppStep /\ UNCHANGED <<session, seeks, streaming, due>>
      BY <1>10 DEF StartReturns
    <2>2. e \in 0 .. U64MAX /\ (e = U64MAX \/ e <= tail) /\ o \in Nat /\ o <= e
      <3>1. settings.end_mode \in EndModes /\ settings.end_timestamp \in Nat
        BY <1>1 DEF SettingsType
      <3>2. CASE settings.end_mode = "unbounded"
        BY <1>1, <3>2 DEF EndOffset
      <3>3. CASE settings.end_mode = "latest"
        BY <1>1, <3>3 DEF EndOffset
      <3>4. CASE settings.end_mode = "latest-indexed"
        <4>1. indexHead < Len(index)
          BY <1>1, <2>1, <3>4 DEF NeedsIndex, IsEmpty, StoredInv
        <4>2. get_last_record \in 1 .. Len(index)
          BY <1>1, <4>1, LastIsLast
        <4>3. e = index[get_last_record].offset
          BY <3>4 DEF EndOffset
        <4> HIDE DEF e
        <4> QED
          BY <1>1, <1>4, <3>4, <4>2, <4>3
      <3>5. CASE settings.end_mode = "timestamp"
        <4> DEFINE n == SearchResult(settings.end_timestamp, "After")
        <4>1. indexHead < Len(index)
          BY <1>1, <2>1, <3>5 DEF NeedsIndex, IsEmpty, StoredInv
        <4>2. n \in indexHead + 1 .. Len(index)
          BY <1>1, <3>1, <4>1, SearchFindsRecord
        <4>3. e = index[n].offset
          BY <3>5 DEF EndOffset
        <4> HIDE DEF e, n
        <4> QED
          BY <1>1, <1>4, <3>5, <4>2, <4>3
      <3> QED
        BY <3>1, <3>2, <3>3, <3>4, <3>5 DEF EndModes
    <2> HIDE DEF e, o
    <2>3. reader' \in Reader /\ LayersAgree'
      <3>1. e - o \in Nat /\ o = o - 0
        BY <1>1, <2>2
      <3> QED
        BY <1>1, <2>1, <2>2, <3>1 DEF Reader, LayersAgree
    <2>4. app' \in App /\ app'.pc = "seekFlush"
      BY <1>3, <2>1 DEF App, AppPCs, MIN
    <2>5. streaming.pc = "off" /\ streaming' = streaming
      BY <1>1, <2>1 DEF LockInv
    <2>6. LockInv' /\ DueInv' /\ EosOnlyAtEnd'
      BY <2>1, <2>4, <2>5 DEF LockInv, DueInv, EosOnlyAtEnd
    <2> QED
      BY <1>1, <2>1, <2>2, <2>3, <2>4, <2>6, AppKept DEF AppStep
  <1>11. CASE StartPanics \/ SeekPanics
    <2>1. app' = [app EXCEPT !.pc = "panicked"] /\ AppStep
          /\ UNCHANGED <<state, end, session, seeks, reader, streaming, due>>
      BY <1>11 DEF StartPanics, SeekPanics
    <2>2. app' \in App /\ app'.pc = "panicked"
      BY <1>2, <2>1 DEF AppPCs
    <2>3. LockInv'
      BY <1>1, <2>1, <2>2 DEF LockInv
    <2> QED
      BY <1>1, <2>1, <2>2, <2>3, AppOnlyKept DEF AppStep
  <1>12. CASE SeekBegin
    <2> DEFINE i == app.time = 0
               n == i /\ settings.start_mode = "no-seek"
               t == IF i THEN StartTime ELSE app.time
    <2>1. /\ app.pc = "seekFlush" /\ ~Creating /\ AppStep
          /\ app' = [app EXCEPT !.pc = "searcher", !.initial = i, !.no_seek = n, !.time = t]
          /\ UNCHANGED <<state, end, session, seeks, reader, streaming, due>>
      BY <1>12 DEF SeekBegin
    <2>2. t \in Nat \cup {NONE} /\ i \in BOOLEAN /\ n \in BOOLEAN
      BY <1>1 DEF App, StartTime, SettingsType, StartModes, MIN
    <2> HIDE DEF i, n, t
    <2>3. app' \in App /\ app'.pc = "searcher"
      BY <1>1, <2>1, <2>2 DEF App, AppPCs
    <2>4. LockInv'
      BY <1>1, <2>1, <2>3 DEF LockInv, Creating
    <2> QED
      BY <1>1, <2>1, <2>3, <2>4, AppOnlyKept DEF AppStep
  <1>13. CASE SeekTakesSearcher
    <2>1. app.pc = "searcher" /\ app' = [app EXCEPT !.pc = "search"] /\ AppStep
          /\ UNCHANGED <<state, end, session, seeks, reader, streaming, due>>
      BY <1>13 DEF SeekTakesSearcher
    <2>2. app' \in App /\ app'.pc = "search"
      BY <1>2, <2>1 DEF AppPCs
    <2>3. LockInv'
      BY <1>1, <2>1, <2>2 DEF LockInv, Creating
    <2> QED
      BY <1>1, <2>1, <2>2, <2>3, AppOnlyKept DEF AppStep
  <1>14. CASE SeekSearches
    <2> DEFINE n == SearchResult(app.time, "Before")
    <2>1. app.pc = "search" /\ app' = [app EXCEPT !.pc = "move", !.rec = n] /\ AppStep
          /\ UNCHANGED <<state, end, session, seeks, reader, streaming, due>>
      BY <1>14 DEF SeekSearches
    <2>2. n \in 1 .. Len(index)
      <3>1. app.time \in Nat \cup {NONE} /\ indexHead < Len(index)
        BY <1>1, <1>14 DEF App, SeekSearches, IsEmpty, StoredInv
      <3>2. n \in indexHead + 1 .. Len(index)
        BY <1>1, <3>1, SearchFindsRecord
      <3> QED
        BY <1>1, <3>2
    <2> HIDE DEF n
    <2>3. app' \in App /\ app'.pc = "move" /\ app'.rec = n
      <3>1. n \in Nat
        BY <1>1, <2>2
      <3> QED
        BY <1>1, <2>1, <3>1 DEF App, AppPCs
    <2>4. LockInv'
      BY <1>1, <2>1, <2>2, <2>3 DEF LockInv, Creating, AppStep, streamVars
    <2> QED
      BY <1>1, <2>1, <2>3, <2>4, AppOnlyKept DEF AppStep
  <1>15. CASE SeekMoves
    <2>1. app.rec \in 1 .. Len(index) /\ state = "Started"
      BY <1>1, <1>15 DEF SeekMoves, LockInv
    <2>2. index[app.rec].offset \in Nat /\ IsEvent(index[app.rec].offset)
      BY <1>4, <2>1
    <2> QED
      BY <1>15, <2>1, <2>2, SeekMovedKept DEF SeekMoves
  <1>16. CASE SeekToHead
    <2>1. state = "Started" /\ IsEvent(head)
      BY <1>1, <1>16 DEF SeekToHead, LockInv, StoredInv
    <2> QED
      BY <1>1, <1>16, <2>1, SeekMovedKept DEF SeekToHead
  <1>17. CASE SeekFails
    <2>1. app.pc = "search" /\ app' = IdleApp /\ AppStep /\ ~Creating
          /\ UNCHANGED <<end, session, seeks, reader, due>>
      BY <1>1, <1>17 DEF SeekFails, LockInv
    <2>2. CASE streaming.pc = "off"
      <3>1. state' = "Stopped" /\ streaming' = streaming
        BY <1>17, <2>2 DEF SeekFails
      <3>2. LockInv'
        BY <1>3, <2>1, <2>2, <3>1 DEF LockInv
      <3> QED
        BY <1>1, <1>3, <2>1, <3>1, <3>2, AppOnlyKept DEF AppStep
    <2>3. CASE streaming.pc # "off"
      <3>1. state' = state /\ streaming' = StreamingIn("ready")
        BY <1>17, <2>3 DEF SeekFails
      <3>2. state = "Started" /\ LockInv'
        BY <1>1, <1>3, <1>5, <2>1, <2>3, <3>1 DEF LockInv
      <3>3. streaming.pc \in {"ready", "eos", "error"}
        BY <1>1, <2>1, <2>3 DEF Creating, Streaming
      <3>4. DueInv' /\ LayersAgree' /\ EosOnlyAtEnd'
        BY <1>5, <2>1, <3>1, <3>3 DEF SrcInv, DueInv, LayersAgree, EosOnlyAtEnd, AtLimit
      <3>5. end' = U64MAX \/ end' <= tail
        BY <1>1, <2>1 DEF StoredInv
      <3> QED
        BY <1>1, <1>3, <1>5, <2>1, <3>1, <3>2, <3>4, <3>5, AppKept DEF AppStep
    <2> QED
      BY <2>2, <2>3
  <1>18. CASE Stop
    <2>1. /\ state' = "Stopped" /\ app' = IdleApp /\ streaming' = StreamingIn("off")
          /\ AppStep /\ UNCHANGED <<end, session, seeks, reader, due>>
      BY <1>18 DEF Stop
    <2>2. LockInv' /\ DueInv' /\ LayersAgree' /\ EosOnlyAtEnd'
      BY <1>3, <1>5, <2>1 DEF SrcInv, LockInv, DueInv, LayersAgree, EosOnlyAtEnd
    <2>3. end' = U64MAX \/ end' <= tail
      BY <1>1, <2>1 DEF StoredInv
    <2> QED
      BY <1>1, <1>3, <1>5, <2>1, <2>2, <2>3, AppKept DEF AppStep
  <1>19. CASE StartFails
    <2>1. app' = IdleApp /\ AppStep /\ UNCHANGED <<state, end, session, seeks, reader, streaming, due>>
      BY <1>19 DEF StartFails
    <2>2. app' \in App /\ app'.pc = "idle"
      BY <1>3, <2>1
    <2>3. LockInv'
      BY <1>1, <1>19, <2>1, <2>2 DEF LockInv, StartFails, Creating
    <2> QED
      BY <1>1, <2>1, <2>2, <2>3, AppOnlyKept DEF AppStep
  <1> QED
    BY <1>6, <1>7, <1>8, <1>9, <1>10, <1>11, <1>12, <1>13, <1>14, <1>15, <1>16, <1>17, <1>18, <1>19
    DEF AppCalls, AppSteps
-----------------------------------------------------------------------------
(* The theorems *)

\* The invariant holds of every state that start, do_seek, create, query and stop, the
\* writer and the truncation tool reach, in any order of their steps.
THEOREM SrcInvariant == Spec => []SrcInv
  <1>1. SrcInv /\ [Next]_vars => SrcInv'
    <2> SUFFICES ASSUME SrcInv, [Next]_vars PROVE SrcInv'
      OBVIOUS
    <2>1. CASE UNCHANGED vars
      <3>1. UNCHANGED <<tail, head, sealed, index, indexHead, settings, state, end, session, seeks>>
            /\ UNCHANGED <<reader, app, streaming, query, due>>
        BY <2>1 DEF vars, streamVars, elementVars
      <3>2. TypeOK' /\ StoredInv' /\ LayersAgree' /\ LockInv' /\ DueInv' /\ EosOnlyAtEnd'
        BY <3>1 DEF SrcInv, TypeOK, StoredInv, LayersAgree, LockInv, DueInv, EosOnlyAtEnd, Creating, AtLimit
      <3>3. QueryInv'
        BY <3>1, Zenon DEF SrcInv, QueryInv
      <3> QED
        BY <3>2, <3>3 DEF SrcInv
    <2>2. CASE StreamNext
      BY <2>2, StreamNextKept
    <2>3. CASE AppCalls \/ AppSteps
      BY <2>3, AppActionsKept
    <2>4. CASE Create \/ CreateSteps
      BY <2>4, CreateStepsKept
    <2>5. CASE \E q \in Queriers : QueryCall(q) \/ QuerySteps(q)
      BY <2>5, QueryStepsKept
    <2> QED
      BY <2>1, <2>2, <2>3, <2>4, <2>5 DEF Next
  <1> QED
    BY <1>1, SrcInvInit, PTL DEF Spec

\* CountingReader's offset, BufReader's contents and SeekableTake's limit agree, after any
\* mixture of reads, refills and seeks, for every buffer-size and every end-mode.
THEOREM SrcLayersAgree == Spec => []LayersAgree
  <1>1. SrcInv => LayersAgree
    BY DEF SrcInv
  <1> QED
    BY <1>1, SrcInvariant, PTL

\* create ends the stream at end_offset or at the end of a sealed stream and nowhere
\* else, and with a bounded end-mode never waits for the writer.
THEOREM SrcEndIsKept == Spec => []EndIsKept
  <1>1. SrcInv => EndIsKept
    <2> SUFFICES ASSUME SrcInv PROVE EndIsKept
      OBVIOUS
    <2>1. EosOnlyAtEnd
      BY DEF SrcInv
    <2>2. BoundedNeverWaits
      <3> SUFFICES ASSUME WaitsForWriter PROVE end = U64MAX
        BY DEF BoundedNeverWaits
      <3>1. reader.inner = tail /\ reader.limit > 0
        BY DEF WaitsForWriter, AtTail
      <3>2. /\ reader.limit = end - reader.inner /\ (end = U64MAX \/ end <= tail)
            /\ tail \in Nat /\ end \in 0 .. U64MAX /\ U64MAX \in Nat
        BY SrcAssumption DEF SrcInv, TypeOK, LayersAgree, StoredInv
      <3> QED
        BY <3>1, <3>2
    <2> QED
      BY <2>1, <2>2 DEF EndIsKept
  <1> QED
    BY <1>1, SrcInvariant, PTL

\* A buffer that create pushes is the whole event that was due, the one at the offset of
\* the record that the last seek found or the next one, with its own offsets.
THEOREM SrcBufferIsDueEvent == Spec => BufferIsDueEvent
  <1>1. SrcInv /\ [Next]_vars =>
          [(streaming.pc = "payload" /\ streaming'.pc = "ready" /\ due # NONE) =>
             /\ IsEvent(due) /\ streaming.at = due
             /\ streaming.offset = due /\ reader'.offset = due + EventSize]_vars
    <2> SUFFICES ASSUME SrcInv, Next, streaming.pc = "payload", streaming'.pc = "ready", due # NONE
                 PROVE  /\ IsEvent(due) /\ streaming.at = due
                        /\ streaming.offset = due /\ reader'.offset = due + EventSize
      OBVIOUS
    <2>1. /\ IsEvent(due) /\ reader.offset = due + 1 /\ streaming.offset = due /\ streaming.at = due
          /\ due \in Nat
      BY DEF SrcInv, DueInv, TypeOK, NONE
    <2>2. Creating
      BY DEF Creating
    <2>3. ReadPayload
      <3>1. app.pc \notin {"searcher", "search", "move"} /\ state = "Started" /\ app.pc # "starting"
        BY <2>2 DEF SrcInv, LockInv, TypeOK
      <3>2. ~StreamNext
        BY Zenon DEF StreamNext, AppendUnit, SealData, AppendRecord, Truncate, StreamStep
      <3>3. ~AppCalls
        BY Zenon DEF AppCalls, Start, StopBegin, Seek, SetProperty
      <3>4. ~AppSteps
        BY <2>2, <3>1, Zenon DEF AppSteps, StartFails, StartReturns, StartPanics, SeekBegin, SeekTakesSearcher,
          SeekSearches, SeekMoves, SeekToHead, SeekFails, SeekPanics, Stop
      <3>5. ~\E q \in Queriers : QueryCall(q) \/ QuerySteps(q)
        BY Zenon DEF QueryCall, QuerySteps, QueryBegin, QueryTakesSearcher, QueryReads, QueryFails,
          QueryEnds, QueryStep
      <3>6. ~Create /\ ~ReadLength
        BY DEF Create, ReadLength
      <3>7. ~ReadEnds /\ ~CreateFails
        BY DEF ReadEnds, CreateFails, StreamingIn
      <3> QED
        BY <3>2, <3>3, <3>4, <3>5, <3>6, <3>7 DEF Next, CreateSteps
    <2>4. reader'.offset = reader.offset + 1
      BY <2>3, ReadUnitKept, SrcAssumption DEF ReadPayload, SrcInv, TypeOK
    <2> QED
      BY <2>1, <2>4 DEF EventSize
  <1> QED
    BY <1>1, SrcInvariant, PTL DEF Spec, BufferIsDueEvent

\* Timestamps that are in order two by two are in order.
LEMMA SortedPairs ==
  ASSUME index \in Seq(Records), IsSorted, NEW i \in DOMAIN index, NEW j \in DOMAIN index, i <= j
  PROVE  index[i].ts <= index[j].ts
  <1>1. \A k \in 1 .. Len(index) : index[k].ts \in Nat
    <2>1. \A r \in Records : r.ts \in Nat
      BY SrcAssumption DEF RecordType
    <2> QED
      BY <2>1
  <1>2. Len(index) \in Nat /\ i \in 1 .. Len(index) /\ j \in 1 .. Len(index)
    OBVIOUS
  <1> DEFINE T == {k \in i .. Len(index) : ~(index[i].ts <= index[k].ts)}
  <1>3. T \in SUBSET Nat
    BY <1>2
  <1>4. T = {}
    <2> SUFFICES ASSUME T # {} PROVE FALSE
      OBVIOUS
    <2>1. PICK k \in T : \A m \in T : k <= m
      BY <1>3, LeastOf
    <2>2. k \in i .. Len(index) /\ k # i /\ k - 1 \in i .. Len(index) /\ k - 1 \notin T
      BY <1>1, <1>2, <2>1
    <2>3. index[i].ts <= index[k - 1].ts /\ index[k - 1].ts <= index[(k - 1) + 1].ts
      BY <1>2, <2>2 DEF IsSorted
    <2>4. (k - 1) + 1 = k /\ k - 1 \in 1 .. Len(index) /\ k \in 1 .. Len(index)
      BY <1>2, <2>2
    <2>5. index[i].ts <= index[k].ts
      BY <1>1, <1>2, <2>3, <2>4
    <2> QED
      BY <2>1, <2>5
  <1> QED
    BY <1>2, <1>4

\* The seekable range starts before it ends, although two searches of a stream that moves
\* between them make it.
THEOREM SrcRangeInOrder == Spec => []RangeInOrder
  <1>1. SrcInv => RangeInOrder
    <2> SUFFICES ASSUME SrcInv, IsSorted, NEW q \in Queriers, query[q].pc = "done"
                 PROVE  query[q].start <= query[q].end
      BY DEF RangeInOrder
    <2>1. PICK i, j \in DOMAIN index :
            i <= j /\ query[q].start = index[i].ts /\ query[q].end = index[j].ts
      BY Zenon DEF SrcInv, QueryInv
    <2>2. index \in Seq(Records)
      BY DEF SrcInv, TypeOK
    <2>3. index[i].ts <= index[j].ts
      BY <2>1, <2>2, SortedPairs
    <2> QED
      BY <2>1, <2>3
  <1> QED
    BY <1>1, SrcInvariant, PTL
=============================================================================
