-------------------------- MODULE IndexSearchProofs --------------------------
(***************************************************************************)
(* What a search of the index returns, proved for every index, every order *)
(* of its timestamps, and any appends and truncation between its reads.    *)
(*                                                                         *)
(* The records a search looks at are stored when it finds the tail, and    *)
(* stay what they are: an append and a truncation only change what is not  *)
(* looked at, or make a read fail.  The scan ends before the tail because  *)
(* it only begins if the last record is later than the wanted time.        *)
(***************************************************************************)
EXTENDS IndexSearch, WellFoundedInduction, TLAPS

\* The last record is never truncated.
HeadInv == head = 0 \/ head < Len(index)

Outcome(s) ==
  \/ LastIsAnswer(s) /\ s.pos = s.tail
  \/ /\ ~LastIsAnswer(s)
     /\ \E n \in s.head + 1 .. s.tail : IsFirst(n, s.head + 1, s.ts) /\ s.pos = Choice(s, n)

OneSearchInv(s) ==
  /\ s.head <= head
  /\ s.pc \in {"last", "first", "scan", "found"} => s.head < s.tail /\ s.tail <= Len(index)
  /\ s.pc = "last" => s.ts > MIN
  /\ s.pc \in {"first", "scan"} => ~LastIsAnswer(s)
  /\ s.pc = "scan" => /\ s.head < s.pos /\ s.pos < s.tail
                      /\ \A i \in s.head + 1 .. s.pos : index[i].ts < s.ts
  /\ s.pc = "found" => Outcome(s)
  /\ s.pc = "eof" => s.tail = 0

SearchInv == TypeOK /\ HeadInv /\ \A p \in Searchers : OneSearchInv(search[p])

\* What anybody may do to the streams and the searches.
SearchAction ==
  \/ \E r \in IndexRecord : AppendRecord(r)
  \/ \E n \in 1 .. Len(index) : Truncate(n)
  \/ \E p \in Searchers, t \in Wanted, m \in Methods : Begin(p, t, m)
  \/ \E p \in Searchers : SearchStep(p) \/ ReadFails(p)

LEMMA IdleSearchInv == IdleSearch \in Search /\ (head \in Nat => OneSearchInv(IdleSearch))
<1>1. IdleSearch \in Search
  BY DEF IdleSearch, Search, Methods, MIN
<1>2. IdleSearch.pc = "idle" /\ IdleSearch.head = 0
  BY DEF IdleSearch
<1> QED
  BY <1>1, <1>2 DEF OneSearchInv

LEMMA SearchInvInit == Init => SearchInv
<1> SUFFICES ASSUME Init PROVE SearchInv
  OBVIOUS
<1>1. index \in Seq(IndexRecord) /\ head \in Nat /\ HeadInv
  BY DEF Init, HeadInv
<1> QED
  BY <1>1, IdleSearchInv DEF Init, SearchInv, TypeOK

\* A step that keeps the records and does not move the head back keeps what is
\* known about a search that does not move.
LEMMA OtherSearchKept ==
  ASSUME TypeOK, TypeOK', NEW p \in Searchers, OneSearchInv(search[p]),
         search'[p] = search[p], head <= head', Len(index) <= Len(index'),
         \A i \in 1 .. Len(index) : index'[i] = index[i]
  PROVE  OneSearchInv(search[p])'
<1> DEFINE s == search[p]
<1>1. s \in Search
  BY DEF TypeOK
<1>2. s.head \in Nat /\ s.tail \in Nat /\ s.pos \in Nat /\ head \in Nat /\ head' \in Nat
      /\ Len(index) \in Nat /\ Len(index') \in Nat
  BY <1>1 DEF Search, TypeOK
<1>3. s.pc \in {"last", "first", "scan", "found"} =>
        /\ \A i \in s.head + 1 .. s.tail : index'[i] = index[i]
        /\ index'[s.tail] = index[s.tail]
  BY <1>2 DEF OneSearchInv
<1>4. s.pc \in {"first", "scan"} => ~LastIsAnswer(s)'
  BY <1>3 DEF OneSearchInv, LastIsAnswer, MIN
<1>5. s.pc = "scan" => \A i \in s.head + 1 .. s.pos : index'[i].ts < s.ts
  <2> SUFFICES ASSUME s.pc = "scan", NEW i \in s.head + 1 .. s.pos
               PROVE  index'[i].ts < s.ts
    OBVIOUS
  <2>1. s.pos < s.tail /\ index[i].ts < s.ts
    BY DEF OneSearchInv
  <2>2. i \in s.head + 1 .. s.tail
    BY <1>2, <2>1
  <2> QED
    BY <1>3, <2>1, <2>2
<1>6. s.pc = "found" => Outcome(s)'
  <2> SUFFICES ASSUME s.pc = "found" PROVE Outcome(s)'
    OBVIOUS
  <2>1. LastIsAnswer(s)' <=> LastIsAnswer(s)
    BY <1>3 DEF LastIsAnswer, MIN
  <2>2. ASSUME NEW n \in s.head + 1 .. s.tail, IsFirst(n, s.head + 1, s.ts)
        PROVE  IsFirst(n, s.head + 1, s.ts)'
    <3>1. \A i \in s.head + 1 .. s.tail : index'[i] = index[i]
      BY <1>3
    <3>2. \A i \in s.head + 1 .. n : index'[i] = index[i]
      BY <1>2, <3>1
    <3> QED
      BY <1>2, <2>2, <3>2 DEF IsFirst
  <2>3. ASSUME NEW n \in s.head + 1 .. s.tail
        PROVE  Choice(s, n)' = Choice(s, n)
    BY <1>3 DEF Choice
  <2>4. Outcome(s)
    BY DEF OneSearchInv
  <2> QED
    BY <2>1, <2>2, <2>3, <2>4 DEF Outcome
<1> QED
  BY <1>2, <1>4, <1>5, <1>6 DEF OneSearchInv

LEMMA OneStep ==
  ASSUME SearchInv, NEW p \in Searchers, NEW s \in Search, OneSearchInv(s), Step(p, s)
  PROVE  SearchInv'
<1>1. UNCHANGED <<index, head>> /\ search' = [search EXCEPT ![p] = s] /\ TypeOK
  BY DEF Step, streamVars, SearchInv
<1>2. TypeOK' /\ HeadInv'
  BY <1>1 DEF TypeOK, HeadInv, SearchInv
<1>3. search'[p] = s /\ \A q \in Searchers : q # p => search'[q] = search[q]
  BY <1>1 DEF TypeOK
<1>4. OneSearchInv(search[p])'
  BY <1>1, <1>3 DEF OneSearchInv, Outcome, LastIsAnswer, IsFirst, Choice
<1>5. ASSUME NEW q \in Searchers, q # p PROVE OneSearchInv(search[q])'
  BY <1>1, <1>2, <1>3, <1>5, OtherSearchKept DEF SearchInv, TypeOK
<1> QED
  BY <1>2, <1>4, <1>5 DEF SearchInv

LEMMA AppendInv ==
  ASSUME SearchInv, NEW r \in IndexRecord, AppendRecord(r)
  PROVE  SearchInv'
<1>1. TypeOK /\ HeadInv /\ \A p \in Searchers : OneSearchInv(search[p])
  BY DEF SearchInv
<1>2. index' = Append(index, r) /\ UNCHANGED <<head, search>> /\ index \in Seq(IndexRecord)
  BY <1>1 DEF AppendRecord, TypeOK
<1>3. Len(index') = Len(index) + 1 /\ \A i \in 1 .. Len(index) : index'[i] = index[i]
  BY <1>2
<1>4. TypeOK' /\ HeadInv'
  BY <1>1, <1>2, <1>3 DEF TypeOK, HeadInv
<1> QED
  BY <1>1, <1>2, <1>3, <1>4, OtherSearchKept DEF SearchInv, TypeOK

LEMMA TruncateInv ==
  ASSUME SearchInv, NEW n \in 1 .. Len(index), Truncate(n)
  PROVE  SearchInv'
<1>1. TypeOK /\ HeadInv /\ \A p \in Searchers : OneSearchInv(search[p])
  BY DEF SearchInv
<1>2. UNCHANGED <<index, search>> /\ head' \in Nat /\ head <= head' /\ (head' = head \/ head' < Len(index))
  BY <1>1 DEF Truncate, HeadBefore, TypeOK
<1>3. TypeOK' /\ HeadInv'
  BY <1>1, <1>2 DEF TypeOK, HeadInv
<1> QED
  BY <1>1, <1>2, <1>3, OtherSearchKept DEF SearchInv, TypeOK

LEMMA BeginInv ==
  ASSUME SearchInv, NEW p \in Searchers, NEW t \in Wanted, NEW m \in Methods, Begin(p, t, m)
  PROVE  SearchInv'
<1> DEFINE s == [IdleSearch EXCEPT !.pc = "head", !.ts = t, !.method = m]
<1>1. s \in Search /\ s.pc = "head" /\ s.head = 0
  BY SearchAssumption DEF IdleSearch, Search, MIN
<1>2. OneSearchInv(s)
  BY <1>1 DEF OneSearchInv, SearchInv, TypeOK
<1> QED
  BY <1>1, <1>2, OneStep DEF Begin

LEMMA TimesAreNat ==
  ASSUME TypeOK, NEW n \in 1 .. Len(index)
  PROVE  index[n].ts \in Nat
<1>1. index[n] \in IndexRecord
  BY DEF TypeOK
<1> QED
  BY <1>1, SearchAssumption DEF IndexRecord

LEMMA FailedInv ==
  ASSUME SearchInv, NEW p \in Searchers, Step(p, [search[p] EXCEPT !.pc = "failed"])
  PROVE  SearchInv'
<1> DEFINE s == [search[p] EXCEPT !.pc = "failed"]
<1>1. search[p] \in Search /\ OneSearchInv(search[p])
  BY DEF SearchInv, TypeOK
<1>2. s \in Search /\ s.pc = "failed" /\ s.head = search[p].head
  BY <1>1 DEF Search
<1>3. OneSearchInv(s)
  BY <1>1, <1>2 DEF OneSearchInv
<1> QED
  BY <1>2, <1>3, OneStep

LEMMA ReadFailsInv ==
  ASSUME SearchInv, NEW p \in Searchers, ReadFails(p)
  PROVE  SearchInv'
BY FailedInv DEF ReadFails

LEMMA ReadHeadInv ==
  ASSUME SearchInv, NEW p \in Searchers, ReadHead(p)
  PROVE  SearchInv'
<1> DEFINE s == [search[p] EXCEPT !.pc = "tail", !.head = head]
<1>1. search[p] \in Search /\ head \in Nat
  BY DEF SearchInv, TypeOK
<1>2. s \in Search /\ s.pc = "tail" /\ s.head = head
  BY <1>1 DEF Search
<1>3. OneSearchInv(s)
  BY <1>1, <1>2 DEF OneSearchInv
<1> QED
  BY <1>2, <1>3, OneStep DEF ReadHead

LEMMA ReadTailInv ==
  ASSUME SearchInv, NEW p \in Searchers, ReadTail(p)
  PROVE  SearchInv'
<1> DEFINE s == [search[p] EXCEPT !.pc = AfterTail(search[p]), !.tail = Len(index)]
<1>1. search[p] \in Search /\ OneSearchInv(search[p]) /\ head \in Nat /\ Len(index) \in Nat /\ HeadInv
      /\ index \in Seq(IndexRecord)
  BY DEF SearchInv, TypeOK
<1>2. AfterTail(search[p]) \in {"eof", "last", "first"}
  BY DEF AfterTail
<1>3. /\ s \in Search /\ s.pc = AfterTail(search[p]) /\ s.head = search[p].head /\ s.tail = Len(index)
      /\ s.ts = search[p].ts
  BY <1>1, <1>2 DEF Search
<1>4. search[p].head \in Nat /\ search[p].head <= head
  BY <1>1 DEF Search, OneSearchInv
<1>5. AfterTail(search[p]) = "eof" => Len(index) = 0
  BY <1>1, <1>4 DEF AfterTail, HasNoRecords, HeadInv
<1>6. AfterTail(search[p]) # "eof" => search[p].head < Len(index)
  BY <1>1, <1>4 DEF AfterTail, HasNoRecords
<1>7. AfterTail(search[p]) = "last" => search[p].ts > MIN
  BY <1>2 DEF AfterTail
<1>8. AfterTail(search[p]) = "first" => ~LastIsAnswer(s)
  BY <1>3 DEF AfterTail, LastIsAnswer
<1> HIDE DEF s
<1>9. OneSearchInv(s)
  BY <1>1, <1>2, <1>3, <1>4, <1>5, <1>6, <1>7, <1>8 DEF OneSearchInv
<1> QED
  BY <1>3, <1>9, OneStep DEF ReadTail, s

LEMMA ReadLastInv ==
  ASSUME SearchInv, NEW p \in Searchers, ReadLast(p)
  PROVE  SearchInv'
<1> DEFINE o == search[p]
           f == [o EXCEPT !.pc = "found", !.pos = o.tail]
           g == [o EXCEPT !.pc = "first"]
<1>1. o \in Search /\ OneSearchInv(o) /\ o.pc = "last" /\ head \in Nat
  BY DEF SearchInv, TypeOK, ReadLast
<1>2. o.head <= head /\ o.head < o.tail /\ o.tail <= Len(index) /\ o.ts > MIN
  BY <1>1 DEF OneSearchInv
<1>3. CASE o.tail <= head
  BY <1>3, FailedInv DEF ReadLast
<1>4. CASE ~(o.tail <= head) /\ index[o.tail].ts <= o.ts
  <2>1. /\ f \in Search /\ f.pc = "found" /\ f.head = o.head /\ f.tail = o.tail
        /\ f.pos = o.tail /\ f.ts = o.ts
    BY <1>1 DEF Search
  <2>2. Step(p, f)
    BY <1>4 DEF ReadLast
  <2> HIDE DEF f
  <2>3. OneSearchInv(f)
    BY <1>2, <1>4, <2>1 DEF OneSearchInv, Outcome, LastIsAnswer
  <2> QED
    BY <2>1, <2>2, <2>3, OneStep
<1>5. CASE ~(o.tail <= head) /\ ~(index[o.tail].ts <= o.ts)
  <2>1. /\ g \in Search /\ g.pc = "first" /\ g.head = o.head /\ g.tail = o.tail
        /\ g.ts = o.ts
    BY <1>1 DEF Search
  <2>2. Step(p, g)
    BY <1>5 DEF ReadLast
  <2> HIDE DEF g
  <2>3. OneSearchInv(g)
    BY <1>2, <1>5, <2>1 DEF OneSearchInv, LastIsAnswer
  <2> QED
    BY <2>1, <2>2, <2>3, OneStep
<1> QED
  BY <1>3, <1>4, <1>5

\* A record before the tail that is earlier than the wanted time is not the last.
LEMMA NotTheLast ==
  ASSUME NEW s \in Search, NEW n \in Nat, n <= s.tail, ~LastIsAnswer(s),
         index[n].ts \in Nat, index[n].ts < s.ts
  PROVE  n < s.tail
BY DEF LastIsAnswer, Search, MIN

LEMMA ReadFirstInv ==
  ASSUME SearchInv, NEW p \in Searchers, ReadFirst(p)
  PROVE  SearchInv'
<1> DEFINE o == search[p]
           n == o.head + 1
<1>1. o \in Search /\ OneSearchInv(o) /\ o.pc = "first" /\ head \in Nat /\ index \in Seq(IndexRecord)
  BY DEF SearchInv, TypeOK, ReadFirst
<1>2. o.head <= head /\ o.head < o.tail /\ o.tail <= Len(index) /\ ~LastIsAnswer(o)
  BY <1>1 DEF OneSearchInv
<1>3. /\ o.head \in Nat /\ o.tail \in Nat /\ o.ts \in Nat \cup {-1} /\ n \in Nat
      /\ n \in o.head + 1 .. o.tail /\ n \in 1 .. Len(index)
  BY <1>1, <1>2 DEF Search
<1>4. index[n].ts \in Nat
  BY <1>3, TimesAreNat DEF SearchInv
<1>5. CASE n <= head
  BY <1>5, FailedInv DEF ReadFirst
<1>6. ASSUME NEW b \in Filled(n), ~(n <= head), o.ts <= index[n].ts,
             Step(p, [o EXCEPT !.pc = "found", !.pos = n, !.buffered = b])
      PROVE  SearchInv'
  <2> DEFINE s == [o EXCEPT !.pc = "found", !.pos = n, !.buffered = b]
  <2>1. b \in Nat
    BY <1>3 DEF Filled
  <2>2. /\ s \in Search /\ s.pc = "found" /\ s.head = o.head /\ s.tail = o.tail
        /\ s.ts = o.ts /\ s.pos = n /\ Step(p, s)
    BY <1>1, <1>3, <1>6, <2>1 DEF Search
  <2> HIDE DEF s
  <2>3. ~LastIsAnswer(s) /\ IsFirst(n, s.head + 1, s.ts) /\ Choice(s, n) = n
    BY <1>2, <1>3, <1>4, <1>6, <2>2 DEF LastIsAnswer, IsFirst, Choice
  <2>4. Outcome(s)
    BY <1>3, <2>2, <2>3 DEF Outcome
  <2>5. OneSearchInv(s)
    BY <1>2, <2>2, <2>4 DEF OneSearchInv
  <2> QED
    BY <2>2, <2>5, OneStep
<1>7. ASSUME NEW b \in Filled(n), ~(n <= head), ~(o.ts <= index[n].ts),
             Step(p, [o EXCEPT !.pc = "scan", !.pos = n, !.buffered = b])
      PROVE  SearchInv'
  <2> DEFINE s == [o EXCEPT !.pc = "scan", !.pos = n, !.buffered = b]
  <2>1. b \in Nat
    BY <1>3 DEF Filled
  <2>2. /\ s \in Search /\ s.pc = "scan" /\ s.head = o.head /\ s.tail = o.tail
        /\ s.ts = o.ts /\ s.pos = n /\ Step(p, s)
    BY <1>1, <1>3, <1>7, <2>1 DEF Search
  <2>3. index[n].ts < o.ts
    BY <1>3, <1>4, <1>7
  <2>4. n < o.tail
    BY <1>1, <1>2, <1>3, <1>4, <2>3, NotTheLast
  <2> HIDE DEF s
  <2>5. ~LastIsAnswer(s)
    BY <1>2, <2>2 DEF LastIsAnswer
  <2>6. \A i \in s.head + 1 .. s.pos : index[i].ts < s.ts
    BY <1>3, <2>2, <2>3
  <2>7. OneSearchInv(s)
    BY <1>2, <1>3, <2>2, <2>4, <2>5, <2>6 DEF OneSearchInv
  <2> QED
    BY <2>2, <2>7, OneStep
<1>8. \E b \in Filled(n) :
        Step(p, IF n <= head THEN [o EXCEPT !.pc = "failed"]
                ELSE [o EXCEPT !.pc = IF o.ts <= index[n].ts THEN "found" ELSE "scan",
                               !.pos = n, !.buffered = b])
  BY DEF ReadFirst
<1> QED
  BY <1>5, <1>6, <1>7, <1>8

LEMMA ScanInv ==
  ASSUME SearchInv, NEW p \in Searchers, Scan(p)
  PROVE  SearchInv'
<1> DEFINE o == search[p]
           n == o.pos + 1
<1>1. o \in Search /\ OneSearchInv(o) /\ o.pc = "scan" /\ head \in Nat /\ index \in Seq(IndexRecord)
  BY DEF SearchInv, TypeOK, Scan
<1>2. /\ o.head <= head /\ o.head < o.tail /\ o.tail <= Len(index) /\ ~LastIsAnswer(o)
      /\ o.head < o.pos /\ o.pos < o.tail
  BY <1>1 DEF OneSearchInv
<1>3. /\ o.head \in Nat /\ o.tail \in Nat /\ o.ts \in Nat \cup {-1} /\ o.pos \in Nat
      /\ o.buffered \in Nat
  BY <1>1 DEF Search
<1>4. n \in Nat /\ n \in o.head + 1 .. o.tail /\ n \in 1 .. Len(index) /\ o.pos = n - 1 /\ n # o.head + 1
  <2>1. Len(index) \in Nat
    BY <1>1
  <2> HIDE DEF o
  <2> QED
    BY <1>2, <1>3, <2>1
<1>5. index[n].ts \in Nat
  BY <1>4, TimesAreNat DEF SearchInv
<1>6. \A i \in o.head + 1 .. o.pos : index[i].ts < o.ts
  BY <1>1 DEF OneSearchInv
<1>7. PICK b \in IF n <= o.buffered THEN {o.buffered} ELSE Filled(n) :
        Step(p, IF o.buffered < n /\ n <= head THEN [o EXCEPT !.pc = "failed"]
                ELSE IF Misses(o, n) THEN [o EXCEPT !.pos = n, !.buffered = b]
                ELSE [Match(o, n) EXCEPT !.buffered = b])
  BY DEF Scan
<1>8. b \in Nat
  BY <1>3, <1>4 DEF Filled
<1>9. CASE o.buffered < n /\ n <= head
  BY <1>7, <1>9, FailedInv
<1>10. CASE ~(o.buffered < n /\ n <= head) /\ Misses(o, n)
  <2> DEFINE s == [o EXCEPT !.pos = n, !.buffered = b]
  <2>1. /\ s \in Search /\ s.pc = "scan" /\ s.head = o.head /\ s.tail = o.tail
        /\ s.ts = o.ts /\ s.pos = n
    BY <1>1, <1>4, <1>8 DEF Search
  <2>2. Step(p, s)
    BY <1>7, <1>10
  <2>3. index[n].ts < o.ts
    BY <1>3, <1>5, <1>10 DEF Misses
  <2>4. n < o.tail
    BY <1>1, <1>2, <1>4, <1>5, <2>3, NotTheLast
  <2> HIDE DEF s
  <2>5. ~LastIsAnswer(s)
    BY <1>2, <2>1 DEF LastIsAnswer
  <2>6. \A i \in s.head + 1 .. s.pos : index[i].ts < s.ts
    BY <1>2, <1>3, <1>4, <1>6, <2>1, <2>3
  <2>7. OneSearchInv(s)
    BY <1>2, <1>3, <1>4, <2>1, <2>4, <2>5, <2>6 DEF OneSearchInv
  <2> QED
    BY <2>1, <2>2, <2>7, OneStep
<1>11. CASE ~(o.buffered < n /\ n <= head) /\ ~Misses(o, n)
  <2> DEFINE r == Match(o, n)
             s == [r EXCEPT !.buffered = b]
  <2>1. /\ r \in Search /\ r.pc = "found" /\ r.head = o.head /\ r.tail = o.tail
        /\ r.ts = o.ts /\ r.method = o.method
        /\ r.pos = IF o.ts < index[n].ts /\ o.method = "Before" THEN o.pos ELSE n
    BY <1>1, <1>3, <1>4 DEF Search, Match
  <2> HIDE DEF r
  <2>2. /\ s \in Search /\ s.pc = "found" /\ s.head = o.head /\ s.tail = o.tail
        /\ s.ts = o.ts /\ s.method = o.method /\ s.pos = r.pos
    BY <1>8, <2>1 DEF Search
  <2>3. Step(p, s)
    BY <1>7, <1>11 DEF r
  <2> HIDE DEF s
  <2>4. ~LastIsAnswer(s)
    BY <1>2, <2>2 DEF LastIsAnswer
  <2>5. index[n].ts >= o.ts
    BY <1>3, <1>5, <1>11 DEF Misses
  <2>6. IsFirst(n, s.head + 1, s.ts)
    <3>1. \A i \in s.head + 1 .. n - 1 : index[i].ts < s.ts
      BY <1>4, <1>6, <2>2
    <3> QED
      BY <2>2, <2>5, <3>1 DEF IsFirst
  <2>7. o.method \in {"Before", "After"}
    BY <1>1 DEF Search, Methods
  <2>8. s.pos = Choice(s, n)
    <3>1. CASE o.ts < index[n].ts /\ o.method = "Before"
      <4>1. s.pos = n - 1 /\ s.method # "After" /\ index[n].ts # s.ts /\ n # s.head + 1
        BY <1>3, <1>4, <1>5, <2>1, <2>2, <3>1
      <4> QED
        BY <4>1 DEF Choice
    <3>2. CASE ~(o.ts < index[n].ts /\ o.method = "Before")
      <4>1. s.pos = n /\ (s.method = "After" \/ index[n].ts = s.ts)
        BY <1>3, <1>5, <2>1, <2>2, <2>5, <2>7, <3>2
      <4> QED
        BY <4>1 DEF Choice
    <3> QED
      BY <3>1, <3>2
  <2>9. Outcome(s)
    BY <1>4, <2>2, <2>4, <2>6, <2>8 DEF Outcome
  <2>10. OneSearchInv(s)
    BY <1>2, <2>2, <2>9 DEF OneSearchInv
  <2> QED
    BY <2>2, <2>3, <2>10, OneStep
<1> QED
  BY <1>9, <1>10, <1>11

LEMMA SearchActionInv == SearchInv /\ SearchAction => SearchInv'
<1> SUFFICES ASSUME SearchInv, SearchAction PROVE SearchInv'
  OBVIOUS
<1>1. CASE \E r \in IndexRecord : AppendRecord(r)
  BY <1>1, AppendInv
<1>2. CASE \E n \in 1 .. Len(index) : Truncate(n)
  BY <1>2, TruncateInv
<1>3. CASE \E p \in Searchers, t \in Wanted, m \in Methods : Begin(p, t, m)
  BY <1>3, BeginInv
<1>4. CASE \E p \in Searchers : SearchStep(p) \/ ReadFails(p)
  BY <1>4, ReadHeadInv, ReadTailInv, ReadLastInv, ReadFirstInv, ScanInv, ReadFailsInv
     DEF SearchStep
<1> QED
  BY <1>1, <1>2, <1>3, <1>4 DEF SearchAction

LEMMA SearchUnchanged == SearchInv /\ UNCHANGED searchVars => SearchInv'
BY DEF SearchInv, searchVars, TypeOK, HeadInv, OneSearchInv, Outcome, LastIsAnswer, IsFirst, Choice

-----------------------------------------------------------------------------
\* The inductive invariant of the searches, the writer and the truncation.
THEOREM SearchInvariant == Spec => []SearchInv
<1>1. Init => SearchInv
  BY SearchInvInit
<1>2. SearchInv /\ [Next]_searchVars => SearchInv'
  <2> SUFFICES ASSUME SearchInv, Next PROVE SearchInv'
    BY SearchUnchanged
  <2>1. head \in Nat
    BY DEF SearchInv, TypeOK
  <2>2. ASSUME NEW n \in head + 1 .. Len(index), Truncate(n) PROVE SearchInv'
    BY <2>1, <2>2, TruncateInv
  <2> QED
    BY <2>2, SearchActionInv DEF Next, SearchAction
<1> QED
  BY <1>1, <1>2, PTL DEF Spec

\* A search never reads beyond the tail it found (the loop of
\* search_timestamp_and_return_index_offset), where it would wait for the writer.
THEOREM SearchNeverWaits == Spec => []NeverWaits
<1>1. SearchInv => NeverWaits
  BY DEF SearchInv, OneSearchInv, NeverWaits
<1> QED
  BY <1>1, SearchInvariant, PTL

\* The error that do_seek takes for an empty index is one.
THEOREM SearchEofMeansEmpty == Spec => []EofMeansEmpty
<1>1. SearchInv => EofMeansEmpty
  BY DEF SearchInv, OneSearchInv, EofMeansEmpty
<1> QED
  BY <1>1, SearchInvariant, PTL

LEMMA OnlyOneFirst ==
  ASSUME TypeOK, NEW lo \in Nat, NEW t \in Nat \cup {-1}, lo >= 1,
         NEW n \in lo .. Len(index), NEW k \in lo .. Len(index),
         IsFirst(n, lo, t), IsFirst(k, lo, t)
  PROVE  n = k
<1>1. index[n].ts \in Nat /\ index[k].ts \in Nat
  BY TimesAreNat
<1>2. ~(n < k) /\ ~(k < n)
  BY <1>1 DEF IsFirst
<1> QED
  BY <1>2

\* A search returns what its documentation promises, on an index in any order
\* and with records appended and truncated while it reads.
THEOREM SearchFindsAnswer == Spec => []FindsAnswer
<1>1. SearchInv => FindsAnswer
  <2> SUFFICES ASSUME SearchInv, NEW p \in Searchers, Found(p)
               PROVE  search[p].pos = Answer(search[p])
    BY DEF FindsAnswer
  <2> DEFINE s == search[p]
             lo == s.head + 1
             c == CHOOSE n \in lo .. s.tail : IsFirst(n, lo, s.ts)
  <2>1. s \in Search /\ Outcome(s) /\ s.tail <= Len(index) /\ TypeOK
    BY DEF SearchInv, TypeOK, OneSearchInv, Found
  <2>2. s.head \in Nat /\ s.tail \in Nat /\ s.ts \in Nat \cup {-1} /\ Len(index) \in Nat
    BY <2>1 DEF Search, TypeOK
  <2>3. CASE LastIsAnswer(s)
    BY <2>1, <2>3 DEF Outcome, Answer
  <2>4. CASE ~LastIsAnswer(s)
    <3>1. PICK n \in lo .. s.tail : IsFirst(n, lo, s.ts) /\ s.pos = Choice(s, n)
      BY <2>1, <2>4 DEF Outcome
    <3>2. c \in lo .. s.tail /\ IsFirst(c, lo, s.ts)
      BY <3>1
    <3> HIDE DEF c
    <3>3. c = n
      BY <2>1, <2>2, <3>1, <3>2, OnlyOneFirst
    <3>4. Answer(s) = Choice(s, c)
      BY <2>4 DEF Answer, c
    <3> QED
      BY <3>1, <3>3, <3>4
  <2> QED
    BY <2>3, <2>4
<1> QED
  BY <1>1, SearchInvariant, PTL
-----------------------------------------------------------------------------
\* A set of natural numbers has a least one.
LEMMA LeastOf ==
  ASSUME NEW T \in SUBSET Nat, T # {}
  PROVE  \E n \in T : \A m \in T : n <= m
<1> DEFINE less == OpToRel(<, Nat)
<1>1. \E n \in T : \A m \in T : ~(<<m, n>> \in less)
  BY NatLessThanWellFounded, WFMin, Zenon
<1>2. ASSUME NEW m \in Nat, NEW n \in Nat, m < n PROVE <<m, n>> \in less
  BY <1>2 DEF OpToRel
<1> HIDE DEF less
<1>3. PICK n \in T : \A m \in T : ~(<<m, n>> \in less)
  BY <1>1
<1>4. ASSUME NEW m \in T PROVE n <= m
  <2>1. n \in Nat /\ m \in Nat /\ ~(m < n)
    BY <1>2, <1>3, Zenon
  <2> QED
    BY <2>1
<1> QED
  BY <1>4

\* The answer is one of the records between the head and the tail, if there are any.
LEMMA AnswerIsRecord ==
  ASSUME NEW s \in Search, s.head < s.tail, \A i \in s.head + 1 .. s.tail : index[i].ts \in Nat
  PROVE  Answer(s) \in s.head + 1 .. s.tail
<1>1. s.head \in Nat /\ s.tail \in Nat /\ s.ts \in Nat \cup {-1}
  BY DEF Search
<1>2. CASE LastIsAnswer(s)
  BY <1>1, <1>2 DEF Answer
<1>3. CASE ~LastIsAnswer(s)
  <2> DEFINE T == {n \in s.head + 1 .. s.tail : index[n].ts >= s.ts}
  <2>1. T # {} /\ T \in SUBSET Nat
    <3>1. CASE s.ts <= MIN
      <4>1. s.head + 1 \in T
        BY <1>1, <3>1 DEF MIN
      <4> QED
        BY <1>1, <4>1
    <3>2. CASE index[s.tail].ts > s.ts
      <4>1. s.tail \in T
        BY <1>1, <3>2
      <4> QED
        BY <1>1, <4>1
    <3> QED
      BY <1>1, <1>3, <3>1, <3>2 DEF LastIsAnswer, MIN
  <2>2. PICK n \in T : \A m \in T : n <= m
    BY <2>1, LeastOf
  <2>3. IsFirst(n, s.head + 1, s.ts) /\ n \in s.head + 1 .. s.tail
    BY <1>1, <2>2 DEF IsFirst
  <2> DEFINE c == CHOOSE i \in s.head + 1 .. s.tail : IsFirst(i, s.head + 1, s.ts)
  <2>4. c \in s.head + 1 .. s.tail
    BY <2>3, Zenon
  <2>5. Answer(s) = Choice(s, c)
    BY <1>3 DEF Answer
  <2> HIDE DEF c
  <2> QED
    BY <1>1, <2>4, <2>5 DEF Choice
<1> QED
  BY <1>2, <1>3
-----------------------------------------------------------------------------
\* Timestamps that are in order two by two are in order.
LEMMA SortedInPairs ==
  ASSUME TypeOK, IsSorted, NEW i \in 1 .. Len(index), NEW j \in 1 .. Len(index), i <= j
  PROVE  index[i].ts <= index[j].ts
<1>1. \A k \in 1 .. Len(index) : index[k].ts \in Nat
  BY TimesAreNat
<1>2. Len(index) \in Nat
  BY DEF TypeOK
<1> DEFINE T == {k \in i .. Len(index) : ~(index[i].ts <= index[k].ts)}
<1>3. T \in SUBSET Nat
  BY <1>2
<1>4. ASSUME T # {} PROVE FALSE
  <2>1. PICK k \in T : \A m \in T : k <= m
    BY <1>3, <1>4, LeastOf
  <2>2. k \in i .. Len(index) /\ k # i /\ k - 1 \in i .. Len(index) /\ k - 1 \notin T
    BY <1>1, <1>2, <2>1
  <2>3. index[i].ts <= index[k - 1].ts /\ index[k - 1].ts <= index[(k - 1) + 1].ts
    BY <1>2, <2>2 DEF IsSorted
  <2>4. (k - 1) + 1 = k /\ k - 1 \in 1 .. Len(index) /\ k \in 1 .. Len(index)
    BY <1>2, <2>2
  <2>5. index[i].ts <= index[k].ts
    BY <1>1, <1>2, <2>3, <2>4
  <2> QED
    BY <2>1, <2>5
<1> QED
  BY <1>2, <1>4

\* What Brackets says of one search.
OneBrackets(s) ==
  /\ s.pos \in s.head + 1 .. s.tail
  /\ (\E i \in s.head + 1 .. s.tail : index[i].ts = s.ts) => index[s.pos].ts = s.ts
  /\ s.method = "Before" =>
       /\ index[s.pos].ts <= s.ts \/ s.pos = s.head + 1
       /\ \A i \in s.pos + 1 .. s.tail : s.ts <= index[i].ts
  /\ s.method = "After" =>
       /\ s.ts <= index[s.pos].ts \/ s.pos = s.tail
       /\ \A i \in s.head + 1 .. s.pos - 1 : index[i].ts <= s.ts

\* The outcome of a search brackets the wanted time, if the records are in order.
LEMMA OutcomeBrackets ==
  ASSUME TypeOK, IsSorted, NEW s \in Search, Outcome(s), s.head < s.tail, s.tail <= Len(index)
  PROVE  OneBrackets(s)
<1> DEFINE n == s.pos
<1>2. s.head \in Nat /\ s.tail \in Nat /\ s.ts \in Nat \cup {-1} /\ Len(index) \in Nat
  BY DEF Search, TypeOK
<1>3. \A i \in s.head + 1 .. s.tail : index[i].ts \in Nat
  BY <1>2, TimesAreNat
<1>4. \A i, j \in s.head + 1 .. s.tail : i <= j => index[i].ts <= index[j].ts
  BY <1>2, SortedInPairs
<1>5. CASE LastIsAnswer(s) /\ n = s.tail
  <2>1. \A i \in s.head + 1 .. s.tail : index[i].ts <= index[s.tail].ts /\ index[s.tail].ts <= s.ts
    BY <1>2, <1>4, <1>5 DEF LastIsAnswer
  <2>2. ASSUME NEW i \in s.head + 1 .. s.tail, index[i].ts = s.ts PROVE index[s.tail].ts = s.ts
    BY <1>2, <1>3, <2>1, <2>2
  <2>3. s.tail \in s.head + 1 .. s.tail /\ index[s.tail].ts <= s.ts
    BY <1>2, <2>1
  <2>4. ASSUME NEW i \in s.head + 1 .. s.tail - 1 PROVE index[i].ts <= s.ts
    <3>1. i \in s.head + 1 .. s.tail
      BY <1>2
    <3>2. index[i].ts \in Nat /\ index[s.tail].ts \in Nat /\ s.ts \in Int
      BY <1>2, <1>3, <2>3, <3>1
    <3> QED
      BY <2>1, <3>1, <3>2
  <2>5. \A i \in s.tail + 1 .. s.tail : s.ts <= index[i].ts
    BY <1>2
  <2> QED
    BY <1>5, <2>2, <2>3, <2>4, <2>5 DEF OneBrackets
<1>6. CASE ~LastIsAnswer(s) /\ \E f \in s.head + 1 .. s.tail :
                                   IsFirst(f, s.head + 1, s.ts) /\ n = Choice(s, f)
  <2>1. PICK f \in s.head + 1 .. s.tail : IsFirst(f, s.head + 1, s.ts) /\ n = Choice(s, f)
    BY <1>6
  <2>2. /\ \A i \in s.head + 1 .. f - 1 : index[i].ts < s.ts
        /\ \A i \in f .. s.tail : s.ts <= index[i].ts
    BY <1>2, <1>3, <1>4, <2>1 DEF IsFirst
  <2>3. CASE n = f
    <3>1. s.method = "Before" => index[f].ts = s.ts \/ f = s.head + 1
      BY <1>2, <2>1, <2>3 DEF Choice
    <3>2. ASSUME NEW i \in s.head + 1 .. s.tail, index[i].ts = s.ts PROVE index[f].ts = s.ts
      <4>1. i >= f
        BY <1>2, <1>3, <2>2, <3>2
      <4> QED
        BY <1>2, <1>3, <1>4, <2>2, <3>2, <4>1
    <3> QED
      BY <1>2, <1>3, <2>2, <2>3, <3>1, <3>2 DEF OneBrackets
  <2>4. CASE n = f - 1 /\ f # s.head + 1 /\ s.method # "After" /\ index[f].ts # s.ts
    <3>1. ASSUME NEW i \in s.head + 1 .. s.tail, index[i].ts = s.ts PROVE FALSE
      <4>1. i >= f
        BY <1>2, <1>3, <2>2, <3>1
      <4> QED
        BY <1>2, <1>3, <1>4, <2>2, <2>4, <3>1, <4>1
    <3> QED
      BY <1>2, <1>3, <2>2, <2>4, <3>1 DEF OneBrackets
  <2> QED
    BY <2>1, <2>3, <2>4 DEF Choice
<1> QED
  BY <1>5, <1>6 DEF Outcome

LEMMA FoundBrackets == SearchInv => Brackets
<1> SUFFICES ASSUME SearchInv, NEW p \in Searchers, Found(p), IsSorted
             PROVE  OneBrackets(search[p])
  BY DEF Brackets, OneBrackets
<1>1. TypeOK /\ search[p] \in Search /\ OneSearchInv(search[p])
  BY DEF SearchInv, TypeOK
<1> QED
  BY <1>1, OutcomeBrackets DEF OneSearchInv, Found

\* On a sorted index the record found brackets the wanted time, whatever is appended and
\* truncated while the search reads.
THEOREM SearchBrackets == Spec => []Brackets
<1> QED
  BY FoundBrackets, SearchInvariant, PTL
=============================================================================
