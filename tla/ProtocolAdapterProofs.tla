------------------------ MODULE ProtocolAdapterProofs ------------------------
(***************************************************************************)
(* What the DeepStream protocol adapter promises of its sends, proved for  *)
(* any number of threads, topics, sends and failures.                      *)
(*                                                                         *)
(* Both mutexes do the work.  The pool's is held across the creation of a  *)
(* writer, so a topic that is being created has none.  A writer's is held  *)
(* until the result, so the client never has two events of a writer, and   *)
(* in an asynchronous send beyond the callback, so that the sends before   *)
(* it in the stream are answered.                                          *)
(***************************************************************************)
EXTENDS ProtocolAdapter, SequenceTheorems, FiniteSetTheorems, TLAPS

-----------------------------------------------------------------------------
(* The inductive invariant *)

\* The pool has the writer of each topic that has one, and has forgotten none.
PoolInv ==
  /\ \A t \in Topics : writers[t] # 0 => writers[t] \in DOMAIN created /\ created[writers[t]] = t
  /\ \A w \in DOMAIN created : writers[created[w]] = w

\* Who creates a writer holds the pool; who waits for a result, or calls back, its writer.
HoldsInv ==
  \A i \in DOMAIN sends :
    LET s == sends[i] IN
    /\ s.pc = "creating" => IsHolder(pool, i) /\ writers[s.topic] = 0
    /\ s.pc \in {"writer", "lock", "written", "answer", "done"} =>
         s.writer \in DOMAIN created /\ created[s.writer] = s.topic
    /\ s.pc = "written" \/ (s.pc = "answer" /\ s.waits = {}) => IsHolder(lock[s.writer], i)

\* A result is that of an event that was sent, and an event with an OK is stored.
ResultsInv ==
  \A i \in DOMAIN sends :
    LET s == sends[i] IN
    /\ s.result # "none" => s.pc \in {"written", "answer", "done"}
    /\ s.pc \in {"answer", "done"} => s.result # "none"
    /\ s.result = "OK" => \E k \in DOMAIN stream[s.topic] : stream[s.topic][k] = i

\* The client has at most one event of a writer.
SentInv ==
  \A w \in DOMAIN sent : sent[w] # <<>> =>
    /\ Len(sent[w]) = 1 /\ sent[w][1] \in DOMAIN sends
    /\ sends[sent[w][1]].pc = "written" /\ sends[sent[w][1]].result = "none"
    /\ sends[sent[w][1]].writer = w

\* A stored event has its result, and is stored once; when another follows it, its
\* callback was called.
StreamInv ==
  \A t \in Topics : \A k \in DOMAIN stream[t] :
    /\ stream[t][k] \in DOMAIN sends
    /\ sends[stream[t][k]].topic = t /\ sends[stream[t][k]].result # "none"
    /\ \A l \in DOMAIN stream[t] :
         /\ stream[t][k] = stream[t][l] => k = l
         /\ (k < l /\ ~IsSync(stream[t][k]) /\ ~IsSync(stream[t][l])) =>
              sends[stream[t][k]].pc = "done"

AnswersInv == \A k \in DOMAIN answers : answers[k] \in DOMAIN sends /\ sends[answers[k]].pc = "done"

\* All of it.
AdapterInv ==
  /\ TypeOK /\ PoolInv /\ HoldsInv /\ ResultsInv /\ SentInv /\ StreamInv /\ AnswersInv
  /\ AnsweredInOrder

\* The initial states.
LEMMA AdapterInvInit == Init => AdapterInv
  <1> SUFFICES ASSUME Init PROVE AdapterInv
    OBVIOUS
  <1>1. /\ sends = <<>> /\ created = <<>> /\ lock = <<>> /\ sent = <<>> /\ answers = <<>> /\ pool = <<>>
        /\ \A t \in Topics : stream[t] = <<>> /\ writers[t] = 0
    BY DEF Init
  <1>2. TypeOK
    <2>1. <<>> \in Seq(Send) /\ <<>> \in Seq(Ids) /\ <<>> \in Seq(Topics) /\ <<>> \in Seq(Seq(Ids))
      BY EmptySeq
    <2>2. 0 \in 0 .. MaxFailures
      BY AdapterAssumption
    <2> QED
      BY <2>1, <2>2 DEF Init, TypeOK
  <1>3. PoolInv /\ HoldsInv /\ ResultsInv /\ SentInv /\ StreamInv /\ AnswersInv /\ AnsweredInOrder
    BY <1>1 DEF PoolInv, HoldsInv, ResultsInv, SentInv, StreamInv, AnswersInv, AnsweredInOrder
  <1> QED
    BY <1>2, <1>3 DEF AdapterInv

-----------------------------------------------------------------------------
(* The functions called by the application *)

\* A new send has done nothing yet.
LEMMA CallKept ==
  ASSUME AdapterInv, NEW t \in Threads, NEW topic \in Topics, NEW waits \in SUBSET Threads,
         Call(t, topic, waits)
  PROVE  AdapterInv'
  <1> DEFINE s == [topic |-> topic, waits |-> waits, writer |-> 0, result |-> "none", pc |-> "called"]
             n == Len(sends) + 1
  <1>1. /\ sends' = Append(sends, s) /\ sends \in Seq(Send) /\ Len(sends) \in Nat
        /\ UNCHANGED <<handle, pool, writers, created, lock, sent, stream, answers, failures>>
    BY DEF Call, AdapterInv, TypeOK
  <1>2. s \in Send
    BY DEF Send
  <1>3. /\ sends' \in Seq(Send) /\ DOMAIN sends = 1 .. Len(sends) /\ DOMAIN sends' = 1 .. n
        /\ \A i \in DOMAIN sends : sends'[i] = sends[i] /\ sends[i] \in Send
        /\ sends'[n] = s
    BY <1>1, <1>2, AppendProperties
  <1>4. /\ DOMAIN sends' = DOMAIN sends \cup {n} /\ n \notin DOMAIN sends
    BY <1>1, <1>3
  <1>5. s.pc = "called" /\ s.result = "none"
    OBVIOUS
  <1> HIDE DEF s, n
  <1>6. TypeOK' /\ PoolInv'
    <2>1. TypeOK /\ PoolInv
      BY DEF AdapterInv
    <2> QED
      BY <1>1, <1>3, <2>1 DEF TypeOK, PoolInv
  <1>7. HoldsInv' /\ ResultsInv'
    BY <1>1, <1>3, <1>4, <1>5 DEF AdapterInv, HoldsInv, ResultsInv, IsHolder
  <1>8. SentInv' /\ AnswersInv'
    BY <1>1, <1>3, <1>4 DEF AdapterInv, SentInv, AnswersInv
  <1>9. StreamInv'
    BY <1>1, <1>3, <1>4 DEF AdapterInv, StreamInv, IsSync
  <1>10. AnsweredInOrder'
    <2> SUFFICES ASSUME NEW i \in DOMAIN sends', NEW j \in DOMAIN sends',
                        (Topic(i) = Topic(j) /\ ~IsSync(i) /\ ~IsSync(j))',
                        Before(stream'[Topic(i)'], i, j)
                 PROVE  ~Before(answers', j, i)
      BY DEF AnsweredInOrder, Before
    <2>1. Topic(i)' \in Topics
      <3>1. sends'[i] \in Send
        BY <1>2, <1>3, <1>4
      <3> QED
        BY <3>1 DEF Topic, Send
    <2>2. i \in DOMAIN sends /\ j \in DOMAIN sends
      BY <1>1, <1>4, <2>1 DEF AdapterInv, StreamInv, Before
    <2>3. /\ sends'[i] = sends[i] /\ sends'[j] = sends[j]
          /\ stream' = stream /\ answers' = answers
      BY <1>1, <1>3, <2>2
    <2>4. /\ Topic(i)' = Topic(i) /\ Topic(j)' = Topic(j)
          /\ IsSync(i)' = IsSync(i) /\ IsSync(j)' = IsSync(j)
      BY <2>3 DEF Topic, IsSync
    <2>5. /\ Topic(i) = Topic(j) /\ ~IsSync(i) /\ ~IsSync(j)
          /\ Before(stream[Topic(i)], i, j)
      BY <2>3, <2>4
    <2>6. AnsweredInOrder
      BY DEF AdapterInv
    <2> QED
      BY <2>2, <2>3, <2>5, <2>6 DEF AnsweredInOrder
  <1> QED
    BY <1>6, <1>7, <1>8, <1>9, <1>10 DEF AdapterInv

-----------------------------------------------------------------------------
(* EventStreamWriterPool::get_or_create *)

\* A step of one send leaves the others, its topic and its thread as they are.
LEMMA OneSendMoves ==
  ASSUME AdapterInv, NEW i \in DOMAIN sends, NEW s \in Send, sends' = [sends EXCEPT ![i] = s],
         s.topic = sends[i].topic, s.waits = sends[i].waits
  PROVE  /\ sends' \in Seq(Send) /\ DOMAIN sends' = DOMAIN sends
         /\ \A j \in DOMAIN sends :
              /\ sends[j] \in Send /\ sends'[j] = IF j = i THEN s ELSE sends[j]
              /\ Topic(j)' = Topic(j) /\ IsSync(j)' = IsSync(j)
  <1>1. sends \in Seq(Send)
    BY DEF AdapterInv, TypeOK
  <1>2. /\ sends' \in Seq(Send) /\ DOMAIN sends' = DOMAIN sends
        /\ \A j \in DOMAIN sends : sends[j] \in Send /\ sends'[j] = IF j = i THEN s ELSE sends[j]
    BY <1>1
  <1> QED
    BY <1>2 DEF Topic, IsSync

\* Before the event is sent, a step of its send is about the mutexes and the pool only.
LEMMA EarlyStepKept ==
  ASSUME AdapterInv, NEW i \in DOMAIN sends, NEW s \in Send, sends' = [sends EXCEPT ![i] = s],
         s.topic = sends[i].topic, s.waits = sends[i].waits, s.result = sends[i].result,
         sends[i].pc \in {"called", "pool", "creating", "writer"},
         s.pc \in {"pool", "creating", "writer", "lock", "panicked"},
         sent' = sent \/ sent' = Append(sent, <<>>), UNCHANGED <<stream, answers>>
  PROVE  ResultsInv' /\ SentInv' /\ StreamInv' /\ AnswersInv' /\ AnsweredInOrder'
  <1>1. /\ DOMAIN sends' = DOMAIN sends
        /\ \A j \in DOMAIN sends :
              /\ sends[j] \in Send /\ sends'[j] = IF j = i THEN s ELSE sends[j]
              /\ Topic(j)' = Topic(j) /\ IsSync(j)' = IsSync(j)
    BY OneSendMoves
  <1>2. sends[i].result = "none"
    BY DEF AdapterInv, ResultsInv
  <1>3. ResultsInv'
    BY <1>1, <1>2 DEF AdapterInv, ResultsInv
  <1>4. SentInv'
    <2>1. ASSUME NEW w \in DOMAIN sent', sent'[w] # <<>>
          PROVE  w \in DOMAIN sent /\ sent'[w] = sent[w]
      <3>1. sent \in Seq(Seq(Ids)) /\ Len(sent) \in Nat /\ <<>> \in Seq(Ids)
        BY EmptySeq DEF AdapterInv, TypeOK
      <3>2. CASE sent' = sent
        BY <2>1, <3>2
      <3>3. CASE sent' = Append(sent, <<>>)
        <4>1. /\ DOMAIN sent' = 1 .. Len(sent) + 1 /\ DOMAIN sent = 1 .. Len(sent)
              /\ \A v \in 1 .. Len(sent) : sent'[v] = sent[v]
              /\ sent'[Len(sent) + 1] = <<>>
          BY <3>1, <3>3, AppendProperties
        <4> QED
          BY <2>1, <3>1, <4>1
      <3> QED
        BY <3>2, <3>3
    <2> QED
      BY <1>1, <2>1 DEF AdapterInv, SentInv
  <1>5. StreamInv'
    <2> SUFFICES ASSUME NEW t \in Topics, NEW k \in DOMAIN stream[t], NEW l \in DOMAIN stream[t]
                 PROVE  /\ stream[t][k] \in DOMAIN sends
                        /\ sends'[stream[t][k]].topic = t /\ sends'[stream[t][k]].result # "none"
                        /\ stream[t][k] = stream[t][l] => k = l
                        /\ (k < l /\ ~IsSync(stream[t][k])' /\ ~IsSync(stream[t][l])') =>
                              sends'[stream[t][k]].pc = "done"
      BY <1>1 DEF StreamInv
    <2>1. /\ stream[t][k] \in DOMAIN sends /\ stream[t][l] \in DOMAIN sends
          /\ sends[stream[t][k]].topic = t /\ sends[stream[t][k]].result # "none"
          /\ stream[t][k] = stream[t][l] => k = l
          /\ (k < l /\ ~IsSync(stream[t][k]) /\ ~IsSync(stream[t][l])) =>
                sends[stream[t][k]].pc = "done"
      BY DEF AdapterInv, StreamInv
    <2> QED
      BY <1>1, <1>2, <2>1
  <1>6. AnswersInv'
    BY <1>1 DEF AdapterInv, AnswersInv
  <1>7. AnsweredInOrder'
    BY <1>1 DEF AdapterInv, AnsweredInOrder, Before
  <1> QED
    BY <1>3, <1>4, <1>5, <1>6, <1>7

\* Every step of get_or_create, and the one that waits for the writer, keeps the invariant.
LEMMA EarlyStepsKept ==
  ASSUME AdapterInv, NEW i \in Ids,
         \/ EnterPool(i) \/ FindWriter(i) \/ BeginCreate(i) \/ CreateWriter(i) \/ CreatePanics(i)
         \/ LockWriter(i)
  PROVE  AdapterInv'
  <1> DEFINE c == sends[i]
             Moved(pc, w) == [c EXCEPT !.pc = pc, !.writer = w]
  <1>1. i \in DOMAIN sends /\ c \in Send /\ c = sends[i] /\ sends \in Seq(Send) /\ sends[i] \in Send
    BY DEF EnterPool, FindWriter, BeginCreate, CreateWriter, CreatePanics, LockWriter, At,
      AdapterInv, TypeOK
  <1>2. /\ handle \in {"none", "null", "live", "freed", "aborted"} /\ pool \in Seq(Ids)
        /\ writers \in [Topics -> Nat] /\ created \in Seq(Topics) /\ lock \in Seq(Seq(Ids))
        /\ sent \in Seq(Seq(Ids)) /\ Len(lock) = Len(created) /\ Len(sent) = Len(created)
        /\ stream \in [Topics -> Seq(Ids)] /\ answers \in Seq(Ids) /\ failures \in 0 .. MaxFailures
        /\ PoolInv /\ HoldsInv
    BY DEF AdapterInv, TypeOK
  <1> HIDE DEF c
  \* What the sends are after the step, and what the step leaves to show.
  <1>3. ASSUME NEW s \in Send, sends' = [sends EXCEPT ![i] = s],
               s.topic = c.topic, s.waits = c.waits, s.result = c.result,
               c.pc \in {"called", "pool", "creating", "writer"},
               s.pc \in {"pool", "creating", "writer", "lock", "panicked"},
               sent' = sent \/ sent' = Append(sent, <<>>), UNCHANGED <<stream, answers>>,
               PoolInv', HoldsInv',
               handle' \in {"none", "null", "live", "freed", "aborted"}, pool' \in Seq(Ids),
               writers' \in [Topics -> Nat], created' \in Seq(Topics), lock' \in Seq(Seq(Ids)),
               Len(lock') = Len(created'), Len(sent') = Len(created'), failures' \in 0 .. MaxFailures
        PROVE  AdapterInv'
    <2>1. ResultsInv' /\ SentInv' /\ StreamInv' /\ AnswersInv' /\ AnsweredInOrder'
      BY <1>1, <1>3, EarlyStepKept
    <2>2. sends' \in Seq(Send)
      BY <1>1, <1>3
    <2>3. sent' \in Seq(Seq(Ids))
      <3>1. <<>> \in Seq(Ids)
        BY EmptySeq
      <3>2. Append(sent, <<>>) \in Seq(Seq(Ids))
        BY <1>2, <3>1, AppendProperties
      <3> QED
        BY <1>2, <1>3, <3>2
    <2> QED
      BY <1>2, <1>3, <2>1, <2>2, <2>3 DEF AdapterInv, TypeOK
  \* The other sends.
  <1>4. \A s \in Send : sends' = [sends EXCEPT ![i] = s] =>
          /\ DOMAIN sends' = DOMAIN sends
          /\ \A j \in DOMAIN sends : sends'[j] = IF j = i THEN s ELSE sends[j]
    BY <1>1
  <1>5. \A pc \in {"pool", "creating", "writer", "lock", "panicked"} : \A w \in Nat :
          /\ Moved(pc, w) \in Send /\ Moved(pc, w).topic = c.topic /\ Moved(pc, w).waits = c.waits
          /\ Moved(pc, w).result = c.result /\ Moved(pc, w).pc = pc /\ Moved(pc, w).writer = w
    BY <1>1 DEF Send
  <1>6. c.writer \in Nat /\ c.topic \in Topics
    BY <1>1 DEF Send
  <1>7. \A pc \in {"pool", "creating", "writer", "lock", "panicked"} :
          Goto(i, pc) => sends' = [sends EXCEPT ![i] = Moved(pc, c.writer)]
    <2>1. \A pc \in {"pool", "creating", "writer", "lock", "panicked"} :
            Moved(pc, c.writer) = [c EXCEPT !.pc = pc]
      BY <1>1 DEF Send
    <2> QED
      BY <1>1, <2>1 DEF Goto
  <1>8. \A w : sends' = [sends EXCEPT ![i].pc = "writer", ![i].writer = w] =>
          sends' = [sends EXCEPT ![i] = Moved("writer", w)]
    BY <1>1
  <1> HIDE DEF Moved
  <1>9. Without(pool, i) \in Seq(Ids)
    BY <1>2, HeadTailProperties DEF Without, IsHolder
  <1>10. CASE EnterPool(i)
    <2> DEFINE s == Moved("pool", c.writer)
    <2>1. c.pc = "called" /\ sends' = [sends EXCEPT ![i] = s] /\ pool' = Append(pool, i)
          /\ UNCHANGED <<handle, writers, created, lock, sent, stream, answers, failures>>
      BY <1>1, <1>7, <1>10 DEF EnterPool, At
    <2>2. s \in Send /\ s.topic = c.topic /\ s.waits = c.waits /\ s.result = c.result /\ s.pc = "pool"
          /\ s.writer = c.writer
      BY <1>5, <1>6
    <2> HIDE DEF s
    <2>3. pool' \in Seq(Ids) /\ \A j \in DOMAIN sends : IsHolder(pool, j) => IsHolder(pool', j)
      BY <1>2, <2>1, AppendProperties DEF IsHolder
    <2>4. PoolInv'
      BY <1>2, <2>1 DEF PoolInv
    <2>5. HoldsInv'
      BY <1>1, <1>2, <1>4, <2>1, <2>2, <2>3 DEF HoldsInv, IsHolder
    <2> QED
      BY <1>2, <1>3, <2>1, <2>2, <2>3, <2>4, <2>5
  <1>11. CASE FindWriter(i)
    <2> DEFINE s == Moved("writer", writers[c.topic])
    <2>1. /\ c.pc = "pool" /\ sends' = [sends EXCEPT ![i] = s] /\ pool' = Without(pool, i)
          /\ IsHolder(pool, i) /\ writers[c.topic] # 0
          /\ UNCHANGED <<handle, writers, created, lock, sent, stream, answers, failures>>
      BY <1>1, <1>11, <1>8 DEF FindWriter, At, Topic
    <2>2. /\ s \in Send /\ s.topic = c.topic /\ s.waits = c.waits /\ s.result = c.result
          /\ s.pc = "writer" /\ s.writer = writers[c.topic]
      BY <1>2, <1>5, <1>6
    <2> HIDE DEF s
    <2>3. PoolInv'
      BY <1>2, <2>1 DEF PoolInv
    <2>4. s.writer \in DOMAIN created /\ created[s.writer] = c.topic
      BY <1>2, <1>6, <2>1, <2>2 DEF PoolInv
    <2>5. \A j \in DOMAIN sends : sends[j].pc # "creating"
      BY <1>1, <1>2, <2>1 DEF HoldsInv, IsHolder
    <2>6. HoldsInv'
      BY <1>1, <1>2, <1>4, <2>1, <2>2, <2>4, <2>5 DEF HoldsInv
    <2> QED
      BY <1>2, <1>3, <1>9, <2>1, <2>2, <2>3, <2>6
  <1>12. CASE BeginCreate(i)
    <2> DEFINE s == Moved("creating", c.writer)
    <2>1. /\ c.pc = "pool" /\ sends' = [sends EXCEPT ![i] = s] /\ IsHolder(pool, i) /\ writers[c.topic] = 0
          /\ UNCHANGED <<handle, pool, writers, created, lock, sent, stream, answers, failures>>
      BY <1>1, <1>7, <1>12 DEF BeginCreate, At, Topic, PoolWhileCreating
    <2>2. s \in Send /\ s.topic = c.topic /\ s.waits = c.waits /\ s.result = c.result /\ s.pc = "creating"
          /\ s.writer = c.writer
      BY <1>5, <1>6
    <2> HIDE DEF s
    <2>3. PoolInv'
      BY <1>2, <2>1 DEF PoolInv
    <2>4. HoldsInv'
      BY <1>1, <1>2, <1>4, <2>1, <2>2 DEF HoldsInv
    <2> QED
      BY <1>2, <1>3, <2>1, <2>2, <2>3, <2>4
  <1>13. CASE CreateWriter(i)
    <2> DEFINE n == Len(created) + 1
               s == Moved("writer", n)
    <2>1. /\ c.pc = "creating" /\ sends' = [sends EXCEPT ![i] = s]
          /\ created' = Append(created, c.topic) /\ writers' = [writers EXCEPT ![c.topic] = n]
          /\ lock' = Append(lock, <<>>) /\ sent' = Append(sent, <<>>) /\ pool' = Without(pool, i)
          /\ UNCHANGED <<handle, stream, answers, failures>>
      <3>1. Len(Append(created, c.topic)) = n
        BY <1>2, <1>6, AppendProperties
      <3>2. sends' = [sends EXCEPT ![i].pc = "writer", ![i].writer = n]
        BY <1>1, <1>13, <3>1 DEF CreateWriter, Topic
      <3> QED
        BY <1>1, <1>13, <1>8, <3>1, <3>2 DEF CreateWriter, At, Topic
    <2>2. n \in Nat \ {0} /\ Len(created) \in Nat /\ n = Len(created) + 1
      BY <1>2
    <2>3. s \in Send /\ s.topic = c.topic /\ s.waits = c.waits /\ s.result = c.result
          /\ s.pc = "writer" /\ s.writer = n
      BY <1>5, <2>2
    <2>4. /\ created' \in Seq(Topics) /\ Len(created') = n /\ created'[n] = c.topic
          /\ \A w \in DOMAIN created : created'[w] = created[w]
          /\ DOMAIN created' = DOMAIN created \cup {n} /\ n \notin DOMAIN created
      BY <1>2, <1>6, <2>1, AppendProperties
    <2>5. /\ lock' \in Seq(Seq(Ids)) /\ Len(lock') = n /\ Len(sent') = n
          /\ \A w \in DOMAIN created : lock'[w] = lock[w]
      BY <1>2, <2>1, EmptySeq, AppendProperties
    <2> HIDE DEF s, n
    <2>6. IsHolder(pool, i) /\ writers[c.topic] = 0
      BY <1>1, <1>2, <2>1 DEF HoldsInv
    <2>7. \A w \in DOMAIN created : created[w] # c.topic
      BY <1>2, <2>2, <2>6 DEF PoolInv
    <2>8. writers' \in [Topics -> Nat] /\ writers'[c.topic] = n
          /\ \A t \in Topics : t # c.topic => writers'[t] = writers[t]
      BY <1>2, <1>6, <2>1, <2>2
    <2>9. PoolInv'
      <3>1. \A w \in DOMAIN created : created[w] \in Topics
        BY <1>2
      <3>2. \A t \in Topics : writers'[t] # 0 => writers'[t] \in DOMAIN created' /\ created'[writers'[t]] = t
        <4> SUFFICES ASSUME NEW t \in Topics, writers'[t] # 0
                     PROVE  writers'[t] \in DOMAIN created' /\ created'[writers'[t]] = t
          OBVIOUS
        <4>1. CASE t = c.topic
          BY <2>4, <2>8, <4>1
        <4>2. CASE t # c.topic
          <5>1. writers'[t] = writers[t]
            BY <2>8, <4>2
          <5>2. writers[t] \in DOMAIN created /\ created[writers[t]] = t
            BY <1>2, <5>1 DEF PoolInv
          <5> QED
            BY <2>4, <5>1, <5>2
        <4> QED
          BY <4>1, <4>2
      <3>3. \A w \in DOMAIN created' : writers'[created'[w]] = w
        <4>1. \A w \in DOMAIN created : writers'[created[w]] = w
          BY <1>2, <2>7, <2>8, <3>1 DEF PoolInv
        <4> QED
          BY <2>4, <2>8, <4>1
      <3> QED
        BY <3>2, <3>3 DEF PoolInv
    <2>10. \A j \in DOMAIN sends : j # i => sends[j].pc # "creating"
      BY <1>1, <1>2, <2>6 DEF HoldsInv, IsHolder
    <2>11. HoldsInv'
      <3> SUFFICES ASSUME NEW j \in DOMAIN sends
                   PROVE  LET r == sends'[j] IN
                          /\ r.pc = "creating" => IsHolder(pool', j) /\ writers'[r.topic] = 0
                          /\ r.pc \in {"writer", "lock", "written", "answer", "done"} =>
                               r.writer \in DOMAIN created' /\ created'[r.writer] = r.topic
                          /\ r.pc = "written" \/ (r.pc = "answer" /\ r.waits = {}) =>
                               IsHolder(lock'[r.writer], j)
        BY <1>4, <2>1, <2>3 DEF HoldsInv
      <3>1. CASE j = i
        BY <1>4, <2>1, <2>3, <2>4, <3>1
      <3>2. CASE j # i
        <4>1. sends'[j] = sends[j]
          BY <1>4, <2>1, <2>3, <3>2
        <4>2. /\ sends[j].pc # "creating"
              /\ sends[j].pc \in {"writer", "lock", "written", "answer", "done"} =>
                   /\ sends[j].writer \in DOMAIN created'
                   /\ created'[sends[j].writer] = sends[j].topic
                   /\ lock'[sends[j].writer] = lock[sends[j].writer]
          BY <1>2, <2>4, <2>5, <2>10, <3>2 DEF HoldsInv
        <4>3. sends[j].pc = "written" \/ (sends[j].pc = "answer" /\ sends[j].waits = {}) =>
                IsHolder(lock[sends[j].writer], j)
          BY <1>2 DEF HoldsInv
        <4> QED
          BY <4>1, <4>2, <4>3
      <3> QED
        BY <3>1, <3>2
    <2> QED
      BY <1>2, <1>3, <1>9, <2>1, <2>3, <2>4, <2>5, <2>8, <2>9, <2>11
  <1>14. CASE CreatePanics(i)
    <2> DEFINE s == Moved("panicked", c.writer)
    <2>1. /\ c.pc = "creating" /\ sends' = [sends EXCEPT ![i] = s] /\ pool' = Without(pool, i)
          /\ handle' \in {"aborted", handle} /\ failures < MaxFailures /\ failures' = failures + 1
          /\ UNCHANGED <<writers, created, lock, sent, stream, answers>>
      BY <1>1, <1>7, <1>14 DEF CreatePanics, At, Fail, PoolAfterPanic
    <2>2. s \in Send /\ s.topic = c.topic /\ s.waits = c.waits /\ s.result = c.result /\ s.pc = "panicked"
          /\ s.writer = c.writer
      BY <1>5, <1>6
    <2> HIDE DEF s
    <2>3. PoolInv'
      BY <1>2, <2>1 DEF PoolInv
    <2>4. \A j \in DOMAIN sends : j # i => sends[j].pc # "creating"
      BY <1>1, <1>2, <2>1 DEF HoldsInv, IsHolder
    <2>5. HoldsInv'
      BY <1>1, <1>2, <1>4, <2>1, <2>2, <2>4 DEF HoldsInv
    <2>6. failures' \in 0 .. MaxFailures
      BY <1>2, <2>1, AdapterAssumption
    <2> QED
      BY <1>2, <1>3, <1>9, <2>1, <2>2, <2>3, <2>5, <2>6
  <1>15. CASE LockWriter(i)
    <2> DEFINE s == Moved("lock", c.writer)
    <2>1. /\ c.pc = "writer" /\ sends' = [sends EXCEPT ![i] = s]
          /\ lock' = [lock EXCEPT ![c.writer] = Append(@, i)]
          /\ UNCHANGED <<handle, pool, writers, created, sent, stream, answers, failures>>
      BY <1>1, <1>7, <1>15 DEF LockWriter, At, Writer
    <2>2. s \in Send /\ s.topic = c.topic /\ s.waits = c.waits /\ s.result = c.result /\ s.pc = "lock"
          /\ s.writer = c.writer
      BY <1>5, <1>6
    <2> HIDE DEF s
    <2>3. c.writer \in DOMAIN created /\ created[c.writer] = c.topic
      BY <1>1, <1>2, <2>1 DEF HoldsInv
    <2>4. /\ lock' \in Seq(Seq(Ids)) /\ Len(lock') = Len(created')
          /\ \A w \in DOMAIN created : \A j \in DOMAIN sends : IsHolder(lock[w], j) => IsHolder(lock'[w], j)
      <3>1. c.writer \in DOMAIN lock /\ lock[c.writer] \in Seq(Ids) /\ DOMAIN lock = DOMAIN created
        BY <1>2, <2>3
      <3>2. /\ Append(lock[c.writer], i) \in Seq(Ids)
            /\ \A j \in DOMAIN sends : IsHolder(lock[c.writer], j) => IsHolder(Append(lock[c.writer], i), j)
        BY <3>1, AppendProperties DEF IsHolder
      <3>3. lock' = [lock EXCEPT ![c.writer] = Append(lock[c.writer], i)]
        BY <2>1
      <3>4. lock' \in Seq(Seq(Ids)) /\ Len(lock') = Len(lock)
        BY <1>2, <3>1, <3>2, <3>3
      <3>5. \A w \in DOMAIN lock : lock'[w] = IF w = c.writer THEN Append(lock[c.writer], i) ELSE lock[w]
        BY <3>1, <3>3
      <3> QED
        BY <1>2, <2>1, <3>1, <3>2, <3>4, <3>5
    <2>5. PoolInv'
      BY <1>2, <2>1 DEF PoolInv
    <2>6. HoldsInv'
      BY <1>1, <1>2, <1>4, <2>1, <2>2, <2>3, <2>4 DEF HoldsInv
    <2> QED
      BY <1>2, <1>3, <2>1, <2>2, <2>4, <2>5, <2>6
  <1> QED
    BY <1>10, <1>11, <1>12, <1>13, <1>14, <1>15

-----------------------------------------------------------------------------
(* The rest of a send, once it has its writer *)

\* The event of a send that holds its writer is the only one that the client has of it.
LEMMA WriteEventKept ==
  ASSUME AdapterInv, NEW i \in Ids, WriteEvent(i)
  PROVE  AdapterInv'
  <1> DEFINE c == sends[i]
             w == c.writer
             s == [c EXCEPT !.pc = "written"]
  <1>1. /\ i \in DOMAIN sends /\ c \in Send /\ c.pc = "lock" /\ c = sends[i]
        /\ sends' = [sends EXCEPT ![i] = s] /\ sent' = [sent EXCEPT ![w] = Append(@, i)]
        /\ IsHolder(lock[w], i)
        /\ UNCHANGED <<handle, pool, writers, created, lock, stream, answers, failures>>
    BY DEF WriteEvent, At, Goto, Writer, AdapterInv, TypeOK
  <1>2. TypeOK /\ PoolInv /\ HoldsInv /\ ResultsInv /\ SentInv /\ StreamInv /\ AnswersInv /\ AnsweredInOrder
    BY DEF AdapterInv
  <1>3. /\ s \in Send /\ s.topic = c.topic /\ s.waits = c.waits /\ s.result = c.result
        /\ s.pc = "written" /\ s.writer = w
    BY <1>1 DEF Send
  <1>4. c.result = "none" /\ w \in DOMAIN created /\ created[w] = c.topic
    BY <1>1, <1>2 DEF ResultsInv, HoldsInv
  <1> HIDE DEF c, w, s
  <1>5. /\ sends' \in Seq(Send) /\ DOMAIN sends' = DOMAIN sends
        /\ \A j \in DOMAIN sends :
              /\ sends[j] \in Send /\ sends'[j] = IF j = i THEN s ELSE sends[j]
              /\ Topic(j)' = Topic(j) /\ IsSync(j)' = IsSync(j)
    BY <1>1, <1>3, OneSendMoves
  <1>6. /\ sent \in Seq(Seq(Ids)) /\ w \in DOMAIN sent /\ sent[w] \in Seq(Ids) /\ DOMAIN sent = DOMAIN created
    BY <1>2, <1>4 DEF TypeOK
  <1>7. sent[w] = <<>>
    <2> SUFFICES ASSUME sent[w] # <<>> PROVE FALSE
      OBVIOUS
    <2>1. sent[w][1] \in DOMAIN sends /\ IsHolder(lock[w], sent[w][1]) /\ sends[sent[w][1]].pc = "written"
      BY <1>2, <1>6 DEF SentInv, HoldsInv
    <2> QED
      BY <1>1, <2>1 DEF IsHolder
  <1>8. sent' = [sent EXCEPT ![w] = <<i>>] /\ <<i>> \in Seq(Ids)
    <2>1. Append(<<>>, i) = <<i>>
      OBVIOUS
    <2> QED
      BY <1>1, <1>7, <2>1
  <1>9. /\ sent' \in Seq(Seq(Ids)) /\ DOMAIN sent' = DOMAIN sent /\ Len(sent') = Len(sent)
        /\ \A v \in DOMAIN sent : sent'[v] = IF v = w THEN <<i>> ELSE sent[v]
    BY <1>6, <1>8
  <1>10. TypeOK'
    BY <1>1, <1>2, <1>5, <1>9 DEF TypeOK
  <1>11. PoolInv' /\ HoldsInv'
    BY <1>1, <1>2, <1>3, <1>4, <1>5 DEF PoolInv, HoldsInv
  <1>12. ResultsInv'
    BY <1>1, <1>2, <1>3, <1>4, <1>5 DEF ResultsInv
  <1>13. SentInv'
    <2> SUFFICES ASSUME NEW v \in DOMAIN sent, sent'[v] # <<>>
                 PROVE  /\ Len(sent'[v]) = 1 /\ sent'[v][1] \in DOMAIN sends
                        /\ sends'[sent'[v][1]].pc = "written" /\ sends'[sent'[v][1]].result = "none"
                        /\ sends'[sent'[v][1]].writer = v
      BY <1>5, <1>9 DEF SentInv
    <2>1. CASE v = w
      <3>1. Len(<<i>>) = 1 /\ <<i>>[1] = i
        OBVIOUS
      <3> QED
        BY <1>1, <1>3, <1>4, <1>5, <1>9, <2>1, <3>1
    <2>2. CASE v # w
      BY <1>1, <1>2, <1>5, <1>9, <2>2 DEF SentInv
    <2> QED
      BY <2>1, <2>2
  <1>14. StreamInv' /\ AnswersInv' /\ AnsweredInOrder'
    <2>1. StreamInv'
      BY <1>1, <1>2, <1>4, <1>5 DEF StreamInv
    <2>2. AnswersInv'
      BY <1>1, <1>2, <1>5 DEF AnswersInv
    <2>3. AnsweredInOrder'
      BY <1>1, <1>2, <1>5 DEF AnsweredInOrder, Before
    <2> QED
      BY <2>1, <2>2, <2>3
  <1> QED
    BY <1>2, <1>10, <1>11, <1>12, <1>13, <1>14 DEF AdapterInv

\* The writer is let go of with the result in a synchronous send, with the answer in an
\* asynchronous one, and nobody else held it.
LEMMA LocksKept ==
  ASSUME AdapterInv, NEW i \in DOMAIN sends, NEW step \in {"result", "answer"},
         sends[i].pc = (IF step = "result" THEN "written" ELSE "answer"),
         lock' = Locks(i, step)
  PROVE  /\ lock' \in Seq(Seq(Ids)) /\ Len(lock') = Len(lock)
         /\ \A j \in DOMAIN sends :
              (j # i /\ (sends[j].pc = "written" \/ (sends[j].pc = "answer" /\ sends[j].waits = {}))) =>
                IsHolder(lock'[sends[j].writer], j)
         /\ (step = "result" /\ sends[i].waits = {}) => IsHolder(lock'[sends[i].writer], i)
  <1> DEFINE w == sends[i].writer
  <1>1. /\ lock \in Seq(Seq(Ids)) /\ w \in DOMAIN created /\ DOMAIN lock = DOMAIN created
        /\ lock[w] \in Seq(Ids) /\ Len(lock) \in Nat
    <2>1. w \in DOMAIN created
      BY DEF AdapterInv, HoldsInv
    <2> QED
      BY <2>1 DEF AdapterInv, TypeOK
  <1>2. \A j \in DOMAIN sends :
          (sends[j].pc = "written" \/ (sends[j].pc = "answer" /\ sends[j].waits = {})) =>
            sends[j].writer \in DOMAIN created /\ IsHolder(lock[sends[j].writer], j)
    BY DEF AdapterInv, HoldsInv
  <1>3. CASE step = (IF IsSync(i) THEN "result" ELSE "answer")
    <2>1. IsHolder(lock[w], i)
      BY <1>2, <1>3 DEF IsSync
    <2>2. Tail(lock[w]) \in Seq(Ids) /\ lock' = [lock EXCEPT ![w] = Tail(lock[w])]
      <3>1. lock[w] # <<>>
        BY <2>1 DEF IsHolder
      <3>2. Tail(lock[w]) \in Seq(Ids)
        BY <1>1, <3>1, HeadTailProperties
      <3> QED
        BY <1>3, <3>2 DEF Locks, Writer
    <2> HIDE DEF w
    <2>3. /\ lock' \in Seq(Seq(Ids)) /\ Len(lock') = Len(lock)
          /\ \A v \in DOMAIN lock : v # w => lock'[v] = lock[v]
      BY <1>1, <2>2
    <2>4. \A j \in DOMAIN sends :
            (j # i /\ (sends[j].pc = "written" \/ (sends[j].pc = "answer" /\ sends[j].waits = {}))) =>
              sends[j].writer # w
      BY <1>2, <2>1 DEF IsHolder
    <2> QED
      BY <1>1, <1>2, <1>3, <2>3, <2>4 DEF IsSync
  <1>4. CASE step # (IF IsSync(i) THEN "result" ELSE "answer")
    <2>1. lock' = lock
      BY <1>4 DEF Locks
    <2> QED
      BY <1>1, <1>2, <2>1
  <1> QED
    BY <1>3, <1>4

\* A send that has its result is not with the client any more.
LEMMA GetResultKept ==
  ASSUME AdapterInv, NEW i \in Ids, GetResult(i)
  PROVE  AdapterInv'
  <1> DEFINE c == sends[i]
             s == [c EXCEPT !.pc = "answer"]
  <1>1. /\ i \in DOMAIN sends /\ c \in Send /\ c.pc = "written" /\ c.result # "none" /\ c = sends[i]
        /\ lock' = Locks(i, "result")
        /\ UNCHANGED <<handle, pool, writers, created, sent, stream, answers, failures>>
    BY DEF GetResult, At, Result, AdapterInv, TypeOK
  <1>2. sends' = [sends EXCEPT ![i] = s]
    <2>1. sends' = [sends EXCEPT ![i].pc = "answer", ![i].result = c.result]
      BY DEF GetResult, Result
    <2>2. [c EXCEPT !.pc = "answer", !.result = c.result] = s
      BY <1>1 DEF Send
    <2>3. sends' = [sends EXCEPT ![i] = [c EXCEPT !.pc = "answer", !.result = c.result]]
      BY <1>1, <2>1 DEF AdapterInv, TypeOK
    <2> QED
      BY <2>2, <2>3
  <1>3. TypeOK /\ PoolInv /\ HoldsInv /\ ResultsInv /\ SentInv /\ StreamInv /\ AnswersInv /\ AnsweredInOrder
    BY DEF AdapterInv
  <1>4. /\ s \in Send /\ s.topic = c.topic /\ s.waits = c.waits /\ s.result = c.result
        /\ s.pc = "answer" /\ s.writer = c.writer
    BY <1>1 DEF Send
  <1> HIDE DEF c, s
  <1>5. /\ sends' \in Seq(Send) /\ DOMAIN sends' = DOMAIN sends
        /\ \A j \in DOMAIN sends :
              /\ sends[j] \in Send /\ sends'[j] = IF j = i THEN s ELSE sends[j]
              /\ Topic(j)' = Topic(j) /\ IsSync(j)' = IsSync(j)
    BY <1>1, <1>2, <1>4, OneSendMoves
  <1>6. /\ lock' \in Seq(Seq(Ids)) /\ Len(lock') = Len(lock)
        /\ \A j \in DOMAIN sends :
             (j # i /\ (sends[j].pc = "written" \/ (sends[j].pc = "answer" /\ sends[j].waits = {}))) =>
               IsHolder(lock'[sends[j].writer], j)
        /\ c.waits = {} => IsHolder(lock'[c.writer], i)
    BY <1>1, LocksKept
  <1>7. TypeOK'
    BY <1>1, <1>3, <1>5, <1>6 DEF TypeOK
  <1>8. PoolInv'
    BY <1>1, <1>3 DEF PoolInv
  <1>9. HoldsInv'
    BY <1>1, <1>3, <1>4, <1>5, <1>6 DEF HoldsInv
  <1>10. ResultsInv'
    BY <1>1, <1>3, <1>4, <1>5 DEF ResultsInv
  <1>11. SentInv'
    BY <1>1, <1>3, <1>5 DEF SentInv
  <1>12. StreamInv'
    BY <1>1, <1>3, <1>4, <1>5 DEF StreamInv
  <1>13. AnswersInv'
    BY <1>1, <1>3, <1>5 DEF AnswersInv
  <1>14. AnsweredInOrder'
    BY <1>1, <1>3, <1>5 DEF AnsweredInOrder, Before
  <1> QED
    BY <1>7, <1>8, <1>9, <1>10, <1>11, <1>12, <1>13, <1>14 DEF AdapterInv

\* A send is answered after those before it in the stream.
LEMMA AnswerKept ==
  ASSUME AdapterInv, NEW i \in Ids, Answer(i)
  PROVE  AdapterInv'
  <1> DEFINE c == sends[i]
             s == [c EXCEPT !.pc = "done"]
  <1>1. /\ i \in DOMAIN sends /\ c \in Send /\ c.pc = "answer" /\ c = sends[i]
        /\ sends' = [sends EXCEPT ![i] = s] /\ answers' = Append(answers, i)
        /\ lock' = Locks(i, "answer")
        /\ UNCHANGED <<handle, pool, writers, created, sent, stream, failures>>
    BY DEF Answer, At, Goto, AdapterInv, TypeOK
  <1>2. TypeOK /\ PoolInv /\ HoldsInv /\ ResultsInv /\ SentInv /\ StreamInv /\ AnswersInv /\ AnsweredInOrder
    BY DEF AdapterInv
  <1>3. /\ s \in Send /\ s.topic = c.topic /\ s.waits = c.waits /\ s.result = c.result
        /\ s.pc = "done" /\ s.writer = c.writer
    BY <1>1 DEF Send
  <1> HIDE DEF c, s
  <1>4. /\ sends' \in Seq(Send) /\ DOMAIN sends' = DOMAIN sends
        /\ \A j \in DOMAIN sends :
              /\ sends[j] \in Send /\ sends'[j] = IF j = i THEN s ELSE sends[j]
              /\ Topic(j)' = Topic(j) /\ IsSync(j)' = IsSync(j)
    BY <1>1, <1>3, OneSendMoves
  <1>5. /\ lock' \in Seq(Seq(Ids)) /\ Len(lock') = Len(lock)
        /\ \A j \in DOMAIN sends :
             (j # i /\ (sends[j].pc = "written" \/ (sends[j].pc = "answer" /\ sends[j].waits = {}))) =>
               IsHolder(lock'[sends[j].writer], j)
    BY <1>1, LocksKept
  <1>6. /\ answers' \in Seq(Ids) /\ DOMAIN answers = 1 .. Len(answers) /\ Len(answers) \in Nat
        /\ DOMAIN answers' = 1 .. Len(answers) + 1
        /\ \A k \in DOMAIN answers : answers'[k] = answers[k]
        /\ answers'[Len(answers) + 1] = i
    <2>1. answers \in Seq(Ids)
      BY <1>2 DEF TypeOK
    <2>2. answers' = Append(answers, i)
      BY <1>1
    <2> QED
      BY <2>1, <2>2, AppendProperties
  <1>7. TypeOK'
    <2>1. TypeOK
      BY <1>2
    <2>2. UNCHANGED <<handle, pool, writers, created, sent, stream, failures>>
      BY <1>1
    <2> QED
      BY <1>4, <1>5, <1>6, <2>1, <2>2 DEF TypeOK
  <1>8. PoolInv'
    BY <1>1, <1>2 DEF PoolInv
  <1>9. HoldsInv'
    BY <1>1, <1>2, <1>3, <1>4, <1>5 DEF HoldsInv
  <1>10. ResultsInv'
    <2>1. c.result # "none" /\ (c.result = "OK" => \E k \in DOMAIN stream[c.topic] : stream[c.topic][k] = i)
      BY <1>1, <1>2 DEF ResultsInv
    <2> QED
      <3> SUFFICES ASSUME NEW j \in DOMAIN sends
                   PROVE  LET r == sends'[j] IN
                          /\ r.result # "none" => r.pc \in {"written", "answer", "done"}
                          /\ r.pc \in {"answer", "done"} => r.result # "none"
                          /\ r.result = "OK" => \E k \in DOMAIN stream[r.topic] : stream[r.topic][k] = j
        BY <1>1, <1>4 DEF ResultsInv
      <3>1. CASE j = i
        BY <1>3, <1>4, <2>1, <3>1
      <3>2. CASE j # i
        BY <1>2, <1>4, <3>2 DEF ResultsInv
      <3> QED
        BY <3>1, <3>2
  <1>11. SentInv'
    BY <1>1, <1>2, <1>4 DEF SentInv
  <1>12. StreamInv'
    BY <1>1, <1>2, <1>3, <1>4 DEF StreamInv
  <1>13. AnswersInv'
    BY <1>1, <1>2, <1>3, <1>4, <1>6 DEF AnswersInv
  <1>14. AnsweredInOrder'
    <2> SUFFICES ASSUME NEW h \in DOMAIN sends, NEW j \in DOMAIN sends,
                        Topic(h) = Topic(j), ~IsSync(h), ~IsSync(j),
                        Before(stream[Topic(h)], h, j), Before(answers', j, h)
                 PROVE  FALSE
      BY <1>1, <1>4 DEF AnsweredInOrder, Before
    <2>1. ~Before(answers, j, h)
      BY <1>2 DEF AnsweredInOrder
    <2>2. PICK k \in DOMAIN answers', l \in DOMAIN answers' : k < l /\ answers'[k] = j /\ answers'[l] = h
      BY DEF Before
    <2>3. k \in DOMAIN answers
      BY <1>6, <2>2
    <2>4. l = Len(answers) + 1
      BY <1>6, <2>1, <2>2, <2>3 DEF Before
    <2>5. h = i /\ sends[h].pc = "answer"
      BY <1>1, <1>6, <2>2, <2>4
    <2>6. Topic(h) \in Topics
      BY <1>4 DEF Topic, Send
    <2>7. sends[h].pc = "done"
      BY <1>2, <2>6 DEF StreamInv, Before
    <2> QED
      BY <2>5, <2>7
  <1> QED
    BY <1>7, <1>8, <1>9, <1>10, <1>11, <1>12, <1>13, <1>14 DEF AdapterInv

-----------------------------------------------------------------------------
(* The Pravega client *)

\* The result of an event, which is stored if it is an OK, but maybe also if not.
LEMMA StoresKept ==
  ASSUME AdapterInv, NEW w \in Ids, Store(w) \/ StoreFails(w)
  PROVE  AdapterInv'
  <1> DEFINE i == sent[w][1]
             c == sends[i]
             res == sends'[i].result
             s == [c EXCEPT !.result = res]
             st == stream[c.topic]
  <1>1. TypeOK /\ PoolInv /\ HoldsInv /\ ResultsInv /\ SentInv /\ StreamInv /\ AnswersInv /\ AnsweredInOrder
    BY DEF AdapterInv
  <1>2. w \in DOMAIN sent /\ sent[w] # <<>>
    BY DEF Store, StoreFails
  <1>3. /\ i \in DOMAIN sends /\ c.pc = "written" /\ c.result = "none" /\ c.writer = w
        /\ Len(sent[w]) = 1 /\ sent[w] \in Seq(Ids) /\ i \in Ids /\ Head(sent[w]) = i
        /\ sends[i] \in Send
    BY <1>1, <1>2 DEF SentInv, TypeOK
  <1>4. created[w] = c.topic /\ c.topic \in Topics
    BY <1>1, <1>3 DEF HoldsInv, Send
  <1>5. Tail(sent[w]) = <<>>
    <2>1. Tail(sent[w]) \in Seq(Ids) /\ Len(Tail(sent[w])) = 0
      BY <1>2, <1>3, HeadTailProperties
    <2> QED
      BY <2>1, EmptySeq
  \* The event is stored, or fails, or both.
  <1>6. \E result \in {"OK", "ERR"} :
          /\ sends' = [sends EXCEPT ![i].result = result]
          /\ sent' = [sent EXCEPT ![w] = <<>>]
          /\ UNCHANGED <<handle, pool, writers, created, lock, answers>>
          /\ failures' = failures \/ (failures < MaxFailures /\ failures' = failures + 1)
          /\ \/ stream' = [stream EXCEPT ![c.topic] = Append(@, i)]
             \/ result = "ERR" /\ stream' = stream
    BY <1>3, <1>4, <1>5 DEF Store, StoreFails, Stored, Fail
  <1>7. /\ res \in {"OK", "ERR"} /\ sends' = [sends EXCEPT ![i] = s] /\ s \in Send
        /\ s.topic = c.topic /\ s.waits = c.waits /\ s.writer = c.writer /\ s.pc = c.pc /\ s.result = res
    <2>1. PICK result \in {"OK", "ERR"} : sends' = [sends EXCEPT ![i].result = result]
      BY <1>6
    <2>2. sends' = [sends EXCEPT ![i] = [c EXCEPT !.result = result]]
      BY <1>3, <2>1
    <2>3. sends'[i] = [c EXCEPT !.result = result]
      BY <1>3, <2>2
    <2>4. res = result
      BY <1>3, <2>3 DEF Send
    <2> QED
      BY <1>3, <2>1, <2>2, <2>4 DEF Send
  <1>8. /\ sent' = [sent EXCEPT ![w] = <<>>]
        /\ UNCHANGED <<handle, pool, writers, created, lock, answers>>
        /\ failures' = failures \/ (failures < MaxFailures /\ failures' = failures + 1)
        /\ \/ stream' = [stream EXCEPT ![c.topic] = Append(st, i)]
           \/ res = "ERR" /\ stream' = stream
    <2>1. PICK result \in {"OK", "ERR"} :
          /\ sends' = [sends EXCEPT ![i].result = result]
          /\ sent' = [sent EXCEPT ![w] = <<>>]
          /\ UNCHANGED <<handle, pool, writers, created, lock, answers>>
          /\ failures' = failures \/ (failures < MaxFailures /\ failures' = failures + 1)
          /\ \/ stream' = [stream EXCEPT ![c.topic] = Append(@, i)]
             \/ result = "ERR" /\ stream' = stream
      BY <1>6
    <2>2. res = result
      <3>1. sends'[i] = [c EXCEPT !.result = result]
        BY <1>3, <2>1
      <3> QED
        BY <1>3, <3>1 DEF Send
    <2> QED
      BY <2>1, <2>2
  <1>9. c = sends[i]
    OBVIOUS
  <1>10. st = stream[c.topic] /\ st \in Seq(Ids)
    BY <1>1, <1>4 DEF TypeOK
  <1> HIDE DEF i, c, s, res, st
  <1>11. /\ sends' \in Seq(Send) /\ DOMAIN sends' = DOMAIN sends
         /\ \A j \in DOMAIN sends :
              /\ sends[j] \in Send /\ sends'[j] = IF j = i THEN s ELSE sends[j]
              /\ Topic(j)' = Topic(j) /\ IsSync(j)' = IsSync(j)
    BY <1>3, <1>7, <1>9, OneSendMoves
  <1>12. /\ sent' \in Seq(Seq(Ids)) /\ DOMAIN sent' = DOMAIN sent /\ Len(sent') = Len(sent)
         /\ \A v \in DOMAIN sent : sent'[v] = IF v = w THEN <<>> ELSE sent[v]
    <2>1. sent \in Seq(Seq(Ids)) /\ <<>> \in Seq(Ids)
      BY <1>1, EmptySeq DEF TypeOK
    <2> QED
      BY <1>2, <1>8, <2>1
  \* No stored event is the one that has no result yet.
  <1>13. \A t \in Topics : \A k \in DOMAIN stream[t] : stream[t][k] # i
    BY <1>1, <1>3, <1>9 DEF StreamInv
  <1>14. /\ stream' \in [Topics -> Seq(Ids)]
         /\ \A t \in Topics : t # c.topic => stream'[t] = stream[t]
         /\ DOMAIN st = 1 .. Len(st) /\ Len(st) \in Nat
         /\ \A k \in DOMAIN st : k \in DOMAIN stream'[c.topic] /\ stream'[c.topic][k] = st[k]
         /\ \A k \in DOMAIN stream'[c.topic] : k \in DOMAIN st \/ (k = Len(st) + 1 /\ stream'[c.topic][k] = i)
         /\ res = "OK" => \E k \in DOMAIN stream'[c.topic] : stream'[c.topic][k] = i
    <2>1. stream \in [Topics -> Seq(Ids)]
      BY <1>1 DEF TypeOK
    <2>2. DOMAIN st = 1 .. Len(st) /\ Len(st) \in Nat
      BY <1>10
    <2>3. CASE stream' = [stream EXCEPT ![c.topic] = Append(st, i)]
      <3>1. /\ Append(st, i) \in Seq(Ids) /\ DOMAIN Append(st, i) = 1 .. Len(st) + 1
            /\ \A k \in 1 .. Len(st) : Append(st, i)[k] = st[k]
            /\ Append(st, i)[Len(st) + 1] = i
        BY <1>3, <1>10, AppendProperties
      <3>2. stream'[c.topic] = Append(st, i)
        BY <1>4, <2>1, <2>3
      <3>3. stream' \in [Topics -> Seq(Ids)] /\ \A t \in Topics : t # c.topic => stream'[t] = stream[t]
        BY <1>4, <2>1, <2>3, <3>1
      <3> QED
        BY <2>2, <3>1, <3>2, <3>3
    <2>4. CASE res = "ERR" /\ stream' = stream
      BY <1>10, <2>1, <2>2, <2>4
    <2> QED
      BY <1>8, <2>3, <2>4
  <1>15. TypeOK'
    <2>1. failures' \in 0 .. MaxFailures
      BY <1>1, <1>8, AdapterAssumption DEF TypeOK
    <2> QED
      BY <1>1, <1>8, <1>11, <1>12, <1>14, <2>1 DEF TypeOK
  <1>16. PoolInv'
    BY <1>1, <1>8 DEF PoolInv
  <1>17. HoldsInv'
    BY <1>1, <1>7, <1>8, <1>9, <1>11 DEF HoldsInv
  <1>18. ResultsInv'
    <2> SUFFICES ASSUME NEW j \in DOMAIN sends
                 PROVE  LET r == sends'[j] IN
                        /\ r.result # "none" => r.pc \in {"written", "answer", "done"}
                        /\ r.pc \in {"answer", "done"} => r.result # "none"
                        /\ r.result = "OK" => \E k \in DOMAIN stream'[r.topic] : stream'[r.topic][k] = j
      BY <1>11 DEF ResultsInv
    <2>1. CASE j = i
      BY <1>3, <1>7, <1>9, <1>11, <1>14, <2>1
    <2>2. CASE j # i
      <3>1. sends'[j] = sends[j] /\ sends[j].topic \in Topics
        BY <1>11, <2>2 DEF Send
      <3>2. /\ sends[j].result # "none" => sends[j].pc \in {"written", "answer", "done"}
            /\ sends[j].pc \in {"answer", "done"} => sends[j].result # "none"
            /\ sends[j].result = "OK" =>
                 \E k \in DOMAIN stream[sends[j].topic] : stream[sends[j].topic][k] = j
        BY <1>1 DEF ResultsInv
      <3>3. sends[j].result = "OK" =>
                 \E k \in DOMAIN stream'[sends[j].topic] : stream'[sends[j].topic][k] = j
        BY <1>10, <1>14, <3>1, <3>2
      <3> QED
        BY <3>1, <3>2, <3>3
    <2> QED
      BY <2>1, <2>2
  <1>19. SentInv'
    <2> SUFFICES ASSUME NEW v \in DOMAIN sent, sent'[v] # <<>>
                 PROVE  /\ Len(sent'[v]) = 1 /\ sent'[v][1] \in DOMAIN sends
                        /\ sends'[sent'[v][1]].pc = "written" /\ sends'[sent'[v][1]].result = "none"
                        /\ sends'[sent'[v][1]].writer = v
      BY <1>11, <1>12 DEF SentInv
    <2>1. v # w /\ sent'[v] = sent[v]
      BY <1>12
    <2>2. /\ Len(sent[v]) = 1 /\ sent[v][1] \in DOMAIN sends
          /\ sends[sent[v][1]].pc = "written" /\ sends[sent[v][1]].result = "none"
          /\ sends[sent[v][1]].writer = v
      BY <1>1, <2>1 DEF SentInv
    <2>3. sent[v][1] # i
      BY <1>3, <1>9, <2>1, <2>2
    <2> QED
      BY <1>11, <2>1, <2>2, <2>3
  <1>20. AnswersInv'
    BY <1>1, <1>3, <1>7, <1>8, <1>9, <1>11 DEF AnswersInv
  \* An asynchronous send of the topic that is stored before this one is answered: else it
  \* would still hold the writer.
  <1>21. \A k \in DOMAIN st : ~IsSync(st[k]) => sends[st[k]].pc = "done"
    <2> SUFFICES ASSUME NEW k \in DOMAIN st, ~IsSync(st[k]), sends[st[k]].pc # "done" PROVE FALSE
      OBVIOUS
    <2> DEFINE j == st[k]
    <2>1. j \in DOMAIN sends /\ sends[j].topic = c.topic /\ sends[j].result # "none" /\ j # i
      BY <1>1, <1>4, <1>10, <1>13 DEF StreamInv
    <2>2. sends[j].pc = "written" \/ (sends[j].pc = "answer" /\ sends[j].waits = {})
      BY <1>1, <2>1 DEF ResultsInv, IsSync
    <2>3. sends[j].writer \in DOMAIN created /\ created[sends[j].writer] = c.topic
          /\ IsHolder(lock[sends[j].writer], j)
      BY <1>1, <2>1, <2>2 DEF HoldsInv
    <2>4. sends[j].writer = w /\ IsHolder(lock[w], i)
      <3>1. w \in DOMAIN created /\ IsHolder(lock[w], i)
        BY <1>1, <1>3, <1>9 DEF HoldsInv
      <3> QED
        BY <1>1, <1>4, <2>3, <3>1 DEF PoolInv
    <2> QED
      BY <2>1, <2>3, <2>4 DEF IsHolder
  <1>22. StreamInv'
    <2> SUFFICES ASSUME NEW t \in Topics, NEW k \in DOMAIN stream'[t], NEW l \in DOMAIN stream'[t]
                 PROVE  /\ stream'[t][k] \in DOMAIN sends
                        /\ sends'[stream'[t][k]].topic = t /\ sends'[stream'[t][k]].result # "none"
                        /\ stream'[t][k] = stream'[t][l] => k = l
                        /\ (k < l /\ sends'[stream'[t][k]].waits = {} /\ sends'[stream'[t][l]].waits = {}) =>
                              sends'[stream'[t][k]].pc = "done"
      BY <1>11 DEF StreamInv, IsSync
    <2>1. ASSUME k \in DOMAIN stream[t], stream'[t][k] = stream[t][k]
          PROVE  /\ stream'[t][k] \in DOMAIN sends /\ stream'[t][k] # i
                 /\ sends'[stream'[t][k]] = sends[stream'[t][k]]
                 /\ sends[stream'[t][k]].topic = t /\ sends[stream'[t][k]].result # "none"
      BY <1>1, <1>11, <1>13, <2>1 DEF StreamInv
    <2>2. ASSUME k \in DOMAIN stream[t], stream'[t][k] = stream[t][k],
                 l \in DOMAIN stream[t], stream'[t][l] = stream[t][l]
          PROVE  /\ stream'[t][k] = stream'[t][l] => k = l
                 /\ (k < l /\ sends'[stream'[t][k]].waits = {} /\ sends'[stream'[t][l]].waits = {}) =>
                       sends'[stream'[t][k]].pc = "done"
      BY <1>1, <1>11, <1>13, <2>1, <2>2 DEF StreamInv, IsSync
    <2>3. CASE t # c.topic
      BY <1>14, <2>1, <2>2, <2>3
    <2>4. CASE t = c.topic /\ k \in DOMAIN st /\ l \in DOMAIN st
      BY <1>10, <1>14, <2>1, <2>2, <2>4
    <2>5. CASE t = c.topic /\ k \in DOMAIN st /\ l \notin DOMAIN st
      <3>1. stream'[t][k] = st[k] /\ stream'[t][l] = i /\ k \in DOMAIN stream[t] /\ stream'[t][k] = stream[t][k]
        BY <1>10, <1>14, <2>5
      <3> QED
        BY <1>21, <2>1, <2>5, <3>1 DEF IsSync
    <2>6. CASE t = c.topic /\ k \notin DOMAIN st
      <3>1. stream'[t][k] = i /\ k = Len(st) + 1 /\ sends'[i].topic = t /\ sends'[i].result # "none"
        BY <1>3, <1>7, <1>9, <1>11, <1>14, <2>6
      <3>2. l = k \/ (l \in DOMAIN st /\ stream'[t][l] # i /\ ~(k < l))
        <4>1. l \in DOMAIN st => stream'[t][l] = st[l] /\ st[l] # i
          BY <1>4, <1>10, <1>13, <1>14, <2>6
        <4> QED
          BY <1>14, <2>6, <3>1, <4>1
      <3>3. ~(k < l)
        BY <1>14, <3>1, <3>2
      <3> QED
        BY <1>3, <3>1, <3>2, <3>3
    <2> QED
      BY <2>3, <2>4, <2>5, <2>6
  <1>23. AnsweredInOrder'
    <2> SUFFICES ASSUME NEW h \in DOMAIN sends, NEW j \in DOMAIN sends,
                        Topic(h) = Topic(j), ~IsSync(h), ~IsSync(j),
                        Before(stream'[Topic(h)], h, j), Before(answers, j, h)
                 PROVE  FALSE
      BY <1>8, <1>11 DEF AnsweredInOrder, Before
    <2>1. PICK k \in DOMAIN stream'[Topic(h)], l \in DOMAIN stream'[Topic(h)] :
            k < l /\ stream'[Topic(h)][k] = h /\ stream'[Topic(h)][l] = j
      BY DEF Before
    <2>2. ~Before(stream[Topic(h)], h, j) /\ sends[j].pc = "done"
      BY <1>1 DEF AnsweredInOrder, AnswersInv, Before
    <2>3. j # i
      BY <1>3, <1>9, <2>2
    <2>4. Topic(h) \in Topics
      BY <1>11 DEF Topic, Send
    <2>5. CASE Topic(h) # c.topic
      BY <1>14, <2>1, <2>2, <2>4, <2>5 DEF Before
    <2>6. CASE Topic(h) = c.topic
      <3>1. l \in DOMAIN st
        BY <1>14, <2>1, <2>3, <2>6
      <3>2. k \in DOMAIN st
        BY <1>14, <2>1, <2>6, <3>1
      <3> QED
        BY <1>10, <1>14, <2>1, <2>2, <2>6, <3>1, <3>2 DEF Before
    <2> QED
      BY <2>5, <2>6
  <1> QED
    BY <1>15, <1>16, <1>17, <1>18, <1>19, <1>20, <1>22, <1>23 DEF AdapterInv

-----------------------------------------------------------------------------
(* The theorems *)

\* The invariant holds of every state that the application's calls, the tasks and the
\* client reach, in any order and with any failures.
THEOREM AdapterInvariant == Spec => []AdapterInv
  <1>1. AdapterInv /\ [Next]_vars => AdapterInv'
    <2> SUFFICES ASSUME AdapterInv, [Next]_vars PROVE AdapterInv'
      OBVIOUS
    <2>1. ASSUME handle' \in {"none", "null", "live", "freed", "aborted"},
                 UNCHANGED <<sends, pool, writers, created, lock, sent, stream, answers, failures>>
          PROVE  AdapterInv'
      <3>1. TypeOK'
        BY <2>1 DEF AdapterInv, TypeOK
      <3>2. PoolInv' /\ HoldsInv' /\ ResultsInv' /\ SentInv' /\ StreamInv' /\ AnswersInv'
        BY <2>1 DEF AdapterInv, PoolInv, HoldsInv, ResultsInv, SentInv, StreamInv, AnswersInv, IsSync
      <3>3. AnsweredInOrder'
        BY <2>1 DEF AdapterInv, AnsweredInOrder, Topic, IsSync
      <3> QED
        BY <3>1, <3>2, <3>3 DEF AdapterInv
    <2>2. CASE UNCHANGED vars
      BY <2>1, <2>2 DEF vars, AdapterInv, TypeOK
    <2>3. CASE nvds_msgapi_connect
      BY <2>1, <2>3 DEF nvds_msgapi_connect
    <2>4. CASE nvds_msgapi_disconnect
      BY <2>1, <2>4 DEF nvds_msgapi_disconnect
    <2>5. ASSUME NEW t \in Threads, NEW topic \in Topics,
                 nvds_msgapi_send(t, topic) \/ nvds_msgapi_send_async(t, topic)
          PROVE  AdapterInv'
      BY <2>5, CallKept DEF nvds_msgapi_send, nvds_msgapi_send_async
    <2>6. ASSUME NEW i \in Ids, TaskStep(i) PROVE AdapterInv'
      BY <2>6, EarlyStepsKept, WriteEventKept, GetResultKept, AnswerKept DEF TaskStep
    <2>7. ASSUME NEW w \in Ids, Store(w) \/ StoreFails(w) PROVE AdapterInv'
      BY <2>7, StoresKept
    <2> QED
      BY <2>2, <2>3, <2>4, <2>5, <2>6, <2>7 DEF Next
  <1> QED
    BY <1>1, AdapterInvInit, PTL DEF Spec

\* However many sends to a new topic race, and whichever of them panics in create_stream,
\* EventStreamWriterPool creates one writer of the topic.
THEOREM AdapterOneWriter == Spec => []OneWriterPerStream
  <1>1. AdapterInv => OneWriterPerStream
    BY DEF AdapterInv, PoolInv, OneWriterPerStream
  <1> QED
    BY <1>1, AdapterInvariant, PTL

\* A send that nvds_msgapi_send or the callback reports as OK is in the stream, and no send
\* is there twice.
THEOREM AdapterOkIsDurable == Spec => []OkIsDurable
  <1>1. AdapterInv => OkIsDurable
    <2> SUFFICES ASSUME AdapterInv, NEW i \in DOMAIN sends
                 PROVE  Count(i) <= 1 /\ (sends[i].result = "OK" => Count(i) = 1)
      BY DEF OkIsDurable
    <2> DEFINE q == stream[Topic(i)]
               at == {k \in DOMAIN q : q[k] = i}
    <2>1. Topic(i) \in Topics
      <3>1. sends[i] \in Send
        BY DEF AdapterInv, TypeOK
      <3> QED
        BY <3>1 DEF Topic, Send
    <2>2. \A k, l \in at : k = l
      BY <2>1 DEF AdapterInv, StreamInv
    <2>3. sends[i].result = "OK" => at # {}
      BY DEF AdapterInv, ResultsInv, Topic
    <2>4. at = {} \/ \E k : at = {k}
      BY <2>2
    <2>5. Cardinality({}) = 0 /\ \A k : Cardinality({k}) = 1
      BY FS_EmptySet, FS_Singleton
    <2>6. Count(i) = Cardinality(at)
      BY DEF Count
    <2> HIDE DEF at
    <2>7. CASE at = {}
      BY <2>3, <2>5, <2>6, <2>7
    <2>8. CASE \E k : at = {k}
      BY <2>5, <2>6, <2>8
    <2> QED
      BY <2>4, <2>7, <2>8
  <1> QED
    BY <1>1, AdapterInvariant, PTL

\* The callbacks for a topic are called in the order of its events in the stream.
THEOREM AdapterAnsweredInOrder == Spec => []AnsweredInOrder
  <1>1. AdapterInv => AnsweredInOrder
    BY DEF AdapterInv
  <1> QED
    BY <1>1, AdapterInvariant, PTL
=============================================================================
