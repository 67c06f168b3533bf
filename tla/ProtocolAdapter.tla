--------------------------- MODULE ProtocolAdapter ---------------------------
(***************************************************************************)
(* The DeepStream protocol adapter: the functions nvds_msgapi_* as threads *)
(* of an application call them, and the pool of event writers that their   *)
(* sends share.  A synchronous send blocks its thread; an asynchronous one *)
(* is a Tokio task, and the runtime starts its tasks in any order.         *)
(*                                                                         *)
(* The application is the one of test_pravega_protocol_adapter.cpp: it     *)
(* gives up if it cannot connect, and it disconnects when no send is       *)
(* under way.                                                              *)
(***************************************************************************)
EXTENDS Integers, Sequences, FiniteSets

CONSTANTS
  Topics,
  Threads,    \* of the application
  MaxSends,   \* bound on the sends
  MaxFailures \* bound on the failures of the controller and of the server

ASSUME AdapterAssumption == MaxSends \in Nat /\ MaxFailures \in Nat

VARIABLES
  handle,   \* the client handle
  sends,    \* the calls of nvds_msgapi_send and nvds_msgapi_send_async
  pool,     \* EventStreamWriterPool.writers: the tasks at its mutex, the holder first
  writers,  \* the writer in the pool for each topic, 0 if there is none
  created,  \* the topics of the writers created
  lock,     \* the tasks at each writer's mutex, the holder first
  sent,     \* for each writer, what the client has yet to store
  stream,   \* for each topic, the sends whose events are stored
  answers,  \* the sends in the order of their callbacks
  failures

vars == <<handle, sends, pool, writers, created, lock, sent, stream, answers, failures>>

Ids == 1 .. MaxSends
\* waits: the thread that a synchronous send blocks.
Send == [topic : Topics, waits : SUBSET Threads, writer : Nat,
         result : {"none", "OK", "ERR"},
         pc : {"called", "pool", "creating", "writer", "lock", "written", "answer", "done", "panicked"}]

Init ==
  /\ handle = "none" /\ sends = <<>>
  /\ pool = <<>> /\ writers = [t \in Topics |-> 0] /\ created = <<>>
  /\ lock = <<>> /\ sent = <<>> /\ stream = [t \in Topics |-> <<>>]
  /\ answers = <<>> /\ failures = 0

Topic(i) == sends[i].topic
Writer(i) == sends[i].writer
IsSync(i) == sends[i].waits # {}
At(i, pc) == handle # "aborted" /\ i \in DOMAIN sends /\ sends[i].pc = pc
Goto(i, pc) == sends' = [sends EXCEPT ![i].pc = pc]
IsHolder(q, i) == q # <<>> /\ Head(q) = i
\* The mutex after its holder has let go of it.
Without(q, i) == IF IsHolder(q, i) THEN Tail(q) ELSE q
Fail == failures < MaxFailures /\ failures' = failures + 1

Pending(i) == sends[i].pc # "done"
Blocked(t) == \E i \in DOMAIN sends : t \in sends[i].waits /\ Pending(i)

-----------------------------------------------------------------------------
(* The functions called by the application *)

\* A configuration file or client configuration that is refused gives a null handle.
nvds_msgapi_connect ==
  /\ handle = "none"
  /\ handle' \in {"live", "null"}
  /\ UNCHANGED <<sends, pool, writers, created, lock, sent, stream, answers, failures>>

Call(t, topic, waits) ==
  /\ handle = "live" /\ ~Blocked(t) /\ Len(sends) < MaxSends
  /\ sends' = Append(sends, [topic |-> topic, waits |-> waits, writer |-> 0,
                             result |-> "none", pc |-> "called"])
  /\ UNCHANGED <<handle, pool, writers, created, lock, sent, stream, answers, failures>>

nvds_msgapi_send(t, topic) == Call(t, topic, {t})

\* Returns OK when the task is spawned.
nvds_msgapi_send_async(t, topic) == Call(t, topic, {})

nvds_msgapi_disconnect ==
  /\ handle = "live" /\ \A i \in DOMAIN sends : ~Pending(i)
  /\ handle' = "freed"
  /\ UNCHANGED <<sends, pool, writers, created, lock, sent, stream, answers, failures>>

-----------------------------------------------------------------------------
(* EventStreamWriterPool::get_or_create *)

EnterPool(i) ==
  /\ At(i, "called") /\ Goto(i, "pool")
  /\ pool' = Append(pool, i)
  /\ UNCHANGED <<handle, writers, created, lock, sent, stream, answers, failures>>

FindWriter(i) ==
  /\ At(i, "pool") /\ IsHolder(pool, i) /\ writers[Topic(i)] # 0
  /\ sends' = [sends EXCEPT ![i].pc = "writer", ![i].writer = writers[Topic(i)]]
  /\ pool' = Without(pool, i)
  /\ UNCHANGED <<handle, writers, created, lock, sent, stream, answers, failures>>

\* Mutant: the pool is not locked while the stream is created.
UnlockedPool(i) == Without(pool, i)

\* The mutex is held across the await of create_stream.
PoolWhileCreating(i) == pool

BeginCreate(i) ==
  /\ At(i, "pool") /\ IsHolder(pool, i) /\ writers[Topic(i)] = 0
  /\ Goto(i, "creating")
  /\ pool' = PoolWhileCreating(i)
  /\ UNCHANGED <<handle, writers, created, lock, sent, stream, answers, failures>>

CreateWriter(i) ==
  /\ At(i, "creating")
  /\ created' = Append(created, Topic(i))
  /\ writers' = [writers EXCEPT ![Topic(i)] = Len(created')]
  /\ lock' = Append(lock, <<>>) /\ sent' = Append(sent, <<>>)
  /\ sends' = [sends EXCEPT ![i].pc = "writer", ![i].writer = Len(created')]
  /\ pool' = Without(pool, i)
  /\ UNCHANGED <<handle, stream, answers, failures>>

\* Mutant: the mutex stays locked after the panic.
StuckPool(i) == pool

\* Tokio's mutex is not poisoned: the guard is dropped.
PoolAfterPanic(i) == Without(pool, i)

\* create_stream fails and is unwrapped: the task ends, and no callback is called; in
\* a synchronous send the panic would leave extern "C", and the process ends.
CreatePanics(i) ==
  /\ At(i, "creating") /\ Fail
  /\ Goto(i, "panicked")
  /\ handle' = IF IsSync(i) THEN "aborted" ELSE handle
  /\ pool' = PoolAfterPanic(i)
  /\ UNCHANGED <<writers, created, lock, sent, stream, answers>>

-----------------------------------------------------------------------------
(* The rest of a send, once it has its writer *)

LockWriter(i) ==
  /\ At(i, "writer") /\ Goto(i, "lock")
  /\ lock' = [lock EXCEPT ![Writer(i)] = Append(@, i)]
  /\ UNCHANGED <<handle, pool, writers, created, sent, stream, answers, failures>>

\* write_event_by_routing_key: the event is with the client.
WriteEvent(i) ==
  /\ At(i, "lock") /\ IsHolder(lock[Writer(i)], i)
  /\ Goto(i, "written")
  /\ sent' = [sent EXCEPT ![Writer(i)] = Append(@, i)]
  /\ UNCHANGED <<handle, pool, writers, created, lock, stream, answers, failures>>

\* Mutant: the result of the write is not awaited.
ResultOfCall(i) == "OK"

\* What the receiver gives.
Result(i) == sends[i].result

\* Mutant: the writer is unlocked before the callback.
LocksUntilResult(i, step) ==
  IF step = "result" THEN [lock EXCEPT ![Writer(i)] = Tail(@)] ELSE lock

\* The writer's guard lives to the end of the async block: to the result in a
\* synchronous send, but beyond the callback in an asynchronous one.
Locks(i, step) ==
  IF step = (IF IsSync(i) THEN "result" ELSE "answer")
  THEN [lock EXCEPT ![Writer(i)] = Tail(@)] ELSE lock

GetResult(i) ==
  /\ At(i, "written") /\ Result(i) # "none"
  /\ sends' = [sends EXCEPT ![i].pc = "answer", ![i].result = Result(i)]
  /\ lock' = Locks(i, "result")
  /\ UNCHANGED <<handle, pool, writers, created, sent, stream, answers, failures>>

\* The callback, or the return of nvds_msgapi_send.
Answer(i) ==
  /\ At(i, "answer") /\ Goto(i, "done")
  /\ answers' = Append(answers, i)
  /\ lock' = Locks(i, "answer")
  /\ UNCHANGED <<handle, pool, writers, created, sent, stream, failures>>

-----------------------------------------------------------------------------
(* The Pravega client: stores the events of a writer in order, or fails, in *)
(* which case the event may have been stored or not.                        *)

Stored(w, result) ==
  LET i == Head(sent[w]) IN
  /\ sent' = [sent EXCEPT ![w] = Tail(@)]
  /\ sends' = [sends EXCEPT ![i].result = result]
  /\ UNCHANGED <<handle, pool, writers, created, lock, answers>>

Store(w) ==
  /\ w \in DOMAIN sent /\ sent[w] # <<>> /\ handle # "aborted"
  /\ stream' = [stream EXCEPT ![created[w]] = Append(@, Head(sent[w]))]
  /\ \/ Stored(w, "OK") /\ UNCHANGED failures
     \/ Stored(w, "ERR") /\ Fail

StoreFails(w) ==
  /\ w \in DOMAIN sent /\ sent[w] # <<>> /\ handle # "aborted"
  /\ Stored(w, "ERR") /\ Fail
  /\ UNCHANGED stream

-----------------------------------------------------------------------------
TaskStep(i) ==
  \/ EnterPool(i) \/ FindWriter(i) \/ BeginCreate(i) \/ CreateWriter(i) \/ CreatePanics(i)
  \/ LockWriter(i) \/ WriteEvent(i) \/ GetResult(i) \/ Answer(i)

Next ==
  \/ nvds_msgapi_connect \/ nvds_msgapi_disconnect
  \/ \E t \in Threads, topic \in Topics : nvds_msgapi_send(t, topic) \/ nvds_msgapi_send_async(t, topic)
  \/ \E i \in Ids : TaskStep(i)
  \/ \E w \in Ids : Store(w) \/ StoreFails(w)

\* The runtime runs every task that can go on, and controller and server answer.
Fairness ==
  /\ \A i \in Ids : WF_vars(TaskStep(i))
  /\ \A w \in Ids : WF_vars(Store(w))

Spec == Init /\ [][Next]_vars /\ Fairness

-----------------------------------------------------------------------------
(* Properties *)

TypeOK ==
  /\ handle \in {"none", "null", "live", "freed", "aborted"}
  /\ sends \in Seq(Send) /\ pool \in Seq(Ids) /\ writers \in [Topics -> Nat]
  /\ created \in Seq(Topics) /\ lock \in Seq(Seq(Ids)) /\ sent \in Seq(Seq(Ids))
  /\ Len(lock) = Len(created) /\ Len(sent) = Len(created)
  /\ stream \in [Topics -> Seq(Ids)] /\ answers \in Seq(Ids) /\ failures \in 0 .. MaxFailures

\* "with one instance per stream": however many sends to a new topic race, and
\* although one of them panics, all share a writer.
OneWriterPerStream == \A v, w \in DOMAIN created : created[v] = created[w] => v = w

Count(i) == Cardinality({k \in DOMAIN stream[Topic(i)] : stream[Topic(i)][k] = i})

\* "Event has been durably persisted": a send answered with OK is in the stream,
\* and no send is there twice.
OkIsDurable ==
  \A i \in DOMAIN sends :
    /\ Count(i) <= 1
    /\ sends[i].pc \in {"answer", "done"} /\ sends[i].result = "OK" => Count(i) = 1

Before(q, i, j) == \E k, l \in DOMAIN q : k < l /\ q[k] = i /\ q[l] = j

\* The callbacks for a topic come in the order of the events in its stream.
AnsweredInOrder ==
  \A i, j \in DOMAIN sends :
    (/\ Topic(i) = Topic(j) /\ ~IsSync(i) /\ ~IsSync(j)
     /\ Before(stream[Topic(i)], i, j)) => ~Before(answers, j, i)

\* "write the event, wait for it to be durably persisted, and then call the callback
\* function": every send ends with its answer, also beside a send that panicked,
\* unless it is itself the one or a synchronous send has taken the process with it.
EverySendAnswered ==
  \A i \in Ids :
    i \in DOMAIN sends ~>
      handle = "aborted" \/ (i \in DOMAIN sends /\ sends[i].pc \in {"done", "panicked"})
=============================================================================
