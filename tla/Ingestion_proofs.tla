--------------------------- MODULE Ingestion_proofs ---------------------------
(***************************************************************************)
(* Proofs about the way of a span to Kafka: the type invariant, that a     *)
(* span counted as sent is safe, that the publisher's counters account for *)
(* every span, and that a span is copied once, for any number of spans,    *)
(* services and server threads, any batch size, number of attempts and     *)
(* queue length, and any number of bucket changes and faults.              *)
(***************************************************************************)
EXTENDS Ingestion, FunctionTheorems, FiniteSetTheorems, TLAPS

\* A batch that waits for its next attempt has one left.
AttemptsLeft == \A t \in Tasks : task[t].phase = "backoff" => task[t].attempt < SendAttempts

\* TypeOK in parts, with AttemptsLeft.
ClientTyped ==
    /\ stage \in {"running", "cancelled", "stopping", "stopped"}
    /\ buffer \in Seq(Spans) /\ Len(buffer) < BatchMax
    /\ tally \in [published : SUBSET Spans, duplicates : SUBSET Spans, sent : SUBSET Spans,
                  dropped : SUBSET Spans, abandoned : SUBSET Spans]

Task == [phase : {"idle", "call", "backoff"}, batch : Seq(Spans), attempt : 0..SendAttempts]

TasksTyped ==
    /\ task \in [Tasks -> Task]
    /\ \A t \in Tasks : Len(task[t].batch) <= BatchMax
    /\ AttemptsLeft

Thread == [caller : Tasks \cup {Nobody}, todo : Seq(Spans),
           step : {"idle", "check", "ask", "record", "hand"}, bucket : 0..Rotations]

ServerTyped ==
    /\ invalid \in Invalids
    /\ up \in BOOLEAN /\ dedup \in BOOLEAN
    /\ thread \in [Threads -> Thread]
    /\ bloom \in [0..Rotations -> SUBSET Spans]
    /\ bucket \in 0..Rotations

BrokerTyped ==
    /\ queue \in Seq([span : Spans, to : {"raw", "dead"}]) /\ Len(queue) <= QueueMax
    /\ kafka \in [raw : [Spans -> Nat], dead : SUBSET Spans]
    /\ mishaps \in [copied : SUBSET Spans, lost : SUBSET Spans]
    /\ faults \in 0..MaxFaults

TypeInv == ClientTyped /\ TasksTyped /\ ServerTyped /\ BrokerTyped

\* A call that somebody waits for is under way, in one thread.
Calls ==
    \A h \in Threads : thread[h].caller # Nobody =>
        /\ thread[h].step # "idle"
        /\ task[thread[h].caller].phase = "call"
        /\ \A g \in Threads : thread[g].caller = thread[h].caller => g = h

\* A span that was recorded as seen, or that a call is done with, cannot vanish.
Sound(s) == s \in invalid \/ Safe(s)

BloomSound == \A b \in DOMAIN bloom : \A s \in bloom[b] : Sound(s)

DoneIsSound ==
    \A h \in Threads : thread[h].caller # Nobody =>
        \A s \in ToSet(task[thread[h].caller].batch) : s \in ToSet(thread[h].todo) \/ Sound(s)

IInv == TypeInv /\ Calls /\ BloomSound /\ DoneIsSound /\ SentIsSafe

----------------------------------------------------------------------------
(* Sequences. *)

LEMMA AppendFacts ==
    ASSUME NEW S, NEW s \in Seq(S), NEW e \in S
    PROVE  /\ Append(s, e) \in Seq(S)
           /\ Len(s) \in Nat
           /\ Len(Append(s, e)) = Len(s) + 1
           /\ DOMAIN s = 1 .. Len(s)
           /\ DOMAIN Append(s, e) = 1 .. (Len(s) + 1)
           /\ \A i \in 1 .. Len(s) : Append(s, e)[i] = s[i]
           /\ Append(s, e)[Len(s) + 1] = e
  OBVIOUS

LEMMA TailFacts ==
    ASSUME NEW S, NEW s \in Seq(S), s # <<>>
    PROVE  /\ Head(s) \in S
           /\ Head(s) = s[1]
           /\ Tail(s) \in Seq(S)
           /\ Len(s) \in Nat \ {0}
           /\ Len(Tail(s)) = Len(s) - 1
           /\ DOMAIN s = 1 .. Len(s)
           /\ DOMAIN Tail(s) = 1 .. (Len(s) - 1)
           /\ \A i \in 1 .. (Len(s) - 1) : Tail(s)[i] = s[i + 1]
  OBVIOUS

\* Every element is the first one or in the rest.
LEMMA HeadOrTail ==
    ASSUME NEW S, NEW s \in Seq(S), s # <<>>, NEW x \in ToSet(s)
    PROVE  x = Head(s) \/ x \in ToSet(Tail(s))
<1>1. PICK i \in DOMAIN s : s[i] = x
  BY DEF ToSet
<1>2. CASE i = 1
  BY <1>1, <1>2, TailFacts
<1>3. CASE i # 1
  <2>1. i - 1 \in DOMAIN Tail(s) /\ Tail(s)[i - 1] = s[i]
    BY <1>1, <1>3, TailFacts
  <2> QED
    BY <1>1, <2>1 DEF ToSet
<1> QED
  BY <1>2, <1>3

LEMMA ToSetTyped ==
    ASSUME NEW S, NEW s \in Seq(S)
    PROVE  ToSet(s) \subseteq S
  BY DEF ToSet

----------------------------------------------------------------------------
(* Types. *)

LEMMA InitTyped == Init => TypeInv
  BY IngestionAssumption
  DEF Init, TypeInv, ClientTyped, TasksTyped, Task, ServerTyped, Thread, BrokerTyped,
      AttemptsLeft, IdleTask, IdleThread, Nobody, Tasks

LEMMA Typed == TypeInv => TypeOK
  BY DEF TypeInv, TypeOK, ClientTyped, TasksTyped, Task, ServerTyped, Thread, BrokerTyped

LEMMA FaultTyped ==
    ASSUME faults \in 0..MaxFaults, Fault
    PROVE  faults' \in 0..MaxFaults
  BY IngestionAssumption DEF Fault

\* A task with its call begun, given up or tried again.
LEMMA TaskFacts ==
    ASSUME TypeInv, NEW t \in Tasks
    PROVE  /\ IdleTask \in Task /\ Len(IdleTask.batch) <= BatchMax
           /\ \A b \in Seq(Spans) : Called(b) \in Task
           /\ task[t] \in Task
           /\ ToSet(task[t].batch) \subseteq Spans
  BY IngestionAssumption, ToSetTyped
  DEF TypeInv, TasksTyped, Task, IdleTask, Called

LEMMA FailedTyped ==
    ASSUME TypeInv, NEW t \in Tasks, Failed(t), UNCHANGED <<stage, buffer>>
    PROVE  ClientTyped' /\ TasksTyped'
<1>1. ClientTyped /\ TasksTyped
  BY DEF TypeInv
<1>2. CASE task[t].attempt = SendAttempts
  <2>1. task' = [task EXCEPT ![t] = IdleTask]
    BY <1>2 DEF Failed
  <2>2. tally' = [tally EXCEPT !.dropped = @ \cup ToSet(task[t].batch)]
    BY <1>2 DEF Failed
  <2>3. ClientTyped'
    BY <1>1, <2>2, TaskFacts DEF ClientTyped
  <2>4. TasksTyped'
    BY <1>1, <2>1, TaskFacts DEF TasksTyped, AttemptsLeft, IdleTask
  <2> QED
    BY <2>3, <2>4
<1>3. CASE task[t].attempt # SendAttempts
  <2> DEFINE waiting == [task[t] EXCEPT !.phase = "backoff"]
  <2>1. task' = [task EXCEPT ![t] = waiting]
    BY <1>3 DEF Failed
  <2>2. waiting \in Task /\ waiting.batch = task[t].batch /\ waiting.attempt < SendAttempts
    BY <1>3, TaskFacts, IngestionAssumption DEF Task
  <2> HIDE DEF waiting
  <2>3. TasksTyped'
    BY <1>1, <2>1, <2>2 DEF TasksTyped, AttemptsLeft
  <2>4. ClientTyped'
    BY <1>1, <1>3 DEF Failed, ClientTyped
  <2> QED
    BY <2>3, <2>4
<1> QED
  BY <1>2, <1>3

LEMMA CancelTyped ==
    ASSUME TypeInv, NEW tasks \in SUBSET Tasks, Cancel(tasks)
    PROVE  TasksTyped' /\ tally'.abandoned \subseteq Spans
<1>1. ClientTyped /\ TasksTyped
  BY DEF TypeInv
<1>2. TasksTyped'
  BY <1>1, TaskFacts, IngestionAssumption
  DEF Cancel, TasksTyped, AttemptsLeft, IdleTask, Task
<1>3. UNION {ToSet(task[t].batch) : t \in tasks} \subseteq Spans
  BY TaskFacts
<1>4. tally'.abandoned \subseteq Spans
  BY <1>1, <1>3 DEF Cancel, ClientTyped
<1> QED
  BY <1>2, <1>4

LEMMA ThreadFacts ==
    ASSUME TypeInv, NEW h \in Threads
    PROVE  /\ IdleThread \in Thread /\ thread[h] \in Thread
           /\ thread[h].todo # <<>> => /\ SpanOf(h) \in Spans
                                       /\ SpanOf(h) = thread[h].todo[1]
                                       /\ Tail(thread[h].todo) \in Seq(Spans)
  BY IngestionAssumption, TailFacts
  DEF TypeInv, ServerTyped, Thread, IdleThread, SpanOf

\* What a handler does to its own thread keeps the types of the server's.
LEMMA HandlerTyped ==
    ASSUME TypeInv, NEW h \in Threads,
           \/ Free(h)
           \/ thread[h].todo # <<>> /\ NextSpan(h)
           \/ \E step \in {"record", "hand"} : Goto(h, step)
    PROVE  thread' \in [Threads -> Thread]
<1>1. thread \in [Threads -> Thread]
  BY DEF TypeInv, ServerTyped
<1>2. PICK r \in Thread : thread' = [thread EXCEPT ![h] = r]
  <2>1. CASE Free(h)
    BY <2>1, ThreadFacts DEF Free
  <2>2. CASE thread[h].todo # <<>> /\ NextSpan(h)
    <3>1. [thread[h] EXCEPT !.todo = Tail(@), !.step = "check"] \in Thread
      BY <2>2, ThreadFacts DEF Thread
    <3> QED
      BY <2>2, <3>1 DEF NextSpan
  <2>3. CASE \E step \in {"record", "hand"} : Goto(h, step)
    <3>1. PICK step \in {"record", "hand"} : Goto(h, step)
      BY <2>3
    <3>2. [thread[h] EXCEPT !.step = step] \in Thread
      BY ThreadFacts DEF Thread
    <3> QED
      BY <3>1, <3>2 DEF Goto
  <2> QED
    BY <2>1, <2>2, <2>3
<1> QED
  BY <1>1, <1>2

LEMMA UnheardTyped ==
    ASSUME TypeInv, NEW tasks, thread' = Unheard(tasks)
    PROVE  thread' \in [Threads -> Thread]
<1>1. thread \in [Threads -> Thread] /\ Nobody \in Tasks \cup {Nobody}
  BY DEF TypeInv, ServerTyped
<1>2. ASSUME NEW h \in Threads PROVE [thread[h] EXCEPT !.caller = Nobody] \in Thread
  BY <1>1 DEF Thread
<1>3. thread' = [h \in Threads |-> IF thread[h].caller \in tasks
                                  THEN [thread[h] EXCEPT !.caller = Nobody]
                                  ELSE thread[h]]
  BY DEF Unheard
<1> QED
  BY <1>1, <1>2, <1>3

\* Actions of the simulator.
LEMMA ClientStepTyped ==
    ASSUME TypeInv,
           NEW t \in Tasks,
           \/ \E s \in Spans : Publish(t, s) \/ PublishDuplicate(t, s)
           \/ Flush(t) \/ CallFails(t) \/ Retry(t)
           \/ CancelServices \/ CancelFlusher \/ Stopped
    PROVE  TypeInv'
<1> USE DEF TypeInv
<1>1. ClientTyped /\ TasksTyped /\ ServerTyped /\ BrokerTyped
  OBVIOUS
<1>2. ASSUME NEW s \in Spans, Publish(t, s) PROVE TypeInv'
  <2>1. /\ Append(buffer, s) \in Seq(Spans)
        /\ Len(Append(buffer, s)) = Len(buffer) + 1
        /\ Len(buffer) \in Nat /\ Len(<<>>) = 0 /\ <<>> \in Seq(Spans)
    BY <1>1, AppendFacts DEF ClientTyped
  <2>2. stage' = stage /\ ServerTyped' /\ BrokerTyped'
    BY <1>1, <1>2
    DEF Publish, server, process, filter, broker, history, ServerTyped, BrokerTyped
  <2>3. tally' \in [published : SUBSET Spans, duplicates : SUBSET Spans, sent : SUBSET Spans,
                    dropped : SUBSET Spans, abandoned : SUBSET Spans]
    BY <1>1, <1>2 DEF Publish, ClientTyped
  <2>4. CASE Len(buffer) + 1 >= BatchMax
    <3>1. task' = [task EXCEPT ![t] = Called(Append(buffer, s))] /\ buffer' = <<>>
      BY <1>2, <2>4 DEF Publish
    <3>2. Len(buffer) + 1 <= BatchMax
      BY <1>1, <2>1, IngestionAssumption DEF ClientTyped
    <3>3. Called(Append(buffer, s)) \in Task
      BY <2>1, TaskFacts
    <3>4. TasksTyped'
      BY <1>1, <2>1, <3>1, <3>2, <3>3 DEF TasksTyped, AttemptsLeft, Called
    <3>5. ClientTyped'
      BY <1>1, <2>1, <2>2, <2>3, <3>1, IngestionAssumption DEF ClientTyped
    <3> QED
      BY <2>2, <3>4, <3>5
  <2>5. CASE ~(Len(buffer) + 1 >= BatchMax)
    <3>1. task' = task /\ buffer' = Append(buffer, s)
      BY <1>2, <2>5 DEF Publish
    <3>2. ClientTyped'
      BY <1>1, <2>1, <2>2, <2>3, <2>5, <3>1, IngestionAssumption DEF ClientTyped
    <3>3. TasksTyped'
      BY <1>1, <3>1 DEF TasksTyped, AttemptsLeft
    <3> QED
      BY <2>2, <3>2, <3>3
  <2> QED
    BY <2>4, <2>5
<1>3. ASSUME NEW s \in Spans, PublishDuplicate(t, s) PROVE TypeInv'
  <2>1. ClientTyped'
    BY <1>1, <1>3 DEF PublishDuplicate, ClientTyped
  <2>2. TasksTyped' /\ ServerTyped'
    BY <1>1, <1>3
    DEF PublishDuplicate, TasksTyped, AttemptsLeft, ServerTyped, server, process, filter
  <2>3. BrokerTyped'
    BY <1>1, <1>3, FaultTyped DEF PublishDuplicate, BrokerTyped, broker
  <2> QED
    BY <2>1, <2>2, <2>3
<1>4. CASE Flush(t)
  <2>1. /\ task' = [task EXCEPT ![t] = Called(buffer)] /\ buffer' = <<>>
        /\ stage' = stage /\ tally' = tally
    BY <1>4 DEF Flush
  <2>2. Called(buffer) \in Task /\ Len(buffer) <= BatchMax
    BY <1>1, TaskFacts, IngestionAssumption DEF ClientTyped
  <2>3. TasksTyped'
    BY <1>1, <2>1, <2>2 DEF TasksTyped, AttemptsLeft, Called
  <2>4. ClientTyped'
    BY <1>1, <2>1, IngestionAssumption DEF ClientTyped
  <2>5. ServerTyped' /\ BrokerTyped'
    BY <1>1, <1>4
    DEF Flush, server, process, filter, broker, history, ServerTyped, BrokerTyped
  <2> QED
    BY <2>3, <2>4, <2>5
<1>5. CASE CallFails(t)
  <2>1. ClientTyped' /\ TasksTyped'
    BY <1>5, FailedTyped DEF CallFails
  <2>2. thread' \in [Threads -> Thread]
    BY <1>5, UnheardTyped DEF CallFails
  <2>3. ServerTyped' /\ BrokerTyped'
    BY <1>1, <1>5, <2>2
    DEF CallFails, process, filter, broker, history, ServerTyped, BrokerTyped
  <2> QED
    BY <2>1, <2>3
<1>6. CASE Retry(t)
  <2> DEFINE again == [task[t] EXCEPT !.phase = "call", !.attempt = @ + 1]
  <2>1. task' = [task EXCEPT ![t] = again]
    BY <1>6 DEF Retry
  <2>2. task[t] \in Task /\ task[t].attempt < SendAttempts
    BY <1>1, <1>6, TaskFacts DEF Retry, TasksTyped, AttemptsLeft
  <2>3. task[t].attempt + 1 \in 0..SendAttempts
    BY <2>2, IngestionAssumption DEF Task
  <2>4. again \in Task /\ again.batch = task[t].batch /\ again.phase = "call"
    BY <2>2, <2>3 DEF Task
  <2> HIDE DEF again
  <2>5. TasksTyped'
    BY <1>1, <2>1, <2>4 DEF TasksTyped, AttemptsLeft
  <2>6. ClientTyped' /\ ServerTyped' /\ BrokerTyped'
    BY <1>1, <1>6
    DEF Retry, ClientTyped, server, process, filter, broker, history, ServerTyped, BrokerTyped
  <2> QED
    BY <2>5, <2>6
<1>7. CASE CancelServices \/ CancelFlusher
  <2>1. PICK tasks \in SUBSET Tasks :
           /\ Cancel(tasks)
           /\ stage' \in {"cancelled", "stopping"}
           /\ UNCHANGED <<buffer, invalid, process, filter, broker, history>>
    BY <1>7 DEF CancelServices, CancelFlusher, Tasks
  <2>2. TasksTyped' /\ tally'.abandoned \subseteq Spans
    BY <2>1, CancelTyped
  <2>3. ClientTyped'
    BY <1>1, <2>1, <2>2 DEF ClientTyped, Cancel
  <2>4. thread' \in [Threads -> Thread]
    BY <2>1, UnheardTyped DEF Cancel
  <2>5. ServerTyped' /\ BrokerTyped'
    BY <1>1, <2>1, <2>4
    DEF process, filter, broker, history, ServerTyped, BrokerTyped
  <2> QED
    BY <2>2, <2>3, <2>5
<1>8. CASE Stopped
  <2>1. ClientTyped' /\ TasksTyped' /\ ServerTyped' /\ BrokerTyped'
    BY <1>1, <1>8
    DEF Stopped, ClientTyped, TasksTyped, AttemptsLeft, ServerTyped, BrokerTyped, server,
        process, filter, broker, history
  <2> QED
    BY <2>1
<1> QED
  BY <1>2, <1>3, <1>4, <1>5, <1>6, <1>7, <1>8

Message == [span : Spans, to : {"raw", "dead"}]

LEMMA MessageFacts ==
    ASSUME TypeInv, NEW s \in Spans, NEW to \in {"raw", "dead"},
           NEW rest \in Seq(Message)
    PROVE  /\ Append(rest, [span |-> s, to |-> to]) \in Seq(Message)
           /\ Len(Append(rest, [span |-> s, to |-> to])) = Len(rest) + 1
           /\ Len(rest) \in Nat
<1>1. [span |-> s, to |-> to] \in Message
  BY DEF Message
<1> QED
  BY <1>1, AppendFacts

\* A dead letter takes room for one more message, or none.
LEMMA DeadLetterTyped ==
    ASSUME TypeInv, NEW s \in Spans, NEW room \in BOOLEAN, NEW rest \in Seq(Message),
           IF room THEN Len(rest) < QueueMax ELSE Len(rest) <= QueueMax,
           DeadLetter(s, room, rest)
    PROVE  /\ queue' \in Seq(Message) /\ Len(queue') <= QueueMax
           /\ mishaps' \in [copied : SUBSET Spans, lost : SUBSET Spans]
<1>1. mishaps \in [copied : SUBSET Spans, lost : SUBSET Spans]
  BY DEF TypeInv, BrokerTyped
<1>2. CASE room
  <2>1. queue' = Append(rest, [span |-> s, to |-> "dead"]) /\ mishaps' = mishaps
    BY <1>2 DEF DeadLetter
  <2>2. /\ queue' \in Seq(Message) /\ Len(queue') = Len(rest) + 1
        /\ Len(rest) \in Nat
    BY <2>1, MessageFacts
  <2> QED
    BY <1>1, <1>2, <2>1, <2>2, IngestionAssumption
<1>3. CASE ~room
  BY <1>1, <1>3 DEF DeadLetter, MayLose
<1> QED
  BY <1>2, <1>3

LEMMA MayTyped ==
    ASSUME TypeInv, NEW s \in Spans,
           MayCopy(s) \/ MayLose(s) \/ UNCHANGED mishaps
    PROVE  mishaps' \in [copied : SUBSET Spans, lost : SUBSET Spans]
  BY DEF TypeInv, BrokerTyped, MayCopy, MayLose

\* Actions of the server's threads.
LEMMA HandleTyped ==
    ASSUME TypeInv, NEW h \in Threads, Handle(h)
    PROVE  TypeInv'
<1> USE DEF TypeInv
<1>1. ClientTyped /\ TasksTyped /\ ServerTyped /\ BrokerTyped
  OBVIOUS
<1>2. thread[h].todo # <<>> => SpanOf(h) \in Spans
  BY ThreadFacts
<1>3. CASE \E t \in Tasks : Start(h, t)
  <2>1. PICK t \in Tasks : Start(h, t)
    BY <1>3
  <2>2. [caller |-> t, todo |-> task[t].batch, step |-> "check", bucket |-> 0] \in Thread
    BY <1>1, TaskFacts, IngestionAssumption DEF Task, Thread, ServerTyped
  <2>3. thread' \in [Threads -> Thread]
    BY <1>1, <2>1, <2>2 DEF Start, ServerTyped
  <2> QED
    BY <1>1, <2>1, <2>3
    DEF Start, client, process, filter, broker, history, ClientTyped, TasksTyped,
        AttemptsLeft, ServerTyped, BrokerTyped
<1>4. CASE Reject(h)
  <2>1. thread' \in [Threads -> Thread]
    BY <1>4, HandlerTyped DEF Reject, Now
  <2> QED
    BY <1>1, <1>4, <2>1
    DEF Reject, client, process, filter, broker, history, ClientTyped, TasksTyped,
        AttemptsLeft, ServerTyped, BrokerTyped
<1>5. CASE CheckSeen(h)
  <2>1. thread' \in [Threads -> Thread]
    BY <1>5, HandlerTyped DEF CheckSeen, Now
  <2>2. faults' \in 0..MaxFaults
    BY <1>1, <1>5, FaultTyped DEF CheckSeen, history, BrokerTyped
  <2>3. mishaps' \in [copied : SUBSET Spans, lost : SUBSET Spans]
    BY <1>2, <1>5, MayTyped DEF CheckSeen, history, Now
  <2>4. UNCHANGED <<stage, buffer, task, tally, invalid, up, dedup, bloom, bucket, queue, kafka>>
    BY <1>5 DEF CheckSeen, client, process, filter, broker
  <2>5. ClientTyped' /\ TasksTyped'
    BY <1>1, <2>4 DEF ClientTyped, TasksTyped, AttemptsLeft
  <2>6. ServerTyped' /\ BrokerTyped'
    BY <1>1, <2>1, <2>2, <2>3, <2>4 DEF ServerTyped, BrokerTyped
  <2> QED
    BY <2>5, <2>6
<1>6. CASE CheckNew(h)
  <2>1. thread' \in [Threads -> Thread]
    BY <1>6, HandlerTyped DEF CheckNew
  <2>2. mishaps' \in [copied : SUBSET Spans, lost : SUBSET Spans]
    BY <1>2, <1>6, MayTyped DEF CheckNew, Now
  <2> QED
    BY <1>1, <1>6, <2>1, <2>2
    DEF CheckNew, client, process, filter, broker, ClientTyped, TasksTyped,
        AttemptsLeft, ServerTyped, BrokerTyped
<1>13. CASE ChooseBucket(h)
  <2>1. thread' \in [Threads -> Thread]
    <3>1. [thread[h] EXCEPT !.step = "ask", !.bucket = bucket] \in Thread
      <4>1. thread[h] \in Thread /\ bucket \in 0..Rotations
        BY <1>1, ThreadFacts DEF ServerTyped
      <4> QED
        BY <4>1 DEF Thread
    <3> QED
      BY <1>1, <1>13, <3>1 DEF ChooseBucket, ServerTyped
  <2> QED
    BY <1>1, <1>13, <2>1
    DEF ChooseBucket, client, process, filter, broker, history, ClientTyped, TasksTyped,
        AttemptsLeft, ServerTyped, BrokerTyped
<1>7. CASE Record(h)
  <2>1. thread' \in [Threads -> Thread]
    BY <1>7, HandlerTyped DEF Record
  <2>2. bloom' \in [0..Rotations -> SUBSET Spans]
    BY <1>1, <1>2, <1>7 DEF Record, SetBits, Now, ServerTyped
  <2> QED
    BY <1>1, <1>7, <2>1, <2>2
    DEF Record, client, process, broker, history, ClientTyped, TasksTyped,
        AttemptsLeft, ServerTyped, BrokerTyped
<1>8. CASE SkipDedup(h)
  <2>1. thread' \in [Threads -> Thread]
    BY <1>8, HandlerTyped DEF SkipDedup
  <2>2. bloom' \in [0..Rotations -> SUBSET Spans]
    BY <1>1, <1>2, <1>8 DEF SkipDedup, SetBits, Now, ServerTyped
  <2>3. faults' \in 0..MaxFaults
    BY <1>1, <1>8, FaultTyped DEF SkipDedup, BrokerTyped
  <2>4. mishaps' \in [copied : SUBSET Spans, lost : SUBSET Spans]
    BY <1>2, <1>8, MayTyped DEF SkipDedup, Now
  <2> QED
    BY <1>1, <1>8, <2>1, <2>2, <2>3, <2>4
    DEF SkipDedup, client, process, broker, ClientTyped, TasksTyped,
        AttemptsLeft, ServerTyped, BrokerTyped
<1>9. CASE HandOver(h)
  <2>1. thread' \in [Threads -> Thread]
    BY <1>9, HandlerTyped DEF HandOver, Now
  <2>2. /\ queue \in Seq(Message) /\ Len(queue) < QueueMax
        /\ queue' = Append(queue, [span |-> SpanOf(h), to |-> "raw"])
    BY <1>1, <1>9, IngestionAssumption DEF HandOver, Full, BrokerTyped, Message
  <2>3. SpanOf(h) \in Spans
    BY <1>2, <1>9 DEF HandOver, Now
  <2>4. /\ queue' \in Seq(Message) /\ Len(queue') = Len(queue) + 1
        /\ Len(queue) \in Nat
    BY <2>2, <2>3, MessageFacts
  <2>5. Len(queue') <= QueueMax
    BY <2>2, <2>4, IngestionAssumption
  <2> QED
    BY <1>1, <1>9, <2>1, <2>4, <2>5
    DEF HandOver, client, process, filter, history, ClientTyped, TasksTyped,
        AttemptsLeft, ServerTyped, BrokerTyped, Message
<1>10. CASE SerialisationFails(h)
  <2>1. thread' \in [Threads -> Thread]
    BY <1>10, HandlerTyped DEF SerialisationFails, Now
  <2>2. /\ queue \in Seq(Message) /\ Len(queue) <= QueueMax /\ Len(queue) \in Nat
        /\ Full \in BOOLEAN /\ (~Full => Len(queue) < QueueMax)
    BY <1>1, IngestionAssumption DEF Full, BrokerTyped, Message
  <2>3. /\ queue' \in Seq(Message) /\ Len(queue') <= QueueMax
        /\ mishaps' \in [copied : SUBSET Spans, lost : SUBSET Spans]
    BY <1>2, <1>10, <2>2, DeadLetterTyped DEF SerialisationFails, Now
  <2>4. faults' \in 0..MaxFaults
    BY <1>1, <1>10, FaultTyped DEF SerialisationFails, BrokerTyped
  <2> QED
    BY <1>1, <1>10, <2>1, <2>3, <2>4
    DEF SerialisationFails, client, process, filter, ClientTyped, TasksTyped,
        AttemptsLeft, ServerTyped, BrokerTyped, Message
<1>11. CASE HandOverRaises(h)
  <2>1. thread' \in [Threads -> Thread]
    BY <1>11, HandlerTyped DEF HandOverRaises
  <2>2. mishaps' \in [copied : SUBSET Spans, lost : SUBSET Spans]
    BY <1>2, <1>11, MayTyped DEF HandOverRaises, Now
  <2>3. ClientTyped' /\ TasksTyped'
    <3>1. CASE thread[h].caller = Nobody
      BY <1>1, <1>11, <3>1 DEF HandOverRaises, ClientTyped, TasksTyped, AttemptsLeft
    <3>2. CASE thread[h].caller # Nobody
      <4>1. thread[h].caller \in Tasks /\ Failed(thread[h].caller)
        BY <1>11, <3>2, ThreadFacts DEF HandOverRaises, Thread
      <4> QED
        BY <1>11, <4>1, FailedTyped DEF HandOverRaises
    <3> QED
      BY <3>1, <3>2
  <2> QED
    BY <1>1, <1>11, <2>1, <2>2, <2>3
    DEF HandOverRaises, process, filter, broker, ServerTyped, BrokerTyped
<1>12. CASE Answer(h)
  <2>1. thread' \in [Threads -> Thread]
    BY <1>12, HandlerTyped DEF Answer
  <2>2. ClientTyped' /\ TasksTyped'
    <3>1. CASE thread[h].caller = Nobody
      BY <1>1, <1>12, <3>1 DEF Answer, ClientTyped, TasksTyped, AttemptsLeft
    <3>2. CASE thread[h].caller # Nobody
      <4>1. PICK t \in Tasks : /\ tally' = [tally EXCEPT !.sent = @ \cup ToSet(task[t].batch)]
                               /\ task' = [task EXCEPT ![t] = IdleTask]
        BY <1>12, <3>2, ThreadFacts DEF Answer, Thread
      <4>2. ClientTyped'
        BY <1>1, <1>12, <4>1, TaskFacts DEF Answer, ClientTyped
      <4>3. TasksTyped'
        BY <1>1, <4>1, TaskFacts DEF TasksTyped, AttemptsLeft, IdleTask
      <4> QED
        BY <4>2, <4>3
    <3> QED
      BY <3>1, <3>2
  <2> QED
    BY <1>1, <1>12, <2>1, <2>2
    DEF Answer, process, filter, broker, history, ServerTyped, BrokerTyped
<1> QED
  BY <1>3, <1>4, <1>5, <1>6, <1>7, <1>8, <1>9, <1>10, <1>11, <1>12, <1>13
  DEF Handle

\* Actions of the producer, of Redis and of the process.
LEMMA BrokerStepTyped ==
    ASSUME TypeInv, Deliver \/ DeliveryFails \/ NextBucket \/ Exit \/ Restart
    PROVE  TypeInv'
<1> USE DEF TypeInv
<1>1. ClientTyped /\ TasksTyped /\ ServerTyped /\ BrokerTyped
  OBVIOUS
<1>2. /\ queue \in Seq(Message) /\ Len(queue) <= QueueMax /\ Len(queue) \in Nat
      /\ queue # <<>> => /\ Head(queue) \in Message
                         /\ Tail(queue) \in Seq(Message)
                         /\ Len(Tail(queue)) = Len(queue) - 1
  <2>1. queue \in Seq(Message) /\ Len(queue) <= QueueMax
    BY <1>1 DEF BrokerTyped, Message
  <2> QED
    BY <2>1, TailFacts
<1>3. CASE Deliver
  <2>1. queue' \in Seq(Message) /\ Len(queue') <= QueueMax
    BY <1>2, <1>3, IngestionAssumption DEF Deliver
  <2>2. kafka' \in [raw : [Spans -> Nat], dead : SUBSET Spans]
    <3>1. Head(queue).span \in Spans
      BY <1>2, <1>3 DEF Deliver, Message
    <3>2. /\ kafka \in [raw : [Spans -> Nat], dead : SUBSET Spans]
          /\ kafka.raw[Head(queue).span] + 1 \in Nat
      BY <1>1, <3>1 DEF BrokerTyped
    <3>3. CASE Head(queue).to = "raw"
      BY <1>3, <3>1, <3>2, <3>3 DEF Deliver
    <3>4. CASE Head(queue).to # "raw"
      BY <1>3, <3>1, <3>2, <3>4 DEF Deliver
    <3> QED
      BY <3>3, <3>4
  <2> QED
    BY <1>1, <1>3, <2>1, <2>2
    DEF Deliver, client, server, process, filter, history, ClientTyped, TasksTyped,
        AttemptsLeft, ServerTyped, BrokerTyped, Message
<1>4. CASE DeliveryFails
  <2> DEFINE m == Head(queue)
  <2>1. m \in Message /\ m.span \in Spans /\ (m.to = "raw") \in BOOLEAN
    BY <1>2, <1>4 DEF DeliveryFails, Message
  <2>2. DeadLetter(m.span, m.to = "raw", Tail(queue))
    BY <1>4 DEF DeliveryFails
  <2>3. Tail(queue) \in Seq(Message) /\ Len(Tail(queue)) < QueueMax
    BY <1>2, <1>4, IngestionAssumption DEF DeliveryFails
  <2>4. /\ queue' \in Seq(Message) /\ Len(queue') <= QueueMax
        /\ mishaps' \in [copied : SUBSET Spans, lost : SUBSET Spans]
    <3> HIDE DEF m
    <3>1. IF m.to = "raw" THEN Len(Tail(queue)) < QueueMax ELSE Len(Tail(queue)) <= QueueMax
      BY <1>2, <2>3, IngestionAssumption
    <3> QED
      BY <2>1, <2>2, <2>3, <3>1, DeadLetterTyped
  <2>5. kafka' \in [raw : [Spans -> Nat], dead : SUBSET Spans]
    BY <1>1, <1>4, <2>1 DEF DeliveryFails, BrokerTyped
  <2>6. faults' \in 0..MaxFaults
    BY <1>1, <1>4, FaultTyped DEF DeliveryFails, BrokerTyped
  <2> QED
    BY <1>1, <1>4, <2>4, <2>5, <2>6
    DEF DeliveryFails, client, server, process, filter, ClientTyped, TasksTyped,
        AttemptsLeft, ServerTyped, BrokerTyped, Message
<1>5. CASE NextBucket
  BY <1>1, <1>5, IngestionAssumption
  DEF NextBucket, client, process, broker, history, ClientTyped, TasksTyped,
      AttemptsLeft, ServerTyped, BrokerTyped
<1>6. CASE Exit
  <2>1. thread' \in [Threads -> Thread] /\ up' \in BOOLEAN
    BY <1>6, ThreadFacts DEF Exit
  <2>2. /\ {m.span : m \in ToSet(queue)} \subseteq Spans
        /\ {SpanOf(h) : h \in {g \in Threads : Now(g, "hand")}} \subseteq Spans
    <3>1. ToSet(queue) \subseteq Message
      BY <1>2, ToSetTyped
    <3> QED
      BY <3>1, ThreadFacts DEF Message, Now
  <2>3. mishaps' \in [copied : SUBSET Spans, lost : SUBSET Spans]
    BY <1>1, <1>6, <2>2 DEF Exit, BrokerTyped
  <2>4. faults' \in 0..MaxFaults
    BY <1>1, <1>6, FaultTyped DEF Exit, BrokerTyped
  <2>5. queue' \in Seq(Message) /\ Len(queue') <= QueueMax
    BY <1>6, IngestionAssumption DEF Exit
  <2> QED
    BY <1>1, <1>6, <2>1, <2>3, <2>4, <2>5
    DEF Exit, client, filter, ClientTyped, TasksTyped,
        AttemptsLeft, ServerTyped, BrokerTyped, Message
<1>7. CASE Restart
  BY <1>1, <1>7
  DEF Restart, client, filter, broker, history, ClientTyped, TasksTyped,
      AttemptsLeft, ServerTyped, BrokerTyped
<1> QED
  BY <1>3, <1>4, <1>5, <1>6, <1>7

\* Every step keeps the types.
LEMMA NextTyped ==
    ASSUME TypeInv, [Next]_vars
    PROVE  TypeInv'
<1>1. CASE \E t \in Services, s \in Spans : Publish(t, s) \/ PublishDuplicate(t, s)
  BY <1>1, ClientStepTyped DEF Tasks
<1>2. CASE \E t \in Tasks : Flush(t) \/ CallFails(t) \/ Retry(t)
  BY <1>2, ClientStepTyped
<1>3. CASE CancelServices \/ CancelFlusher \/ Stopped
  BY <1>3, ClientStepTyped DEF Tasks
<1>4. CASE \E h \in Threads : Handle(h)
  BY <1>4, HandleTyped
<1>5. CASE Deliver \/ DeliveryFails \/ NextBucket \/ Exit \/ Restart
  BY <1>5, BrokerStepTyped
<1>6. CASE UNCHANGED vars
  BY <1>6
  DEF TypeInv, ClientTyped, TasksTyped, AttemptsLeft, ServerTyped, BrokerTyped, vars,
      client, server, process, filter, broker, history
<1> QED
  BY <1>1, <1>2, <1>3, <1>4, <1>5, <1>6 DEF Next

\* Every variable keeps its type, and neither a batch, nor the buffer, nor the producer's
\* queue gets longer than its limit.
THEOREM TypeCorrect == Spec => []TypeOK
<1>1. Init => TypeInv
  BY InitTyped
<1>2. TypeInv /\ [Next]_vars => TypeInv'
  BY NextTyped
<1>3. TypeInv => TypeOK
  BY Typed
<1> QED
  BY <1>1, <1>2, <1>3, PTL DEF Spec

----------------------------------------------------------------------------
(* What is safe stays safe. *)

InQueue(s) == \E i \in DOMAIN queue : queue[i].span = s
InHand(s) == \E h \in Threads : Now(h, "hand") /\ SpanOf(h) = s

LEMMA AppendKeepsQueue ==
    ASSUME TypeInv, NEW m \in Message, queue' = Append(queue, m)
    PROVE  /\ \A s : InQueue(s) => InQueue(s)'
           /\ InQueue(m.span)'
<1>1. /\ DOMAIN queue = 1 .. Len(queue) /\ DOMAIN queue' = 1 .. (Len(queue) + 1)
      /\ Len(queue) \in Nat
      /\ \A i \in 1 .. Len(queue) : queue'[i] = queue[i]
      /\ queue'[Len(queue) + 1] = m
  <2>1. queue \in Seq(Message)
    BY DEF TypeInv, BrokerTyped, Message
  <2> QED
    BY <2>1, AppendFacts
<1>2. ASSUME NEW s, InQueue(s) PROVE InQueue(s)'
  <2>1. PICK i \in DOMAIN queue : queue[i].span = s
    BY <1>2 DEF InQueue
  <2>2. i \in DOMAIN queue' /\ queue'[i].span = s
    BY <1>1, <2>1
  <2> QED
    BY <2>2 DEF InQueue
<1>3. InQueue(m.span)'
  <2>1. Len(queue) + 1 \in DOMAIN queue'
    BY <1>1
  <2> QED
    BY <1>1, <2>1 DEF InQueue
<1> QED
  BY <1>2, <1>3

\* What a step of a handler does to other threads and to spans on their way.
HandlerStep(h) ==
    /\ UNCHANGED <<invalid, kafka>>
    /\ mishaps.lost \subseteq mishaps'.lost
    /\ \E r : thread' = [thread EXCEPT ![h] = r]
    /\ \A s : InQueue(s) => InQueue(s)'
    /\ \A s : Now(h, "hand") /\ SpanOf(h) = s => InQueue(s)' \/ s \in mishaps'.lost

LEMMA SafeKeptByHandler ==
    ASSUME TypeInv, NEW h \in Threads, HandlerStep(h), NEW s, Safe(s)
    PROVE  Safe(s)'
<1> USE DEF HandlerStep
<1>1. CASE kafka.raw[s] > 0 \/ s \in kafka.dead \/ s \in mishaps.lost \/ InQueue(s)
  BY <1>1 DEF Safe, InQueue
<1>2. ASSUME NEW g \in Threads, Now(g, "hand"), SpanOf(g) = s PROVE Safe(s)'
  <2>1. CASE g = h
    BY <1>2, <2>1 DEF Safe, InQueue
  <2>2. CASE g # h
    <3>1. thread'[g] = thread[g]
      BY <2>2 DEF TypeInv, ServerTyped
    <3>2. Now(g, "hand")' /\ SpanOf(g)' = s
      BY <1>2, <3>1 DEF Now, SpanOf
    <3> QED
      BY <3>2 DEF Safe
  <2> QED
    BY <2>1, <2>2
<1> QED
  BY <1>1, <1>2 DEF Safe, InQueue

LEMMA HandlerSteps ==
    ASSUME TypeInv, NEW h \in Threads, Handle(h)
    PROVE  HandlerStep(h)
<1> USE DEF HandlerStep
<1>1. /\ kafka' = kafka /\ invalid' = invalid
      /\ \E r : thread' = [thread EXCEPT ![h] = r]
  BY DEF Handle, Start, Reject, ChooseBucket, CheckSeen, CheckNew, Record, SkipDedup,
         HandOver, SerialisationFails, HandOverRaises, Answer, Goto, NextSpan, Free, broker
<1>2. mishaps \in [copied : SUBSET Spans, lost : SUBSET Spans]
  BY DEF TypeInv, BrokerTyped
<1>3. thread[h].todo # <<>> => SpanOf(h) \in Spans
  BY ThreadFacts
<1>4. CASE \/ \E t \in Tasks : Start(h, t)
           \/ Reject(h) \/ ChooseBucket(h) \/ CheckSeen(h) \/ CheckNew(h)
           \/ Record(h) \/ SkipDedup(h) \/ Answer(h)
  <2>1. ~Now(h, "hand")
    BY <1>4
    DEF Start, Reject, ChooseBucket, CheckSeen, CheckNew, Record, SkipDedup, Answer, Now,
        IdleThread
  <2>2. queue' = queue
    BY <1>4
    DEF Start, Reject, ChooseBucket, CheckSeen, CheckNew, Record, SkipDedup, Answer, broker
  <2>3. mishaps.lost \subseteq mishaps'.lost
    BY <1>2, <1>4
    DEF Start, Reject, ChooseBucket, CheckSeen, CheckNew, Record, SkipDedup, Answer, history,
        MayCopy, MayLose
  <2> QED
    BY <1>1, <2>1, <2>2, <2>3 DEF InQueue
<1>5. CASE HandOver(h)
  <2>1. PICK m \in Message : m = [span |-> SpanOf(h), to |-> "raw"]
    BY <1>3, <1>5 DEF HandOver, Now, Message
  <2>2. queue' = Append(queue, m) /\ mishaps' = mishaps
    BY <1>5, <2>1 DEF HandOver, history
  <2>3. (\A s : InQueue(s) => InQueue(s)') /\ InQueue(m.span)'
    BY <2>1, <2>2, AppendKeepsQueue
  <2> QED
    BY <1>1, <2>1, <2>2, <2>3
<1>6. CASE SerialisationFails(h)
  <2>1. PICK m \in Message : m = [span |-> SpanOf(h), to |-> "dead"]
    BY <1>3, <1>6 DEF SerialisationFails, Now, Message
  <2>2. \/ queue' = Append(queue, m) /\ mishaps' = mishaps
        \/ queue' = queue /\ MayLose(SpanOf(h))
    BY <1>6, <2>1 DEF SerialisationFails, DeadLetter
  <2>3. CASE queue' = Append(queue, m) /\ mishaps' = mishaps
    <3>1. (\A s : InQueue(s) => InQueue(s)') /\ InQueue(m.span)'
      BY <2>1, <2>3, AppendKeepsQueue
    <3> QED
      BY <1>1, <2>1, <2>3, <3>1
  <2>4. CASE queue' = queue /\ MayLose(SpanOf(h))
    BY <1>1, <1>2, <2>4 DEF MayLose, InQueue
  <2> QED
    BY <2>2, <2>3, <2>4
<1>7. CASE HandOverRaises(h)
  <2>1. queue' = queue /\ MayLose(SpanOf(h))
    BY <1>7 DEF HandOverRaises, broker
  <2> QED
    BY <1>1, <1>2, <2>1 DEF MayLose, InQueue
<1> QED
  BY <1>4, <1>5, <1>6, <1>7 DEF Handle

\* What a step of the simulator does: threads are no longer heard by some tasks.
ClientStep(tasks) ==
    /\ UNCHANGED <<invalid, bloom, broker, mishaps>>
    /\ thread' = Unheard(tasks)
    /\ \A t \in Tasks \ tasks : task'[t] = task[t]
    /\ tally'.sent = tally.sent

\* Nobody hears a task that makes no call.
LEMMA NoCallUnheard ==
    ASSUME TypeInv, Calls, NEW t \in Tasks, task[t].phase # "call", thread' = thread
    PROVE  thread' = Unheard({t})
<1>1. \A h \in Threads : thread[h].caller # t
  BY IngestionAssumption DEF Calls, Tasks, Nobody
<1> QED
  BY <1>1 DEF Unheard, TypeInv, ServerTyped

LEMMA ClientSteps ==
    ASSUME TypeInv, Calls,
           \/ \E t \in Services, s \in Spans : Publish(t, s) \/ PublishDuplicate(t, s)
           \/ \E t \in Tasks : Flush(t) \/ CallFails(t) \/ Retry(t)
           \/ CancelServices \/ CancelFlusher \/ Stopped
    PROVE  \E tasks \in SUBSET Tasks : ClientStep(tasks)
<1>1. task \in [Tasks -> Task] /\ ClientTyped
  BY DEF TypeInv, TasksTyped
<1>2. ASSUME NEW t \in Tasks, NEW s \in Spans, Publish(t, s) PROVE ClientStep({t})
  <2>1. thread' = Unheard({t})
    BY <1>2, NoCallUnheard DEF Publish, server
  <2> QED
    BY <1>1, <1>2, <2>1
    DEF Publish, ClientStep, server, filter, broker, history, ClientTyped
<1>3. ASSUME NEW t \in Tasks, NEW s \in Spans, PublishDuplicate(t, s) PROVE ClientStep({t})
  <2>1. thread' = Unheard({t})
    BY <1>3, NoCallUnheard DEF PublishDuplicate, server
  <2> QED
    BY <1>1, <1>3, <2>1
    DEF PublishDuplicate, ClientStep, server, filter, broker, ClientTyped
<1>4. ASSUME NEW t \in Tasks, Flush(t) PROVE ClientStep({t})
  <2>1. thread' = Unheard({t})
    BY <1>4, NoCallUnheard DEF Flush, server
  <2> QED
    BY <1>1, <1>4, <2>1 DEF Flush, ClientStep, server, filter, broker, history
<1>5. ASSUME NEW t \in Tasks, CallFails(t) PROVE ClientStep({t})
  BY <1>1, <1>5 DEF CallFails, Failed, ClientStep, filter, broker, history, ClientTyped
<1>6. ASSUME NEW t \in Tasks, Retry(t) PROVE ClientStep({t})
  <2>1. thread' = Unheard({t})
    BY <1>6, NoCallUnheard DEF Retry, server
  <2> QED
    BY <1>1, <1>6, <2>1 DEF Retry, ClientStep, server, filter, broker, history
<1>7. ASSUME NEW tasks \in SUBSET Tasks, Cancel(tasks),
             UNCHANGED <<invalid, filter, broker, history>>
      PROVE  ClientStep(tasks)
  BY <1>1, <1>7 DEF Cancel, ClientStep, filter, broker, history, ClientTyped
<1>8. CASE Stopped
  <2>1. thread' = Unheard({})
    BY <1>8 DEF Stopped, server, Unheard, TypeInv, ServerTyped
  <2>2. ClientStep({})
    BY <1>8, <2>1 DEF Stopped, ClientStep, server, filter, broker, history
  <2> QED
    BY <2>2
<1>9. Services \subseteq Tasks /\ Services \in SUBSET Tasks /\ {"flusher"} \in SUBSET Tasks
  BY DEF Tasks
<1>10. \A t \in Tasks : {t} \in SUBSET Tasks
  OBVIOUS
<1>11. CASE \E t \in Services, s \in Spans : Publish(t, s) \/ PublishDuplicate(t, s)
  BY <1>2, <1>3, <1>9, <1>10, <1>11
<1>12. CASE \E t \in Tasks : Flush(t) \/ CallFails(t) \/ Retry(t)
  BY <1>4, <1>5, <1>6, <1>10, <1>12
<1>13. CASE CancelServices \/ CancelFlusher
  BY <1>7, <1>9, <1>13 DEF CancelServices, CancelFlusher
<1> QED
  BY <1>8, <1>11, <1>12, <1>13

LEMMA SafeKeptByClient ==
    ASSUME TypeInv, NEW tasks \in SUBSET Tasks, ClientStep(tasks), NEW s, Safe(s)
    PROVE  Safe(s)'
<1>1. \A h \in Threads : thread'[h].todo = thread[h].todo /\ thread'[h].step = thread[h].step
  BY ThreadFacts DEF ClientStep, Unheard, Thread
<1>2. \A h \in Threads : Now(h, "hand") /\ SpanOf(h) = s => Now(h, "hand")' /\ SpanOf(h)' = s
  BY <1>1 DEF Now, SpanOf
<1> QED
  BY <1>2 DEF Safe, ClientStep, broker

\* The steps of the producer, of Redis and of the process.
LEMMA SafeKeptByBroker ==
    ASSUME TypeInv, Deliver \/ DeliveryFails \/ NextBucket \/ Exit \/ Restart,
           NEW s \in Spans, Safe(s)
    PROVE  Safe(s)'
<1>1. /\ kafka \in [raw : [Spans -> Nat], dead : SUBSET Spans]
      /\ mishaps \in [copied : SUBSET Spans, lost : SUBSET Spans]
  BY DEF TypeInv, BrokerTyped
<1>2. queue \in Seq(Message)
  BY DEF TypeInv, BrokerTyped, Message
<1>3. CASE NextBucket \/ Restart
  BY <1>3 DEF NextBucket, Restart, broker, history, Safe, Now, SpanOf
<1>4. CASE Exit
  <2>1. mishaps.lost \subseteq mishaps'.lost /\ kafka' = kafka
    BY <1>1, <1>4 DEF Exit
  <2>2. ASSUME InQueue(s) PROVE s \in mishaps'.lost
    <3>1. \E m \in ToSet(queue) : m.span = s
      BY <2>2 DEF InQueue, ToSet
    <3> QED
      BY <1>1, <1>4, <3>1 DEF Exit
  <2>3. ASSUME InHand(s) PROVE s \in mishaps'.lost
    BY <1>1, <1>4, <2>3 DEF Exit, InHand
  <2> QED
    BY <2>1, <2>2, <2>3 DEF Safe, InQueue, InHand
<1>5. CASE Deliver \/ DeliveryFails
  <2> DEFINE m == Head(queue)
  <2>1. /\ queue # <<>> /\ thread' = thread
        /\ mishaps.lost \subseteq mishaps'.lost
        /\ kafka.dead \subseteq kafka'.dead
        /\ \A x \in Spans : kafka.raw[x] > 0 => kafka'.raw[x] > 0
    <3>1. queue # <<>> /\ thread' = thread
      BY <1>5 DEF Deliver, DeliveryFails, server
    <3>2. m \in Message
      BY <1>2, <3>1, TailFacts
    <3>3. mishaps.lost \subseteq mishaps'.lost
      BY <1>1, <1>5 DEF Deliver, DeliveryFails, DeadLetter, MayLose, history
    <3> HIDE DEF m
    <3>4. \/ kafka' = kafka
          \/ kafka' = [kafka EXCEPT !.raw[m.span] = @ + 1]
          \/ kafka' = [kafka EXCEPT !.dead = @ \cup {m.span}]
      BY <1>5 DEF Deliver, DeliveryFails, m
    <3>5. m.span \in Spans
      BY <3>2 DEF Message
    <3> QED
      BY <1>1, <3>1, <3>3, <3>4, <3>5
  <2>2. CASE InQueue(s)
    <3>1. PICK i \in DOMAIN queue : queue[i].span = s
      BY <2>2 DEF InQueue
    <3>2. CASE i = 1
      <4>1. m.span = s /\ m \in Message
        BY <1>2, <2>1, <3>1, <3>2, TailFacts
      <4>2. CASE Deliver
        BY <1>1, <4>1, <4>2 DEF Deliver, Safe
      <4>3. CASE DeliveryFails
        <5>1. CASE m.to = "raw"
          <6>1. PICK d \in Message : d = [span |-> s, to |-> "dead"]
            BY DEF Message
          <6>2. queue' = Append(Tail(queue), d)
            BY <4>1, <4>3, <5>1, <6>1 DEF DeliveryFails, DeadLetter
          <6>3. Tail(queue) \in Seq(Message)
            BY <1>2, <2>1, TailFacts
          <6>4. /\ Len(Tail(queue)) + 1 \in DOMAIN queue'
                /\ queue'[Len(Tail(queue)) + 1] = d
            BY <6>2, <6>3, AppendFacts
          <6> QED
            BY <6>1, <6>4 DEF Safe
        <5>2. CASE m.to # "raw"
          BY <1>1, <4>1, <4>3, <5>2 DEF DeliveryFails, DeadLetter, MayLose, Safe
        <5> QED
          BY <5>1, <5>2
      <4> QED
        BY <1>5, <4>2, <4>3
    <3>3. CASE i # 1
      <4>1. /\ Tail(queue) \in Seq(Message)
            /\ i - 1 \in 1 .. Len(Tail(queue))
            /\ Tail(queue)[i - 1] = queue[i]
        BY <1>2, <2>1, <3>1, <3>3, TailFacts
      <4>2. \/ queue' = Tail(queue)
            \/ \E d \in Message : queue' = Append(Tail(queue), d)
        <5>1. m \in Message
          BY <1>2, <2>1, TailFacts
        <5>2. [span |-> m.span, to |-> "dead"] \in Message
          BY <5>1 DEF Message
        <5> QED
          BY <1>5, <5>2 DEF Deliver, DeliveryFails, DeadLetter
      <4>3. i - 1 \in DOMAIN queue' /\ queue'[i - 1].span = s
        BY <3>1, <4>1, <4>2, AppendFacts
      <4> QED
        BY <4>3 DEF Safe
    <3> QED
      BY <3>2, <3>3
  <2>3. CASE InHand(s) \/ s \in mishaps.lost \/ kafka.raw[s] > 0 \/ s \in kafka.dead
    BY <2>1, <2>3 DEF Safe, InHand, Now, SpanOf
  <2> QED
    BY <2>2, <2>3 DEF Safe, InQueue, InHand
<1> QED
  BY <1>3, <1>4, <1>5

----------------------------------------------------------------------------
(* The invariant. *)

LEMMA InitIInv == Init => IInv
<1> SUFFICES ASSUME Init PROVE IInv
  OBVIOUS
<1>1. TypeInv
  BY InitTyped
<1>2. Calls /\ DoneIsSound
  BY DEF Init, IdleThread, Calls, DoneIsSound
<1>3. BloomSound /\ SentIsSafe
  BY DEF Init, BloomSound, SentIsSafe
<1> QED
  BY <1>1, <1>2, <1>3 DEF IInv

\* The sets a span comes from are sets of spans.
LEMMA SpansTyped ==
    ASSUME TypeInv
    PROVE  /\ tally.sent \subseteq Spans
           /\ \A b \in DOMAIN bloom : bloom[b] \subseteq Spans
           /\ \A t \in Tasks : ToSet(task[t].batch) \subseteq Spans
           /\ \A h \in Threads : thread[h].caller # Nobody => thread[h].caller \in Tasks
<1>1. tally.sent \subseteq Spans
  BY DEF TypeInv, ClientTyped
<1>2. \A b \in DOMAIN bloom : bloom[b] \subseteq Spans
  BY DEF TypeInv, ServerTyped
<1>3. \A h \in Threads : thread[h].caller # Nobody => thread[h].caller \in Tasks
  BY ThreadFacts DEF Thread
<1> QED
  BY <1>1, <1>2, <1>3, TaskFacts

LEMMA ClientKeepsIInv ==
    ASSUME IInv, TypeInv', NEW tasks \in SUBSET Tasks, ClientStep(tasks)
    PROVE  IInv'
<1>1. TypeInv /\ Calls /\ BloomSound /\ DoneIsSound /\ SentIsSafe
  BY DEF IInv
<1>2. ASSUME NEW s, Sound(s) PROVE Sound(s)'
  BY <1>1, <1>2, SafeKeptByClient DEF Sound, ClientStep
<1>3. ASSUME NEW h \in Threads, thread'[h].caller # Nobody
      PROVE  /\ thread'[h] = thread[h] /\ thread[h].caller # Nobody
             /\ task'[thread[h].caller] = task[thread[h].caller]
  <2>1. thread'[h] = IF thread[h].caller \in tasks
                     THEN [thread[h] EXCEPT !.caller = Nobody]
                     ELSE thread[h]
    BY DEF ClientStep, Unheard
  <2>2. thread[h].caller \notin tasks
    BY <1>1, <1>3, <2>1, ThreadFacts DEF Thread
  <2> QED
    BY <1>1, <1>3, <2>1, <2>2, SpansTyped DEF ClientStep
<1>4. Calls'
  <2>1. ASSUME NEW h \in Threads, thread'[h].caller # Nobody
        PROVE  /\ thread'[h].step # "idle"
               /\ task'[thread'[h].caller].phase = "call"
               /\ \A g \in Threads : thread'[g].caller = thread'[h].caller => g = h
    BY <1>1, <1>3, <2>1 DEF Calls
  <2> QED
    BY <2>1 DEF Calls
<1>5. BloomSound'
  <2>1. bloom' = bloom
    BY DEF ClientStep
  <2> QED
    BY <1>1, <1>2, <2>1 DEF BloomSound
<1>6. DoneIsSound'
  <2>1. ASSUME NEW h \in Threads, thread'[h].caller # Nobody,
               NEW s \in ToSet(task'[thread'[h].caller].batch)
        PROVE  s \in ToSet(thread'[h].todo) \/ Sound(s)'
    BY <1>1, <1>2, <1>3, <2>1 DEF DoneIsSound
  <2> QED
    BY <2>1 DEF DoneIsSound
<1>7. SentIsSafe'
  <2>1. tally'.sent = tally.sent /\ invalid' = invalid
    BY DEF ClientStep
  <2> QED
    BY <1>1, <2>1, SafeKeptByClient DEF SentIsSafe
<1> QED
  BY <1>4, <1>5, <1>6, <1>7 DEF IInv

\* What a handler does to its own call, besides what HandlerStep says: the batch of
\* the call it begins, goes on with, or ends, and what it records or counts.
LEMMA HandlerOwn ==
    ASSUME TypeInv, Calls, NEW h \in Threads, Handle(h)
    PROVE  \/ /\ \E t \in Tasks : Start(h, t)
              /\ UNCHANGED <<task, bloom, tally>>
           \/ /\ thread'[h].caller = thread[h].caller /\ thread'[h].step # "idle"
              /\ UNCHANGED <<task, tally>>
              /\ \/ thread'[h].todo = thread[h].todo
                 \/ thread[h].todo # <<>> /\ thread'[h].todo = Tail(thread[h].todo)
              /\ thread[h].step # "idle"
           \/ /\ thread'[h].caller = Nobody
              /\ bloom' = bloom
              /\ \A t \in Tasks : t # thread[h].caller => task'[t] = task[t]
              /\ \/ tally'.sent = tally.sent
                 \/ /\ thread[h].todo = <<>> /\ thread[h].caller \in Tasks
                    /\ tally'.sent = tally.sent \cup ToSet(task[thread[h].caller].batch)
<1>1. /\ thread[h] \in Thread /\ thread \in [Threads -> Thread]
      /\ task \in [Tasks -> Task] /\ ClientTyped
  BY ThreadFacts DEF TypeInv, TasksTyped, ServerTyped
<1>2. CASE \E t \in Tasks : Start(h, t)
  BY <1>2 DEF Start, client, filter
<1>3. CASE Reject(h) \/ CheckSeen(h) \/ HandOver(h) \/ SerialisationFails(h)
  <2>1. thread[h].todo # <<>> /\ NextSpan(h) /\ UNCHANGED <<task, tally>>
    BY <1>3 DEF Reject, CheckSeen, HandOver, SerialisationFails, Now, client
  <2>2. thread[h].step # "idle"
    BY <1>3 DEF Reject, CheckSeen, HandOver, SerialisationFails, Now
  <2>3. /\ thread'[h].caller = thread[h].caller /\ thread'[h].step = "check"
        /\ thread'[h].todo = Tail(thread[h].todo)
    BY <1>1, <2>1 DEF NextSpan, Thread
  <2> QED
    BY <2>1, <2>2, <2>3
<1>4. CASE ChooseBucket(h) \/ CheckNew(h) \/ Record(h) \/ SkipDedup(h)
  BY <1>1, <1>4 DEF ChooseBucket, CheckNew, Record, SkipDedup, Goto, Now, client, Thread
<1>5. CASE HandOverRaises(h)
  <2>1. thread'[h].caller = Nobody /\ bloom' = bloom
    BY <1>1, <1>5 DEF HandOverRaises, Free, IdleThread, filter
  <2>2. CASE thread[h].caller = Nobody
    BY <1>5, <2>1, <2>2 DEF HandOverRaises
  <2>3. CASE thread[h].caller # Nobody
    BY <1>1, <1>5, <2>1, <2>3 DEF HandOverRaises, Failed, Thread, ClientTyped
  <2> QED
    BY <2>2, <2>3
<1>6. CASE Answer(h)
  <2>1. thread'[h].caller = Nobody /\ bloom' = bloom /\ thread[h].todo = <<>>
    BY <1>1, <1>6 DEF Answer, Free, IdleThread, filter
  <2>2. CASE thread[h].caller = Nobody
    BY <1>6, <2>1, <2>2 DEF Answer
  <2>3. CASE thread[h].caller # Nobody
    BY <1>1, <1>6, <2>1, <2>3 DEF Answer, Thread, ClientTyped
  <2> QED
    BY <2>2, <2>3
<1> QED
  BY <1>2, <1>3, <1>4, <1>5, <1>6 DEF Handle

LEMMA SoundKeptByHandler ==
    ASSUME TypeInv, NEW h \in Threads, Handle(h), NEW s, Sound(s)
    PROVE  Sound(s)'
<1>1. HandlerStep(h)
  BY HandlerSteps
<1>2. invalid' = invalid
  BY <1>1 DEF HandlerStep
<1> QED
  BY <1>1, <1>2, SafeKeptByHandler DEF Sound

\* A handler is done with a span when it is invalid, seen before, or handed over.
LEMMA PassedIsSound ==
    ASSUME TypeInv, BloomSound, NEW h \in Threads,
           Reject(h) \/ CheckSeen(h) \/ HandOver(h) \/ SerialisationFails(h),
           NEW s \in Spans, SpanOf(h) = s
    PROVE  Sound(s)'
<1>1. Handle(h)
  BY DEF Handle
<1>2. HandlerStep(h)
  BY <1>1, HandlerSteps
<1>3. CASE Reject(h)
  BY <1>2, <1>3 DEF Reject, HandlerStep, Sound
<1>4. CASE CheckSeen(h)
  <2>1. CASE Seen(h)
    <3>1. Sound(s)
      BY <2>1 DEF Seen, BloomSound
    <3> QED
      BY <1>1, <3>1, SoundKeptByHandler
  <2>2. CASE ~Seen(h)
    <3>1. MayLose(s)
      BY <1>4, <2>2 DEF CheckSeen
    <3>2. s \in mishaps'.lost
      BY <3>1 DEF MayLose, TypeInv, BrokerTyped
    <3> QED
      BY <3>2 DEF Sound, Safe
  <2> QED
    BY <2>1, <2>2
<1>5. CASE HandOver(h) \/ SerialisationFails(h)
  <2>1. Now(h, "hand")
    BY <1>5 DEF HandOver, SerialisationFails
  <2>2. InQueue(s)' \/ s \in mishaps'.lost
    BY <1>2, <2>1 DEF HandlerStep
  <2> QED
    BY <2>2 DEF Sound, Safe, InQueue
<1> QED
  BY <1>3, <1>4, <1>5

\* A span is recorded by the handler that goes on to hand it over.
LEMMA RecordedIsSound ==
    ASSUME TypeInv, BloomSound, NEW h \in Threads, Handle(h)
    PROVE  BloomSound'
<1>1. bloom \in [0..Rotations -> SUBSET Spans] /\ thread \in [Threads -> Thread]
  BY DEF TypeInv, ServerTyped
<1>2. CASE bloom' = bloom
  BY <1>2, SoundKeptByHandler DEF BloomSound
<1>3. CASE SetBits(h) /\ Goto(h, "hand") /\ Now(h, "record")
  <2>1. ASSUME NEW s, s = SpanOf(h) PROVE Sound(s)'
    <3>1. thread'[h].step = "hand" /\ thread'[h].todo = thread[h].todo
      BY <1>1, <1>3 DEF Goto, Thread
    <3>2. Now(h, "hand")' /\ SpanOf(h)' = s
      BY <1>3, <2>1, <3>1 DEF Now, SpanOf
    <3> QED
      BY <3>2 DEF Sound, Safe
  <2>2. ASSUME NEW b \in DOMAIN bloom', NEW s \in bloom'[b]
        PROVE  Sound(s)'
    <3>1. b \in DOMAIN bloom /\ (s \in bloom[b] \/ s = SpanOf(h))
      BY <1>1, <1>3 DEF SetBits
    <3> QED
      BY <2>1, <3>1, SoundKeptByHandler DEF BloomSound
  <2> QED
    BY <2>2 DEF BloomSound
<1> QED
  BY <1>2, <1>3
  DEF Handle, Start, Reject, ChooseBucket, CheckSeen, CheckNew, Record, SkipDedup,
      HandOver, SerialisationFails, HandOverRaises, Answer, filter

LEMMA HandlerKeepsIInv ==
    ASSUME IInv, TypeInv', NEW h \in Threads, Handle(h)
    PROVE  IInv'
<1>1. TypeInv /\ Calls /\ BloomSound /\ DoneIsSound /\ SentIsSafe
  BY DEF IInv
<1>2. ASSUME NEW s, Sound(s) PROVE Sound(s)'
  BY <1>1, <1>2, SoundKeptByHandler
<1>3. HandlerStep(h)
  BY <1>1, HandlerSteps
<1>4. ASSUME NEW g \in Threads, g # h PROVE thread'[g] = thread[g]
  BY <1>1, <1>3, <1>4 DEF HandlerStep, TypeInv, ServerTyped
<1>5. ASSUME NEW g \in Threads, g # h, thread[g].caller # Nobody
      PROVE  /\ thread[g].caller # thread[h].caller
             /\ task'[thread[g].caller] = task[thread[g].caller]
  <2>1. thread[g].caller # thread[h].caller /\ thread[g].caller \in Tasks
    BY <1>1, <1>5, SpansTyped DEF Calls
  <2> QED
    BY <1>1, <2>1, HandlerOwn
<1>6. Calls'
  <2>1. ASSUME NEW g \in Threads, thread'[g].caller # Nobody
        PROVE  /\ thread'[g].step # "idle"
               /\ task'[thread'[g].caller].phase = "call"
    <3>1. CASE g # h
      BY <1>1, <1>4, <1>5, <2>1, <3>1 DEF Calls
    <3>2. CASE g = h
      <4>1. CASE \E t \in Tasks : Start(h, t)
        BY <1>1, <1>4, <3>2, <4>1 DEF Start, client, TypeInv, ServerTyped
      <4>2. CASE ~ \E t \in Tasks : Start(h, t)
        BY <1>1, <2>1, <3>2, <4>2, HandlerOwn DEF Calls
      <4> QED
        BY <4>1, <4>2
    <3> QED
      BY <3>1, <3>2
  <2>2. ASSUME NEW f \in Threads, NEW g \in Threads,
               thread'[f].caller # Nobody, thread'[g].caller = thread'[f].caller
        PROVE  g = f
    <3>1. CASE \E t \in Tasks : Start(h, t)
      <4>1. PICK t \in Tasks : Start(h, t)
        BY <3>1
      <4>2. thread'[h].caller = t /\ \A e \in Threads : thread[e].caller # t
        BY <1>1, <4>1 DEF Start, TypeInv, ServerTyped
      <4> QED
        BY <1>1, <1>4, <2>2, <4>2 DEF Calls
    <3>2. CASE ~ \E t \in Tasks : Start(h, t)
      <4>1. thread'[h].caller \in {thread[h].caller, Nobody}
        BY <1>1, <3>2, HandlerOwn
      <4> QED
        BY <1>1, <1>4, <2>2, <4>1 DEF Calls
    <3> QED
      BY <3>1, <3>2
  <2> QED
    BY <2>1, <2>2 DEF Calls
<1>7. BloomSound'
  BY <1>1, RecordedIsSound
<1>8. DoneIsSound'
  <2>1. ASSUME NEW g \in Threads, thread'[g].caller # Nobody,
               NEW s \in ToSet(task'[thread'[g].caller].batch)
        PROVE  s \in ToSet(thread'[g].todo) \/ Sound(s)'
    <3>1. CASE g # h
      BY <1>1, <1>2, <1>4, <1>5, <2>1, <3>1 DEF DoneIsSound
    <3>2. CASE g = h /\ \E t \in Tasks : Start(h, t)
      BY <1>1, <2>1, <3>2 DEF Start, client, TypeInv, ServerTyped
    <3>3. CASE g = h /\ ~ \E t \in Tasks : Start(h, t)
      <4>1. /\ thread[h].caller # Nobody /\ thread'[h].caller = thread[h].caller
            /\ task' = task
            /\ \/ thread'[h].todo = thread[h].todo
               \/ thread[h].todo # <<>> /\ thread'[h].todo = Tail(thread[h].todo)
        BY <1>1, <2>1, <3>3, HandlerOwn
      <4>2. s \in ToSet(thread[h].todo) \/ Sound(s)
        BY <1>1, <2>1, <3>3, <4>1 DEF DoneIsSound
      <4>3. CASE thread'[h].todo = thread[h].todo \/ Sound(s)
        BY <1>2, <3>3, <4>2, <4>3
      <4>4. CASE thread'[h].todo # thread[h].todo /\ s \in ToSet(thread[h].todo)
        <5>1. thread[h].todo \in Seq(Spans) /\ thread[h].todo # <<>>
          BY <1>1, <4>1, <4>4, ThreadFacts DEF Thread
        <5>2. s = SpanOf(h) \/ s \in ToSet(Tail(thread[h].todo))
          BY <4>4, <5>1, HeadOrTail DEF SpanOf
        <5>3. CASE s = SpanOf(h)
          <6>1. Reject(h) \/ CheckSeen(h) \/ HandOver(h) \/ SerialisationFails(h)
            BY <1>1, <2>1, <3>3, <4>1, <4>4
            DEF Handle, ChooseBucket, CheckNew, Record, SkipDedup, HandOverRaises, Answer,
                Goto, Free, IdleThread, TypeInv, ServerTyped, Thread
          <6>2. s \in Spans
            BY <1>1, <5>1, <5>3, ThreadFacts
          <6> QED
            BY <1>1, <5>3, <6>1, <6>2, PassedIsSound
        <5>4. CASE s \in ToSet(Tail(thread[h].todo))
          BY <3>3, <4>1, <4>4, <5>4
        <5> QED
          BY <5>2, <5>3, <5>4
      <4> QED
        BY <4>2, <4>3, <4>4
    <3> QED
      BY <3>1, <3>2, <3>3
  <2> QED
    BY <2>1 DEF DoneIsSound
<1>9. SentIsSafe'
  <2>1. ASSUME NEW s \in tally'.sent, s \notin invalid' PROVE Safe(s)'
    <3>1. invalid' = invalid
      BY <1>3 DEF HandlerStep
    <3>2. CASE s \in tally.sent
      BY <1>1, <1>3, <2>1, <3>1, <3>2, SafeKeptByHandler DEF SentIsSafe
    <3>3. CASE s \notin tally.sent
      <4>1. /\ thread[h].todo = <<>> /\ thread[h].caller \in Tasks
            /\ s \in ToSet(task[thread[h].caller].batch)
        BY <1>1, <2>1, <3>3, HandlerOwn
      <4>2. thread[h].caller # Nobody /\ ToSet(<<>>) = {}
        BY <4>1, IngestionAssumption DEF Tasks, Nobody, ToSet
      <4>3. Sound(s)
        BY <1>1, <4>1, <4>2 DEF DoneIsSound
      <4> QED
        BY <1>2, <2>1, <4>3 DEF Sound
    <3> QED
      BY <3>2, <3>3
  <2> QED
    BY <2>1 DEF SentIsSafe
<1> QED
  BY <1>6, <1>7, <1>8, <1>9 DEF IInv

LEMMA BrokerKeepsIInv ==
    ASSUME IInv, TypeInv', Deliver \/ DeliveryFails \/ NextBucket \/ Exit \/ Restart
    PROVE  IInv'
<1>1. TypeInv /\ Calls /\ BloomSound /\ DoneIsSound /\ SentIsSafe
  BY DEF IInv
<1>2. UNCHANGED <<invalid, bloom, task, tally>>
  BY DEF Deliver, DeliveryFails, NextBucket, Exit, Restart, client, server, filter
<1>3. ASSUME NEW s \in Spans, Sound(s) PROVE Sound(s)'
  BY <1>1, <1>2, <1>3, SafeKeptByBroker DEF Sound
<1>4. \/ thread' = thread
      \/ \A h \in Threads : thread'[h].caller = Nobody
  BY DEF Deliver, DeliveryFails, NextBucket, Exit, Restart, server, IdleThread
<1>5. Calls'
  BY <1>1, <1>2, <1>4 DEF Calls
<1>6. BloomSound'
  BY <1>1, <1>2, <1>3, SpansTyped DEF BloomSound
<1>7. DoneIsSound'
  <2>1. ASSUME NEW h \in Threads, thread'[h].caller # Nobody,
               NEW s \in ToSet(task'[thread'[h].caller].batch)
        PROVE  s \in ToSet(thread'[h].todo) \/ Sound(s)'
    <3>1. thread' = thread
      BY <1>4, <2>1
    <3>2. s \in Spans
      BY <1>1, <1>2, <2>1, <3>1, SpansTyped
    <3> QED
      BY <1>1, <1>2, <1>3, <2>1, <3>1, <3>2 DEF DoneIsSound
  <2> QED
    BY <2>1 DEF DoneIsSound
<1>8. SentIsSafe'
  BY <1>1, <1>2, SpansTyped, SafeKeptByBroker DEF SentIsSafe
<1> QED
  BY <1>5, <1>6, <1>7, <1>8 DEF IInv

LEMMA NextIInv == IInv /\ [Next]_vars => IInv'
<1> SUFFICES ASSUME IInv, [Next]_vars PROVE IInv'
  OBVIOUS
<1>1. TypeInv /\ Calls
  BY DEF IInv
<1>2. TypeInv'
  BY <1>1, NextTyped
<1>3. CASE \/ \E t \in Services, s \in Spans : Publish(t, s) \/ PublishDuplicate(t, s)
           \/ \E t \in Tasks : Flush(t) \/ CallFails(t) \/ Retry(t)
           \/ CancelServices \/ CancelFlusher \/ Stopped
  BY <1>1, <1>2, <1>3, ClientSteps, ClientKeepsIInv
<1>4. CASE \E h \in Threads : Handle(h)
  BY <1>2, <1>4, HandlerKeepsIInv
<1>5. CASE Deliver \/ DeliveryFails \/ NextBucket \/ Exit \/ Restart
  BY <1>2, <1>5, BrokerKeepsIInv
<1>6. CASE UNCHANGED vars
  <2>1. UNCHANGED <<invalid, task, tally, thread, bloom, queue, kafka, mishaps>>
    BY <1>6 DEF vars, client, server, filter, broker, history
  <2>2. \A s : Safe(s) => Safe(s)'
    BY <2>1 DEF Safe, Now, SpanOf
  <2> QED
    BY <1>2, <2>1, <2>2 DEF IInv, Calls, BloomSound, DoneIsSound, SentIsSafe, Sound
<1> QED
  BY <1>3, <1>4, <1>5, <1>6 DEF Next

\* A span is recorded as seen before it is handed over, and a retry may be told
\* "duplicate" of a span that is nowhere yet; all the same, what the simulator counts as
\* sent is in Kafka, on its way there, or one of those a fault has cost.
THEOREM SentSpansAreSafe == Spec => []SentIsSafe
<1>1. Init => IInv
  BY InitIInv
<1>2. IInv /\ [Next]_vars => IInv'
  BY NextIInv
<1>3. IInv => SentIsSafe
  BY DEF IInv
<1> QED
  BY <1>1, <1>2, <1>3, PTL DEF Spec

----------------------------------------------------------------------------
(* Every span is counted once. *)

Counters == {"duplicates", "sent", "dropped", "abandoned"}
Counts(counted) == [c \in Counters |-> counted[c]]
Flights(flushes) == [t \in Tasks |-> ToSet(flushes[t].batch)]

\* The spans published are those counted, those buffered and those in a batch, and no
\* span is in two of these places.
Ledger(published, counts, buffered, flights) ==
    /\ \A s : s \in published <=> \/ \E c \in Counters : s \in counts[c]
                                  \/ s \in buffered
                                  \/ \E t \in Tasks : s \in flights[t]
    /\ \A c, d \in Counters : c # d => counts[c] \cap counts[d] = {}
    /\ \A c \in Counters : counts[c] \cap buffered = {}
    /\ \A c \in Counters, t \in Tasks : counts[c] \cap flights[t] = {}
    /\ \A t \in Tasks : buffered \cap flights[t] = {}
    /\ \A t, u \in Tasks : t # u => flights[t] \cap flights[u] = {}

\* Neither the buffer nor a batch holds a span twice, and a task that does nothing holds
\* none.
NothingTwice ==
    /\ IsInjective(buffer)
    /\ \A t \in Tasks : IsInjective(task[t].batch)
    /\ \A t \in Tasks : task[t].phase = "idle" => task[t].batch = <<>>

Accounted ==
    /\ NothingTwice
    /\ IsFiniteSet(tally.published)
    /\ Ledger(tally.published, Counts(tally), ToSet(buffer), Flights(task))

LEMMA LedgerBuffers ==
    ASSUME NEW P, NEW A, NEW B, NEW F, Ledger(P, A, B, F), NEW s, s \notin P
    PROVE  Ledger(P \cup {s}, A, B \cup {s}, F)
  BY DEF Ledger

LEMMA LedgerCounts ==
    ASSUME NEW P, NEW A, NEW B, NEW F, Ledger(P, A, B, F), NEW s, s \notin P,
           NEW c \in Counters, NEW A2, \A x : x \in A2[c] <=> x \in A[c] \/ x = s,
           \A d \in Counters \ {c} : A2[d] = A[d]
    PROVE  Ledger(P \cup {s}, A2, B, F)
<1>1. /\ \A d \in Counters : s \notin A[d]
      /\ s \notin B
      /\ \A t \in Tasks : s \notin F[t]
  BY DEF Ledger
<1>2. \A x : x \in P \cup {s} <=> \/ \E d \in Counters : x \in A2[d]
                               \/ x \in B
                               \/ \E t \in Tasks : x \in F[t]
  BY DEF Ledger
<1>3. \A d, e \in Counters : d # e => A2[d] \cap A2[e] = {}
  <2>1. \A d, e \in Counters : d # e => A[d] \cap A[e] = {}
    BY DEF Ledger
  <2> QED
    BY <1>1, <2>1
<1>4. \A d \in Counters : A2[d] \cap B = {} /\ \A t \in Tasks : A2[d] \cap F[t] = {}
  <2>1. \A d \in Counters : A[d] \cap B = {} /\ \A t \in Tasks : A[d] \cap F[t] = {}
    BY DEF Ledger
  <2> QED
    BY <1>1, <2>1
<1> QED
  BY <1>2, <1>3, <1>4 DEF Ledger

LEMMA LedgerFlushes ==
    ASSUME NEW P, NEW A, NEW B, NEW F, Ledger(P, A, B, F),
           NEW t \in Tasks, F[t] = {}, NEW F2, F2[t] = B,
           \A u \in Tasks \ {t} : F2[u] = F[u]
    PROVE  Ledger(P, A, {}, F2)
  BY DEF Ledger

LEMMA LedgerPours ==
    ASSUME NEW P, NEW A, NEW B, NEW F, Ledger(P, A, B, F),
           NEW tasks \in SUBSET Tasks, NEW c \in Counters, NEW A2, NEW F2,
           \A x : x \in A2[c] <=> x \in A[c] \/ \E t \in tasks : x \in F[t],
           \A d \in Counters \ {c} : A2[d] = A[d],
           \A t \in tasks : F2[t] = {},
           \A t \in Tasks \ tasks : F2[t] = F[t]
    PROVE  Ledger(P, A2, B, F2)
<1>1. /\ \A d, e \in Counters : d # e => A[d] \cap A[e] = {}
      /\ \A d \in Counters : A[d] \cap B = {} /\ \A t \in Tasks : A[d] \cap F[t] = {}
      /\ \A t \in Tasks : B \cap F[t] = {}
      /\ \A t, u \in Tasks : t # u => F[t] \cap F[u] = {}
  BY DEF Ledger
<1>2. \A x : x \in A2[c] <=> x \in A[c] \/ \E t \in tasks : x \in F[t]
  OBVIOUS
<1>3. \A x : x \in P <=> \/ \E d \in Counters : x \in A2[d]
                        \/ x \in B
                        \/ \E t \in Tasks : x \in F2[t]
  <2>1. \A x : x \in P <=> \/ \E d \in Counters : x \in A[d]
                          \/ x \in B
                          \/ \E t \in Tasks : x \in F[t]
    BY DEF Ledger
  <2> QED
    BY <1>2, <2>1
<1>4. \A d, e \in Counters : d # e => A2[d] \cap A2[e] = {}
  BY <1>1, <1>2
<1>5. \A d \in Counters : A2[d] \cap B = {}
  BY <1>1, <1>2
<1>6. \A t \in Tasks : F2[t] = {} \/ F2[t] = F[t]
  OBVIOUS
<1>7. \A d \in Counters, t \in Tasks : A2[d] \cap F2[t] = {}
  BY <1>1, <1>2
<1>8. /\ \A t \in Tasks : B \cap F2[t] = {}
      /\ \A t, u \in Tasks : t # u => F2[t] \cap F2[u] = {}
  BY <1>1, <1>6
<1> QED
  BY <1>3, <1>4, <1>5, <1>7, <1>8 DEF Ledger

LEMMA Injective ==
    ASSUME NEW S, NEW q \in Seq(S), IsInjective(q), NEW s \in S, s \notin ToSet(q)
    PROVE  /\ IsInjective(Append(q, s))
           /\ ToSet(Append(q, s)) = ToSet(q) \cup {s}
<1>1. /\ \A i \in DOMAIN q : q[i] # s
      /\ DOMAIN q = 1 .. Len(q) /\ DOMAIN Append(q, s) = 1 .. (Len(q) + 1)
      /\ Len(q) \in Nat
      /\ \A i \in 1 .. Len(q) : Append(q, s)[i] = q[i]
      /\ Append(q, s)[Len(q) + 1] = s
  BY AppendFacts DEF ToSet
<1> QED
  BY <1>1 DEF IsInjective, ToSet

LEMMA NoneInjective == IsInjective(<<>>) /\ ToSet(<<>>) = {}
  BY DEF IsInjective, ToSet

\* A step that leaves the buffer, the counters and the batches alone.
LEMMA SameBatches ==
    ASSUME Accounted, buffer' = buffer, tally' = tally,
           \A t \in Tasks : /\ task'[t].batch = task[t].batch
                            /\ task'[t].phase = "idle" => task[t].phase = "idle"
    PROVE  Accounted'
<1>1. Flights(task') = Flights(task)
  BY DEF Flights
<1>2. NothingTwice'
  BY DEF Accounted, NothingTwice
<1> QED
  BY <1>1, <1>2 DEF Accounted

\* A step that counts the batches of some tasks, which are idle from then on.
LEMMA PoursBatches ==
    ASSUME Accounted, NEW tasks \in SUBSET Tasks, NEW c \in Counters,
           buffer' = buffer, tally'.published = tally.published,
           tally'[c] = tally[c] \cup UNION {ToSet(task[t].batch) : t \in tasks},
           \A d \in Counters \ {c} : tally'[d] = tally[d],
           \A t \in tasks : task'[t] = IdleTask,
           \A t \in Tasks \ tasks : task'[t] = task[t]
    PROVE  Accounted'
<1>1. \A t \in tasks : task'[t].batch = <<>>
  BY DEF IdleTask
<1>2. NothingTwice'
  <2>1. \A t \in Tasks : task'[t] = task[t] \/ task'[t].batch = <<>>
    BY <1>1
  <2> QED
    BY <2>1, NoneInjective DEF Accounted, NothingTwice
<1>3. Ledger(tally'.published, Counts(tally'), ToSet(buffer'), Flights(task'))
  <2>1. \A s : s \in Counts(tally')[c]
                 <=> s \in Counts(tally)[c] \/ \E t \in tasks : s \in Flights(task)[t]
    <3>1. \A s : s \in tally'[c]
                   <=> s \in tally[c] \/ \E t \in tasks : s \in ToSet(task[t].batch)
      OBVIOUS
    <3>2. /\ Counts(tally')[c] = tally'[c] /\ Counts(tally)[c] = tally[c]
          /\ \A t \in tasks : Flights(task)[t] = ToSet(task[t].batch)
      BY DEF Counts, Flights
    <3> QED
      BY <3>1, <3>2
  <2>2. \A d \in Counters \ {c} : Counts(tally')[d] = Counts(tally)[d]
    BY DEF Counts
  <2>3. \A t \in tasks : Flights(task')[t] = {}
    BY <1>1, NoneInjective DEF Flights
  <2>4. \A t \in Tasks \ tasks : Flights(task')[t] = Flights(task)[t]
    BY DEF Flights
  <2>5. Ledger(tally.published, Counts(tally), ToSet(buffer), Flights(task))
    BY DEF Accounted
  <2>6. Ledger(tally.published, Counts(tally'), ToSet(buffer), Flights(task'))
    BY <2>1, <2>2, <2>3, <2>4, <2>5, LedgerPours
  <2> QED
    BY <2>6
<1> QED
  BY <1>2, <1>3 DEF Accounted

LEMMA CountersTyped ==
    ASSUME TypeInv
    PROVE  /\ tally["duplicates"] = tally.duplicates /\ tally["sent"] = tally.sent
           /\ tally["dropped"] = tally.dropped /\ tally["abandoned"] = tally.abandoned
           /\ task \in [Tasks -> Task]
           /\ buffer \in Seq(Spans)
           /\ tally \in [published : SUBSET Spans, duplicates : SUBSET Spans,
                         sent : SUBSET Spans, dropped : SUBSET Spans,
                         abandoned : SUBSET Spans]
  BY DEF TypeInv, ClientTyped, TasksTyped

LEMMA FailedAccounted ==
    ASSUME TypeInv, Accounted, NEW t \in Tasks, Failed(t), buffer' = buffer
    PROVE  Accounted'
<1>1. CASE task[t].attempt = SendAttempts
  <2>1. /\ tally' = [tally EXCEPT !.dropped = @ \cup ToSet(task[t].batch)]
        /\ task' = [task EXCEPT ![t] = IdleTask]
    BY <1>1 DEF Failed
  <2>2. UNION {ToSet(task[u].batch) : u \in {t}} = ToSet(task[t].batch)
    OBVIOUS
  <2>3. /\ tally'["dropped"] = tally["dropped"] \cup UNION {ToSet(task[u].batch) : u \in {t}}
        /\ \A d \in Counters \ {"dropped"} : tally'[d] = tally[d]
        /\ tally'.published = tally.published
    BY <2>1, <2>2, CountersTyped DEF Counters
  <2>4. /\ \A u \in {t} : task'[u] = IdleTask
        /\ \A u \in Tasks \ {t} : task'[u] = task[u]
    BY <2>1, CountersTyped
  <2>5. {t} \in SUBSET Tasks /\ "dropped" \in Counters
    BY DEF Counters
  <2> QED
    BY <2>3, <2>4, <2>5, PoursBatches
<1>2. CASE task[t].attempt # SendAttempts
  <2>1. tally' = tally /\ task' = [task EXCEPT ![t].phase = "backoff"]
    BY <1>2 DEF Failed
  <2>2. \A u \in Tasks : /\ task'[u].batch = task[u].batch
                         /\ task'[u].phase = "idle" => task[u].phase = "idle"
    BY <2>1, CountersTyped DEF Task
  <2> QED
    BY <2>1, <2>2, SameBatches
<1> QED
  BY <1>1, <1>2

LEMMA CancelAccounted ==
    ASSUME TypeInv, Accounted, NEW tasks \in SUBSET Tasks, Cancel(tasks), buffer' = buffer
    PROVE  Accounted'
<1>1. /\ tally'["abandoned"] = tally["abandoned"]
                                  \cup UNION {ToSet(task[t].batch) : t \in tasks}
      /\ \A d \in Counters \ {"abandoned"} : tally'[d] = tally[d]
      /\ tally'.published = tally.published
  <2>1. PICK poured : poured = UNION {ToSet(task[t].batch) : t \in tasks}
    OBVIOUS
  <2>2. tally' = [tally EXCEPT !.abandoned = @ \cup poured]
    BY <2>1 DEF Cancel
  <2>3. /\ tally'["abandoned"] = tally["abandoned"] \cup poured
        /\ \A d \in Counters \ {"abandoned"} : tally'[d] = tally[d]
        /\ tally'.published = tally.published
    BY <2>2, CountersTyped DEF Counters
  <2> QED
    BY <2>1, <2>3
<1>2. /\ \A t \in tasks : task'[t] = IdleTask
      /\ \A t \in Tasks \ tasks : task'[t] = task[t]
  BY DEF Cancel
<1>3. "abandoned" \in Counters
  BY DEF Counters
<1> QED
  BY <1>1, <1>2, <1>3, PoursBatches

LEMMA PublishAccounted ==
    ASSUME TypeInv, Accounted, NEW t \in Tasks, NEW s \in Spans, Publish(t, s)
    PROVE  Accounted'
<1>1. /\ s \notin tally.published /\ task[t].phase = "idle"
      /\ tally' = [tally EXCEPT !.published = @ \cup {s}]
  BY DEF Publish, IsNew
<1>2. NothingTwice /\ Ledger(tally.published, Counts(tally), ToSet(buffer), Flights(task))
  BY DEF Accounted
<1>3. /\ IsInjective(Append(buffer, s)) /\ ToSet(Append(buffer, s)) = ToSet(buffer) \cup {s}
      /\ task[t].batch = <<>>
  <2>1. s \notin ToSet(buffer)
    BY <1>1, <1>2 DEF Ledger
  <2> QED
    BY <1>1, <1>2, <2>1, Injective, CountersTyped DEF NothingTwice
<1>4. /\ tally'.published = tally.published \cup {s}
      /\ Counts(tally') = Counts(tally)
      /\ IsFiniteSet(tally'.published)
  <2>1. tally'.published = tally.published \cup {s}
    BY <1>1, CountersTyped
  <2>2. \A c \in Counters : tally'[c] = tally[c]
    BY <1>1, CountersTyped DEF Counters
  <2>3. IsFiniteSet(tally.published \cup {s})
    BY FS_AddElement DEF Accounted
  <2> QED
    BY <2>1, <2>2, <2>3 DEF Counts
<1>5. Ledger(tally.published \cup {s}, Counts(tally), ToSet(Append(buffer, s)), Flights(task))
  BY <1>1, <1>2, <1>3, LedgerBuffers
<1>6. CASE Len(buffer) + 1 >= BatchMax
  <2>1. task' = [task EXCEPT ![t] = Called(Append(buffer, s))] /\ buffer' = <<>>
    BY <1>6 DEF Publish
  <2>2. /\ task'[t] = Called(Append(buffer, s))
        /\ \A u \in Tasks \ {t} : task'[u] = task[u]
    BY <2>1, CountersTyped
  <2>3. task'[t].batch = Append(buffer, s) /\ task'[t].phase = "call"
    BY <2>2 DEF Called
  <2>4. NothingTwice'
    BY <1>2, <1>3, <2>1, <2>2, <2>3, NoneInjective DEF NothingTwice
  <2>5. /\ Flights(task)[t] = {}
        /\ Flights(task')[t] = ToSet(Append(buffer, s))
        /\ \A u \in Tasks \ {t} : Flights(task')[u] = Flights(task)[u]
    BY <1>3, <2>2, <2>3, NoneInjective DEF Flights
  <2>6. Ledger(tally.published \cup {s}, Counts(tally), {}, Flights(task'))
    BY <1>5, <2>5, LedgerFlushes
  <2> QED
    BY <1>4, <2>1, <2>4, <2>6, NoneInjective DEF Accounted
<1>7. CASE ~(Len(buffer) + 1 >= BatchMax)
  <2>1. task' = task /\ buffer' = Append(buffer, s)
    BY <1>7 DEF Publish
  <2>2. NothingTwice'
    BY <1>2, <1>3, <2>1 DEF NothingTwice
  <2> QED
    BY <1>4, <1>5, <2>1, <2>2 DEF Accounted
<1> QED
  BY <1>6, <1>7

LEMMA DuplicateAccounted ==
    ASSUME TypeInv, Accounted, NEW t \in Tasks, NEW s \in Spans, PublishDuplicate(t, s)
    PROVE  Accounted'
<1>1. /\ s \notin tally.published
      /\ tally' = [tally EXCEPT !.published = @ \cup {s}, !.duplicates = @ \cup {s}]
      /\ UNCHANGED <<buffer, task>>
  BY DEF PublishDuplicate, IsNew
<1>2. /\ tally'.published = tally.published \cup {s}
      /\ tally'["duplicates"] = tally["duplicates"] \cup {s}
      /\ \A c \in Counters \ {"duplicates"} : tally'[c] = tally[c]
      /\ "duplicates" \in Counters
  BY <1>1, CountersTyped DEF Counters
<1>3. /\ \A x : x \in Counts(tally')["duplicates"]
                    <=> x \in Counts(tally)["duplicates"] \/ x = s
      /\ \A c \in Counters \ {"duplicates"} : Counts(tally')[c] = Counts(tally)[c]
  BY <1>2 DEF Counts
<1>4. /\ Ledger(tally.published, Counts(tally), ToSet(buffer), Flights(task))
      /\ s \notin tally.published /\ "duplicates" \in Counters
  BY <1>1, <1>2 DEF Accounted
<1>5. Ledger(tally.published \cup {s}, Counts(tally'), ToSet(buffer), Flights(task))
  BY <1>3, <1>4, LedgerCounts
<1>6. IsFiniteSet(tally.published \cup {s})
  BY FS_AddElement DEF Accounted
<1> QED
  BY <1>1, <1>2, <1>5, <1>6 DEF Accounted, NothingTwice

LEMMA FlushAccounted ==
    ASSUME TypeInv, Accounted, NEW t \in Tasks, Flush(t)
    PROVE  Accounted'
<1>1. /\ task[t].phase = "idle" /\ task' = [task EXCEPT ![t] = Called(buffer)]
      /\ buffer' = <<>> /\ tally' = tally
  BY DEF Flush
<1>2. NothingTwice /\ Ledger(tally.published, Counts(tally), ToSet(buffer), Flights(task))
  BY DEF Accounted
<1>3. /\ task'[t] = Called(buffer) /\ task[t].batch = <<>>
      /\ \A u \in Tasks \ {t} : task'[u] = task[u]
  BY <1>1, <1>2, CountersTyped DEF NothingTwice
<1>4. task'[t].batch = buffer /\ task'[t].phase = "call"
  BY <1>3 DEF Called
<1>5. NothingTwice'
  BY <1>1, <1>2, <1>3, <1>4, NoneInjective DEF NothingTwice
<1>6. /\ Flights(task)[t] = {}
      /\ Flights(task')[t] = ToSet(buffer)
      /\ \A u \in Tasks \ {t} : Flights(task')[u] = Flights(task)[u]
  BY <1>3, <1>4, NoneInjective DEF Flights
<1>7. Ledger(tally.published, Counts(tally), {}, Flights(task'))
  BY <1>2, <1>6, LedgerFlushes
<1> QED
  BY <1>1, <1>5, <1>7, NoneInjective DEF Accounted

LEMMA AnswerAccounted ==
    ASSUME TypeInv, Accounted, NEW h \in Threads, Answer(h)
    PROVE  Accounted'
<1>1. CASE thread[h].caller = Nobody
  BY <1>1, SameBatches DEF Answer
<1>2. CASE thread[h].caller # Nobody
  <2>1. PICK t \in Tasks : t = thread[h].caller
    BY <1>2, SpansTyped
  <2>2. /\ tally' = [tally EXCEPT !.sent = @ \cup ToSet(task[t].batch)]
        /\ task' = [task EXCEPT ![t] = IdleTask]
        /\ buffer' = buffer
    BY <1>2, <2>1 DEF Answer
  <2>3. UNION {ToSet(task[u].batch) : u \in {t}} = ToSet(task[t].batch)
    OBVIOUS
  <2>4. /\ tally'["sent"] = tally["sent"] \cup UNION {ToSet(task[u].batch) : u \in {t}}
        /\ \A d \in Counters \ {"sent"} : tally'[d] = tally[d]
        /\ tally'.published = tally.published
    BY <2>2, <2>3, CountersTyped DEF Counters
  <2>5. /\ \A u \in {t} : task'[u] = IdleTask
        /\ \A u \in Tasks \ {t} : task'[u] = task[u]
    BY <2>2, CountersTyped
  <2>6. {t} \in SUBSET Tasks /\ "sent" \in Counters
    BY DEF Counters
  <2> QED
    BY <2>2, <2>4, <2>5, <2>6, PoursBatches
<1> QED
  BY <1>1, <1>2

LEMMA InitAccounted == Init => Accounted
<1> SUFFICES ASSUME Init PROVE Accounted
  OBVIOUS
<1>1. /\ buffer = <<>> /\ tally.published = {}
      /\ \A t \in Tasks : task[t].batch = <<>>
      /\ \A c \in Counters : tally[c] = {}
  BY DEF Init, IdleTask, Counters
<1>2. NothingTwice
  BY <1>1, NoneInjective DEF NothingTwice
<1>3. Ledger({}, Counts(tally), {}, Flights(task))
  BY <1>1, NoneInjective DEF Ledger, Counts, Flights
<1> QED
  BY <1>1, <1>2, <1>3, NoneInjective, FS_EmptySet DEF Accounted

LEMMA NextAccounted ==
    ASSUME TypeInv, Accounted, [Next]_vars
    PROVE  Accounted'
<1>1. CASE \E t \in Services, s \in Spans : Publish(t, s) \/ PublishDuplicate(t, s)
  BY <1>1, PublishAccounted, DuplicateAccounted DEF Tasks
<1>2. CASE \E t \in Tasks : Flush(t) \/ CallFails(t) \/ Retry(t)
  <2>1. ASSUME NEW t \in Tasks, Retry(t) PROVE Accounted'
    <3>1. \A u \in Tasks : /\ task'[u].batch = task[u].batch
                           /\ task'[u].phase = "idle" => task[u].phase = "idle"
      BY <2>1, CountersTyped DEF Retry, Task
    <3> QED
      BY <2>1, <3>1, SameBatches DEF Retry
  <2> QED
    BY <1>2, <2>1, FlushAccounted, FailedAccounted DEF CallFails
<1>3. CASE CancelServices \/ CancelFlusher
  <2>1. Services \in SUBSET Tasks /\ {"flusher"} \in SUBSET Tasks
    BY DEF Tasks
  <2> QED
    BY <1>3, <2>1, CancelAccounted DEF CancelServices, CancelFlusher
<1>4. CASE \E h \in Threads : Handle(h)
  <2>1. PICK h \in Threads : Handle(h)
    BY <1>4
  <2>2. CASE HandOverRaises(h)
    <3>1. CASE thread[h].caller = Nobody
      BY <2>2, <3>1, SameBatches DEF HandOverRaises
    <3>2. CASE thread[h].caller # Nobody
      BY <2>2, <3>2, SpansTyped, FailedAccounted DEF HandOverRaises
    <3> QED
      BY <3>1, <3>2
  <2>3. CASE Answer(h)
    BY <2>3, AnswerAccounted
  <2>4. CASE ~HandOverRaises(h) /\ ~Answer(h)
    <3>1. UNCHANGED <<buffer, task, tally>>
      BY <2>1, <2>4
      DEF Handle, Start, Reject, ChooseBucket, CheckSeen, CheckNew, Record, SkipDedup,
          HandOver, SerialisationFails, client
    <3> QED
      BY <3>1, SameBatches
  <2> QED
    BY <2>2, <2>3, <2>4
<1>5. CASE Stopped \/ Deliver \/ DeliveryFails \/ NextBucket \/ Exit \/ Restart \/ UNCHANGED vars
  <2>1. UNCHANGED <<buffer, task, tally>>
    BY <1>5 DEF Stopped, Deliver, DeliveryFails, NextBucket, Exit, Restart, client, vars
  <2> QED
    BY <2>1, SameBatches
<1> QED
  BY <1>1, <1>2, <1>3, <1>4, <1>5 DEF Next

\* Two disjoint parts of a finite set.
LEMMA PartsAddUp ==
    ASSUME NEW S, NEW T, IsFiniteSet(S \cup T), S \cap T = {}
    PROVE  /\ IsFiniteSet(S) /\ IsFiniteSet(T)
           /\ Cardinality(S) \in Nat /\ Cardinality(T) \in Nat
           /\ Cardinality(S \cup T) = Cardinality(S) + Cardinality(T)
<1>1. IsFiniteSet(S) /\ IsFiniteSet(T)
  <2>1. S \in SUBSET (S \cup T) /\ T \in SUBSET (S \cup T)
    OBVIOUS
  <2> QED
    BY <2>1, FS_Subset
<1>2. Cardinality(S) \in Nat /\ Cardinality(T) \in Nat
  BY <1>1, FS_CardinalityType
<1>3. Cardinality(S \cup T) = Cardinality(S) + Cardinality(T) - Cardinality(S \cap T)
  BY <1>1, FS_Union
<1>4. Cardinality(S \cap T) = 0
  BY FS_EmptySet
<1> QED
  BY <1>1, <1>2, <1>3, <1>4

LEMMA InjectiveLength ==
    ASSUME NEW S, NEW q \in Seq(S), IsInjective(q)
    PROVE  IsFiniteSet(ToSet(q)) /\ Cardinality(ToSet(q)) = Len(q)
<1>1. Len(q) \in Nat /\ DOMAIN q = 1 .. Len(q)
  OBVIOUS
<1>2. q \in [1 .. Len(q) -> ToSet(q)]
  BY <1>1 DEF ToSet
<1>3. q \in Bijection(1 .. Len(q), ToSet(q))
  BY <1>1, <1>2 DEF Bijection, Injection, Surjection, ToSet
<1>4. ExistsBijection(1 .. Len(q), ToSet(q))
  BY <1>3 DEF ExistsBijection
<1>5. IsFiniteSet(ToSet(q)) /\ Cardinality(ToSet(q)) = Cardinality(1 .. Len(q))
  <2>1. IsFiniteSet(1 .. Len(q))
    BY <1>1, FS_Interval
  <2> QED
    BY <1>4, <2>1, FS_Bijection
<1>6. ASSUME NEW n \in Nat PROVE Cardinality(1 .. n) = n
  <2>1. Cardinality(1 .. n) = IF 1 > n THEN 0 ELSE n - 1 + 1
    BY FS_Interval
  <2> QED
    BY <2>1
<1> QED
  BY <1>1, <1>5, <1>6

\* The spans in the batches, and the places where they are.
LEMMA PlacesInFlight ==
    ASSUME TypeInv, Accounted, NEW spans,
           \A s : s \in spans <=> \E t \in Tasks : s \in Flights(task)[t],
           IsFiniteSet(spans)
    PROVE  Cardinality(UNION {{t} \X DOMAIN task[t].batch : t \in Tasks}) = Cardinality(spans)
<1> DEFINE places == UNION {{t} \X DOMAIN task[t].batch : t \in Tasks}
           found == [p \in places |-> task[p[1]].batch[p[2]]]
<1>1. \A p : p \in places <=> \E t \in Tasks : \E i \in DOMAIN task[t].batch : p = <<t, i>>
  OBVIOUS
<1>2. \A t \in Tasks : \A i \in DOMAIN task[t].batch : found[<<t, i>>] = task[t].batch[i]
  BY <1>1
<1>3. DOMAIN found = places
  OBVIOUS
<1>4. found = [p \in places |-> found[p]]
  OBVIOUS
<1> HIDE DEF places, found
<1>5. \A t \in Tasks : Flights(task)[t] = ToSet(task[t].batch)
  BY DEF Flights
<1>6. ASSUME NEW p \in places PROVE found[p] \in spans
  <2>1. PICK t \in Tasks : \E i \in DOMAIN task[t].batch : p = <<t, i>>
    BY <1>1
  <2>2. PICK i \in DOMAIN task[t].batch : p = <<t, i>>
    BY <2>1
  <2> QED
    BY <1>2, <1>5, <2>2 DEF ToSet
<1>7. found \in [places -> spans]
  BY <1>4, <1>6
<1>8. ASSUME NEW p \in places, NEW r \in places, found[p] = found[r] PROVE p = r
  <2>1. PICK t \in Tasks : \E i \in DOMAIN task[t].batch : p = <<t, i>>
    BY <1>1
  <2>2. PICK i \in DOMAIN task[t].batch : p = <<t, i>>
    BY <2>1
  <2>3. PICK u \in Tasks : \E i2 \in DOMAIN task[u].batch : r = <<u, i2>>
    BY <1>1
  <2>4. PICK j \in DOMAIN task[u].batch : r = <<u, j>>
    BY <2>3
  <2>5. task[t].batch[i] = task[u].batch[j]
    BY <1>2, <1>8, <2>2, <2>4
  <2>6. t = u
    <3>1. task[t].batch[i] \in Flights(task)[t] \cap Flights(task)[u]
      BY <1>5, <2>5 DEF ToSet
    <3> QED
      BY <3>1 DEF Accounted, Ledger
  <2>7. i = j
    BY <2>5, <2>6 DEF Accounted, NothingTwice, IsInjective
  <2> QED
    BY <2>2, <2>4, <2>6, <2>7
<1>9. ASSUME NEW s \in spans PROVE \E p \in places : found[p] = s
  <2>1. PICK t \in Tasks : s \in ToSet(task[t].batch)
    BY <1>5
  <2>2. PICK i \in DOMAIN task[t].batch : task[t].batch[i] = s
    BY <2>1 DEF ToSet
  <2>3. <<t, i>> \in places
    BY <1>1
  <2> QED
    BY <1>2, <2>2, <2>3
<1>10. found \in Bijection(places, spans)
  BY <1>3, <1>7, <1>8, <1>9 DEF Bijection, Injection, Surjection, IsInjective
<1>11. ExistsBijection(spans, places)
  <2>1. ExistsBijection(places, spans)
    BY <1>10 DEF ExistsBijection
  <2> QED
    BY <2>1, Fun_ExistsBijSymmetric
<1>12. Cardinality(places) = Cardinality(spans)
  BY <1>11, FS_Bijection
<1> QED
  BY <1>12 DEF places

LEMMA AccountsAddUp == TypeInv /\ Accounted => TallyComplete
<1> SUFFICES ASSUME TypeInv, Accounted PROVE TallyComplete
  OBVIOUS
<1> DEFINE inFlight == {s \in tally.published : \E t \in Tasks : s \in Flights(task)[t]}
           rest3 == inFlight \cup ToSet(buffer)
           rest2 == rest3 \cup tally.abandoned
           rest1 == rest2 \cup tally.duplicates
           rest0 == rest1 \cup tally.dropped
<1>1. Ledger(tally.published, Counts(tally), ToSet(buffer), Flights(task))
  BY DEF Accounted
<1>2. /\ Counts(tally)["sent"] = tally.sent /\ Counts(tally)["dropped"] = tally.dropped
      /\ Counts(tally)["duplicates"] = tally.duplicates
      /\ Counts(tally)["abandoned"] = tally.abandoned
      /\ Counters = {"duplicates", "sent", "dropped", "abandoned"}
  BY CountersTyped DEF Counts, Counters
<1>3. \A s : s \in inFlight <=> \E t \in Tasks : s \in Flights(task)[t]
  BY <1>1 DEF Ledger
<1>4. /\ inFlight \cap ToSet(buffer) = {}
      /\ rest3 \cap tally.abandoned = {}
      /\ rest2 \cap tally.duplicates = {}
      /\ rest1 \cap tally.dropped = {}
      /\ rest0 \cap tally.sent = {}
  <2> HIDE DEF inFlight
  <2>1. /\ \A c \in Counters : Counts(tally)[c] \cap inFlight = {}
        /\ \A c \in Counters : Counts(tally)[c] \cap ToSet(buffer) = {}
        /\ inFlight \cap ToSet(buffer) = {}
    BY <1>1, <1>3 DEF Ledger
  <2>2. \A c, d \in Counters : c # d => Counts(tally)[c] \cap Counts(tally)[d] = {}
    BY <1>1 DEF Ledger
  <2> QED
    BY <1>2, <2>1, <2>2
<1>5. tally.published = rest0 \cup tally.sent
  <2> HIDE DEF inFlight
  <2>1. \A s : s \in tally.published <=> \/ \E c \in Counters : s \in Counts(tally)[c]
                                         \/ s \in ToSet(buffer)
                                         \/ s \in inFlight
    BY <1>1, <1>3 DEF Ledger
  <2> QED
    BY <1>2, <2>1
<1> HIDE DEF inFlight, rest3, rest2, rest1, rest0
<1>6. IsFiniteSet(rest0 \cup tally.sent)
  BY <1>5 DEF Accounted
<1>7. /\ IsFiniteSet(rest0) /\ Cardinality(rest0) \in Nat /\ Cardinality(tally.sent) \in Nat
      /\ Cardinality(tally.published) = Cardinality(rest0) + Cardinality(tally.sent)
  BY <1>4, <1>5, <1>6, PartsAddUp
<1>8. /\ IsFiniteSet(rest1) /\ Cardinality(rest1) \in Nat /\ Cardinality(tally.dropped) \in Nat
      /\ Cardinality(rest0) = Cardinality(rest1) + Cardinality(tally.dropped)
  BY <1>4, <1>7, PartsAddUp DEF rest0
<1>9. /\ IsFiniteSet(rest2) /\ Cardinality(rest2) \in Nat
      /\ Cardinality(tally.duplicates) \in Nat
      /\ Cardinality(rest1) = Cardinality(rest2) + Cardinality(tally.duplicates)
  BY <1>4, <1>8, PartsAddUp DEF rest1
<1>10. /\ IsFiniteSet(rest3) /\ Cardinality(rest3) \in Nat
       /\ Cardinality(tally.abandoned) \in Nat
       /\ Cardinality(rest2) = Cardinality(rest3) + Cardinality(tally.abandoned)
  BY <1>4, <1>9, PartsAddUp DEF rest2
<1>11. /\ IsFiniteSet(inFlight) /\ Cardinality(inFlight) \in Nat
       /\ Cardinality(rest3) = Cardinality(inFlight) + Cardinality(ToSet(buffer))
  BY <1>4, <1>10, PartsAddUp DEF rest3
<1>12. Cardinality(ToSet(buffer)) = Len(buffer) /\ Len(buffer) \in Nat
  BY InjectiveLength, CountersTyped DEF Accounted, NothingTwice
<1>13. Cardinality(UNION {{t} \X DOMAIN task[t].batch : t \in Tasks}) = Cardinality(inFlight)
  BY <1>3, <1>11, PlacesInFlight
<1>14. Cardinality(rest2) = Cardinality(inFlight) + Len(buffer) + Cardinality(tally.abandoned)
  BY <1>10, <1>11, <1>12
<1>15. Cardinality(tally.published) = Cardinality(rest2) + Cardinality(tally.duplicates)
                                        + Cardinality(tally.dropped) + Cardinality(tally.sent)
  BY <1>7, <1>8, <1>9
<1>16. Cardinality(tally.published) =
           Cardinality(tally.sent) + Cardinality(tally.dropped)
             + Cardinality(tally.duplicates) + Cardinality(tally.abandoned)
             + Len(buffer) + Cardinality(inFlight)
  <2>1. /\ Cardinality(tally.sent) \in Nat /\ Cardinality(tally.dropped) \in Nat
        /\ Cardinality(tally.duplicates) \in Nat /\ Cardinality(tally.abandoned) \in Nat
        /\ Len(buffer) \in Nat /\ Cardinality(inFlight) \in Nat
    BY <1>7, <1>8, <1>9, <1>10, <1>11, <1>12
  <2> QED
    BY <1>14, <1>15, <2>1
<1> QED
  BY <1>13, <1>16 DEF TallyComplete

\* The publisher's counters account for every span given to it exactly once, however
\* its tasks take the buffer from one another, give up, retry and are cancelled.
THEOREM TallyAddsUp == Spec => []TallyComplete
<1>1. Init => TypeInv /\ Accounted
  BY InitTyped, InitAccounted
<1>2. TypeInv /\ Accounted /\ [Next]_vars => (TypeInv /\ Accounted)'
  BY NextTyped, NextAccounted
<1>3. TypeInv /\ Accounted => TallyComplete
  BY AccountsAddUp
<1> QED
  BY <1>1, <1>2, <1>3, PTL DEF Spec

----------------------------------------------------------------------------
(* One copy of a span. *)

RawOf(m, s) == m.span = s /\ m.to = "raw"
OnWay(messages, s) == \E i \in DOMAIN messages : RawOf(messages[i], s)
OnWayOnce(messages, s) ==
    \A i, j \in DOMAIN messages : RawOf(messages[i], s) /\ RawOf(messages[j], s) => i = j

\* A handler has found the span new, and has not handed it over yet.
Holds(handler, s) ==
    /\ handler.todo # <<>> /\ Head(handler.todo) = s
    /\ handler.step \in {"record", "hand"}

Recorded(buckets, s) == \E b \in 0..Rotations : s \in buckets[b]

\* A span is in Kafka, in the queue or with one handler, and nothing but that one
\* handler has it before it is recorded as seen.
Single(copies, messages, handlers, buckets, s) ==
    /\ copies <= 1
    /\ OnWayOnce(messages, s)
    /\ \A g, h \in Threads : Holds(handlers[g], s) /\ Holds(handlers[h], s) => g = h
    /\ copies = 1 => ~OnWay(messages, s)
    /\ copies = 1 \/ OnWay(messages, s) =>
           Recorded(buckets, s) /\ \A h \in Threads : ~Holds(handlers[h], s)
    /\ \A h \in Threads : Holds(handlers[h], s) /\ handlers[h].step = "hand" =>
           Recorded(buckets, s)

CopiesInv == \A s \in Spans :
    s \in mishaps.copied \/ Single(kafka.raw[s], queue, thread, bloom, s)

\* A span that is looked up was not recorded before the two buckets that the handler
\* looks in: a bucket lasts an hour, and the batches of the simulator seconds.
Prompt ==
    \A h \in Threads : Now(h, "ask") =>
        \A b \in DOMAIN bloom : SpanOf(h) \in bloom[b] => b >= thread[h].bucket - 1

LEMMA AppendedOnWay ==
    ASSUME NEW q \in Seq(Message), NEW m \in Message, NEW s
    PROVE  /\ OnWay(Append(q, m), s) <=> OnWay(q, s) \/ RawOf(m, s)
           /\ OnWayOnce(q, s) /\ ~(RawOf(m, s) /\ OnWay(q, s)) => OnWayOnce(Append(q, m), s)
<1>1. /\ DOMAIN q = 1 .. Len(q) /\ DOMAIN Append(q, m) = 1 .. (Len(q) + 1)
      /\ Len(q) \in Nat
      /\ \A i \in 1 .. Len(q) : Append(q, m)[i] = q[i]
      /\ Append(q, m)[Len(q) + 1] = m
  BY AppendFacts
<1>2. OnWay(Append(q, m), s) <=> OnWay(q, s) \/ RawOf(m, s)
  <2> HIDE DEF RawOf
  <2>1. ASSUME OnWay(Append(q, m), s) PROVE OnWay(q, s) \/ RawOf(m, s)
    BY <1>1, <2>1 DEF OnWay
  <2>2. ASSUME OnWay(q, s) \/ RawOf(m, s) PROVE OnWay(Append(q, m), s)
    BY <1>1, <2>2 DEF OnWay
  <2> QED
    BY <2>1, <2>2
<1>3. ASSUME OnWayOnce(q, s), ~(RawOf(m, s) /\ OnWay(q, s))
      PROVE  OnWayOnce(Append(q, m), s)
  BY <1>1, <1>3 DEF OnWayOnce, OnWay
<1> QED
  BY <1>2, <1>3

LEMMA TailOnWay ==
    ASSUME NEW q \in Seq(Message), q # <<>>, NEW s
    PROVE  /\ OnWay(Tail(q), s) => OnWay(q, s)
           /\ RawOf(Head(q), s) => OnWay(q, s)
           /\ OnWayOnce(q, s) => OnWayOnce(Tail(q), s)
           /\ OnWayOnce(q, s) /\ RawOf(Head(q), s) => ~OnWay(Tail(q), s)
<1>1. /\ Head(q) = q[1] /\ Len(q) \in Nat \ {0}
      /\ DOMAIN q = 1 .. Len(q) /\ DOMAIN Tail(q) = 1 .. (Len(q) - 1)
      /\ \A i \in 1 .. (Len(q) - 1) : Tail(q)[i] = q[i + 1]
  BY TailFacts
<1>2. \A i \in DOMAIN Tail(q) : i + 1 \in DOMAIN q /\ i + 1 # 1 /\ Tail(q)[i] = q[i + 1]
  BY <1>1
<1>3. 1 \in DOMAIN q /\ Head(q) = q[1]
  BY <1>1
<1>4. \A i, j \in DOMAIN Tail(q) : i + 1 = j + 1 => i = j
  BY <1>1
<1>5. OnWay(Tail(q), s) => OnWay(q, s)
  BY <1>2 DEF OnWay
<1>6. RawOf(Head(q), s) => OnWay(q, s)
  BY <1>3 DEF OnWay
<1>7. OnWayOnce(q, s) => OnWayOnce(Tail(q), s)
  BY <1>2, <1>4 DEF OnWayOnce
<1>8. OnWayOnce(q, s) /\ RawOf(Head(q), s) => ~OnWay(Tail(q), s)
  BY <1>2, <1>3 DEF OnWayOnce, OnWay
<1> QED
  BY <1>5, <1>6, <1>7, <1>8

\* What only takes copies away, and records, keeps a span single.
LEMMA SingleKept ==
    ASSUME NEW copies, NEW q, NEW q2, NEW th, NEW th2, NEW bl, NEW bl2, NEW s,
           Single(copies, q, th, bl, s),
           OnWay(q2, s) => OnWay(q, s),
           OnWayOnce(q2, s),
           \A h \in Threads : Holds(th2[h], s) =>
               Holds(th[h], s) /\ (th2[h].step = "hand" => th[h].step = "hand"),
           \A b \in 0..Rotations : bl[b] \subseteq bl2[b]
    PROVE  Single(copies, q2, th2, bl2, s)
<1>1. Recorded(bl, s) => Recorded(bl2, s)
  BY DEF Recorded
<1> QED
  BY <1>1 DEF Single

\* A message of the span that leaves the queue may be written, and goes from there.
LEMMA SingleDelivered ==
    ASSUME NEW copies \in Nat, NEW q \in Seq(Message), q # <<>>, NEW th, NEW bl, NEW s,
           Single(copies, q, th, bl, s), RawOf(Head(q), s),
           NEW copies2 \in {copies, copies + 1}, NEW q2,
           OnWay(q2, s) => OnWay(Tail(q), s), OnWayOnce(q2, s)
    PROVE  Single(copies2, q2, th, bl, s)
<1>1. OnWay(q, s) /\ ~OnWay(Tail(q), s)
  BY TailOnWay DEF Single
<1>2. copies = 0 /\ copies2 <= 1
  BY <1>1 DEF Single
<1> QED
  BY <1>1, <1>2 DEF Single

LEMMA CopyFacts ==
    ASSUME TypeInv
    PROVE  /\ queue \in Seq(Message)
           /\ thread \in [Threads -> Thread]
           /\ bloom \in [0..Rotations -> SUBSET Spans]
           /\ kafka \in [raw : [Spans -> Nat], dead : SUBSET Spans]
           /\ mishaps \in [copied : SUBSET Spans, lost : SUBSET Spans]
           /\ \A s \in Spans : [span |-> s, to |-> "raw"] \in Message
                            /\ [span |-> s, to |-> "dead"] \in Message
  BY DEF TypeInv, ServerTyped, BrokerTyped, Message

\* The steps of the server's threads.
LEMMA HandlerKeepsSingle ==
    ASSUME TypeInv, Prompt, NEW h \in Threads, Handle(h),
           NEW s \in Spans, s \notin mishaps'.copied,
           Single(kafka.raw[s], queue, thread, bloom, s)
    PROVE  Single(kafka'.raw[s], queue', thread', bloom', s)
<1>1. /\ kafka' = kafka
      /\ \A g \in Threads : g # h => thread'[g] = thread[g]
  <2>1. HandlerStep(h)
    BY HandlerSteps
  <2> QED
    BY <2>1, CopyFacts DEF HandlerStep
<1>2. \A b \in 0..Rotations : bloom[b] \subseteq bloom'[b]
  <2>1. bloom' = bloom \/ SetBits(h)
    BY DEF Handle, Start, Reject, ChooseBucket, CheckSeen, CheckNew, Record, SkipDedup,
           HandOver, SerialisationFails, HandOverRaises, Answer, filter
  <2> QED
    BY <2>1, CopyFacts DEF SetBits
<1>3. OnWayOnce(queue, s) /\ thread[h] \in Thread
  BY CopyFacts DEF Single
<1>4. ASSUME OnWay(queue', s) => OnWay(queue, s), OnWayOnce(queue', s),
             ~Holds(thread'[h], s)
      PROVE  Single(kafka'.raw[s], queue', thread', bloom', s)
  <2>1. \A g \in Threads : Holds(thread'[g], s) =>
            Holds(thread[g], s) /\ (thread'[g].step = "hand" => thread[g].step = "hand")
    BY <1>1, <1>4
  <2> QED
    BY <1>1, <1>2, <1>4, <2>1, SingleKept
<1>5. CASE \E t \in Tasks : Start(h, t)
  <2>1. queue' = queue /\ thread'[h].step = "check"
    BY <1>5, CopyFacts DEF Start, broker
  <2> QED
    BY <1>3, <1>4, <2>1 DEF Holds
<1>12. CASE ChooseBucket(h)
  <2>1. queue' = queue /\ thread'[h].step = "ask"
    BY <1>3, <1>12, CopyFacts DEF ChooseBucket, broker, Thread
  <2> QED
    BY <1>3, <1>4, <2>1 DEF Holds
<1>6. CASE Reject(h) \/ CheckSeen(h) \/ HandOverRaises(h) \/ Answer(h)
  <2>1. queue' = queue
    BY <1>6 DEF Reject, CheckSeen, HandOverRaises, Answer, broker
  <2>2. NextSpan(h) \/ Free(h)
    BY <1>6 DEF Reject, CheckSeen, HandOverRaises, Answer
  <2>3. thread'[h].step \in {"check", "idle"}
    BY <2>2, <1>3, CopyFacts DEF NextSpan, Free, IdleThread, Thread
  <2> QED
    BY <1>3, <1>4, <2>1, <2>3 DEF Holds
<1>7. CASE CheckNew(h)
  <2>1. /\ queue' = queue /\ bloom' = bloom
        /\ thread'[h].todo = thread[h].todo /\ thread'[h].step = "record"
        /\ Now(h, "ask") /\ ~Seen(h)
    BY <1>3, <1>7, CopyFacts DEF CheckNew, Goto, broker, filter, Now, Thread
  <2>2. CASE SpanOf(h) # s
    BY <1>3, <1>4, <2>1, <2>2 DEF Holds, SpanOf
  <2>3. CASE SpanOf(h) = s
    <3>0. ~Races(h)
      BY <1>7, <2>3, CopyFacts DEF CheckNew, MayCopy
    <3>1. ~Recorded(bloom, s)
      <4>1. DOMAIN bloom = 0..Rotations /\ thread[h].bucket \in 0..Rotations
        BY <1>3, CopyFacts DEF Thread
      <4>2. ASSUME NEW b \in 0..Rotations, s \in bloom[b] PROVE FALSE
        <5>1. b >= thread[h].bucket - 1
          BY <2>1, <2>3, <4>1, <4>2 DEF Prompt
        <5>2. ~(b > thread[h].bucket)
          BY <2>3, <3>0, <4>1, <4>2 DEF Races
        <5>3. b \in {thread[h].bucket, thread[h].bucket - 1}
          BY <4>1, <5>1, <5>2, IngestionAssumption
        <5> QED
          BY <2>1, <2>3, <4>1, <4>2, <5>3 DEF Seen
      <4> QED
        BY <4>2 DEF Recorded
    <3>2. /\ kafka.raw[s] # 1 /\ ~OnWay(queue, s)
          /\ \A g \in Threads : Holds(thread[g], s) => thread[g].step = "record"
      BY <3>1 DEF Single, Holds
    <3>3. ~ \E g \in Threads \ {h} : Now(g, "record") /\ SpanOf(g) = SpanOf(h)
      BY <3>0 DEF Races
    <3>4. \A g \in Threads : Holds(thread'[g], s) => g = h
      BY <1>1, <2>3, <3>2, <3>3 DEF Holds, Now, SpanOf
    <3> QED
      BY <1>1, <2>1, <3>2, <3>4 DEF Single
  <2> QED
    BY <2>2, <2>3
<1>8. CASE Record(h)
  <2>1. /\ queue' = queue /\ SetBits(h)
        /\ thread'[h].todo = thread[h].todo /\ thread'[h].step = "hand"
        /\ thread[h].todo # <<>> /\ thread[h].step = "record"
    BY <1>3, <1>8, CopyFacts DEF Record, broker, Now, Goto, Thread
  <2>2. CASE SpanOf(h) # s
    BY <1>3, <1>4, <2>1, <2>2 DEF Holds, SpanOf
  <2>3. CASE SpanOf(h) = s
    <3>1. Recorded(bloom', s)
      BY <1>3, <2>1, <2>3, CopyFacts DEF Recorded, SetBits, Thread
    <3>2. Holds(thread[h], s) /\ \A g \in Threads : Holds(thread'[g], s) => Holds(thread[g], s)
      BY <1>1, <2>1, <2>3 DEF Holds, SpanOf
    <3> QED
      BY <1>1, <2>1, <3>1, <3>2 DEF Single
  <2> QED
    BY <2>2, <2>3
<1>9. CASE SkipDedup(h)
  <2>1. /\ queue' = queue /\ thread'[h].todo = thread[h].todo
        /\ SpanOf(h) # s
    BY <1>3, <1>9, CopyFacts DEF SkipDedup, broker, Goto, MayCopy, Thread
  <2> QED
    BY <1>3, <1>4, <2>1 DEF Holds, SpanOf
<1>10. CASE HandOver(h)
  <2>1. /\ queue' = Append(queue, [span |-> SpanOf(h), to |-> "raw"])
        /\ thread[h].todo # <<>> /\ thread[h].step = "hand" /\ bloom' = bloom
        /\ thread'[h].step = "check"
        /\ SpanOf(h) \in Spans
    BY <1>3, <1>10, CopyFacts, ThreadFacts DEF HandOver, NextSpan, Now, Thread, filter
  <2>2. PICK m \in Message : m = [span |-> SpanOf(h), to |-> "raw"]
    BY <2>1, CopyFacts
  <2>3. queue' = Append(queue, m)
    BY <2>1, <2>2
  <2>4. CASE SpanOf(h) # s
    <3>1. ~RawOf(m, s)
      BY <2>2, <2>4 DEF RawOf
    <3>2. (OnWay(queue', s) => OnWay(queue, s)) /\ OnWayOnce(queue', s)
      BY <1>3, <2>3, <3>1, CopyFacts, AppendedOnWay
    <3> QED
      BY <1>4, <2>1, <3>2 DEF Holds
  <2>5. CASE SpanOf(h) = s
    <3>1. Holds(thread[h], s)
      BY <2>1, <2>5 DEF Holds, SpanOf
    <3>2. Recorded(bloom, s) /\ ~OnWay(queue, s) /\ kafka.raw[s] # 1
      BY <2>1, <3>1 DEF Single
    <3>3. OnWayOnce(queue', s)
      BY <1>3, <2>3, <3>2, CopyFacts, AppendedOnWay
    <3>4. \A g \in Threads : ~Holds(thread'[g], s)
      <4>1. ~Holds(thread'[h], s)
        BY <2>1 DEF Holds
      <4> QED
        BY <1>1, <3>1, <4>1 DEF Single
    <3> QED
      BY <1>1, <2>1, <3>2, <3>3, <3>4 DEF Single
  <2> QED
    BY <2>4, <2>5
<1>11. CASE SerialisationFails(h)
  <2>1. /\ thread'[h].step = "check" /\ SpanOf(h) \in Spans
        /\ \/ queue' = queue
           \/ queue' = Append(queue, [span |-> SpanOf(h), to |-> "dead"])
    BY <1>3, <1>11, CopyFacts, ThreadFacts
    DEF SerialisationFails, NextSpan, Now, Thread, DeadLetter
  <2>2. PICK m \in Message : m = [span |-> SpanOf(h), to |-> "dead"]
    BY <2>1, CopyFacts
  <2>3. ~RawOf(m, s)
    BY <2>2 DEF RawOf
  <2>4. (OnWay(queue', s) => OnWay(queue, s)) /\ OnWayOnce(queue', s)
    <3>1. CASE queue' = queue
      BY <1>3, <3>1
    <3>2. CASE queue' = Append(queue, m)
      BY <1>3, <2>3, <3>2, CopyFacts, AppendedOnWay
    <3> QED
      BY <2>1, <2>2, <3>1, <3>2
  <2> QED
    BY <1>4, <2>1, <2>4 DEF Holds
<1> QED
  BY <1>5, <1>6, <1>7, <1>8, <1>9, <1>10, <1>11, <1>12 DEF Handle

\* The steps of the simulator.
LEMMA ClientKeepsSingle ==
    ASSUME TypeInv, NEW tasks, ClientStep(tasks), NEW s,
           Single(kafka.raw[s], queue, thread, bloom, s)
    PROVE  Single(kafka'.raw[s], queue', thread', bloom', s)
<1>1. UNCHANGED <<kafka, queue, bloom>>
  BY DEF ClientStep, broker
<1>2. \A h \in Threads : thread'[h].todo = thread[h].todo /\ thread'[h].step = thread[h].step
  BY ThreadFacts DEF ClientStep, Unheard, Thread
<1>3. \A h \in Threads : Holds(thread'[h], s) <=> Holds(thread[h], s)
  BY <1>2 DEF Holds
<1> QED
  BY <1>1, <1>2, <1>3 DEF Single

\* The steps of the producer, of Redis and of the process.
LEMMA BrokerKeepsSingle ==
    ASSUME TypeInv, Deliver \/ DeliveryFails \/ NextBucket \/ Exit \/ Restart,
           NEW s \in Spans, Single(kafka.raw[s], queue, thread, bloom, s)
    PROVE  Single(kafka'.raw[s], queue', thread', bloom', s)
<1>1. bloom' = bloom /\ OnWayOnce(queue, s) /\ kafka.raw[s] \in Nat
  BY CopyFacts DEF Deliver, DeliveryFails, NextBucket, Exit, Restart, server, filter, Single
<1>2. CASE NextBucket \/ Restart
  <2>1. UNCHANGED <<thread, queue, kafka>>
    BY <1>2 DEF NextBucket, Restart, broker
  <2> QED
    BY <1>1, <2>1
<1>3. CASE Exit
  <2>1. /\ queue' = <<>> /\ kafka' = kafka
        /\ \A h \in Threads : thread'[h].step = "idle"
    BY <1>3 DEF Exit, IdleThread
  <2>2. ~OnWay(queue', s) /\ OnWayOnce(queue', s) /\ \A h \in Threads : ~Holds(thread'[h], s)
    BY <2>1 DEF OnWay, OnWayOnce, Holds
  <2> QED
    BY <1>1, <2>1, <2>2, SingleKept
<1>4. CASE Deliver \/ DeliveryFails
  <2>1. PICK m \in Message : m = Head(queue)
    BY <1>4, CopyFacts, TailFacts DEF Deliver, DeliveryFails
  <2>2. /\ queue # <<>> /\ thread' = thread
        /\ Tail(queue) \in Seq(Message)
    BY <1>4, CopyFacts, TailFacts DEF Deliver, DeliveryFails, server
  <2>3. \/ queue' = Tail(queue)
        \/ queue' = Append(Tail(queue), [span |-> m.span, to |-> "dead"])
    BY <1>4, <2>1 DEF Deliver, DeliveryFails, DeadLetter
  <2>4. (OnWay(queue', s) => OnWay(Tail(queue), s)) /\ OnWayOnce(queue', s)
    <3>1. OnWayOnce(Tail(queue), s)
      BY <1>1, <2>2, CopyFacts, TailOnWay
    <3>2. PICK d \in Message : d = [span |-> m.span, to |-> "dead"]
      BY <2>1 DEF Message
    <3>3. ~RawOf(d, s)
      BY <3>2 DEF RawOf
    <3>4. CASE queue' = Tail(queue)
      BY <3>1, <3>4
    <3>5. CASE queue' = Append(Tail(queue), d)
      BY <2>2, <3>1, <3>3, <3>5, AppendedOnWay
    <3> QED
      BY <2>3, <3>2, <3>4, <3>5
  <2>5. \/ kafka'.raw[s] = kafka.raw[s]
        \/ RawOf(m, s) /\ kafka'.raw[s] = kafka.raw[s] + 1
    BY <1>4, <2>1, CopyFacts DEF Deliver, DeliveryFails, RawOf, Message
  <2>6. CASE RawOf(m, s)
    BY <1>1, <2>1, <2>2, <2>4, <2>5, <2>6, CopyFacts, SingleDelivered
  <2>7. CASE ~RawOf(m, s)
    <3>1. OnWay(queue', s) => OnWay(queue, s)
      BY <2>2, <2>4, CopyFacts, TailOnWay
    <3> QED
      BY <1>1, <2>2, <2>4, <2>5, <2>7, <3>1, SingleKept
  <2> QED
    BY <2>6, <2>7
<1> QED
  BY <1>2, <1>3, <1>4

LEMMA CopiedGrows ==
    ASSUME TypeInv, Calls, Next
    PROVE  mishaps.copied \subseteq mishaps'.copied
<1>1. CASE \/ \E t \in Services, s \in Spans : Publish(t, s) \/ PublishDuplicate(t, s)
           \/ \E t \in Tasks : Flush(t) \/ CallFails(t) \/ Retry(t)
           \/ CancelServices \/ CancelFlusher \/ Stopped
  BY <1>1, ClientSteps DEF ClientStep
<1>2. CASE \E h \in Threads : Handle(h)
  BY <1>2, CopyFacts
  DEF Handle, Start, Reject, ChooseBucket, CheckSeen, CheckNew, Record, SkipDedup,
      HandOver, SerialisationFails, HandOverRaises, Answer, MayCopy, MayLose, DeadLetter,
      history
<1>3. CASE Deliver \/ DeliveryFails \/ NextBucket \/ Exit \/ Restart
  BY <1>3, CopyFacts
  DEF Deliver, DeliveryFails, NextBucket, Exit, Restart, MayLose, DeadLetter, history
<1> QED
  BY <1>1, <1>2, <1>3 DEF Next

LEMMA NextCopies ==
    ASSUME TypeInv, Calls, CopiesInv, Prompt, [Next]_vars
    PROVE  CopiesInv'
<1>1. SUFFICES ASSUME NEW s \in Spans, s \notin mishaps'.copied
               PROVE  Single(kafka'.raw[s], queue', thread', bloom', s)
  BY DEF CopiesInv
<1>2. CASE UNCHANGED vars
  BY <1>1, <1>2 DEF vars, server, filter, broker, history, CopiesInv
<1>3. CASE Next
  <2>1. Single(kafka.raw[s], queue, thread, bloom, s)
    BY <1>1, <1>3, CopiedGrows DEF CopiesInv
  <2>2. CASE \/ \E t \in Services, u \in Spans : Publish(t, u) \/ PublishDuplicate(t, u)
             \/ \E t \in Tasks : Flush(t) \/ CallFails(t) \/ Retry(t)
             \/ CancelServices \/ CancelFlusher \/ Stopped
    BY <2>1, <2>2, ClientSteps, ClientKeepsSingle
  <2>3. CASE \E h \in Threads : Handle(h)
    BY <1>1, <2>1, <2>3, HandlerKeepsSingle
  <2>4. CASE Deliver \/ DeliveryFails \/ NextBucket \/ Exit \/ Restart
    BY <2>1, <2>4, BrokerKeepsSingle
  <2> QED
    BY <1>3, <2>2, <2>3, <2>4 DEF Next
<1> QED
  BY <1>2, <1>3

LEMMA InitCopies == Init => CopiesInv
<1> SUFFICES ASSUME Init, NEW s \in Spans PROVE Single(kafka.raw[s], queue, thread, bloom, s)
  BY DEF CopiesInv
<1>1. kafka.raw[s] = 0 /\ queue = <<>> /\ \A h \in Threads : thread[h].step = "idle"
  BY DEF Init, IdleThread
<1> QED
  BY <1>1 DEF Single, OnWay, OnWayOnce, Holds

LEMMA SingleMeansOne == TypeInv /\ CopiesInv => OneCopy
<1> SUFFICES ASSUME TypeInv, CopiesInv, NEW s \in Spans, s \notin mishaps.copied
             PROVE  ~(Copies(s) > 1)
  BY DEF OneCopy
<1> DEFINE onWay == {i \in DOMAIN queue : queue[i] = [span |-> s, to |-> "raw"]}
<1>1. Single(kafka.raw[s], queue, thread, bloom, s) /\ kafka.raw[s] \in Nat
  BY CopyFacts DEF CopiesInv
<1>2. \A i \in onWay : RawOf(queue[i], s)
  BY DEF RawOf
<1>3. \/ onWay = {}
      \/ kafka.raw[s] # 1 /\ \E i : onWay = {i}
  <2>1. \A i, j \in onWay : i = j
    BY <1>1, <1>2 DEF Single, OnWayOnce
  <2>2. kafka.raw[s] = 1 => onWay = {}
    BY <1>1, <1>2 DEF Single, OnWay
  <2> HIDE DEF onWay
  <2>3. ASSUME NEW i \in onWay PROVE onWay = {i}
    BY <2>1
  <2> QED
    BY <2>2, <2>3
<1>4. \/ Cardinality(onWay) = 0
      \/ kafka.raw[s] # 1 /\ Cardinality(onWay) = 1
  <2> HIDE DEF onWay
  <2> QED
    BY <1>3, FS_EmptySet, FS_Singleton
<1>5. kafka.raw[s] <= 1
  BY <1>1 DEF Single
<1>6. Copies(s) = kafka.raw[s] + Cardinality(onWay)
  BY DEF Copies
<1> HIDE DEF onWay
<1> QED
  BY <1>1, <1>4, <1>5, <1>6

\* However often a batch is sent, and however many buckets come and go, a span is in
\* raw-telemetry once, unless Redis failed or two handlers of one batch raced inside
\* seen_or_add, with one bucket or with two: as long as no span is looked up after the
\* two buckets that remember it.
THEOREM CopiedOnce == Spec /\ []Prompt => []OneCopy
<1>1. Init => IInv /\ CopiesInv
  BY InitIInv, InitCopies
<1>2. IInv /\ CopiesInv /\ Prompt /\ [Next]_vars => (IInv /\ CopiesInv)'
  BY NextIInv, NextCopies DEF IInv
<1>3. IInv /\ CopiesInv => OneCopy
  BY SingleMeansOne DEF IInv
<1> QED
  BY <1>1, <1>2, <1>3, PTL DEF Spec

LEMMA PromptBuckets ==
    ASSUME Rotations <= 1, TypeInv
    PROVE  Prompt
<1>1. ASSUME NEW h \in Threads PROVE thread[h].bucket \in 0..Rotations
  BY CopyFacts DEF Thread
<1>2. DOMAIN bloom = 0..Rotations /\ Rotations \in Nat
  BY CopyFacts, IngestionAssumption
<1>3. ASSUME NEW h \in Threads, NEW b \in DOMAIN bloom PROVE b >= thread[h].bucket - 1
  BY <1>1, <1>2
<1> QED
  BY <1>3 DEF Prompt

\* The same without the condition, for at most one change of bucket.
THEOREM CopiedOnceInTwoBuckets ==
    ASSUME Rotations <= 1
    PROVE  Spec => []OneCopy
<1>1. Init => IInv /\ CopiesInv
  BY InitIInv, InitCopies
<1>2. IInv /\ CopiesInv /\ [Next]_vars => (IInv /\ CopiesInv)'
  BY NextIInv, NextCopies, PromptBuckets DEF IInv
<1>3. IInv /\ CopiesInv => OneCopy
  BY SingleMeansOne DEF IInv
<1> QED
  BY <1>1, <1>2, <1>3, PTL DEF Spec
=============================================================================
