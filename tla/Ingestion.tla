----------------------------- MODULE Ingestion -----------------------------
(***************************************************************************)
(* The way of a span from the simulator to Kafka: GrpcPublisher            *)
(* (simulator/publisher) buffers spans and sends them in batches, with a   *)
(* timeout and retries, to the threads of the ingestion service            *)
(* (ingestion/api, pipeline.py), which ask the Redis Bloom filter whether  *)
(* they have seen a span and hand it to the Kafka producer.                *)
(*                                                                         *)
(* A batch is not a transaction.  A call the client has given up goes on   *)
(* in its thread, beside the retry; a call that raises has done a part of  *)
(* its batch; a span is recorded as seen before it is handed over; and the *)
(* filter reads the clock, looks a span up and records it in three steps.  *)
(***************************************************************************)
EXTENDS Integers, Sequences, FiniteSets, SequencesExt

CONSTANTS
    Spans,         \* span ids, unique (trace_generator draws UUIDs)
    Invalids,      \* which spans SpanPayload may reject: a set of sets of spans
    Services,      \* run_service tasks of the simulator
    Threads,       \* threads of the gRPC server
    BatchMax,      \* GRPC_BATCH_MAX
    SendAttempts,  \* SEND_ATTEMPTS
    QueueMax,      \* queue.buffering.max.messages of the Kafka producer
    Rotations,     \* bound: Bloom bucket changes (one an hour; a batch lives seconds)
    MaxFaults      \* bound: what may go wrong with Redis, Kafka or the process

ASSUME IngestionAssumption ==
    /\ Invalids \subseteq SUBSET Spans
    /\ "nobody" \notin Services
    /\ BatchMax \in Nat \ {0} /\ SendAttempts \in Nat \ {0} /\ QueueMax \in Nat
    /\ Rotations \in Nat /\ MaxFaults \in Nat

VARIABLES
    invalid,   \* the spans that SpanPayload rejects
    stage,     \* the simulator: "running", "cancelled", "stopping", "stopped"
    buffer,    \* GrpcPublisher._buffer
    task,      \* of every task: the batch it is flushing and how far it is
    tally,     \* spans counted as sent, dropped or duplicate, or abandoned
    up,        \* the ingestion process runs
    dedup,     \* it has found Redis when it started
    thread,    \* of every server thread: the call it handles
    bloom,     \* spans recorded in each bucket of the Bloom filter
    bucket,    \* the current bucket
    queue,     \* the producer's local queue
    kafka,     \* what the brokers hold: copies in raw-telemetry, dead letters
    mishaps,   \* history: spans that may be copied, or lost, by what went wrong
    faults     \* how often something did

client == <<stage, buffer, task, tally>>
process == <<up, dedup>>
filter == <<bloom, bucket>>
server == <<invalid, process, thread, filter>>
broker == <<queue, kafka>>
history == <<mishaps, faults>>
vars == <<client, server, broker, history>>

Nobody == "nobody"
Tasks == Services \cup {"flusher", "main"}

IdleTask == [phase |-> "idle", batch |-> <<>>, attempt |-> 0]
Fault == faults < MaxFaults /\ faults' = faults + 1

Called(batch) == [phase |-> "call", batch |-> batch, attempt |-> 1]

IdleThread == [caller |-> Nobody, todo |-> <<>>, step |-> "idle", bucket |-> 0]

----------------------------------------------------------------------------
(* GrpcPublisher, in the event loop of the simulator *)

\* generate_span draws a new id.
IsNew(s) == s \notin tally.published

\* Mutant: a full buffer is flushed one span too late.
PublishLate(t, s) ==
    /\ stage = "running"
    /\ task[t].phase = "idle"
    /\ IsNew(s)
    /\ IF Len(buffer) + 1 > BatchMax
       THEN /\ task' = [task EXCEPT ![t] = Called(Append(buffer, s))]
            /\ buffer' = <<>>
       ELSE /\ buffer' = Append(buffer, s)
            /\ UNCHANGED task
    /\ tally' = [tally EXCEPT !.published = @ \cup {s}]
    /\ UNCHANGED <<stage, server, broker, history>>

\* publish, up to its first await: the span is buffered, and a full buffer is
\* swapped out and sent by the task that filled it.
Publish(t, s) ==
    /\ stage = "running"
    /\ task[t].phase = "idle"
    /\ IsNew(s)
    /\ IF Len(buffer) + 1 >= BatchMax
       THEN /\ task' = [task EXCEPT ![t] = Called(Append(buffer, s))]
            /\ buffer' = <<>>
       ELSE /\ buffer' = Append(buffer, s)
            /\ UNCHANGED task
    /\ tally' = [tally EXCEPT !.published = @ \cup {s}]
    /\ UNCHANGED <<stage, server, broker, history>>

\* The publisher's own Bloom filter takes a new span for one it has seen.
PublishDuplicate(t, s) ==
    /\ stage = "running"
    /\ task[t].phase = "idle"
    /\ IsNew(s)
    /\ tally' = [tally EXCEPT !.published = @ \cup {s}, !.duplicates = @ \cup {s}]
    /\ Fault
    /\ UNCHANGED <<stage, buffer, task, server, broker, mishaps>>

\* _flush by the flusher, or by stop(): the buffer is swapped for an empty one.
Flush(t) ==
    /\ buffer # <<>>
    /\ task[t].phase = "idle"
    /\ \/ t = "flusher" /\ stage \in {"running", "cancelled"}
       \/ t = "main" /\ stage = "stopping"
    /\ task' = [task EXCEPT ![t] = Called(buffer)]
    /\ buffer' = <<>>
    /\ UNCHANGED <<stage, tally, server, broker, history>>

\* The call ends in an error: after the last attempt the batch is dropped.
Failed(t) ==
    IF task[t].attempt = SendAttempts
    THEN /\ tally' = [tally EXCEPT !.dropped = @ \cup ToSet(task[t].batch)]
         /\ task' = [task EXCEPT ![t] = IdleTask]
    ELSE /\ task' = [task EXCEPT ![t].phase = "backoff"]
         /\ UNCHANGED tally

\* Nobody waits any longer for the answers to the calls of these tasks.
Unheard(tasks) ==
    [h \in Threads |-> IF thread[h].caller \in tasks
                       THEN [thread[h] EXCEPT !.caller = Nobody]
                       ELSE thread[h]]

\* Five seconds have passed, or the connection is gone.  The thread that handles
\* the call does not learn of it.
CallFails(t) ==
    /\ task[t].phase = "call"
    /\ Failed(t)
    /\ thread' = Unheard({t})
    /\ UNCHANGED <<stage, buffer, invalid, process, filter, broker, history>>

Retry(t) ==
    /\ task[t].phase = "backoff"
    /\ task' = [task EXCEPT ![t].phase = "call", ![t].attempt = @ + 1]
    /\ UNCHANGED <<stage, buffer, tally, server, broker, history>>

\* Cancelled tasks lose the batches they are flushing.
Cancel(tasks) ==
    /\ task' = [t \in Tasks |-> IF t \in tasks THEN IdleTask ELSE task[t]]
    /\ tally' = [tally EXCEPT !.abandoned = @ \cup UNION {ToSet(task[t].batch) : t \in tasks}]
    /\ thread' = Unheard(tasks)

\* simulator/main.py on a signal cancels its services, and stop() the flusher.
CancelServices ==
    /\ stage = "running"
    /\ stage' = "cancelled"
    /\ Cancel(Services)
    /\ UNCHANGED <<buffer, invalid, process, filter, broker, history>>

CancelFlusher ==
    /\ stage = "cancelled"
    /\ stage' = "stopping"
    /\ Cancel({"flusher"})
    /\ UNCHANGED <<buffer, invalid, process, filter, broker, history>>

Stopped ==
    /\ stage = "stopping"
    /\ buffer = <<>>
    /\ task["main"] = IdleTask
    /\ stage' = "stopped"
    /\ UNCHANGED <<buffer, task, tally, server, broker, history>>

----------------------------------------------------------------------------
(* TelemetryServicer and IngestPipeline, in the threads of the server *)

\* A free thread takes a call up that no thread has taken yet.
Start(h, t) ==
    /\ up
    /\ thread[h] = IdleThread
    /\ task[t].phase = "call"
    /\ \A g \in Threads : thread[g].caller # t
    /\ thread' = [thread EXCEPT ![h] = [caller |-> t, todo |-> task[t].batch,
                                        step |-> "check", bucket |-> 0]]
    /\ UNCHANGED <<client, invalid, process, filter, broker, history>>

Now(h, step) == thread[h].todo # <<>> /\ thread[h].step = step
SpanOf(h) == Head(thread[h].todo)

Goto(h, step) == thread' = [thread EXCEPT ![h].step = step]
NextSpan(h) == thread' = [thread EXCEPT ![h].todo = Tail(@), ![h].step = "check"]

MayCopy(s) == mishaps' = [mishaps EXCEPT !.copied = @ \cup {s}]
MayLose(s) == mishaps' = [mishaps EXCEPT !.lost = @ \cup {s}]

Reject(h) ==
    /\ Now(h, "check")
    /\ SpanOf(h) \in invalid
    /\ NextSpan(h)
    /\ UNCHANGED <<client, invalid, process, filter, broker, history>>

\* seen_or_add reads the clock once; it looks in, and records in, the bucket of then.
ChooseBucket(h) ==
    /\ Now(h, "check")
    /\ dedup
    /\ SpanOf(h) \notin invalid
    /\ thread' = [thread EXCEPT ![h].step = "ask", ![h].bucket = bucket]
    /\ UNCHANGED <<client, invalid, process, filter, broker, history>>

\* Mutant: only one bucket is asked.
SeenInCurrent(h) == SpanOf(h) \in bloom[thread[h].bucket]

\* All bits of the span are set in the chosen bucket or in the one before it.
Seen(h) ==
    \E b \in {thread[h].bucket, thread[h].bucket - 1} \cap DOMAIN bloom :
        SpanOf(h) \in bloom[b]

\* The answer is "duplicate"; the filter errs now and then, for a new span.
CheckSeen(h) ==
    /\ Now(h, "ask")
    /\ IF Seen(h) THEN UNCHANGED history ELSE Fault /\ MayLose(SpanOf(h))
    /\ NextSpan(h)
    /\ UNCHANGED <<client, invalid, process, filter, broker>>

\* Another handler that found the span new is still inside seen_or_add, or was when
\* this one chose its bucket: the clock has gone on, and that one has recorded the
\* span in a bucket this one does not look in.
Races(h) ==
    \/ \E g \in Threads \ {h} : Now(g, "record") /\ SpanOf(g) = SpanOf(h)
    \/ \E b \in DOMAIN bloom : b > thread[h].bucket /\ SpanOf(h) \in bloom[b]

\* The bits were read; they are set in a second round trip.
CheckNew(h) ==
    /\ Now(h, "ask")
    /\ ~Seen(h)
    /\ Goto(h, "record")
    /\ IF Races(h) THEN MayCopy(SpanOf(h)) ELSE UNCHANGED mishaps
    /\ UNCHANGED <<client, invalid, process, filter, broker, faults>>

SetBits(h) == bloom' = [bloom EXCEPT ![thread[h].bucket] = @ \cup {SpanOf(h)}]

Record(h) ==
    /\ Now(h, "record")
    /\ SetBits(h)
    /\ Goto(h, "hand")
    /\ UNCHANGED <<client, invalid, process, bucket, broker, history>>

\* Redis fails, or was not there at the start: fail open.  The bits may be set.
SkipDedup(h) ==
    /\ \/ Now(h, "check") /\ ~dedup /\ SpanOf(h) \notin invalid /\ UNCHANGED <<bloom, faults>>
       \/ Now(h, "ask") /\ Fault /\ UNCHANGED bloom
       \/ Now(h, "record") /\ Fault /\ (UNCHANGED bloom \/ SetBits(h))
    /\ MayCopy(SpanOf(h))
    /\ Goto(h, "hand")
    /\ UNCHANGED <<client, invalid, process, bucket, broker>>

Full == Len(queue) >= QueueMax

\* publish: the span is in the producer's queue, and answered as accepted.
HandOver(h) ==
    /\ Now(h, "hand")
    /\ ~Full
    /\ queue' = Append(queue, [span |-> SpanOf(h), to |-> "raw"])
    /\ NextSpan(h)
    /\ UNCHANGED <<client, invalid, process, filter, kafka, history>>

\* _dead_letter: a queue that is full takes no dead letter either.
DeadLetter(s, room, rest) ==
    IF room
    THEN queue' = Append(rest, [span |-> s, to |-> "dead"]) /\ UNCHANGED mishaps
    ELSE queue' = rest /\ MayLose(s)

\* The span cannot be serialised (the schema registry is away): "failed".
SerialisationFails(h) ==
    /\ Now(h, "hand")
    /\ Fault
    /\ DeadLetter(SpanOf(h), ~Full, queue)
    /\ NextSpan(h)
    /\ UNCHANGED <<client, invalid, process, filter, kafka>>

\* The handler is done with its call, or with its life.
Free(h) == thread' = [thread EXCEPT ![h] = IdleThread]

\* Mutant: what publish() raises is swallowed, and the batch goes on.
HandOverSwallowed(h) ==
    /\ Now(h, "hand")
    /\ Full
    /\ NextSpan(h)
    /\ UNCHANGED <<client, invalid, process, filter, broker, history>>

\* The queue is full at the second try too: the exception ends the whole call.
HandOverRaises(h) ==
    /\ Now(h, "hand")
    /\ Full
    /\ MayLose(SpanOf(h))
    /\ Free(h)
    /\ IF thread[h].caller = Nobody THEN UNCHANGED <<task, tally>>
                                    ELSE Failed(thread[h].caller)
    /\ UNCHANGED <<stage, buffer, invalid, process, filter, broker, faults>>

\* Mutant: the buffer is emptied when the batch has been answered for.
AnswerEmptying(h) ==
    /\ thread[h].step # "idle"
    /\ thread[h].todo = <<>>
    /\ Free(h)
    /\ IF thread[h].caller = Nobody
       THEN UNCHANGED <<buffer, task, tally>>
       ELSE LET t == thread[h].caller
            IN  /\ tally' = [tally EXCEPT !.sent = @ \cup ToSet(task[t].batch)]
                /\ task' = [task EXCEPT ![t] = IdleTask]
                /\ buffer' = <<>>
    /\ UNCHANGED <<stage, invalid, process, filter, broker, history>>

\* The whole batch has been gone through: whoever waits counts it as sent.
Answer(h) ==
    /\ thread[h].step # "idle"
    /\ thread[h].todo = <<>>
    /\ Free(h)
    /\ IF thread[h].caller = Nobody
       THEN UNCHANGED <<task, tally>>
       ELSE LET t == thread[h].caller
            IN  /\ tally' = [tally EXCEPT !.sent = @ \cup ToSet(task[t].batch)]
                /\ task' = [task EXCEPT ![t] = IdleTask]
    /\ UNCHANGED <<stage, buffer, invalid, process, filter, broker, history>>

----------------------------------------------------------------------------
(* The Kafka producer, Redis' clock, and the process *)

\* on_delivery without an error.
Deliver ==
    /\ up
    /\ queue # <<>>
    /\ queue' = Tail(queue)
    /\ LET m == Head(queue)
       IN  kafka' = IF m.to = "raw" THEN [kafka EXCEPT !.raw[m.span] = @ + 1]
                                    ELSE [kafka EXCEPT !.dead = @ \cup {m.span}]
    /\ UNCHANGED <<client, server, history>>

\* Mutant: an error is no more than logged.
DeliveryLogged ==
    /\ up
    /\ queue # <<>>
    /\ Fault
    /\ queue' = Tail(queue)
    /\ UNCHANGED <<client, server, kafka, mishaps>>

\* A span that is not confirmed in time becomes a dead letter, though it may have
\* been written; a dead letter that is not delivered is lost.
DeliveryFails ==
    /\ up
    /\ queue # <<>>
    /\ Fault
    /\ LET m == Head(queue)
       IN  /\ DeadLetter(m.span, m.to = "raw", Tail(queue))
           /\ \/ UNCHANGED kafka
              \/ m.to = "raw" /\ kafka' = [kafka EXCEPT !.raw[m.span] = @ + 1]
    /\ UNCHANGED <<client, server>>

NextBucket ==
    /\ bucket < Rotations
    /\ bucket' = bucket + 1
    /\ UNCHANGED <<client, invalid, process, thread, bloom, broker, history>>

\* The process ends, by a crash or when lifespan() has given the producer ten
\* seconds: what is still queued and what the threads have in hand is lost.
Exit ==
    /\ up
    /\ Fault
    /\ up' = FALSE
    /\ mishaps' = [mishaps EXCEPT !.lost = @ \cup {m.span : m \in ToSet(queue)}
                        \cup {SpanOf(h) : h \in {g \in Threads : Now(g, "hand")}}]
    /\ queue' = <<>>
    /\ thread' = [h \in Threads |-> IdleThread]
    /\ UNCHANGED <<client, invalid, dedup, filter, kafka>>

\* build_pipeline: without an answer from Redis, no dedup.
Restart ==
    /\ ~up
    /\ up' = TRUE
    /\ dedup' \in BOOLEAN
    /\ UNCHANGED <<client, invalid, thread, filter, broker, history>>

----------------------------------------------------------------------------

Init ==
    /\ invalid \in Invalids
    /\ stage = "running"
    /\ buffer = <<>>
    /\ task = [t \in Tasks |-> IdleTask]
    /\ tally = [published |-> {}, duplicates |-> {}, sent |-> {}, dropped |-> {},
                abandoned |-> {}]
    /\ up = TRUE
    /\ dedup \in BOOLEAN
    /\ thread = [h \in Threads |-> IdleThread]
    /\ bloom = [b \in 0..Rotations |-> {}]
    /\ bucket = 0
    /\ queue = <<>>
    /\ kafka = [raw |-> [s \in Spans |-> 0], dead |-> {}]
    /\ mishaps = [copied |-> {}, lost |-> {}]
    /\ faults = 0

Handle(h) ==
    \/ \E t \in Tasks : Start(h, t)
    \/ Reject(h) \/ ChooseBucket(h) \/ CheckSeen(h) \/ CheckNew(h) \/ Record(h)
    \/ SkipDedup(h)
    \/ HandOver(h) \/ SerialisationFails(h) \/ HandOverRaises(h) \/ Answer(h)

Next ==
    \/ \E t \in Services, s \in Spans : Publish(t, s) \/ PublishDuplicate(t, s)
    \/ \E t \in Tasks : Flush(t) \/ CallFails(t) \/ Retry(t)
    \/ CancelServices \/ CancelFlusher \/ Stopped
    \/ \E h \in Threads : Handle(h)
    \/ Deliver \/ DeliveryFails \/ NextBucket \/ Exit \/ Restart

Spec == Init /\ [][Next]_vars

----------------------------------------------------------------------------
(* Properties *)

TypeOK ==
    /\ invalid \in Invalids
    /\ stage \in {"running", "cancelled", "stopping", "stopped"}
    /\ buffer \in Seq(Spans) /\ Len(buffer) < BatchMax
    /\ task \in [Tasks -> [phase : {"idle", "call", "backoff"}, batch : Seq(Spans),
                           attempt : 0..SendAttempts]]
    /\ \A t \in Tasks : Len(task[t].batch) <= BatchMax
    /\ tally \in [published : SUBSET Spans, duplicates : SUBSET Spans, sent : SUBSET Spans,
                  dropped : SUBSET Spans, abandoned : SUBSET Spans]
    /\ up \in BOOLEAN /\ dedup \in BOOLEAN
    /\ thread \in [Threads -> [caller : Tasks \cup {Nobody}, todo : Seq(Spans),
                               step : {"idle", "check", "ask", "record", "hand"},
                               bucket : 0..Rotations]]
    /\ bloom \in [0..Rotations -> SUBSET Spans]
    /\ bucket \in 0..Rotations
    /\ queue \in Seq([span : Spans, to : {"raw", "dead"}]) /\ Len(queue) <= QueueMax
    /\ kafka \in [raw : [Spans -> Nat], dead : SUBSET Spans]
    /\ mishaps \in [copied : SUBSET Spans, lost : SUBSET Spans]
    /\ faults \in 0..MaxFaults

\* The publisher's counters account for every span given to it exactly once: the
\* flushes of its tasks take the buffer from one another without losing a span or
\* sending one twice.  Only spans whose flush was cancelled are in no counter.
TallyComplete ==
    LET InFlight == UNION {{t} \X DOMAIN task[t].batch : t \in Tasks}
        Count(s) == Cardinality(s)
    IN  Count(tally.published) =
            Count(tally.sent) + Count(tally.dropped) + Count(tally.duplicates)
              + Count(tally.abandoned) + Len(buffer) + Count(InFlight)

\* A span that cannot vanish any more: it is in Kafka, as a span or as a dead letter,
\* or in the producer's queue, or a thread is about to hand it over.  Or else it is
\* one of those that a fault has cost: the hand-over raised, the process ended, the
\* dead letter failed too, the Bloom filter erred.
Safe(s) ==
    \/ kafka.raw[s] > 0
    \/ s \in kafka.dead
    \/ \E i \in DOMAIN queue : queue[i].span = s
    \/ \E h \in Threads : Now(h, "hand") /\ SpanOf(h) = s
    \/ s \in mishaps.lost

\* A span is recorded as seen before it is handed over, so that a retry may be told
\* "duplicate" of a span that is nowhere yet.  All the same, a span the simulator
\* has counted as sent is safe, unless it is invalid: timeouts, retries and handlers
\* of one batch that overlap cost none.
SentIsSafe == \A s \in tally.sent \ invalid : Safe(s)

\* Copies of a span in raw-telemetry, those on their way included.
Copies(s) ==
    kafka.raw[s] + Cardinality({i \in DOMAIN queue : queue[i] = [span |-> s, to |-> "raw"]})

\* However often a batch is sent, and whatever bucket its retry falls into, a span is
\* in raw-telemetry once, unless Redis failed, or two handlers of the same batch were
\* inside seen_or_add at the same time and both found the span new: before either had
\* recorded it, or because the bucket changed between their readings of the clock and
\* the one with the older bucket looked up last.
OneCopy ==
    \A s \in Spans : Copies(s) > 1 => s \in mishaps.copied
=============================================================================
