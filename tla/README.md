# DistroSense in TLA+

DistroSense watches a fleet of services: spans go through an ingestion service
into Kafka, a Flink job removes duplicates and looks for anomalies, a
correlation engine groups anomalies into incidents, and an orchestrator reacts
to incidents on a Kubernetes cluster and in Slack. This directory holds TLA+
modules of the parts with state and failure behaviour, the TLC configurations
that check them, and proofs checked by TLAPS.

## 1. The system

```
simulator --gRPC--> ingestion --raw-telemetry--> Flink job --anomaly-events--> correlation engine
                       |                            |  \                            |   \
                  Redis, Elasticsearch      TimescaleDB  aggregated-metrics   TimescaleDB  incident-alerts
                                                                                            |      \
                                                                             orchestrator <-+   dashboard API -> browser
                                                                                  |
                                                                    Kubernetes, Slack, LLM, Neo4j
```

| Component (source) | State | Operations | What is hard | What makes it correct |
|---|---|---|---|---|
| Flink dedup operator (`flink_jobs/operators/deduplication_filter.py`) | keyed first-seen time with TTL (checkpointed); two Bloom generations (worker memory) | process an element, rotate, checkpoint, restart | memory lost and state kept on a restart; early rotation; three clocks | no duplicate within a TTL, no span lost |
| Orchestrator (`orchestrator/`) | seen ids, cooldowns, pending HPA reverts (memory); committed offset; the cluster | poll, revert, filter, act, post, commit | crash between two steps; API answers lost; redelivery | every incident judged, none suppressed without cause, HPA original kept |
| Correlation engine (`correlation/`) | open clusters (memory), `incidents` rows, committed offset | add an anomaly, merge, close, save, publish | event time against wall clock; out-of-order arrival; background commits | each anomaly in one incident, clusters bounded and closed |
| Flink windows and sinks (`flink_jobs/jobs`, `operators`, `sinks`) | offsets, window contents (checkpointed); watermark, schema cache (not); transactions; rows | read, fire a window, write rows, emit, checkpoint, commit, restart | re-fired windows, retries after an ambiguous commit, declined checkpoints, a watermark that starts anew | each span in one committed record at most, none lost, rows before records |
| Ingestion (`ingestion/`) | Redis bitmaps, producer queue, ES queue | validate, seen_or_add, publish, dead-letter, shut down | check-then-set on ten threads; retry after a failure; a full queue | what the client counts as sent is in Kafka, among the dead letters, or lost to a named fault |
| Simulator (`simulator/`) | buffer, tallies | publish, flush, retry, stop | flushes of several tasks; cancellation inside an RPC; calls that go on after their timeout | every span is in one of the tallies |
| Dashboard API (`dashboard_api/`) and its page's feed (`dashboard/src/useLiveFeed.ts`) | clients, replay buffer; sockets; the list on the page | poll, broadcast, connect, replay, disconnect, reconnect | broadcasts that overlap with a replay; sockets that die under either | no frame twice over a socket, none of the buffer missed, dead sockets forgotten |
| ML gateway (`ml_service/gateway`) | per-service windows and debouncers | Infer | ten threads on shared dicts, without a lock | services do not disturb one another; a buffer is the latest readings in order |
| Kafka wrappers (`common/`) | librdkafka queues | send with or without wait, poll | timeouts shorter than the delivery timeout | a reported failure is a failure |
| Models, training, views, observability, infrastructure | - | - | - | not modelled: numerics, layout and deployment |

Components talk through Kafka topics (at least once, except the two
transactional topics the Flink job writes) and through TimescaleDB; no two
components share memory. `PROJECT.json` lists every component with its status
and every hazard at its line.

## 2. Plan

In the order of the work, the most important behaviour first:

1. **DedupFilter**, **Orchestrator**, **Correlation** (done, their safety proved):
   the three places where memory is lost while something durable is kept.
2. **FlinkJob** (done): windows, row writes with retries, transactional topics,
   checkpoints; it implements the abstract **ExactlyOnce** twice, for each of the
   two topics it writes, by `INSTANCE ... WITH` (checked and proved).
3. **Ingestion** (done, its safety proved): the simulator's publisher, the
   server's threads, the Redis filter and the producer's queue in one module, as every
   hazard of the path needs all of them.
4. **MLGateway** and **Dashboard** (done, their safety proved).
5. Left: the composition of Correlation and Orchestrator over one
   `incident-alerts` topic; the log indexer's queue; `KafkaPublisher` and the queue
   of `JsonProducer`; the Redis top-k.
6. Left to prove: nothing among the safety properties of the passing runs, each of which
   is a theorem (section 5). Every module of the list above that is to come brings its own.

## 3. Modules

Each component module declares its CONSTANTS with a named assumption, one
action per operation, and its properties at the end. An operator whose comment
begins with "Mutant:" is a plausible wrong version of the definition after it;
no specification uses it: it shows that the property that watches the
definition can fail. History variables (marked `history` at their declaration)
are written and never read by the actions.

### DedupFilter

| TLA+ | Code |
|---|---|
| `bloom.cur`, `.prev`, `.started`, `.rotated` | `RotatingBloom._cur`, `_prev`, `_started_ms`, `_rotated_ms` |
| `seen` | `ValueState` "span-first-seen-ms"; `IsLive` is its TTL (`OnCreateAndWrite`, `NeverReturnExpired`) |
| `holding` | the element between its verdict and `self._seen.update` |
| `log`, `Len(out)` | the source partition and the reader's position |
| `ckpt` | the last completed checkpoint: keyed state, position and everything downstream |
| `SkipLookup`, `LookupMiss`, `Drop`, `Record` | the branches of `process_element` |

Bloom false positives are in `LookupMiss`: it needs no hit of the exact set, so
any span may take the path of a hit. A generation raises IndexError when its
count is above its capacity *before* the key is added, so it holds capacity + 1
keys: `Full` says so. `process_element` reads the clock several times. The
model splits it where the clock matters: the verdict, and the recording; a
tick or a crash may come between. Within each half the clock is read once.

### Orchestrator

| TLA+ | Code |
|---|---|
| `seen`, `last` | `IncidentFilter._seen` (order kept), `_last` |
| `raised`, `enabled` | `K8sClient._raised`; `FALSE` for `DisabledK8sClient` |
| `hpa`, `canary` | `minReplicas` and the rollout's phase, in the cluster |
| `pc` | the place in `run` and `_handle_incident` |
| `Rules` | `rules.yaml`: `cpu` is membership of CPU_SPIKE, `wide` is three or more member services |
| `Poll`, `RevertExpired`, `Check`, `NoScaleUp`/`ExtendHold`/`ScaleUp`, `RollbackCanary`, `PostSlack`, `Commit` | the loop, in its order |

An API call that changes the cluster may be refused, succeed, or succeed with
the answer lost. Slack may or may not have got a message. `Garbage` stands for
any message that is not a JSON object. `closedAt` is the time of the incident's
last anomaly, up to `MaxLag` before publication.
A process that dies anywhere is `Crash`; `Redeliver` is an offset reset under a
running process. Not modelled: the text of posts, the LLM and Neo4j calls
(their failures are swallowed and have no effect), objects with missing fields
(the publisher never writes them).

### Correlation

| TLA+ | Code |
|---|---|
| `clusters` | `_active_clusters`; `born` gives the list order |
| `Related` | `_related`: Neo4j neighbourhood, symmetric, with the service itself |
| `AfterAdd` (`IsEligible`, `Component`, `IsOwner`, `ConnectedClusters`, `Merged`) | `add_anomaly`, `_connected_clusters`, `Cluster.add`, `.merge` |
| `closing` | what `pop_finalized` returned and `_check_finalized` has not dealt with |
| `FailToSave`, `SaveAndPublish`, `CheckDone` | the body of `_check_finalized` |
| `AutoCommit` | the background commit of `JsonConsumer` (its default) |

`Component` is the least set closed under the neighbourhood, which is what the
breadth-first search computes. The four partitions are one sequence, in the
order the consumer reads it; `MaxDelay` lets anomalies arrive out of the order
of detection, as partitions and checkpoints make them.

### FlinkJob and ExactlyOnce

| TLA+ | Code |
|---|---|
| `log`, `job.pos` | the partitions of `raw-telemetry`; the source's offsets |
| `job.panes` | the state of both window operators, until the window is purged |
| `job.late`, `job.bad` | side outputs for late data; spans `DecodeSpan` could not decode |
| `worker` | what a checkpoint does not hold: the watermark generator, the decoder's schema cache, the attempts of the write under way |
| `Add`, `LateFor`, `Closed`, `NextDue` | the window operators: assignment, lateness, timers in the order of their times |
| `IsAnomaly`, `AnomalyId` | `ZScoreTrigger.evaluate`, `build_anomaly` |
| `Fire`, `FireRetried`, `FireFails` | `TimescaleDBSink._run`: up to `ATTEMPTS` tries, on a new connection each, then the task fails |
| `rows`, `indexed`, `events` | the `metrics` rows of a window with or without the unique index; the ids in `anomaly_events` |
| `txn`, `held`, `snap`, `ckpt.records`, `topic` | the exactly-once Kafka sink: the open transaction, closed ones, those of the checkpoint under way, those of the completed one, and what is committed |
| `Barrier`, `Complete`, `Decline`, `Commit`, `Restore` | checkpointing and the restart strategy as `runtime.py` configures them |

Flink itself is not under `src/`; its window operators, checkpoints and sinks are modelled
from how the jobs use them and marked external. A reading is the metric that
stands out, or none. With readings that are normal or stand out by one amount, the
z-score of one of `k` among `n` is the root of `(n - k) / k`, so that the threshold
becomes a comparison of naturals. The job has parallelism 1, and its records are
distinct: they come from the dedup operator. After a restart the watermark and the
schema cache are empty, and records of two partitions may interleave
anew; a window may then be filled otherwise than before, and its database row, which
the first filling wrote, may differ from the committed record (`CommittedIsStored` says
so). Not modelled: the Redis top-k, which is best effort, and a fresh container, which
starts without any checkpoint.

`ExactlyOnce` says what a reader of a topic may rely on: records are only
added, their items are disjoint, and an item given up never turns up. `FlinkJob` maps
`published` to the span sets of the committed records of one branch (a record of the other
branch, which goes to the other topic, has none) and `gone` to the spans that the
completed checkpoint has given up as late or undecodable.

### Ingestion

| TLA+ | Code |
|---|---|
| `stage`, `buffer`, `task`, `tally` | `GrpcPublisher` and the tasks that are inside its `_flush`; its counters, as sets of spans |
| `Publish`, `Flush`, `CallFails`, `Retry`, `Cancel...` | `publish`, `_flush`, `_send` with its timeout and back-off, `stop()` and the cancellation of the services |
| `thread` | a call in a server thread: `todo` is the rest of its batch, `step` the place in `IngestPipeline.ingest` |
| `bloom`, `bucket` | the Redis bitmaps of every hour |
| `ChooseBucket`, `CheckSeen`, `CheckNew`, `Record`, `SkipDedup` | `RedisBloomFilter.seen_or_add`: it reads the clock, looks the span up in one round trip and records it in another, and the pipeline fails open |
| `HandOver`, `SerialisationFails`, `HandOverRaises` | `KafkaSpanProducer.publish`: queue, dead letter, second `BufferError` |
| `Deliver`, `DeliveryFails` | the delivery callback |
| `Exit`, `Restart` | the end of the process, in a crash or when `lifespan()` has flushed for ten seconds |

Timeouts may strike at any time and are not counted in seconds; a call that has timed out
goes on in its thread. What goes wrong outside the program (Redis, Kafka,
the schema registry, the process) uses up `MaxFaults`. The history
variable `mishaps` names the spans a fault may have cost or copied: a span recorded
in Redis whose hand-over then raised is answered "duplicate" at the retry and counted as
sent, though it is in no topic, and is in `mishaps.lost`. Two handlers that are inside
`seen_or_add` at the same time may both find a span new (`Races`): the second looks
it up before the first has recorded it, or has chosen its bucket before a change of
bucket and the first after it, so that it does not look where the first has recorded. The
code rules out neither, and `OneCopy` excepts both, by `mishaps.copied`; that a handler which
starts later still finds the span is what it claims. It needs a retry to come within
two buckets, hence `Rotations`. Not modelled: the REST route (it
calls the same pipeline), the log indexer (it has no effect on spans), loss of data in
Redis, and `KafkaPublisher`, the alternative to `GrpcPublisher`.

### Dashboard

| TLA+ | Code |
|---|---|
| `feed`, `scheduled` | `KafkaFeed`: its consumer, and the coroutines it has scheduled with `run_coroutine_threadsafe` |
| `sending`, `recent`, `clients` | the broadcasts under way; `Hub._recent`, `Hub._clients` |
| `socket` | the handler `live()`, its connection, and what is left of its replay |
| `page` | `useLiveFeed`: status, number of sockets so far, `items` |
| `Broadcast`, `Send`, `Finish` | `Hub.broadcast` up to its first await, one `send_text`, and the removal of the dead |
| `Connect`, `Replay`, `HandlerEnds` | `Hub.connect` up to its first await, one frame of the replay, the end of `live()` |

A coroutine may be suspended at every await, and so broadcasts overlap with one another and with
replays. Messages arrive in one order, decoded; a failed attempt to connect is one
that does not happen; the back-off is not timed. Frames may arrive out of
order, and twice over two sockets of one page: nothing promises otherwise and
nothing is claimed. REST routes are single queries.

### MLGateway

| TLA+ | Code |
|---|---|
| `buffers`, `debouncers` | `_buffers`, `_debouncers`: the deque of each service, by the number of the call that made it |
| `window`, `flags` | contents of the deques |
| `thread` | a call of `Infer`: its step and its local variables |
| `FindBuffer`, `MakeBuffer`, `TakeBuffer` | the three bytecodes of `_get_buffer` between which a thread may be interrupted; likewise the debouncer |
| `Judge`, `Flag`, `Confirm`, `FallBack...` | `Infer` from the copy of the window to its answer |

One C call under the interpreter's lock (`append`, `np.array(deque)`, `all`) is one step; the list
comprehension of the fallback is not, and may meet an append (`FallBackTorn`). Either
model may also fail by itself (`JudgeFails`, `FallBackFails`). What the
models compute is the constant `HighWindows`; the forest's verdict is left out, as
nothing remembers it. A call whose vector is too short is judged by the window of the
call before: `disturbed` marks its service, and those with calls that overlapped or failed;
`raced` marks services for which two calls made a buffer. Nothing calls `reset()`.

## 4. What is checked

| Run | Shows | Bounds |
|---|---|---|
| `dedup` | `PreCheckComplete`, `NoReEmission`, `DropsJustified`, `EveryRecordJudged` | 2 spans, 1 key per generation (the second overflows it), TTL 2, clock to 5 (two rotations and a warm filter after a restart), 4 records, 1 restart |
| `dedup_burst` | violated: `ProvablyNew` | 3 spans, 2 keys per generation, 5 records, no restart |
| `orchestrator` | filter, cooldown, hold | 2 incidents of one service at different severities, or undecodable messages, on a topic of 2; 1 crash, 1 redelivery; memory of 1 id (so that eviction happens) |
| `orchestrator_live` | `MessagesHandled`, `RevertsAttempted` | the same topic and crash, a second service without a rollout |
| `orchestrator_restart` | violated: `NoDoublePost` | as `orchestrator` |
| `correlation` | grouping, spread, merging, late joins | a chain of 3 services (the ends are related through the middle only), 3 anomalies, delay 1, 1 restart, symmetry of the ends |
| `correlation_live` | `AnomaliesConcluded` | 2 anomalies, clock to 5: past the age limit of the last one |
| `correlation_restart` | violated: `RestartsLoseNothing` | as `correlation` |
| `flink_job` | both refinements of `ExactlyOnce`, `NoSpanLost`, `CommittedIsStored`, `WindowsPublishedOnce`, `SpansPublished` | 2 partitions and three contents of theirs (late, out of order, undecodable, without an event time); windows of 2 and of 4 sliding by 2, lag 1; 3 attempts at a write, 1 failed checkpoint tolerated, 1 restart |
| `ingestion` | `TallyComplete`, `SentIsSafe`, `OneCopy` | 2 spans, batches of 2, 2 attempts, 2 server threads, a queue of 1, one change of the bucket, 1 fault |
| `dashboard` | `OncePerSocket`, `NothingMissed`, `NoDeadSocket`, `DeadSocketsForgotten`, `PagesCatchUp` | 2 pages, 2 messages, a replay buffer of 1, 1 lost socket or restart |
| `ml_gateway` | `AnswersExact`, `WindowKept` | 2 services, 2 threads, windows of 2, persistence 2, 4 calls |

Why the bounds are enough. *Dedup*: one more rotation than generations exist,
and a restart at every point of that; the instance is small because its safety is
proved for all of them. *Orchestrator*: every pair of verdicts of one process and
across a crash occurs, as every verdict depends on at most one earlier incident and
the clock. *Correlation*: two clusters and a third anomaly that joins them are the
smallest merge; the code's ratio of the limits (age limit 90 s below the idle limit
300 s) is kept, so that the age closes clusters, as in the deployment. *FlinkJob*:
every span falls into two sliding windows, one of them when it is no news; a window is
fired before and after a checkpoint, before and after a restart, and by a replay in
another order. *Ingestion*: the timed-out call and its retry are the two handlers of a batch, and the change of
bucket may come between any two of their steps;
the queue is full at the second span. *Dashboard*: the buffer holds the newest frame
only, so that one is pushed out; `MaxItems` is not reached by what one page gets twice.
`NothingMissed` and `PagesCatchUp` say nothing of a page whose list is full, as the page drops
its oldest frame for a new one.
*MLGateway*: two calls on one service race while the other service has two in a
row; a window is full at the second reading and an anomaly confirmed at the third.

The runs set `CHECK_DEADLOCK FALSE` because the clocks, inputs and faults are bounded,
after which a system with nothing to read rightly does nothing; that no work is left
undone is what the liveness properties say.

`SpreadBounded` and `ConnectedClustersMerged` hold only when anomalies were
read in the order of detection (`ReadInOrder`); with delayed ones TLC finds
both violated. `NoLateJoin` is what is left for every order of arrival.

### Fairness

- DedupFilter: weak fairness of processing: the task thread runs while records wait.
- Orchestrator: weak fairness of the loop as a whole: every call has a timeout
  and every action's failure is swallowed by `_safe`.
- Correlation: weak fairness of the loop, and of the clock. The loop's calls return
  or raise; nothing is assumed about which anomalies arrive, nor that poll()
  returns one that is there.
- FlinkJob: weak fairness of reading each partition, of the watermark generator
  (every 200 ms), of firing, of barriers (every 30 s), of a checkpoint's end
  one way or the other, and of commits. Nothing says that a write or a checkpoint
  succeeds: `SpansPublished` holds because failures in a row are counted, by `ATTEMPTS`
  and by the tolerated number, and lead to a restart or to the end.
- Dashboard: weak fairness of the feed's polls, of each broadcast, of each handler,
  and of a page that wants to connect; none of `FeedConnects`.
- Ingestion, MLGateway: none is stated, and no liveness is claimed.

No fairness is assumed of crashes, lost sockets, publications, commits in the background or redeliveries.

### Findings

1. `dedup_burst`: replacing a full generation early drops the previous one. After two
   bursts within a TTL a warm filter denies spans the state still knows;
   they are emitted twice. `NoReEmission` and its proof say how far the promise
   holds: without an early replacement between the two emissions, always.
2. `orchestrator_restart`: the filter that should absorb the redelivery after a
   crash dies in that crash.
3. `correlation_restart`: offsets are committed while anomalies are in memory.

## 5. What is proved

`DedupFilter_proofs` proves, for every set of spans, TTL, capacity and every bound,

- `TypeCorrect`: `Spec => []TypeOK`,
- `PreCheckIsComplete`: `Spec => []PreCheckComplete`,
- `NoReEmissionHolds`: `Spec => []NoReEmission`,
- `DropsAreJustified`: `Spec => []DropsJustified`,

from `DedupAssumption` alone: `NoSpan` is no span, the TTL is at least one tick,
capacity and bounds are naturals. `SpanIds` need not be finite: nothing in the
argument uses what `Full` says, only that a replacement for lack of room is recorded.

None of the properties is inductive. The invariant `IInv` adds:

- the current generation began at `rotated`, at or after `started`, and no generation
  outlives the TTL without a rotation at the next use;
- where a key with a live entry is: in the current generation if it was
  recorded since `rotated`, else in the previous one, unless the filter was started or a
  generation was replaced early in between;
- `seen` agrees with the history: the entry of a span is the time of its last
  emission, in `out` and, separately, in the checkpoint, so that `Restart` keeps it;
- the span in hand has no live entry, or an early replacement explains that.

`InitIInv` and `NextIInv` show that it is inductive; lemmas about the three filter operations
(`RotateFacts`, `AddFacts`) and about appending to a history (`AppendFacts`) carry the cases.

`Orchestrator_proofs` proves every safety property the run `orchestrator` checks, for all
incidents, services, limits and bounds, from `OrchestratorAssumption` alone (an
id belongs to one incident, `BaseMin < ScaleUpMin`, `None` is no record, the rest naturals):

| Theorem | Property | What makes it inductive |
|---|---|---|
| `TypeCorrect` | `TypeOK` | `HandOK`: while a message is dealt with, `position` is one of the topic |
| `CommittedWasJudged` | `JudgedBeforeCommit` | `ReadWasJudged`: everything the consumer is done with was judged, so that what it commits was |
| `OriginalIsKept` | `OriginalKept` | nothing: an HPA is scaled up only from below `ScaleUpMin`, and then it is at `BaseMin` |
| `CooldownIsRespected` | `CooldownRespected` | `LastCovers`: the cooldown entry of a service speaks for all acts of this process on it; it began no earlier and, within a cooldown, at no lower severity |
| `SkipsAreJustified` | `SkipsJustified` | `SeenJudged` and `LastIsAct`: every id and every cooldown in memory comes from a verdict of this process; `PublishedOnce`: an id is on the topic once |
| `ActsOnce` | `ActsOncePerRun` | `MemoryOK`: an id lies as deep in the memory as ids were remembered after it, until `MaxSeen` were |

The argument has one shape throughout. `StepKinds` says that the filter's memory and
its history change in `Check` and `Crash` only; `HistoryKept` and `TopicGrows`
say that what was judged, and about what, never changes; `CrashFacts` that
a crash leaves no verdict of the running process, so that everything said of it
holds at once; and `Latest` describes the verdict `Check` adds. Each property then has
one lemma `Next...` with a case for an old verdict and one for the new.

`Correlation_proofs` proves every safety property of the run `correlation`, for all relations
between services, limits and bounds, from `CorrelationAssumption` alone; `ClustersAreBounded` and
`NoneJoinsLate` have the hypothesis `MaxClusterAge # 0`.

| Theorem | Property | What makes it inductive |
|---|---|---|
| `TypeCorrect` | `TypeOK` | least and greatest elements of finite sets exist (`LeastExists`, `GreatestExists` of `LeastElement`, from the well-founded order of finite subsets): what `CHOOSE` picks in a merge is a cluster |
| `NoAnomalyLostOrDoubled` | `EachAnomalyInOneGroup` | `EachPlaced`: every anomaly the process has read is in exactly one of open, closing, dropped and saved, and no group holds another |
| `ClustersAreBounded` | `SpreadBounded` | `SpreadInv`: while anomalies are in order, the members of an open cluster were detected at or after `created`, so that the check against `created` bounds them all |
| `NoneJoinsLate` | `NoLateJoin` | an action property; `created` only goes back in a merge |
| `ConnectedAreMerged` | `ConnectedClustersMerged` | `MergedInv`: no two open clusters with related services could both still take an anomaly of the time read last; and in order, later ones are harder to take |

`Ingestion_proofs` proves every safety property of the run `ingestion` from `IngestionAssumption`:

| Theorem | Property | What makes it inductive |
|---|---|---|
| `TypeCorrect` | `TypeOK` | `AttemptsLeft`: a batch that waits for its next attempt has one left |
| `SentSpansAreSafe` | `SentIsSafe` | a thread somebody waits for is the only one he waits for, and he does wait (`Calls`); a span recorded in any bucket is safe, as one about to be handed over is (`BloomSound`); the part of a batch a thread has done is safe or invalid (`DoneIsSound`). Then an answer makes only safe spans sent, whoever asked first |
| `TallyAddsUp` | `TallyComplete` | no span is in two places or twice in one (`NothingTwice`), and the published ones are those in some place (`Ledger`); `AccountsAddUp` turns this into the equation of the cardinalities |
| `CopiedOnce`, `CopiedOnceInTwoBuckets` | `OneCopy` | `CopiesInv`: a span that no mishap may have copied is at one place at most among the threads that will hand it over, the queue and the topic, and it is recorded before it is at any |

`OneCopy` does not follow from `Spec` for every value of the constants: a retry that
chooses its bucket two changes after the span was recorded does not look there any more, and TLC
finds the span copied with `Rotations` at 2 and no fault at all. The hypothesis of `CopiedOnce`
is `[]Prompt`: a span that is looked up is recorded in no bucket before the two that the thread
looks in. The buckets change once an hour and a batch lives for seconds, which is why the
code may rely on it. `Prompt` says nothing of later buckets: a handler that chose its bucket before
a change and looks the span up after it is in the proof (`CheckNew` in `HandlerKeepsSingle`), where
a span it does not find is recorded nowhere or in a later bucket, which is the race that
`Races` names. `CopiedOnceInTwoBuckets` proves `Prompt`, and with it `OneCopy`, from
`Rotations <= 1` instead of assuming it: that is the bound of the run.

`MLGateway_proofs` proves `TypeCorrect`, `WindowsAreKept` (`Spec => []WindowKept`) and
`AnswersAreExact` (`Spec => []AnswersExact`) from
`GatewayAssumption`. The difficulty is that dictionaries and deques are reached through numbers held by
threads. `Ownership` has two witnesses: the service whose call has a number, and the thread that
may still make the deque of that number. So deques of different services are
different, and one that is not yet made is empty. `NewestOfNewest` is the lemma on
bounded deques: appending to the newest of a sequence gives the newest of the longer one.
The answers need the same for the debouncers (`DebouncersOwned`, `OnlyOne`: only the debouncer of
the service holds flags), and `OrderlyNow` for every service that is not disturbed: it has one
call under way at most; the step of that call (`Stage`) says how many of the readings are in
the window and how many windows have been flagged; the flags are those of the last windows
judged (`Recent`); and the answers so far are the expected ones (`Verdicts`).

`FlinkJob_proofs` proves, from `FlinkAssumption` (the records of each partition form a
sequence with event times up to `LastTime`, windows are not empty, the rest naturals),

- `TypeCorrect`: `Spec => []TypeOK`,
- `NothingIsLost`: `Spec => []NoSpanLost`,
- `AggregatesExactlyOnce`: `Spec => EachSpanCountedOnce`, that is `Aggregates!Spec`,
- `AnomaliesExactlyOnce`: `Spec => EachSpanReportedOnce`, that is `Anomalies!Spec`,

for any contents of the partitions, any sizes of the windows, any number of tolerated
failures and restarts, however partitions interleave after each of them. What is said of one span is `LineageOf(R, st, s)`, of
any records `R` and any job state `st`: a span that is not read yet is nowhere; a span that was is
in one record of a branch at most, and nowhere else once it was given up; it is in one
tumbling window, in one record of that branch, or given up; and if it was reported as an anomaly, it is
older than a slide before the end of every sliding window it is still in. The invariant
`Lineages` says this of the running job with all records it has written, of the snapshot under
way with the records closed by its barrier, and of the completed checkpoint with those
it covers. Lemmas like `ReadLineage` and `AggregateLineage` carry a lineage through
what an operator does, and a barrier, a completion or a restart only exchanges one of the
three statements for another: that is why a replay, however it fills the windows, is
safe. Two facts about windows make the anomalies work: timers fire in the order of the windows' ends
(`FiresFirst`), and the ends of two sliding windows differ by a slide at
least (`SlidingEnds`), so that a span that is news in the window that fires is no news in the others.
`CheckpointSteps` reduces a step to what a reader of a topic can see of it:
nothing, a commit, or a newly completed checkpoint.

It proves from the same assumption that the sinks agree with the topics:

- `CommittedStored`: `Spec => []CommittedIsStored`,
- `WindowsOnce`: `Spec => []WindowsPublishedOnce`.

`SinkInv` is about all records wherever they are (`Everything`: committed, of the completed
checkpoint, held back, of the open transaction). `Stored` says that each of them has its row
already, as the row is written before the record is emitted and nothing removes rows. `FiredOnce`
says that until a restart no two are of one window, for which a window that has a record must be closed
for good. `Foretold` and `Exact` are what a retry needs: a row that is in the table before its
record is emitted was written by an earlier attempt at this window, from the same spans. What
is in a window has the time and the reading of its record, in the running job and in every
snapshot of it (`SnapshotsFaithful`), so that the id of an anomaly tells of one of its spans. A restart only takes
records back, and of those that are left `Stored` still holds.

`Dashboard_proofs` proves every safety property of the run `dashboard` from
`DashboardAssumption`, for any number of pages, messages, faults and any two limits:

| Theorem | Property | What makes it inductive |
|---|---|---|
| `TypesKept` | `TypeOK` | `Counted`: a page has opened no more sockets than there were faults, and one more once it no longer waits for one |
| `FramesComeOnce` | `OncePerSocket` | frames are scheduled in the order of their numbers, each once (`FeedInOrder`), and a frame of the buffer was broadcast already; for one socket a frame is in its replay, in the list of a broadcast or on the page, but never in two of these (`OneWay`) |
| `NoFrameIsMissed` | `NothingMissed` | a socket that is up is registered, and no broadcast is about to unregister it (`Registered`), so that every new broadcast goes to it |
| `DeadSocketsLeave` | `NoDeadSocket` | only a handler that is open registers its socket, and its end unregisters it in the same step; a broadcast ends by removing sockets only |

`Traces` says that a socket not yet opened is mentioned nowhere: in no list of clients or of a broadcast, and by
no item of a page. This is what a connection needs in `NextIInv`.

Every invariant of the passing runs is thus a theorem, and so is every action property and
refinement. Only model-checked are the temporal properties, for which the proof system has no rules
under fairness here: `EveryRecordJudged`, `MessagesHandled`, `RevertsAttempted`, `AnomaliesConcluded`,
`SpansPublished`, `DeadSocketsForgotten` and `PagesCatchUp`. The three properties of the runs that
expect a violation are false. TLC also checked the strengthenings named in this section
(`SinkInv`, `CopiesInv` under `Prompt`, `AnswersInv`, the parts of `IInv` of Dashboard) on
the instances of the runs or smaller ones.

## 6. What is not modelled

`PROJECT.json` gives each component its status. Section 2 names what could still be modelled.
Left out for good:

- statistics and machine-learning code (Granger tests, the two models and their
  training): numeric, without control state;
- REST routes, metrics endpoints, logging, the front end's views, the text of Slack
  posts and of the LLM's runbooks: single reads or output nothing depends on;
- deployment files, the topology seeding script, the generators of the simulator:
  constants or random inputs of the models;
- generated protobuf code and the schema registry, but for its being away.

Two hazards have no property of their own; their notes in `PROJECT.json` say why. The notes of
others say what their property excepts: the code has these races and losses, and the property
bounds them (`OneCopy`, `SentIsSafe`, `AnswersExact`, `WindowKept`) or holds until the first
restart only (`WindowsPublishedOnce`, the rows of `CommittedIsStored`).
