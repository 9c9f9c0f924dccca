------------------------------ MODULE FlinkJob ------------------------------
(***************************************************************************)
(* The windows of the Flink job (flink_jobs/jobs, operators, sinks) at     *)
(* parallelism 1: spans are read from the partitions of raw-telemetry,     *)
(* decoded, put into the tumbling and sliding windows their event time     *)
(* falls into, and every window the watermark has passed is fired.  Firing *)
(* has a side effect that no restart undoes, the TimescaleDB row (the      *)
(* Redis top-k, best effort, is left out), and a result for a Kafka topic, *)
(* which is written in a transaction and becomes visible when a checkpoint *)
(* has completed.                                                          *)
(*                                                                         *)
(* A failed task takes the job back to its last checkpoint.  The restored  *)
(* job reads the same records of every partition again, but the partitions *)
(* interleave as they like, and neither the watermark nor the schema cache *)
(* is part of a checkpoint: a replay may fill a window differently.        *)
(*                                                                         *)
(* One service: windows of two services share nothing but the watermark.   *)
(* A reading is its deviation: the metric that stands out, or Normal.      *)
(***************************************************************************)
EXTENDS Integers, Sequences, FiniteSets

CONSTANTS
    Partitions,       \* partitions of raw-telemetry
    Logs,             \* what the partitions may hold: [Partitions -> Seq(Records)]
    Normal,           \* the reading of a metric that does not stand out
    Tumble,           \* TUMBLING_WINDOW_SECONDS
    Length,           \* SLIDING_WINDOW_SECONDS
    Slide,            \* SLIDE_INTERVAL_SECONDS
    Lag,              \* WATERMARK_LAG_SECONDS
    MinEvents,        \* MIN_WINDOW_EVENTS
    ThresholdSquared, \* ZSCORE_THRESHOLD, squared
    Attempts,         \* TimescaleDBSink.ATTEMPTS
    Tolerated,        \* tolerable_checkpoint_failure_number
    RestartAttempts,  \* RESTART_ATTEMPTS
    LastTime          \* bound: no event time is later than this

ASSUME FlinkAssumption ==
    /\ \A contents \in Logs :
          /\ DOMAIN contents = Partitions
          /\ \A p \in Partitions :
                LET Records == {contents[p][i] : i \in DOMAIN contents[p]}
                IN  /\ contents[p] \in Seq(Records)
                    /\ \A r \in Records : r.at \in -1..LastTime
    /\ Tumble \in Nat \ {0} /\ Length \in Nat \ {0} /\ Slide \in Nat \ {0}
    /\ Lag \in Nat /\ MinEvents \in Nat /\ ThresholdSquared \in Nat
    /\ Attempts \in Nat \ {0} /\ Tolerated \in Nat
    /\ RestartAttempts \in Nat /\ LastTime \in Nat

VARIABLES
    log,       \* the contents of the partitions
    job,       \* state that is checkpointed: offsets, window contents, lost spans
    worker,    \* state that is not: clock of events, watermark, schema, failed tries
    txn,       \* records written in the open transaction
    held,      \* records of closed transactions no completed checkpoint covers
    snap,      \* the checkpoint in progress, or NoSnapshot
    ckpt,      \* the last completed checkpoint, with the records it must commit
    topic,     \* the records a read_committed consumer sees
    rows,      \* TimescaleDB: metrics rows of every tumbling window
    events,    \* TimescaleDB: ids in anomaly_events
    indexed,   \* TimescaleDB: metrics has its unique index
    declined,  \* checkpoints that failed in a row
    restarts,  \* restarts so far
    status     \* "running", or "failed" when the restart attempts are used up

stores == <<rows, events, indexed>>
sinks == <<txn, held, snap, ckpt, topic, declined>>
vars == <<log, job, worker, stores, sinks, restarts, status>>

Branches == {"tumbling", "sliding"}
Times == 0..LastTime
NoTime == -1   \* a watermark before any event; the timestamp 0 of a record
NoSnapshot == [job |-> <<>>]

\* A span is identified by its partition and its offset there.
Spans == UNION {{<<p, i>> : i \in DOMAIN log[p]} : p \in Partitions}
RecordOf(s) == log[s[1]][s[2]]

----------------------------------------------------------------------------
(* Windows *)

\* Those that some event time falls into.
Assigned(branch, size, step) ==
    {[branch |-> branch, start |-> step * i, end |-> step * i + size] :
        i \in {n \in -size..LastTime : step * n <= LastTime /\ step * n + size > 0}}

TumblingWindows == Assigned("tumbling", Tumble, Tumble)
SlidingWindows == Assigned("sliding", Length, Slide)

Windows == TumblingWindows \cup SlidingWindows

WindowsAt(time) == {w \in Windows : w.start <= time /\ time < w.end}

\* Mutant: the watermark has to get to the end, which is no part of the window.
ClosedLate(w, watermark) == w.end <= watermark

\* The last instant of a window has been passed: it fires, and takes no more.
Closed(w, watermark) == w.end - 1 <= watermark

----------------------------------------------------------------------------
(* ZScoreTrigger.  On readings that are either normal or stand out by the  *)
(* same amount, the z-score of one of k that stand out among n is the root *)
(* of (n - k) / k; a metric that is normal in the judged event is at or    *)
(* below its mean, in the direction that counts.                           *)

\* The event judged: the first of those with the highest timestamp.
Latest(elements) ==
    LET Newest == {i \in DOMAIN elements :
                      \A j \in DOMAIN elements : elements[j].at <= elements[i].at}
    IN  elements[CHOOSE i \in Newest : \A j \in Newest : i <= j]

Outliers(elements) ==
    Cardinality({i \in DOMAIN elements : elements[i].reading = Latest(elements).reading})

\* Mutant: the latest event need not be new in this window.
IsAnomalyStale(w, elements) ==
    /\ Len(elements) >= MinEvents
    /\ Latest(elements).reading # Normal
    /\ Len(elements) - Outliers(elements) > ThresholdSquared * Outliers(elements)

IsAnomaly(w, elements) ==
    /\ Len(elements) >= MinEvents
    /\ Latest(elements).at >= w.end - Slide
    /\ Latest(elements).reading # Normal
    /\ Len(elements) - Outliers(elements) > ThresholdSquared * Outliers(elements)

\* build_anomaly: the id is made of the service, the event time and the type.
AnomalyId(elements) == <<Latest(elements).at, Latest(elements).reading>>

----------------------------------------------------------------------------
(* Reading *)

EmptyJob ==
    [pos   |-> [p \in Partitions |-> 0],
     panes |-> [w \in Windows |-> <<>>],
     late  |-> {},    \* <<branch, span>> pairs sent to a late side output
     bad   |-> {}]    \* spans that could not be decoded

EmptyWorker == [maxTime |-> NoTime, watermark |-> NoTime, schema |-> FALSE, tries |-> 0]

\* Windows that the watermark has closed and that have not been fired.
Due == {w \in Windows : job.panes[w] # <<>> /\ Closed(w, worker.watermark)}

\* The operators take the next record when every timer that is due has fired.
CanRead(p) == status = "running" /\ Due = {} /\ job.pos[p] < Len(log[p])

NextSpan(p) == <<p, job.pos[p] + 1>>

\* SpanDecoder: a JSON record needs nothing, an Avro record its writer schema.
Undecodable(p) ==
    /\ CanRead(p)
    /\ \/ RecordOf(NextSpan(p)).format = "garbage"
       \/ RecordOf(NextSpan(p)).format = "avro" /\ ~worker.schema
    /\ job' = [job EXCEPT !.pos[p] = @ + 1, !.bad = @ \cup {NextSpan(p)}]
    /\ UNCHANGED <<log, worker, stores, sinks, restarts, status>>

\* Mutant: a span is added to windows that have been fired already.
AddToClosed(element) ==
    [w \in Windows |-> IF w \in WindowsAt(element.at)
                       THEN Append(job.panes[w], element)
                       ELSE job.panes[w]]

Add(element) ==
    [w \in Windows |-> IF w \in WindowsAt(element.at) /\ ~Closed(w, worker.watermark)
                       THEN Append(job.panes[w], element)
                       ELSE job.panes[w]]

\* Late for a branch: all the windows it would have gone to are closed.
LateFor(time) ==
    {b \in Branches : \A w \in WindowsAt(time) : w.branch = b => Closed(w, worker.watermark)}

\* DecodeSpan, the watermark generator and the window operators take a span in.
Read(p) ==
    /\ CanRead(p)
    /\ RecordOf(NextSpan(p)).format # "garbage"
    /\ \E time \in Times :
          LET r == RecordOf(NextSpan(p))
              element == [span |-> NextSpan(p), at |-> time, reading |-> r.reading]
          IN  /\ r.at # NoTime => time = r.at      \* no event time: time of arrival
              /\ job' = [job EXCEPT !.pos[p] = @ + 1,
                                    !.panes = Add(element),
                                    !.late = @ \cup {<<b, NextSpan(p)>> : b \in LateFor(time)}]
              /\ worker' = [worker EXCEPT
                    !.maxTime = IF time > @ THEN time ELSE @,
                    !.schema = @ \/ r.format = "avro"]
    /\ UNCHANGED <<log, stores, sinks, restarts, status>>

\* The generator emits its watermark every now and then.
EmitWatermark ==
    /\ status = "running"
    /\ Due = {}
    /\ worker.maxTime - Lag - 1 > worker.watermark
    /\ worker' = [worker EXCEPT !.watermark = worker.maxTime - Lag - 1]
    /\ UNCHANGED <<log, job, stores, sinks, restarts, status>>

----------------------------------------------------------------------------
(* Firing a window: MetricAggregationWindow and ZScoreWindowFunction *)

\* Timers fire in the order of their times; the branches fire one after the other.
NextDue ==
    CHOOSE w \in Due : \A v \in Due :
        \/ w.end < v.end
        \/ w.end = v.end /\ (w.branch = "tumbling" \/ v.branch = "sliding")

Firing == status = "running" /\ Due # {}
Elements == job.panes[NextDue]
HasResult == NextDue.branch = "tumbling" \/ IsAnomaly(NextDue, Elements)

SpansIn(elements) == {elements[i].span : i \in DOMAIN elements}

\* The record for the topic: the spans aggregated, or the span found anomalous.
Result ==
    [win |-> NextDue,
     spans |-> IF NextDue.branch = "tumbling" THEN SpansIn(Elements)
               ELSE {Latest(Elements).span}]

\* The window's state is dropped once it has fired.
Purged == [job EXCEPT !.panes[NextDue] = <<>>]

FireNothing ==
    /\ Firing
    /\ ~HasResult
    /\ job' = Purged
    /\ UNCHANGED <<log, worker, stores, sinks, restarts, status>>

\* write_metric and write_anomaly: ON CONFLICT DO NOTHING.
StoreResult ==
    IF NextDue.branch = "tumbling"
    THEN /\ rows' = IF indexed /\ rows[NextDue] # <<>> THEN rows
                    ELSE [rows EXCEPT ![NextDue] = Append(@, SpansIn(Elements))]
         /\ UNCHANGED events
    ELSE /\ events' = events \cup {AnomalyId(Elements)}
         /\ UNCHANGED rows

\* Mutant: a failed write is swallowed, as in RedisTopKSink.
FireBestEffort ==
    /\ Firing
    /\ HasResult
    /\ StoreResult \/ UNCHANGED <<rows, events>>
    /\ txn' = Append(txn, Result)
    /\ job' = Purged
    /\ worker' = [worker EXCEPT !.tries = 0]
    /\ UNCHANGED <<log, indexed, held, snap, ckpt, topic, declined, restarts, status>>

\* The write succeeds; the result goes into the sink's open transaction.
Fire ==
    /\ Firing
    /\ HasResult
    /\ StoreResult
    /\ txn' = Append(txn, Result)
    /\ job' = Purged
    /\ worker' = [worker EXCEPT !.tries = 0]
    /\ UNCHANGED <<log, indexed, held, snap, ckpt, topic, declined, restarts, status>>

\* An attempt of _run raises; the commit may have reached the server all the same.
Attempted ==
    /\ Firing
    /\ HasResult
    /\ StoreResult \/ UNCHANGED <<rows, events>>

FireRetried ==
    /\ Attempted
    /\ worker.tries + 1 < Attempts
    /\ worker' = [worker EXCEPT !.tries = @ + 1]
    /\ UNCHANGED <<log, job, indexed, sinks, restarts, status>>

----------------------------------------------------------------------------
(* Checkpoints and failures *)

\* Mutant: transactions of a declined checkpoint are not passed on.
BarrierForgettingHeld ==
    /\ status = "running"
    /\ Due = {}
    /\ worker.tries = 0
    /\ snap = NoSnapshot
    /\ snap' = [job |-> job, records |-> txn]
    /\ held' = txn
    /\ txn' = <<>>
    /\ UNCHANGED <<log, job, worker, stores, ckpt, topic, declined, restarts, status>>

\* A barrier passes: state is copied, and the sinks close their transactions.
Barrier ==
    /\ status = "running"
    /\ Due = {}
    /\ worker.tries = 0
    /\ snap = NoSnapshot
    /\ snap' = [job |-> job, records |-> held \o txn]
    /\ held' = held \o txn
    /\ txn' = <<>>
    /\ UNCHANGED <<log, job, worker, stores, ckpt, topic, declined, restarts, status>>

Complete ==
    /\ status = "running"
    /\ snap # NoSnapshot
    /\ ckpt' = [job |-> snap.job, records |-> ckpt.records \o snap.records]
    /\ held' = <<>>
    /\ snap' = NoSnapshot
    /\ declined' = 0
    /\ UNCHANGED <<log, job, worker, stores, txn, topic, restarts, status>>

\* Mutant: failed checkpoints are tolerated without end.
DeclineForever ==
    /\ status = "running"
    /\ snap # NoSnapshot
    /\ declined <= Tolerated
    /\ snap' = NoSnapshot
    /\ declined' = declined + 1
    /\ UNCHANGED <<log, job, worker, stores, txn, held, ckpt, topic, restarts, status>>

\* A checkpoint fails or times out; its transactions wait for the next one.
Decline ==
    /\ status = "running"
    /\ snap # NoSnapshot
    /\ declined < Tolerated
    /\ snap' = NoSnapshot
    /\ declined' = declined + 1
    /\ UNCHANGED <<log, job, worker, stores, txn, held, ckpt, topic, restarts, status>>

\* The sinks learn that a checkpoint has completed and commit what it covers.
Commit ==
    /\ status = "running"
    /\ ckpt.records # <<>>
    /\ topic' = topic \o ckpt.records
    /\ ckpt' = [ckpt EXCEPT !.records = <<>>]
    /\ UNCHANGED <<log, job, worker, stores, txn, held, snap, declined, restarts, status>>

\* The job is taken back to its last checkpoint; transactions the checkpoint
\* covers are committed.
TakeBack ==
    /\ restarts' = restarts + 1
    /\ job' = ckpt.job
    /\ \E known \in {FALSE, worker.schema} : worker' = [EmptyWorker EXCEPT !.schema = known]
    /\ topic' = topic \o ckpt.records
    /\ ckpt' = [ckpt EXCEPT !.records = <<>>]
    /\ snap' = NoSnapshot
    /\ declined' = 0
    /\ UNCHANGED status

\* Mutant: what the failed job has written meanwhile is left in place.
RestoreKeepingTransactions == TakeBack /\ UNCHANGED <<txn, held>>

\* The transactions of the failed job are aborted, by their id prefix.
Restore == TakeBack /\ txn' = <<>> /\ held' = <<>>

\* A task fails: fixed_delay_restart starts the job again, so often and no more.
JobFails ==
    \/ restarts < RestartAttempts /\ Restore
    \/ /\ restarts = RestartAttempts
       /\ status' = "failed"
       /\ UNCHANGED <<job, worker, sinks, restarts>>

FireFails ==
    /\ Attempted
    /\ worker.tries + 1 = Attempts
    /\ JobFails
    /\ UNCHANGED <<log, indexed>>

Crash ==
    /\ status = "running"
    /\ JobFails
    /\ UNCHANGED <<log, stores>>

----------------------------------------------------------------------------

\* metrics lacks its unique index where old duplicate rows kept open() from
\* creating it.
Init ==
    /\ log \in Logs
    /\ indexed \in BOOLEAN
    /\ job = EmptyJob
    /\ worker = EmptyWorker
    /\ txn = <<>> /\ held = <<>> /\ topic = <<>>
    /\ snap = NoSnapshot
    /\ ckpt = [job |-> EmptyJob, records |-> <<>>]
    /\ rows = [w \in TumblingWindows |-> <<>>]
    /\ events = {}
    /\ declined = 0
    /\ restarts = 0
    /\ status = "running"

Next ==
    \/ \E p \in Partitions : Undecodable(p) \/ Read(p)
    \/ EmitWatermark
    \/ FireNothing \/ Fire \/ FireRetried \/ FireFails
    \/ Barrier \/ Complete \/ Decline \/ Commit
    \/ Crash

Spec == Init /\ [][Next]_vars

\* The job runs while it may: records are read, watermarks are emitted every
\* 200 ms, due windows are fired, checkpoints are taken every 30 s and finish.
FairSpec ==
    /\ Spec
    /\ \A p \in Partitions : WF_vars(Undecodable(p) \/ Read(p))
    /\ WF_vars(EmitWatermark)
    /\ WF_vars(FireNothing \/ Fire \/ FireRetried \/ FireFails)
    /\ WF_vars(Barrier)
    /\ WF_vars(Complete \/ Decline)
    /\ WF_vars(Commit)

----------------------------------------------------------------------------
(* Properties *)

Ids == Times \X UNION {{log[p][i].reading : i \in DOMAIN log[p]} : p \in Partitions}
Pane == [span : Spans, at : Times, reading : {id[2] : id \in Ids}]
JobState == [pos : [Partitions -> Nat], panes : [Windows -> Seq(Pane)],
             late : SUBSET (Branches \X Spans), bad : SUBSET Spans]
Output == Seq([win : Windows, spans : SUBSET Spans])

TypeOK ==
    /\ job \in JobState
    /\ worker \in [maxTime : Times \cup {NoTime}, watermark : Int,
                   schema : BOOLEAN, tries : 0..Attempts - 1]
    /\ txn \in Output /\ held \in Output /\ topic \in Output
    /\ snap = NoSnapshot \/ snap \in [job : JobState, records : Output]
    /\ ckpt \in [job : JobState, records : Output]
    /\ rows \in [TumblingWindows -> Seq(SUBSET Spans)]
    /\ events \subseteq Ids
    /\ indexed \in BOOLEAN
    /\ declined \in 0..Tolerated
    /\ restarts \in 0..RestartAttempts
    /\ status \in {"running", "failed"}

\* A record as the readers of one branch's topic see it: there is nothing in the others.
ItemsFor(branch, r) == IF r.win.branch = branch THEN r.spans ELSE {}
RecordsOf(branch, records) == [i \in DOMAIN records |-> ItemsFor(branch, records[i])]

SpansOf(branch, records) == UNION {ItemsFor(branch, records[i]) : i \in DOMAIN records}

\* Spans a job state has given up for a branch.
Lost(state, branch) ==
    state.bad \cup {s \in Spans : <<branch, s>> \in state.late}

OpenSpans(state) ==
    UNION {SpansIn(state.panes[w]) : w \in TumblingWindows}

AllItems == Partitions \X Nat

Aggregates == INSTANCE ExactlyOnce WITH
    Items <- AllItems,
    published <- RecordsOf("tumbling", topic),
    gone <- Lost(ckpt.job, "tumbling")

Anomalies == INSTANCE ExactlyOnce WITH
    Items <- AllItems,
    published <- RecordsOf("sliding", topic),
    gone <- Lost(ckpt.job, "sliding")

\* Through crashes, replays and repeated commits, every span goes into at most
\* one committed aggregate, none that was given up as late or undecodable does,
\* and what is committed stays: kafka_sink.py's exactly-once, for
\* aggregated-metrics.
EachSpanCountedOnce == Aggregates!Spec

\* The same for anomaly-events: no span is reported by two committed anomalies,
\* though every sliding window it falls into looks at it.
EachSpanReportedOnce == Anomalies!Spec

\* No crash loses a span: what the job has read past is in an open window, was
\* given up, or is in a record that is committed or will be.  It holds of the
\* running job and of the state it would be restored to.
NoSpanLost ==
    \A s \in Spans :
       /\ s[2] <= job.pos[s[1]] =>
             s \in OpenSpans(job) \cup Lost(job, "tumbling")
                    \cup SpansOf("tumbling", topic \o ckpt.records \o held \o txn)
       /\ s[2] <= ckpt.job.pos[s[1]] =>
             s \in OpenSpans(ckpt.job) \cup Lost(ckpt.job, "tumbling")
                    \cup SpansOf("tumbling", topic \o ckpt.records)

\* A record never becomes visible without its side effect: the window's metrics
\* row, or the anomaly's row.  Until a replay fills a window differently, a
\* unique index makes the row exactly the one that was published, however many
\* attempts the write took.
CommittedIsStored ==
    \A i \in DOMAIN topic :
       LET r == topic[i]
       IN  IF r.win.branch = "sliding"
           THEN \E id \in events : \E s \in r.spans :
                   /\ id[2] = RecordOf(s).reading
                   /\ RecordOf(s).at # NoTime => id[1] = RecordOf(s).at
           ELSE /\ rows[r.win] # <<>>
                /\ indexed /\ restarts = 0 => rows[r.win] = <<r.spans>>

\* A window is closed for good: it yields one record, unless a restart has set
\* the watermark back (late spans then open the window again).
WindowsPublishedOnce ==
    restarts = 0 =>
       LET all == topic \o ckpt.records \o held \o txn
       IN  \A i, j \in DOMAIN all : all[i].win = all[j].win => i = j

\* Unless the restart attempts run out, every span in the topic is finally
\* published or given up, but for those of windows that later events have not
\* closed.
SpansPublished ==
    <>[]( \/ status = "failed"
          \/ \A s \in Spans :
                \/ s \in SpansOf("tumbling", topic) \cup Lost(ckpt.job, "tumbling")
                \/ \E w \in TumblingWindows : /\ s \in SpansIn(job.panes[w])
                                               /\ w.end > worker.maxTime - Lag )
=============================================================================
