---------------------------- MODULE DedupFilter ----------------------------
(***************************************************************************)
(* The deduplication operator of the Flink job                             *)
(* (flink_jobs/operators/deduplication_filter.py).  One subtask reads the  *)
(* spans of its key range in order; a span it has already seen within the  *)
(* last Ttl is dropped, any other one is emitted.  The first-seen time of  *)
(* a span is Flink keyed state with a time to live: it is part of every    *)
(* checkpoint.  In front of it stands RotatingBloom, which lives in the    *)
(* memory of the worker and is empty after a restart.                      *)
(*                                                                         *)
(* process_element is two steps here, as it reads the clock several times: *)
(* the verdict (bloom and state are consulted) and the recording (state is *)
(* written, bloom is extended, the span is emitted).  Time may pass, and   *)
(* the worker may die, between the two.                                    *)
(***************************************************************************)
EXTENDS Integers, Sequences, FiniteSets

CONSTANTS
    SpanIds,     \* the span ids of this subtask's key range
    NoSpan,      \* "no span in hand"
    Ttl,         \* DEDUP_TTL_MINUTES, in ticks of the clock
    Capacity,    \* DEDUP_BLOOM_CAPACITY
    MaxTime,     \* bound: the clock stops here
    MaxRecords,  \* bound: records the source partition may hold
    MaxCrashes   \* bound: restarts of the job

ASSUME DedupAssumption ==
    /\ NoSpan \notin SpanIds
    /\ Ttl \in Nat \ {0}
    /\ Capacity \in Nat
    /\ MaxTime \in Nat
    /\ MaxRecords \in Nat
    /\ MaxCrashes \in Nat

VARIABLES
    now,      \* wall clock of the worker
    log,      \* the source partition: the span id of every record
    seen,     \* keyed state "span-first-seen-ms"
    bloom,    \* this worker's RotatingBloom
    holding,  \* the span judged new and not yet recorded
    out,      \* history: the verdict on every record consumed
    bursts,   \* history: when a generation was replaced for lack of room
    ckpt,     \* the last completed checkpoint
    crashes   \* restarts so far

vars == <<now, log, seen, bloom, holding, out, bursts, ckpt, crashes>>

Unset == -1
Time == 0..MaxTime
Verdict == [kind : {"emitted", "dropped"}, at : Time]
Bloom == [cur : SUBSET SpanIds, prev : SUBSET SpanIds,
          started : Time, rotated : Time]
SeenMap == [SpanIds -> Time \cup {Unset}]

----------------------------------------------------------------------------
\* RotatingBloom.  `prev` is {} where the code has None.

\* Mutant: the first rotation is forced by dating the last one a Ttl back.
EmptyBloomOverdue ==
    [cur |-> {}, prev |-> {}, started |-> now, rotated |-> now - Ttl]

EmptyBloom == [cur |-> {}, prev |-> {}, started |-> now, rotated |-> now]

\* pybloom raises IndexError when count > capacity, before it looks at the key.
Full(generation) == Cardinality(generation) > Capacity

\* Mutant: one generation instead of two.
ClearGeneration(b) == [b EXCEPT !.prev = {}, !.cur = {}, !.rotated = now]

NextGeneration(b) == [b EXCEPT !.prev = b.cur, !.cur = {}, !.rotated = now]

RotateIfDue(b) == IF now - b.rotated >= Ttl THEN NextGeneration(b) ELSE b

IsWarm(b) == now - b.started >= Ttl

Holds(b, k) == k \in b.cur \cup b.prev

\* The filter has no room for one more key once the due rotation is done.
IsBurst(b) == Full(RotateIfDue(b).cur)

BloomAdd(b, k) ==
    LET r == RotateIfDue(b)
        g == IF IsBurst(b) THEN NextGeneration(r) ELSE r
    IN  [g EXCEPT !.cur = @ \cup {k}]

\* What a call of BloomAdd leaves in the history of early replacements.
BurstsAfterAdd(b) == IF IsBurst(b) THEN bursts \cup {now} ELSE bursts

\* ValueState.value() is None: never written, or expired (NeverReturnExpired).
IsLive(k) == seen[k] # Unset /\ now < seen[k] + Ttl

----------------------------------------------------------------------------
NextRecord == log[Len(out) + 1]

Init ==
    /\ now = 0
    /\ log = <<>>
    /\ seen = [k \in SpanIds |-> Unset]
    /\ bloom = EmptyBloom
    /\ holding = NoSpan
    /\ out = <<>>
    /\ bursts = {}
    /\ ckpt = [seen |-> seen, out |-> out]
    /\ crashes = 0

Tick ==
    /\ now < MaxTime
    /\ now' = now + 1
    /\ UNCHANGED <<log, seen, bloom, holding, out, bursts, ckpt, crashes>>

\* The ingestion service appends a span; a client retry appends it again.
Produce(k) ==
    /\ Len(log) < MaxRecords
    /\ log' = Append(log, k)
    /\ UNCHANGED <<now, seen, bloom, holding, out, bursts, ckpt, crashes>>

CanTakeRecord == holding = NoSpan /\ Len(out) < Len(log)

\* Warm filter, Bloom miss: "provably new", the state is not read.
SkipLookup ==
    /\ CanTakeRecord
    /\ IsWarm(bloom)
    /\ ~Holds(RotateIfDue(bloom), NextRecord)
    /\ bloom' = RotateIfDue(bloom)
    /\ holding' = NextRecord
    /\ UNCHANGED <<now, log, seen, out, bursts, ckpt, crashes>>

\* The filter after the pre-check; a cold one is not asked, nor rotated.
PreChecked == IF IsWarm(bloom) THEN RotateIfDue(bloom) ELSE bloom

\* Cold filter, or a Bloom hit, which may be a false positive for any span:
\* the state decides.  It has no live entry, so the span is new.
LookupMiss ==
    /\ CanTakeRecord
    /\ ~IsLive(NextRecord)
    /\ bloom' = PreChecked
    /\ holding' = NextRecord
    /\ UNCHANGED <<now, log, seen, out, bursts, ckpt, crashes>>

\* The state has a live entry: a duplicate.
Drop ==
    /\ CanTakeRecord
    /\ IsLive(NextRecord)
    /\ bloom' = BloomAdd(PreChecked, NextRecord)
    /\ bursts' = BurstsAfterAdd(PreChecked)
    /\ out' = Append(out, [kind |-> "dropped", at |-> now])
    /\ UNCHANGED <<now, log, seen, holding, ckpt, crashes>>

\* Mutant: the IndexError of a full generation is not caught.
RecordUncaught ==
    /\ holding # NoSpan
    /\ ~IsBurst(bloom)
    /\ seen' = [seen EXCEPT ![holding] = now]
    /\ bloom' = BloomAdd(bloom, holding)
    /\ out' = Append(out, [kind |-> "emitted", at |-> now])
    /\ holding' = NoSpan
    /\ UNCHANGED <<now, log, bursts, ckpt, crashes>>

Record ==
    /\ holding # NoSpan
    /\ seen' = [seen EXCEPT ![holding] = now]
    /\ bloom' = BloomAdd(bloom, holding)
    /\ bursts' = BurstsAfterAdd(bloom)
    /\ out' = Append(out, [kind |-> "emitted", at |-> now])
    /\ holding' = NoSpan
    /\ UNCHANGED <<now, log, ckpt, crashes>>

\* A checkpoint barrier passes between two elements: keyed state, the source
\* position and what is downstream of it are saved; the Bloom filter is not.
Checkpoint ==
    /\ holding = NoSpan
    /\ ckpt' = [seen |-> seen, out |-> out]
    /\ UNCHANGED <<now, log, seen, bloom, holding, out, bursts, crashes>>

\* Mutant: the filter is taken for warm at once after a restart.
RestartWarm ==
    /\ crashes < MaxCrashes
    /\ crashes' = crashes + 1
    /\ seen' = ckpt.seen
    /\ out' = ckpt.out
    /\ holding' = NoSpan
    /\ bloom' = [EmptyBloom EXCEPT !.started = bloom.started]
    /\ UNCHANGED <<now, log, bursts, ckpt>>

\* Mutant: the first-seen times live outside Flink's checkpoints.
RestartKeepsSeen ==
    /\ crashes < MaxCrashes
    /\ crashes' = crashes + 1
    /\ out' = ckpt.out
    /\ holding' = NoSpan
    /\ bloom' = EmptyBloom
    /\ UNCHANGED <<now, log, seen, bursts, ckpt>>

\* The job fails and Flink restarts it from the last checkpoint: the output
\* since then is rolled back and the source is read again from there.
Restart ==
    /\ crashes < MaxCrashes
    /\ crashes' = crashes + 1
    /\ seen' = ckpt.seen
    /\ out' = ckpt.out
    /\ holding' = NoSpan
    /\ bloom' = EmptyBloom
    /\ UNCHANGED <<now, log, bursts, ckpt>>

Process == SkipLookup \/ LookupMiss \/ Drop \/ Record

Next ==
    \/ Tick
    \/ \E k \in SpanIds : Produce(k)
    \/ SkipLookup
    \/ LookupMiss
    \/ Drop
    \/ Record
    \/ Checkpoint
    \/ Restart

Spec == Init /\ [][Next]_vars

\* The task thread runs whenever an element is there to be processed.
FairSpec == Spec /\ WF_vars(Process)

----------------------------------------------------------------------------
(* Properties *)

\* Every variable holds a value of its type.
TypeOK ==
    /\ now \in Time
    /\ log \in Seq(SpanIds)
    /\ seen \in SeenMap
    /\ bloom \in Bloom
    /\ holding \in SpanIds \cup {NoSpan}
    /\ out \in Seq(Verdict)
    /\ bursts \in SUBSET Time
    /\ ckpt \in [seen : SeenMap, out : Seq(Verdict)]
    /\ crashes \in 0..MaxCrashes

\* The reason SkipLookup may trust a miss: while an early replacement is more
\* than Ttl away, a warm filter holds every span that has a live state entry,
\* also across a restart that brought the state back and lost the filter.
PreCheckComplete ==
    \A k \in SpanIds :
        IsLive(k) /\ IsWarm(bloom) /\ ~Holds(RotateIfDue(bloom), k)
            => \E b \in bursts : seen[k] <= b

\* The records of span k that a history of verdicts shows as emitted.
Emissions(history, k) ==
    {i \in DOMAIN history : log[i] = k /\ history[i].kind = "emitted"}

Apart(history) ==
    \A k \in SpanIds : \A i, j \in Emissions(history, k) :
        i < j =>
            \/ history[j].at - history[i].at >= Ttl
            \/ \E b \in bursts : history[i].at <= b /\ b <= history[j].at

Justified(history) ==
    \A j \in DOMAIN history :
        history[j].kind = "dropped" =>
            \E i \in Emissions(history, log[j]) :
                i < j /\ history[j].at - history[i].at < Ttl

\* Two emissions of one span are at least Ttl apart, in the history that
\* survives restarts, unless a generation was replaced early between the two.
NoReEmission == Apart(out)

\* A span is dropped only when it was emitted less than Ttl before: neither a
\* Bloom false positive nor a replay after a restart makes a span disappear.
DropsJustified == Justified(out)

\* Every record of the source is judged for good in the end, also one whose
\* verdict is rolled back by a restart.
EveryRecordJudged ==
    \A i \in 1..MaxRecords : (Len(log) >= i) ~> [](Len(out) >= i)

\* What the comments of both classes say: "at any moment the union holds every
\* key added during the last `ttl_ms`", so that a span a warm filter has never
\* seen "is provably new".
ProvablyNew ==
    \A k \in SpanIds :
        IsWarm(bloom) /\ ~Holds(RotateIfDue(bloom), k) => ~IsLive(k)

=============================================================================
