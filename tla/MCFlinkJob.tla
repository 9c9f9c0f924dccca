----------------------------- MODULE MCFlinkJob -----------------------------
(***************************************************************************)
(* A small instance of FlinkJob: two partitions, windows of two and four   *)
(* ticks, and contents of the partitions in which spans come late, in      *)
(* another order, undecodable and without an event time.                   *)
(***************************************************************************)
EXTENDS FlinkJob, TLC

CONSTANTS p, q

At(time) == [at |-> time, reading |-> "normal", format |-> "json"]
Spike(time) == [At(time) EXCEPT !.reading = "CPU_SPIKE"]
Avro(record) == [record EXCEPT !.format = "avro"]
Garbage == [At(NoTime) EXCEPT !.format = "garbage"]

PipelineLogs ==
    { \* the spike is the newest span of its window, or late if q lags behind
      (p :> <<At(2), At(5)>>) @@ (q :> <<Spike(3)>>),
      \* two sliding windows see the spike, the first of them as news
      (p :> <<Spike(1), At(5)>>) @@ (q :> <<At(0)>>),
      \* a schema to be fetched, a time set on arrival, a span beyond reading
      (p :> <<Avro(At(1)), At(NoTime)>>) @@ (q :> <<Garbage>>) }
=============================================================================
