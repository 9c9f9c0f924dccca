----------------------------- MODULE MLGateway -----------------------------
(***************************************************************************)
(* MLInferenceServicer (ml_service/gateway/grpc_gateway.py), whose threads *)
(* share, without a lock, a buffer of readings and a debouncer for every   *)
(* monitored service.  The Transformer judges full buffers and the         *)
(* debouncer confirms an anomaly when enough windows in a row are above    *)
(* the threshold; the Isolation Forest is the fallback.                    *)
(*                                                                         *)
(* A thread may be interrupted between two bytecodes.  What the models     *)
(* compute is abstracted: HighWindows are the windows whose reconstruction *)
(* error is above the threshold; what the forest makes of a window is left *)
(* out, as nothing remembers it.                                           *)
(***************************************************************************)
EXTENDS Integers, Sequences

CONSTANTS
    Services,     \* monitored services
    Threads,      \* threads of the gRPC server
    Readings,     \* feature vectors
    HighWindows,  \* windows the Transformer cannot reconstruct
    Models,       \* which of the two models may be there: a set of records
    Length,       \* TRANSFORMER_SEQUENCE_LEN
    Persistence,  \* DEBOUNCE_PERSISTENCE_WINDOWS
    MaxCalls      \* bound: calls of Infer

ASSUME GatewayAssumption ==
    /\ "nobody" \notin Services
    /\ HighWindows \subseteq Seq(Readings)
    /\ Models \subseteq [transformer : BOOLEAN, forest : BOOLEAN]
    /\ Length \in Nat \ {0} /\ Persistence \in Nat \ {0}
    /\ MaxCalls \in Nat

VARIABLES
    loaded,     \* the models found at the start, Transformer and forest
    buffers,    \* _buffers: the deque of every service, by its number, or None
    debouncers, \* _debouncers, likewise
    window,     \* contents of the deques of readings
    flags,      \* recent_flags of the debouncers
    thread,     \* of every thread: the call it answers
    calls,      \* calls so far; a deque is numbered by the call that made it
    given,      \* history: readings of every service, in the order of their append
    answers,    \* history: answers of every service, in the order they were given
    disturbed,  \* history: services with calls that overlapped, failed or were short
    raced       \* history: services for which two calls made a buffer

tables == <<buffers, debouncers>>
contents == <<window, flags>>
history == <<given, answers, disturbed, raced>>
vars == <<loaded, tables, contents, thread, calls, history>>

None == 0
Ids == 1..MaxCalls

\* The last n of a sequence, as deque(maxlen=n) keeps them.
Newest(s, n) == IF Len(s) <= n THEN s ELSE SubSeq(s, Len(s) - n + 1, Len(s))

IdleThread ==
    [step |-> "idle", service |-> "nobody", call |-> None, reading |-> <<>>,
     buffer |-> None, debouncer |-> None, high |-> FALSE]

Now(h, step) == thread[h].step = step
Service(h) == thread[h].service
Busy(s) == \E h \in Threads : Service(h) = s

Goto(h, step) == thread' = [thread EXCEPT ![h].step = step]

----------------------------------------------------------------------------
(* Infer, up to the reading in its buffer *)

\* A call with a full feature vector, or with one that is too short (<<>>).
Call(h, s) ==
    /\ Now(h, "idle")
    /\ calls < MaxCalls
    /\ calls' = calls + 1
    /\ \E r \in {<<>>} \cup {<<x>> : x \in Readings} :
          /\ thread' = [thread EXCEPT ![h] =
                [IdleThread EXCEPT !.step = "buffer", !.service = s,
                                   !.call = calls + 1, !.reading = r]]
          /\ disturbed' = IF Busy(s) \/ r = <<>> THEN disturbed \cup {s} ELSE disturbed
    /\ UNCHANGED <<loaded, tables, contents, given, answers, raced>>

\* _get_buffer: "if service_id not in self._buffers".
FindBuffer(h) ==
    /\ Now(h, "buffer")
    /\ Goto(h, IF buffers[Service(h)] = None THEN "make buffer" ELSE "take buffer")
    /\ UNCHANGED <<loaded, tables, contents, calls, history>>

\* Another thread may have made one meanwhile: it is replaced.
MakeBuffer(h) ==
    /\ Now(h, "make buffer")
    /\ buffers' = [buffers EXCEPT ![Service(h)] = thread[h].call]
    /\ raced' = IF buffers[Service(h)] = None THEN raced ELSE raced \cup {Service(h)}
    /\ Goto(h, "take buffer")
    /\ UNCHANGED <<loaded, debouncers, contents, calls, given, answers, disturbed>>

\* The dictionary is read again for the result.
TakeBuffer(h) ==
    /\ Now(h, "take buffer")
    /\ thread' = [thread EXCEPT ![h].buffer = buffers[Service(h)], ![h].step = "append"]
    /\ UNCHANGED <<loaded, tables, contents, calls, history>>

\* Mutants: a deque without its maxlen; the other end of it.
AppendUnbounded(h) ==
    /\ window' = [window EXCEPT ![thread[h].buffer] = @ \o thread[h].reading]
    /\ given' = [given EXCEPT ![Service(h)] = @ \o thread[h].reading]

AppendLeft(h) ==
    /\ window' = [window EXCEPT ![thread[h].buffer] = Newest(thread[h].reading \o @, Length)]
    /\ given' = [given EXCEPT ![Service(h)] = @ \o thread[h].reading]

AppendTo(h) ==
    /\ window' = [window EXCEPT ![thread[h].buffer] = Newest(@ \o thread[h].reading, Length)]
    /\ given' = [given EXCEPT ![Service(h)] = @ \o thread[h].reading]

Add(h) ==
    /\ Now(h, "append")
    /\ AppendTo(h)
    /\ Goto(h, "judge")
    /\ UNCHANGED <<loaded, tables, flags, calls, answers, disturbed, raced>>

----------------------------------------------------------------------------
(* The Transformer and the debouncer *)

Window(h) == window[thread[h].buffer]
WindowIsFull(h) == loaded.transformer /\ Len(Window(h)) = Length

Answered(h, answer) ==
    /\ answers' = [answers EXCEPT ![Service(h)] = Append(@, answer)]
    /\ thread' = [thread EXCEPT ![h] = IdleThread]

\* The window is copied in one piece, and the model is run on the copy.
Judge(h) ==
    /\ Now(h, "judge")
    /\ WindowIsFull(h)
    /\ thread' = [thread EXCEPT ![h].high = Window(h) \in HighWindows, ![h].step = "debouncer"]
    /\ UNCHANGED <<loaded, tables, contents, calls, history>>

\* Inference raises; the fallback is next.
JudgeFails(h) ==
    /\ Now(h, "judge")
    /\ WindowIsFull(h)
    /\ Goto(h, "fall back")
    /\ disturbed' = disturbed \cup {Service(h)}
    /\ UNCHANGED <<loaded, tables, contents, calls, given, answers, raced>>

SkipTransformer(h) ==
    /\ Now(h, "judge")
    /\ ~WindowIsFull(h)
    /\ Goto(h, "fall back")
    /\ UNCHANGED <<loaded, tables, contents, calls, history>>

\* _get_debouncer, in the same three steps as _get_buffer.
FindDebouncer(h) ==
    /\ Now(h, "debouncer")
    /\ Goto(h, IF debouncers[Service(h)] = None THEN "make debouncer" ELSE "take debouncer")
    /\ UNCHANGED <<loaded, tables, contents, calls, history>>

MakeDebouncer(h) ==
    /\ Now(h, "make debouncer")
    /\ debouncers' = [debouncers EXCEPT ![Service(h)] = thread[h].call]
    /\ Goto(h, "take debouncer")
    /\ UNCHANGED <<loaded, buffers, contents, calls, history>>

\* Mutant: one debouncer for all services.
TakeDebouncerShared(h) ==
    /\ Now(h, "take debouncer")
    /\ \E s \in Services :
          /\ debouncers[s] # None
          /\ \A t \in Services : debouncers[t] # None => debouncers[s] <= debouncers[t]
          /\ thread' = [thread EXCEPT ![h].debouncer = debouncers[s], ![h].step = "flag"]
    /\ UNCHANGED <<loaded, tables, contents, calls, history>>

TakeDebouncer(h) ==
    /\ Now(h, "take debouncer")
    /\ thread' = [thread EXCEPT ![h].debouncer = debouncers[Service(h)], ![h].step = "flag"]
    /\ UNCHANGED <<loaded, tables, contents, calls, history>>

\* AnomalyDebouncer.check: the flag is appended; then the flags are looked at.
Flag(h) ==
    /\ Now(h, "flag")
    /\ flags' = [flags EXCEPT ![thread[h].debouncer] =
                    Newest(Append(@, thread[h].high), Persistence)]
    /\ Goto(h, "confirm")
    /\ UNCHANGED <<loaded, tables, window, calls, history>>

Confirms(recent) ==
    /\ Len(recent) = Persistence
    /\ \A i \in DOMAIN recent : recent[i]

Confirm(h) ==
    /\ Now(h, "confirm")
    /\ Answered(h, IF Confirms(flags[thread[h].debouncer]) THEN "anomaly" ELSE "normal")
    /\ UNCHANGED <<loaded, tables, contents, calls, given, disturbed, raced>>

----------------------------------------------------------------------------
(* The fallback *)

ForestCanJudge(h) == loaded.forest /\ Window(h) # <<>>

FallBack(h) ==
    /\ Now(h, "fall back")
    /\ ForestCanJudge(h)
    /\ Answered(h, "forest")
    /\ UNCHANGED <<loaded, tables, contents, calls, given, disturbed, raced>>

\* The forest raises: nobody has judged the reading.
FallBackFails(h) ==
    /\ Now(h, "fall back")
    /\ ForestCanJudge(h)
    /\ Answered(h, "none")
    /\ disturbed' = disturbed \cup {Service(h)}
    /\ UNCHANGED <<loaded, tables, contents, calls, given, raced>>

\* Another thread appends to the buffer that is being iterated over: RuntimeError.
FallBackTorn(h, g) ==
    /\ Now(h, "fall back") /\ ForestCanJudge(h)
    /\ Now(g, "append") /\ thread[g].buffer = thread[h].buffer
    /\ thread[g].reading # <<>>
    /\ AppendTo(g)
    /\ thread' = [thread EXCEPT ![g].step = "judge", ![h] = IdleThread]
    /\ answers' = [answers EXCEPT ![Service(h)] = Append(@, "none")]
    /\ UNCHANGED <<loaded, tables, flags, calls, disturbed, raced>>

NoVerdict(h) ==
    /\ Now(h, "fall back")
    /\ ~ForestCanJudge(h)
    /\ Answered(h, "none")
    /\ UNCHANGED <<loaded, tables, contents, calls, given, disturbed, raced>>

----------------------------------------------------------------------------

Init ==
    /\ loaded \in Models
    /\ buffers = [s \in Services |-> None]
    /\ debouncers = [s \in Services |-> None]
    /\ window = [i \in Ids |-> <<>>]
    /\ flags = [i \in Ids |-> <<>>]
    /\ thread = [h \in Threads |-> IdleThread]
    /\ calls = 0
    /\ given = [s \in Services |-> <<>>]
    /\ answers = [s \in Services |-> <<>>]
    /\ disturbed = {}
    /\ raced = {}

Infer(h) ==
    \/ FindBuffer(h) \/ MakeBuffer(h) \/ TakeBuffer(h) \/ Add(h)
    \/ Judge(h) \/ JudgeFails(h) \/ SkipTransformer(h)
    \/ FindDebouncer(h) \/ MakeDebouncer(h) \/ TakeDebouncer(h) \/ Flag(h) \/ Confirm(h)
    \/ FallBack(h) \/ FallBackFails(h) \/ NoVerdict(h) \/ \E g \in Threads : FallBackTorn(h, g)

Next == \E h \in Threads : Infer(h) \/ \E s \in Services : Call(h, s)

Spec == Init /\ [][Next]_vars

----------------------------------------------------------------------------
(* Properties *)

Deque == None..MaxCalls
Steps == {"idle", "buffer", "make buffer", "take buffer", "append", "judge", "debouncer",
          "make debouncer", "take debouncer", "flag", "confirm", "fall back"}
Answer == {"none", "forest", "normal", "anomaly"}

TypeOK ==
    /\ loaded \in Models
    /\ buffers \in [Services -> Deque] /\ debouncers \in [Services -> Deque]
    /\ window \in [Ids -> Seq(Readings)] /\ flags \in [Ids -> Seq(BOOLEAN)]
    /\ \A i \in Ids : Len(window[i]) <= Length /\ Len(flags[i]) <= Persistence
    /\ thread \in [Threads -> [step : Steps, service : Services \cup {"nobody"},
                               call : Deque, reading : Seq(Readings), buffer : Deque,
                               debouncer : Deque, high : BOOLEAN]]
    /\ calls \in 0..MaxCalls
    /\ given \in [Services -> Seq(Readings)]
    /\ answers \in [Services -> Seq(Answer)]
    /\ disturbed \subseteq Services /\ raced \subseteq Services

\* The answer that the k-th reading of a service deserves.
WindowAt(s, k) == SubSeq(given[s], k - Length + 1, k)
IsHigh(s, k) == k >= Length /\ WindowAt(s, k) \in HighWindows

Expected(s, k) ==
    CASE k >= Length /\ loaded.transformer ->
            IF \A i \in k - Persistence + 1..k : IsHigh(s, i) THEN "anomaly" ELSE "normal"
      [] ~(k >= Length /\ loaded.transformer) ->
            IF loaded.forest THEN "forest" ELSE "none"

\* anomaly_debouncer.py: "debounce state must not be shared across services", and an
\* anomaly needs Persistence windows in a row, each judged once and in time order.
\* However the calls of different services overlap, a service whose own calls come
\* one after the other gets the answers it would get alone.
AnswersExact ==
    \A s \in Services \ disturbed :
       \A k \in DOMAIN answers[s] : answers[s][k] = Expected(s, k)

\* A buffer is what the Transformer needs, the latest readings in their order, also
\* under calls of one service that overlap, unless two of them made its buffer.
WindowKept ==
    \A s \in Services \ raced :
       IF buffers[s] = None THEN given[s] = <<>>
                            ELSE window[buffers[s]] = Newest(given[s], Length)
=============================================================================
