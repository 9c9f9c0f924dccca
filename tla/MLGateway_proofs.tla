--------------------------- MODULE MLGateway_proofs ---------------------------
(***************************************************************************)
(* Proofs about the inference gateway: the type invariant; that the        *)
(* windows the Transformer judges are the latest readings of the service;  *)
(* and that a service whose calls do not overlap gets the answers it would *)
(* get alone, whatever the others do.  For any number of services,         *)
(* threads, readings and calls and any lengths of window and debouncer.    *)
(***************************************************************************)
EXTENDS MLGateway, TLAPS

ThreadState ==
    [step : Steps, service : Services \cup {"nobody"}, call : Deque, reading : Seq(Readings),
     buffer : Deque, debouncer : Deque, high : BOOLEAN]

TablesTyped ==
    /\ loaded \in Models
    /\ buffers \in [Services -> Deque] /\ debouncers \in [Services -> Deque]

ContentsTyped ==
    /\ window \in [Ids -> Seq(Readings)] /\ flags \in [Ids -> Seq(BOOLEAN)]
    /\ \A i \in Ids : Len(window[i]) <= Length /\ Len(flags[i]) <= Persistence

\* A thread that is not idle has a call of some service.
ThreadsTyped ==
    /\ thread \in [Threads -> ThreadState]
    /\ \A h \in Threads : thread[h].step # "idle" => Service(h) \in Services

HistoryTyped ==
    /\ calls \in 0..MaxCalls
    /\ given \in [Services -> Seq(Readings)]
    /\ answers \in [Services -> Seq(Answer)]
    /\ disturbed \subseteq Services /\ raced \subseteq Services

\* TypeOK in parts, with the services of the threads.
TypeInv == TablesTyped /\ ContentsTyped /\ ThreadsTyped /\ HistoryTyped

----------------------------------------------------------------------------
(* Sequences. *)

LEMMA NewestFacts ==
    ASSUME NEW S, NEW s \in Seq(S), NEW n \in Nat \ {0}
    PROVE  /\ Newest(s, n) \in Seq(S)
           /\ Len(Newest(s, n)) = IF Len(s) <= n THEN Len(s) ELSE n
           /\ Len(Newest(s, n)) <= n
           /\ \A i \in 1 .. Len(Newest(s, n)) :
                 Newest(s, n)[i] = s[Len(s) - Len(Newest(s, n)) + i]
<1>1. CASE Len(s) <= n
  BY <1>1 DEF Newest
<1>2. CASE ~(Len(s) <= n)
  <2>1. /\ Newest(s, n) = SubSeq(s, Len(s) - n + 1, Len(s))
        /\ Len(s) \in Nat /\ Len(s) - n + 1 \in 1 .. Len(s)
    BY <1>2 DEF Newest
  <2>2. /\ Newest(s, n) \in Seq(S)
        /\ Len(Newest(s, n)) = n
        /\ \A i \in 1 .. n : Newest(s, n)[i] = s[Len(s) - n + i]
    BY <2>1
  <2> QED
    BY <1>2, <2>2
<1> QED
  BY <1>1, <1>2

LEMMA NewestTyped ==
    ASSUME NEW S, NEW s \in Seq(S), NEW n \in Nat \ {0}
    PROVE  Newest(s, n) \in Seq(S) /\ Len(Newest(s, n)) <= n
  BY NewestFacts

LEMMA ConcatFacts ==
    ASSUME NEW S, NEW s \in Seq(S), NEW r \in Seq(S)
    PROVE  /\ s \o r \in Seq(S)
           /\ Len(s) \in Nat /\ Len(r) \in Nat
           /\ Len(s \o r) = Len(s) + Len(r)
           /\ \A i \in 1 .. Len(s) : (s \o r)[i] = s[i]
           /\ \A i \in 1 .. Len(r) : (s \o r)[Len(s) + i] = r[i]
  OBVIOUS

LEMMA SameSequence ==
    ASSUME NEW S, NEW s \in Seq(S), NEW t \in Seq(S), Len(s) = Len(t),
           \A i \in 1 .. Len(s) : s[i] = t[i]
    PROVE  s = t
  OBVIOUS

\* The newest of a sequence and what follows are the newest of what follows the newest.
LEMMA NewestOfNewest ==
    ASSUME NEW S, NEW s \in Seq(S), NEW r \in Seq(S), NEW n \in Nat \ {0}
    PROVE  Newest(Newest(s, n) \o r, n) = Newest(s \o r, n)
<1>1. PICK a \in Seq(S) :
         /\ a = Newest(s, n)
         /\ Len(a) = IF Len(s) <= n THEN Len(s) ELSE n
         /\ \A i \in 1 .. Len(a) : a[i] = s[Len(s) - Len(a) + i]
  BY NewestFacts
<1>2. PICK u \in Seq(S) :
         /\ u = a \o r
         /\ Len(u) = Len(a) + Len(r)
         /\ \A i \in 1 .. Len(a) : u[i] = a[i]
         /\ \A i \in 1 .. Len(r) : u[Len(a) + i] = r[i]
  <2>1. /\ a \o r \in Seq(S)
        /\ Len(a \o r) = Len(a) + Len(r)
        /\ \A i \in 1 .. Len(a) : (a \o r)[i] = a[i]
        /\ \A i \in 1 .. Len(r) : (a \o r)[Len(a) + i] = r[i]
    OBVIOUS
  <2> QED
    BY <2>1
<1>3. PICK v \in Seq(S) :
         /\ v = s \o r
         /\ Len(v) = Len(s) + Len(r)
         /\ \A i \in 1 .. Len(s) : v[i] = s[i]
         /\ \A i \in 1 .. Len(r) : v[Len(s) + i] = r[i]
  <2>1. /\ s \o r \in Seq(S)
        /\ Len(s \o r) = Len(s) + Len(r)
        /\ \A i \in 1 .. Len(s) : (s \o r)[i] = s[i]
        /\ \A i \in 1 .. Len(r) : (s \o r)[Len(s) + i] = r[i]
    OBVIOUS
  <2> QED
    BY <2>1
<1>4. PICK x \in Seq(S) :
         /\ x = Newest(u, n)
         /\ Len(x) = IF Len(u) <= n THEN Len(u) ELSE n
         /\ \A i \in 1 .. Len(x) : x[i] = u[Len(u) - Len(x) + i]
  <2>1. /\ Newest(u, n) \in Seq(S)
        /\ Len(Newest(u, n)) = IF Len(u) <= n THEN Len(u) ELSE n
        /\ \A i \in 1 .. Len(Newest(u, n)) :
              Newest(u, n)[i] = u[Len(u) - Len(Newest(u, n)) + i]
    <3>1. u \in Seq(S)
      BY <1>2
    <3> QED
      BY <3>1, NewestFacts
  <2> QED
    BY <2>1
<1>5. PICK y \in Seq(S) :
         /\ y = Newest(v, n)
         /\ Len(y) = IF Len(v) <= n THEN Len(v) ELSE n
         /\ \A i \in 1 .. Len(y) : y[i] = v[Len(v) - Len(y) + i]
  <2>1. /\ Newest(v, n) \in Seq(S)
        /\ Len(Newest(v, n)) = IF Len(v) <= n THEN Len(v) ELSE n
        /\ \A i \in 1 .. Len(Newest(v, n)) :
              Newest(v, n)[i] = v[Len(v) - Len(Newest(v, n)) + i]
    BY NewestFacts
  <2> QED
    BY <2>1
<1>6. PICK ls \in Nat, lr \in Nat, la \in Nat, lx \in Nat :
         Len(s) = ls /\ Len(r) = lr /\ Len(a) = la /\ Len(x) = lx
  OBVIOUS
<1>7. /\ la = (IF ls <= n THEN ls ELSE n)
      /\ Len(u) = la + lr /\ Len(v) = ls + lr
      /\ lx = (IF la + lr <= n THEN la + lr ELSE n)
  BY <1>1, <1>2, <1>3, <1>4, <1>6
<1>8. Len(y) = lx
  BY <1>5, <1>7
<1>9. ASSUME NEW i \in 1 .. lx PROVE x[i] = y[i]
  <2>1. PICK j \in Int, k \in Int : j = la + lr - lx + i /\ k = ls + lr - lx + i
    <3>1. la + lr - lx + i \in Int /\ ls + lr - lx + i \in Int
      OBVIOUS
    <3> QED
      BY <3>1
  <2>2. x[i] = u[j] /\ y[i] = v[k]
    <3>1. Len(u) - Len(x) + i = j /\ Len(v) - Len(y) + i = k
      BY <1>6, <1>7, <1>8, <2>1
    <3>2. i \in 1 .. Len(x) /\ i \in 1 .. Len(y)
      BY <1>6, <1>8
    <3> QED
      BY <1>4, <1>5, <3>1, <3>2
  <2>3. j \in 1 .. (la + lr) /\ k = ls - la + j /\ la <= ls
    BY <1>7, <2>1
  <2>4. CASE j <= la
    <3>1. j \in 1 .. la /\ k \in 1 .. ls
      BY <1>7, <2>3, <2>4
    <3>2. u[j] = a[j] /\ a[j] = s[k] /\ v[k] = s[k]
      BY <1>1, <1>2, <1>3, <1>6, <2>3, <3>1
    <3> QED
      BY <2>2, <3>2
  <2>5. CASE ~(j <= la)
    <3>1. PICK m \in 1 .. lr : la + m = j /\ ls + m = k
      <4>1. j - la \in 1 .. lr /\ la + (j - la) = j /\ ls + (j - la) = k
        BY <2>3, <2>5
      <4> QED
        BY <4>1
    <3>2. u[j] = r[m] /\ v[k] = r[m]
      BY <1>2, <1>3, <1>6, <3>1
    <3> QED
      BY <2>2, <3>2
  <2> QED
    BY <2>4, <2>5
<1>10. x = y
  BY <1>6, <1>8, <1>9, SameSequence
<1> QED
  BY <1>1, <1>2, <1>3, <1>4, <1>5, <1>10

----------------------------------------------------------------------------
(* Types. *)

LEMMA Typed == TypeInv => TypeOK
  BY DEF TypeInv, TypeOK, TablesTyped, ContentsTyped, ThreadsTyped, ThreadState, HistoryTyped

LEMMA InitTyped == Init => TypeInv
  BY GatewayAssumption
  DEF Init, TypeInv, TablesTyped, ContentsTyped, ThreadsTyped, ThreadState, HistoryTyped,
      IdleThread, None, Deque, Steps, Ids, Service

\* A thread that goes on to another step.
LEMMA GotoTyped ==
    ASSUME TypeInv, NEW h \in Threads, thread[h].step # "idle",
           NEW step \in Steps, Goto(h, step)
    PROVE  ThreadsTyped'
<1>1. thread[h] \in ThreadState /\ Service(h) \in Services
  BY DEF TypeInv, ThreadsTyped
<1>2. PICK r \in ThreadState : r = [thread[h] EXCEPT !.step = step]
  BY <1>1 DEF ThreadState
<1>3. thread' = [thread EXCEPT ![h] = r] /\ r.service = thread[h].service
  BY <1>1, <1>2 DEF Goto, ThreadState
<1> QED
  BY <1>1, <1>2, <1>3 DEF TypeInv, ThreadsTyped, Service

LEMMA IdleThreadTyped == IdleThread \in ThreadState
<1>1. <<>> \in Seq(Readings) /\ 0 \in Deque
  BY GatewayAssumption DEF Deque, None
<1> QED
  BY <1>1 DEF IdleThread, ThreadState, Steps, None

LEMMA IdleTyped ==
    ASSUME TypeInv, NEW h \in Threads, thread' = [thread EXCEPT ![h] = IdleThread]
    PROVE  ThreadsTyped'
<1>1. IdleThread.step = "idle"
  BY DEF IdleThread
<1> QED
  BY <1>1, IdleThreadTyped DEF TypeInv, ThreadsTyped, Service

LEMMA AppendTyped ==
    ASSUME TypeInv, NEW h \in Threads, AppendTo(h), flags' = flags
    PROVE  ContentsTyped' /\ given' \in [Services -> Seq(Readings)]
<1>1. /\ window \in [Ids -> Seq(Readings)] /\ given \in [Services -> Seq(Readings)]
      /\ thread[h].reading \in Seq(Readings)
      /\ \A i \in Ids : Len(window[i]) <= Length
  BY DEF TypeInv, ContentsTyped, ThreadsTyped, ThreadState, HistoryTyped
<1>2. ASSUME NEW i \in Ids
      PROVE  /\ Newest(window[i] \o thread[h].reading, Length) \in Seq(Readings)
             /\ Len(Newest(window[i] \o thread[h].reading, Length)) <= Length
  <2>1. PICK w \in Seq(Readings) : w = window[i] \o thread[h].reading
    BY <1>1, ConcatFacts
  <2> QED
    BY <2>1, NewestTyped, GatewayAssumption
<1>3. given' \in [Services -> Seq(Readings)]
  BY <1>1, ConcatFacts DEF AppendTo
<1>4. window' \in [Ids -> Seq(Readings)] /\ \A i \in Ids : Len(window'[i]) <= Length
  BY <1>1, <1>2 DEF AppendTo
<1> QED
  BY <1>3, <1>4 DEF TypeInv, ContentsTyped

LEMMA AnsweredTyped ==
    ASSUME TypeInv, NEW h \in Threads, NEW answer \in Answer, Answered(h, answer)
    PROVE  ThreadsTyped' /\ answers' \in [Services -> Seq(Answer)]
<1>1. ThreadsTyped'
  BY IdleTyped DEF Answered
<1>2. answers' \in [Services -> Seq(Answer)]
  <2>1. /\ answers \in [Services -> Seq(Answer)]
        /\ \A x \in Seq(Answer) : Append(x, answer) \in Seq(Answer)
    BY DEF TypeInv, HistoryTyped
  <2> QED
    BY <2>1 DEF Answered
<1> QED
  BY <1>1, <1>2

LEMMA CallTyped ==
    ASSUME TypeInv, NEW h \in Threads, NEW s \in Services, Call(h, s)
    PROVE  TypeInv'
<1>1. calls + 1 \in 1..MaxCalls /\ calls' = calls + 1
  BY GatewayAssumption DEF Call, TypeInv, HistoryTyped
<1>2. PICK r \in {<<>>} \cup {<<x>> : x \in Readings} :
         /\ thread' = [thread EXCEPT ![h] = [IdleThread EXCEPT !.step = "buffer", !.service = s,
                                             !.call = calls + 1, !.reading = r]]
         /\ disturbed' = IF Busy(s) \/ r = <<>> THEN disturbed \cup {s} ELSE disturbed
  BY DEF Call
<1>3. r \in Seq(Readings)
  <2>1. \A x \in Readings : <<x>> \in Seq(Readings)
    OBVIOUS
  <2>2. <<>> \in Seq(Readings)
    OBVIOUS
  <2> QED
    BY <1>2, <2>1, <2>2
<1>4. ThreadsTyped'
  <2>1. PICK q : q = [IdleThread EXCEPT !.step = "buffer", !.service = s, !.call = calls + 1,
                                        !.reading = r]
    OBVIOUS
  <2>2. q \in ThreadState /\ q.service = s
    <3>1. calls + 1 \in Deque
      BY <1>1, GatewayAssumption DEF Deque, None
    <3> QED
      BY <1>3, <2>1, <3>1, IdleThreadTyped DEF ThreadState, IdleThread, Steps
  <2>3. thread' = [thread EXCEPT ![h] = q]
    BY <1>2, <2>1
  <2> QED
    BY <2>2, <2>3 DEF TypeInv, ThreadsTyped, Service
<1>5. TablesTyped' /\ ContentsTyped'
  BY DEF Call, TypeInv, TablesTyped, ContentsTyped, tables, contents
<1>6. HistoryTyped'
  BY <1>1, <1>2 DEF Call, TypeInv, HistoryTyped
<1> QED
  BY <1>4, <1>5, <1>6 DEF TypeInv

LEMMA InferTyped ==
    ASSUME TypeInv, NEW h \in Threads, Infer(h)
    PROVE  TypeInv'
<1> USE DEF TypeInv
<1>1. TablesTyped /\ ContentsTyped /\ ThreadsTyped /\ HistoryTyped
  OBVIOUS
<1>2. thread[h].step # "idle"
  BY DEF Infer, FindBuffer, MakeBuffer, TakeBuffer, Add, Judge, JudgeFails, SkipTransformer,
         FindDebouncer, MakeDebouncer, TakeDebouncer, Flag, Confirm, FallBack, FallBackFails,
         NoVerdict, FallBackTorn, Now
<1>3. Service(h) \in Services /\ thread[h] \in ThreadState
  BY <1>2 DEF ThreadsTyped
<1>4. CASE FindBuffer(h) \/ FindDebouncer(h) \/ SkipTransformer(h) \/ JudgeFails(h)
  <2>1. \E step \in Steps : Goto(h, step)
    BY <1>4 DEF FindBuffer, FindDebouncer, SkipTransformer, JudgeFails, Steps
  <2>2. ThreadsTyped'
    BY <1>2, <2>1, GotoTyped
  <2>3. UNCHANGED <<loaded, buffers, debouncers, window, flags, calls, given, answers, raced>>
    BY <1>4 DEF FindBuffer, FindDebouncer, SkipTransformer, JudgeFails, tables, contents, history
  <2>4. disturbed' \subseteq Services
    <3>1. disturbed' = disturbed \/ disturbed' = disturbed \cup {Service(h)}
      BY <1>4 DEF FindBuffer, FindDebouncer, SkipTransformer, JudgeFails, history
    <3> QED
      BY <1>1, <1>3, <3>1 DEF HistoryTyped
  <2>5. TablesTyped'
    BY <1>1, <2>3 DEF TablesTyped
  <2>6. ContentsTyped'
    BY <1>1, <2>3 DEF ContentsTyped
  <2>7. HistoryTyped'
    BY <1>1, <2>3, <2>4 DEF HistoryTyped
  <2> QED
    BY <2>2, <2>5, <2>6, <2>7
<1>5. CASE MakeBuffer(h) \/ MakeDebouncer(h)
  <2>1. ThreadsTyped'
    BY <1>2, <1>5, GotoTyped DEF MakeBuffer, MakeDebouncer, Steps
  <2>2. TablesTyped'
    <3>1. PICK c \in Deque : c = thread[h].call
      BY <1>3 DEF ThreadState
    <3>2. \/ buffers' = [buffers EXCEPT ![Service(h)] = c] /\ UNCHANGED <<loaded, debouncers>>
          \/ debouncers' = [debouncers EXCEPT ![Service(h)] = c] /\ UNCHANGED <<loaded, buffers>>
      BY <1>5, <3>1 DEF MakeBuffer, MakeDebouncer
    <3> QED
      BY <1>1, <3>2 DEF TablesTyped
  <2>3. UNCHANGED <<window, flags, calls, given, answers, disturbed>>
    BY <1>5 DEF MakeBuffer, MakeDebouncer, contents, history
  <2>4. raced' = raced \/ raced' = raced \cup {Service(h)}
    BY <1>5 DEF MakeBuffer, MakeDebouncer, history
  <2>5. ContentsTyped'
    BY <1>1, <2>3 DEF ContentsTyped
  <2>6. HistoryTyped'
    BY <1>1, <1>3, <2>3, <2>4 DEF HistoryTyped
  <2> QED
    BY <2>1, <2>2, <2>5, <2>6
<1>6. CASE TakeBuffer(h) \/ TakeDebouncer(h) \/ Judge(h)
  <2>1. PICK r \in ThreadState : thread' = [thread EXCEPT ![h] = r] /\ r.service = Service(h)
    <3>0. PICK old \in ThreadState : old = thread[h] /\ old.service = Service(h)
      BY <1>3 DEF Service
    <3>1. CASE TakeBuffer(h)
      <4>1. PICK b \in Deque : b = buffers[Service(h)]
        BY <1>1, <1>3 DEF TablesTyped
      <4>2. PICK r : r = [old EXCEPT !.buffer = b, !.step = "append"]
        OBVIOUS
      <4>3. r \in ThreadState /\ r.service = old.service
        BY <4>2 DEF ThreadState, Steps
      <4>4. thread' = [thread EXCEPT ![h] = r]
        BY <3>0, <3>1, <4>1, <4>2 DEF TakeBuffer
      <4> QED
        BY <3>0, <4>3, <4>4
    <3>2. CASE TakeDebouncer(h)
      <4>1. PICK d \in Deque : d = debouncers[Service(h)]
        BY <1>1, <1>3 DEF TablesTyped
      <4>2. PICK r : r = [old EXCEPT !.debouncer = d, !.step = "flag"]
        OBVIOUS
      <4>3. r \in ThreadState /\ r.service = old.service
        BY <4>2 DEF ThreadState, Steps
      <4>4. thread' = [thread EXCEPT ![h] = r]
        BY <3>0, <3>2, <4>1, <4>2 DEF TakeDebouncer
      <4> QED
        BY <3>0, <4>3, <4>4
    <3>3. CASE Judge(h)
      <4>1. PICK b \in BOOLEAN : b = (Window(h) \in HighWindows)
        <5>1. (Window(h) \in HighWindows) \in BOOLEAN
          OBVIOUS
        <5> QED
          BY <5>1
      <4>2. PICK r : r = [old EXCEPT !.high = b, !.step = "debouncer"]
        OBVIOUS
      <4>3. r \in ThreadState /\ r.service = old.service
        BY <4>2 DEF ThreadState, Steps
      <4>4. thread' = [thread EXCEPT ![h] = r]
        BY <3>0, <3>3, <4>1, <4>2 DEF Judge
      <4> QED
        BY <3>0, <4>3, <4>4
    <3> QED
      BY <1>6, <3>1, <3>2, <3>3
  <2>2. ThreadsTyped'
    BY <1>1, <1>3, <2>1 DEF ThreadsTyped, Service
  <2>3. UNCHANGED <<loaded, buffers, debouncers, window, flags, calls, given, answers,
                    disturbed, raced>>
    BY <1>6 DEF TakeBuffer, TakeDebouncer, Judge, tables, contents, history
  <2>4. TablesTyped' /\ ContentsTyped' /\ HistoryTyped'
    BY <1>1, <2>3 DEF TablesTyped, ContentsTyped, HistoryTyped
  <2> QED
    BY <2>2, <2>4
<1>7. CASE Add(h)
  <2>1. ThreadsTyped'
    BY <1>2, <1>7, GotoTyped DEF Add, Steps
  <2>2. ContentsTyped' /\ given' \in [Services -> Seq(Readings)]
    BY <1>7, AppendTyped DEF Add
  <2> QED
    BY <1>1, <1>7, <2>1, <2>2 DEF Add, TablesTyped, HistoryTyped, tables
<1>8. CASE Flag(h)
  <2>1. ThreadsTyped'
    BY <1>2, <1>8, GotoTyped DEF Flag, Steps
  <2>2. ContentsTyped'
    <3>1. /\ window' = window
          /\ flags' = [flags EXCEPT ![thread[h].debouncer] =
                          Newest(Append(@, thread[h].high), Persistence)]
      BY <1>8 DEF Flag
    <3>2. ASSUME NEW i \in Ids
          PROVE  /\ Newest(Append(flags[i], thread[h].high), Persistence) \in Seq(BOOLEAN)
                 /\ Len(Newest(Append(flags[i], thread[h].high), Persistence)) <= Persistence
      <4>1. PICK f \in Seq(BOOLEAN) : f = Append(flags[i], thread[h].high)
        <5>1. flags[i] \in Seq(BOOLEAN) /\ thread[h].high \in BOOLEAN
          BY <1>1, <1>3 DEF ContentsTyped, ThreadState
        <5>2. Append(flags[i], thread[h].high) \in Seq(BOOLEAN)
          BY <5>1
        <5> QED
          BY <5>2
      <4> QED
        BY <4>1, NewestTyped, GatewayAssumption
    <3> QED
      BY <1>1, <3>1, <3>2 DEF ContentsTyped
  <2> QED
    BY <1>1, <1>8, <2>1, <2>2 DEF Flag, TablesTyped, HistoryTyped, tables, history
<1>9. CASE Confirm(h) \/ FallBack(h) \/ FallBackFails(h) \/ NoVerdict(h)
  <2>1. \E answer \in Answer : Answered(h, answer)
    BY <1>9 DEF Confirm, FallBack, FallBackFails, NoVerdict, Answer
  <2>2. ThreadsTyped' /\ answers' \in [Services -> Seq(Answer)]
    BY <2>1, AnsweredTyped
  <2> QED
    BY <1>1, <1>3, <1>9, <2>2
    DEF Confirm, FallBack, FallBackFails, NoVerdict, TablesTyped, ContentsTyped, HistoryTyped, tables, contents
<1>10. ASSUME NEW g \in Threads, FallBackTorn(h, g) PROVE TypeInv'
  <2>1. thread[g] \in ThreadState /\ Service(g) \in Services /\ g # h
    BY <1>1, <1>10 DEF FallBackTorn, Now, ThreadsTyped
  <2>2. [thread[g] EXCEPT !.step = "judge"] \in ThreadState /\ IdleThread \in ThreadState
    BY <2>1, IdleThreadTyped DEF ThreadState, Steps
  <2>3. PICK r \in ThreadState : r = [thread[g] EXCEPT !.step = "judge"]
    BY <2>2
  <2>4. thread' = [thread EXCEPT ![g] = r, ![h] = IdleThread] /\ r.service = Service(g)
    BY <1>1, <1>10, <2>1, <2>3 DEF FallBackTorn, ThreadsTyped, Service, ThreadState
  <2>5. ThreadsTyped'
    BY <1>1, <2>1, <2>2, <2>3, <2>4 DEF ThreadsTyped, Service, IdleThread
  <2>6. ContentsTyped' /\ given' \in [Services -> Seq(Readings)]
    BY <1>10, AppendTyped DEF FallBackTorn
  <2>7. answers' \in [Services -> Seq(Answer)]
    <3>1. /\ answers \in [Services -> Seq(Answer)] /\ "none" \in Answer
          /\ \A x \in Seq(Answer) : \A y \in Answer : Append(x, y) \in Seq(Answer)
      BY <1>1 DEF HistoryTyped, Answer
    <3> QED
      BY <1>10, <3>1 DEF FallBackTorn
  <2> QED
    BY <1>1, <1>10, <2>5, <2>6, <2>7 DEF FallBackTorn, TablesTyped, HistoryTyped, tables
<1> QED
  BY <1>4, <1>5, <1>6, <1>7, <1>8, <1>9, <1>10 DEF Infer

LEMMA NextTyped ==
    ASSUME TypeInv, [Next]_vars
    PROVE  TypeInv'
<1>1. CASE UNCHANGED vars
  BY <1>1
  DEF TypeInv, TablesTyped, ContentsTyped, ThreadsTyped, HistoryTyped, Service, vars, tables,
      contents, history
<1> QED
  BY <1>1, InferTyped, CallTyped DEF Next

\* Every variable keeps its type, and windows and flags never get longer than their limits.
THEOREM TypeCorrect == Spec => []TypeOK
<1>1. Init => TypeInv
  BY InitTyped
<1>2. TypeInv /\ [Next]_vars => TypeInv'
  BY NextTyped
<1>3. TypeInv => TypeOK
  BY Typed
<1> QED
  BY <1>1, <1>2, <1>3, PTL DEF Spec

----------------------------------------------------------------------------
(* Whose buffer is whose.  owner is the service of the call with a number, and holder the *)
(* thread that may still make the deque of that number: both only serve the proof.        *)

BeforeBuffer == {"buffer", "make buffer"}
HasBuffer == {"append", "judge", "debouncer", "make debouncer", "take debouncer", "flag",
              "confirm", "fall back"}

\* What a thread knows: its call, and the buffer it is about to make, to take, or has.
ThreadOwns(h, owner, holder) ==
    /\ thread[h].step # "idle" =>
          thread[h].call \in 1..calls /\ owner[thread[h].call] = thread[h].service
    /\ thread[h].step \in BeforeBuffer =>
          holder[thread[h].call] = {h} /\ window[thread[h].call] = <<>>
    /\ thread[h].step = "take buffer" => buffers[thread[h].service] # 0
    /\ thread[h].step \in HasBuffer =>
          /\ thread[h].buffer \in 1..calls
          /\ owner[thread[h].buffer] = thread[h].service
          /\ holder[thread[h].buffer] = {}
          /\ thread[h].service \notin raced => thread[h].buffer = buffers[thread[h].service]

TableOwns(s, owner, holder) ==
    buffers[s] # 0 =>
        buffers[s] \in 1..calls /\ owner[buffers[s]] = s /\ holder[buffers[s]] = {}

\* The deques that no call has made yet are empty.
Fresh == \A i \in Ids : i > calls => window[i] = <<>>

ServiceKept(s) ==
    s \notin raced => IF buffers[s] = 0 THEN given[s] = <<>>
                                        ELSE window[buffers[s]] = Newest(given[s], Length)

Ownership(owner, holder) ==
    /\ \A h \in Threads : ThreadOwns(h, owner, holder)
    /\ \A s \in Services : TableOwns(s, owner, holder)
    /\ Fresh
    /\ \A s \in Services : ServiceKept(s)

Owners == [Ids -> Services \cup {"nobody"}]
Holders == [Ids -> SUBSET Threads]

Owned == \E owner \in Owners, holder \in Holders : Ownership(owner, holder)

BuffersInv == TypeInv /\ Owned

LEMMA OwnedIsKept == Owned => WindowKept
<1> SUFFICES ASSUME Owned PROVE WindowKept
  OBVIOUS
<1>1. \A s \in Services : ServiceKept(s)
  BY DEF Owned, Ownership
<1> QED
  BY <1>1 DEF ServiceKept, WindowKept, None

LEMMA InitOwned == Init => Owned
<1> SUFFICES ASSUME Init PROVE Owned
  OBVIOUS
<1>1. PICK owner, holder : owner = [i \in Ids |-> "nobody"] /\ holder = [i \in Ids |-> {}]
  OBVIOUS
<1>2. owner \in Owners /\ holder \in Holders
  BY <1>1 DEF Owners, Holders
<1>3. \A h \in Threads : thread[h].step = "idle"
  BY DEF Init, IdleThread
<1>4. \A h \in Threads : ThreadOwns(h, owner, holder)
  BY <1>3 DEF ThreadOwns, BeforeBuffer, HasBuffer
<1>5. \A s \in Services : TableOwns(s, owner, holder) /\ ServiceKept(s)
  BY DEF Init, TableOwns, ServiceKept, None
<1>6. Fresh
  BY DEF Init, Fresh
<1> QED
  BY <1>2, <1>4, <1>5, <1>6 DEF Owned, Ownership

\* A thread that the step of another leaves alone.
LEMMA OthersOwn ==
    ASSUME NEW owner, NEW holder, NEW h \in Threads, ThreadOwns(h, owner, holder),
           thread'[h] = thread[h], UNCHANGED <<calls, buffers, window, raced>>
    PROVE  ThreadOwns(h, owner, holder)'
  BY DEF ThreadOwns

\* Steps that touch no buffer: it is enough to look at the thread that takes the step.
LEMMA QuietKeeps ==
    ASSUME NEW owner, NEW holder, Ownership(owner, holder), NEW h \in Threads,
           \A g \in Threads : g # h => thread'[g] = thread[g],
           ThreadOwns(h, owner, holder)',
           UNCHANGED <<calls, buffers, window, given, raced>>
    PROVE  Ownership(owner, holder)'
<1>1. ASSUME NEW g \in Threads PROVE ThreadOwns(g, owner, holder)'
  <2>1. CASE g = h
    BY <2>1
  <2>2. CASE g # h
    <3>1. ThreadOwns(g, owner, holder) /\ thread'[g] = thread[g]
      BY <2>2 DEF Ownership
    <3> QED
      BY <3>1, OthersOwn
  <2> QED
    BY <2>1, <2>2
<1>2. ASSUME NEW s \in Services PROVE TableOwns(s, owner, holder)' /\ ServiceKept(s)'
  <2>1. TableOwns(s, owner, holder) /\ ServiceKept(s)
    BY DEF Ownership
  <2> QED
    BY <2>1 DEF TableOwns, ServiceKept
<1>3. Fresh'
  BY DEF Ownership, Fresh
<1> QED
  BY <1>1, <1>2, <1>3 DEF Ownership

LEMMA FindKeeps ==
    ASSUME TypeInv, NEW owner, NEW holder, Ownership(owner, holder), NEW h \in Threads,
           FindBuffer(h)
    PROVE  Ownership(owner, holder)'
<1>1. PICK step \in {"make buffer", "take buffer"} :
         /\ thread' = [thread EXCEPT ![h].step = step]
         /\ step = "take buffer" => buffers[thread[h].service] # 0
  BY DEF FindBuffer, Goto, Service, None
<1>2. /\ thread'[h].step = step /\ thread'[h].call = thread[h].call
      /\ thread'[h].service = thread[h].service
      /\ \A g \in Threads : g # h => thread'[g] = thread[g]
  BY <1>1 DEF TypeInv, ThreadsTyped, ThreadState
<1>3. thread[h].step = "buffer" /\ UNCHANGED <<calls, buffers, window, given, raced>>
  BY DEF FindBuffer, Now, tables, contents, history
<1>4. ThreadOwns(h, owner, holder)
  BY DEF Ownership
<1>5. ThreadOwns(h, owner, holder)'
  BY <1>1, <1>2, <1>3, <1>4 DEF ThreadOwns, BeforeBuffer, HasBuffer
<1> QED
  BY <1>2, <1>3, <1>5, QuietKeeps

LEMMA TakeKeeps ==
    ASSUME TypeInv, NEW owner, NEW holder, Ownership(owner, holder), NEW h \in Threads,
           TakeBuffer(h)
    PROVE  Ownership(owner, holder)'
<1>1. thread[h].step = "take buffer" /\ UNCHANGED <<calls, buffers, window, given, raced>>
  BY DEF TakeBuffer, Now, tables, contents, history
<1>2. thread[h].service \in Services
  BY <1>1 DEF TypeInv, ThreadsTyped, Service
<1>3. /\ thread'[h].step = "append" /\ thread'[h].call = thread[h].call
      /\ thread'[h].service = thread[h].service
      /\ thread'[h].buffer = buffers[thread[h].service]
      /\ \A g \in Threads : g # h => thread'[g] = thread[g]
  BY DEF TakeBuffer, Service, TypeInv, ThreadsTyped, ThreadState
<1>4. ThreadOwns(h, owner, holder) /\ TableOwns(thread[h].service, owner, holder)
  BY <1>2 DEF Ownership
<1>5. ThreadOwns(h, owner, holder)'
  BY <1>1, <1>3, <1>4 DEF ThreadOwns, TableOwns, BeforeBuffer, HasBuffer
<1> QED
  BY <1>1, <1>3, <1>5, QuietKeeps

\* A thread that keeps its call and its buffer, or is done.
LEMMA WorkKeeps ==
    ASSUME NEW owner, NEW holder, Ownership(owner, holder), NEW h \in Threads,
           \A g \in Threads : g # h => thread'[g] = thread[g],
           \/ thread'[h].step = "idle"
           \/ /\ thread[h].step \in HasBuffer /\ thread'[h].step \in HasBuffer
              /\ thread'[h].call = thread[h].call /\ thread'[h].service = thread[h].service
              /\ thread'[h].buffer = thread[h].buffer,
           UNCHANGED <<calls, buffers, window, given, raced>>
    PROVE  Ownership(owner, holder)'
<1>1. ThreadOwns(h, owner, holder)
  BY DEF Ownership
<1>2. ThreadOwns(h, owner, holder)'
  BY <1>1 DEF ThreadOwns, BeforeBuffer, HasBuffer
<1> QED
  BY <1>2, QuietKeeps

\* The deque a call makes is its service's own, as nobody had it before.
LEMMA MakeKeeps ==
    ASSUME TypeInv, NEW owner, NEW holder \in Holders, Ownership(owner, holder),
           NEW h \in Threads, MakeBuffer(h)
    PROVE  \E d \in Holders : Ownership(owner, d)'
<1>1. /\ thread[h].step = "make buffer"
      /\ UNCHANGED <<calls, window, given>>
  BY DEF MakeBuffer, Now, contents
<1>2. thread[h].service \in Services
  BY <1>1 DEF TypeInv, ThreadsTyped, Service
<1>3. PICK s \in Services, c \in 1..calls :
         /\ s = thread[h].service /\ c = thread[h].call
         /\ owner[c] = s /\ holder[c] = {h} /\ window[c] = <<>>
  BY <1>1, <1>2 DEF Ownership, ThreadOwns, BeforeBuffer
<1>4. c \in Ids /\ c # 0
  BY GatewayAssumption DEF TypeInv, HistoryTyped, Ids
<1>5. /\ thread'[h].step = "take buffer" /\ thread'[h].call = c /\ thread'[h].service = s
      /\ \A g \in Threads : g # h => thread'[g] = thread[g]
      /\ buffers'[s] = c /\ \A t \in Services : t # s => buffers'[t] = buffers[t]
      /\ raced' = IF buffers[s] = 0 THEN raced ELSE raced \cup {s}
  BY <1>3
  DEF MakeBuffer, Goto, Service, TypeInv, ThreadsTyped, TablesTyped, ThreadState, None
<1>6. PICK d \in Holders : d = [holder EXCEPT ![c] = {}]
  <2>1. [holder EXCEPT ![c] = {}] \in Holders
    BY <1>4 DEF Holders
  <2> QED
    BY <2>1
<1>7. d[c] = {} /\ \A i \in Ids : i # c => d[i] = holder[i]
  BY <1>4, <1>6 DEF Holders
<1>8. 1..calls \subseteq Ids
  BY GatewayAssumption DEF TypeInv, HistoryTyped, Ids
<1>9. ASSUME NEW g \in Threads PROVE ThreadOwns(g, owner, d)'
  <2>1. CASE g = h
    BY <1>1, <1>3, <1>4, <1>5, <2>1 DEF ThreadOwns, BeforeBuffer, HasBuffer
  <2>2. CASE g # h
    <3>1. ThreadOwns(g, owner, holder) /\ thread'[g] = thread[g]
      BY <1>5, <2>2 DEF Ownership
    <3>2. thread[g].step \in BeforeBuffer => thread[g].step # "idle"
      BY DEF BeforeBuffer
    <3>3. thread[g].step \in BeforeBuffer =>
             d[thread[g].call] = {g} /\ window[thread[g].call] = <<>>
      <4>1. CASE thread[g].step \in BeforeBuffer
        <5>1. thread[g].call \in 1..calls /\ holder[thread[g].call] = {g}
          BY <3>1, <3>2, <4>1 DEF ThreadOwns
        <5>2. thread[g].call # c
          BY <1>3, <2>2, <5>1
        <5> QED
          BY <1>7, <1>8, <3>1, <4>1, <5>1, <5>2 DEF ThreadOwns
      <4> QED
        BY <4>1
    <3>4. thread[g].step = "take buffer" => buffers'[thread[g].service] # 0
      <4>1. CASE thread[g].step = "take buffer"
        <5>1. thread[g].service \in Services
          BY <4>1 DEF TypeInv, ThreadsTyped, Service
        <5> QED
          BY <1>4, <1>5, <3>1, <4>1, <5>1 DEF ThreadOwns
      <4> QED
        BY <4>1
    <3>5. thread[g].step \in HasBuffer =>
             /\ thread[g].buffer \in 1..calls
             /\ owner[thread[g].buffer] = thread[g].service
             /\ d[thread[g].buffer] = {}
             /\ thread[g].service \notin raced' =>
                   thread[g].buffer = buffers'[thread[g].service]
      <4>1. CASE thread[g].step \in HasBuffer
        <5>1. /\ thread[g].buffer \in 1..calls
              /\ owner[thread[g].buffer] = thread[g].service
              /\ holder[thread[g].buffer] = {}
              /\ thread[g].service \notin raced =>
                    thread[g].buffer = buffers[thread[g].service]
          BY <3>1, <4>1 DEF ThreadOwns
        <5>2. thread[g].service \in Services
          BY <4>1 DEF TypeInv, ThreadsTyped, Service, HasBuffer
        <5>3. d[thread[g].buffer] = {}
          BY <1>7, <1>8, <5>1
        <5>4. thread[g].service \notin raced' =>
                 thread[g].buffer = buffers'[thread[g].service]
          <6>1. PICK t \in Services, b \in 1..calls :
                   t = thread[g].service /\ b = thread[g].buffer
            BY <5>1, <5>2
          <6>2. (t \notin raced => b = buffers[t]) /\ b # 0
            BY <5>1, <6>1
          <6>3. t \notin raced' => b = buffers'[t]
            BY <1>5, <6>2
          <6> QED
            BY <6>1, <6>3
        <5> QED
          BY <5>1, <5>3, <5>4
      <4> QED
        BY <4>1
    <3> QED
      BY <1>1, <3>1, <3>3, <3>4, <3>5 DEF ThreadOwns
  <2> QED
    BY <2>1, <2>2
<1>10. ASSUME NEW t \in Services PROVE TableOwns(t, owner, d)' /\ ServiceKept(t)'
  <2>1. TableOwns(t, owner, holder) /\ ServiceKept(t)
    BY DEF Ownership
  <2>2. CASE t = s
    <3>1. Newest(<<>>, Length) = <<>>
      BY GatewayAssumption DEF Newest
    <3>2. TableOwns(t, owner, d)'
      BY <1>1, <1>3, <1>5, <1>7, <2>2 DEF TableOwns
    <3>3. t \notin raced' => window[c] = Newest(given[t], Length)
      BY <1>3, <1>5, <2>1, <2>2, <3>1 DEF ServiceKept
    <3> QED
      BY <1>1, <1>4, <1>5, <2>2, <3>2, <3>3 DEF ServiceKept
  <2>3. CASE t # s
    <3>1. buffers'[t] = buffers[t] /\ (t \notin raced' => t \notin raced)
      BY <1>5, <2>3
    <3>2. TableOwns(t, owner, d)'
      BY <1>1, <1>7, <1>8, <2>1, <3>1 DEF TableOwns
    <3> QED
      BY <1>1, <2>1, <3>1, <3>2 DEF ServiceKept
  <2> QED
    BY <2>2, <2>3
<1>11. Fresh'
  BY <1>1 DEF Ownership, Fresh
<1> QED
  BY <1>6, <1>9, <1>10, <1>11 DEF Ownership

\* A call gets the next number, whose deque nobody has yet.
LEMMA CallKeeps ==
    ASSUME TypeInv, NEW owner \in Owners, NEW holder \in Holders, Ownership(owner, holder),
           NEW h \in Threads, NEW s \in Services, Call(h, s)
    PROVE  \E o \in Owners, d \in Holders : Ownership(o, d)'
<1>1. PICK c \in Ids : c = calls + 1
  <2>1. calls + 1 \in Ids
    BY GatewayAssumption DEF Call, TypeInv, HistoryTyped, Ids
  <2> QED
    BY <2>1
<1>2. /\ calls' = c /\ UNCHANGED <<buffers, window, given, raced>>
      /\ thread'[h].step = "buffer" /\ thread'[h].call = c /\ thread'[h].service = s
      /\ \A g \in Threads : g # h => thread'[g] = thread[g]
  BY <1>1 DEF Call, TypeInv, ThreadsTyped, IdleThread, tables, contents
<1>3. PICK o \in Owners, d \in Holders :
         o = [owner EXCEPT ![c] = s] /\ d = [holder EXCEPT ![c] = {h}]
  <2>1. [owner EXCEPT ![c] = s] \in Owners
    BY DEF Owners
  <2>2. [holder EXCEPT ![c] = {h}] \in Holders
    BY DEF Holders
  <2> QED
    BY <2>1, <2>2
<1>4. /\ o[c] = s /\ d[c] = {h}
      /\ \A i \in 1..calls : o[i] = owner[i] /\ d[i] = holder[i]
      /\ \A i \in 1..calls : i \in 1..calls'
      /\ c \in 1..calls' /\ c > calls
  <2>1. calls \in Nat /\ MaxCalls \in Nat /\ calls <= MaxCalls
    BY GatewayAssumption DEF TypeInv, HistoryTyped
  <2>2. c = calls + 1 /\ calls' = calls + 1 /\ c \in Ids
    BY <1>1, <1>2
  <2>3. o[c] = s /\ \A i \in Ids : i # c => o[i] = owner[i]
    BY <1>3, <2>2 DEF Owners
  <2>4. d[c] = {h} /\ \A i \in Ids : i # c => d[i] = holder[i]
    BY <1>3, <2>2 DEF Holders
  <2>5. \A i \in 1..calls : i \in Ids /\ i # c /\ i \in 1..calls'
    BY <2>1, <2>2 DEF Ids
  <2> QED
    BY <2>1, <2>2, <2>3, <2>4, <2>5
<1>5. ASSUME NEW g \in Threads PROVE ThreadOwns(g, o, d)'
  <2>1. CASE g = h
    <3>1. window[c] = <<>>
      BY <1>4 DEF Ownership, Fresh
    <3>2. "buffer" \notin HasBuffer /\ "buffer" # "take buffer" /\ "buffer" # "idle"
      BY DEF HasBuffer
    <3>3. thread'[h].step = "buffer" /\ thread'[h].call = c /\ thread'[h].service = s
      BY <1>2
    <3>4. c \in 1..calls' /\ o[c] = s /\ d[c] = {h} /\ window'[c] = <<>>
      BY <1>2, <1>4, <3>1
    <3> QED
      BY <2>1, <3>2, <3>3, <3>4 DEF ThreadOwns
  <2>2. CASE g # h
    <3>1. ThreadOwns(g, owner, holder) /\ thread'[g] = thread[g]
      BY <1>2, <2>2 DEF Ownership
    <3>2. thread[g].step \in BeforeBuffer => thread[g].step # "idle"
      BY DEF BeforeBuffer
    <3>3. UNCHANGED <<buffers, window, raced>>
      BY <1>2
    <3>4. ThreadOwns(g, o, d)
      BY <1>4, <3>1, <3>2 DEF ThreadOwns
    <3>5. ASSUME thread[g].step # "idle" PROVE thread[g].call \in 1..calls'
      BY <1>4, <3>1, <3>5 DEF ThreadOwns
    <3>6. ASSUME thread[g].step \in HasBuffer PROVE thread[g].buffer \in 1..calls'
      BY <1>4, <3>1, <3>6 DEF ThreadOwns
    <3> QED
      BY <3>1, <3>3, <3>4, <3>5, <3>6 DEF ThreadOwns
  <2> QED
    BY <2>1, <2>2
<1>6. ASSUME NEW t \in Services PROVE TableOwns(t, o, d)' /\ ServiceKept(t)'
  <2>1. TableOwns(t, owner, holder) /\ ServiceKept(t)
    BY DEF Ownership
  <2> QED
    BY <1>2, <1>4, <2>1 DEF TableOwns, ServiceKept
<1>7. Fresh'
  <2>1. \A i \in Ids : i > c => i > calls
    BY <1>1, GatewayAssumption DEF TypeInv, HistoryTyped, Ids
  <2> QED
    BY <1>2, <2>1 DEF Ownership, Fresh
<1> QED
  BY <1>3, <1>5, <1>6, <1>7 DEF Ownership

\* A reading is appended to the buffer of its service: the others' are other deques.
LEMMA AppendKeeps ==
    ASSUME TypeInv, NEW owner, NEW holder, Ownership(owner, holder),
           NEW h \in Threads, thread[h].step = "append", AppendTo(h),
           UNCHANGED <<calls, buffers, raced>>,
           \A g \in Threads :
              \/ thread'[g].step = "idle"
              \/ thread'[g] = thread[g]
              \/ /\ thread[g].step \in HasBuffer /\ thread'[g].step \in HasBuffer
                 /\ thread'[g].call = thread[g].call /\ thread'[g].service = thread[g].service
                 /\ thread'[g].buffer = thread[g].buffer
    PROVE  Ownership(owner, holder)'
<1>1. PICK s \in Services, b \in 1..calls, r \in Seq(Readings) :
         /\ s = thread[h].service /\ b = thread[h].buffer /\ r = thread[h].reading
         /\ owner[b] = s /\ holder[b] = {} /\ (s \notin raced => b = buffers[s])
  <2>1. ThreadOwns(h, owner, holder) /\ thread[h].step \in HasBuffer
    BY DEF Ownership, HasBuffer
  <2>2. thread[h].service \in Services /\ thread[h].reading \in Seq(Readings)
    BY DEF TypeInv, ThreadsTyped, ThreadState, Service
  <2> QED
    BY <2>1, <2>2 DEF ThreadOwns
<1>2. b \in Ids /\ b <= calls /\ calls \in Nat
  BY GatewayAssumption DEF TypeInv, HistoryTyped, Ids
<1>3. /\ window'[b] = Newest(window[b] \o r, Length)
      /\ \A i \in Ids : i # b => window'[i] = window[i]
      /\ given'[s] = given[s] \o r
      /\ \A t \in Services : t # s => given'[t] = given[t]
  BY <1>1, <1>2 DEF AppendTo, Service, TypeInv, ContentsTyped, HistoryTyped
<1>4. ASSUME NEW g \in Threads PROVE ThreadOwns(g, owner, holder)'
  <2>1. ThreadOwns(g, owner, holder)
    BY DEF Ownership
  <2>2. thread[g].step \in BeforeBuffer =>
           window'[thread[g].call] = <<>> /\ thread[g].call \in Ids
    <3>1. CASE thread[g].step \in BeforeBuffer
      <4>1. thread[g].call \in 1..calls /\ holder[thread[g].call] = {g}
            /\ window[thread[g].call] = <<>>
        BY <2>1, <3>1 DEF ThreadOwns, BeforeBuffer
      <4>2. thread[g].call # b
        BY <1>1, <4>1
      <4>3. thread[g].call \in Ids
        BY <4>1, GatewayAssumption DEF TypeInv, HistoryTyped, Ids
      <4> QED
        BY <1>3, <4>1, <4>2, <4>3
    <3> QED
      BY <3>1
  <2>3. CASE thread'[g].step = "idle"
    BY <2>3 DEF ThreadOwns, BeforeBuffer, HasBuffer
  <2>4. CASE thread'[g] = thread[g]
    BY <2>1, <2>2, <2>4 DEF ThreadOwns
  <2>5. CASE /\ thread[g].step \in HasBuffer /\ thread'[g].step \in HasBuffer
             /\ thread'[g].call = thread[g].call /\ thread'[g].service = thread[g].service
             /\ thread'[g].buffer = thread[g].buffer
    BY <2>1, <2>5 DEF ThreadOwns, BeforeBuffer, HasBuffer
  <2> QED
    BY <2>3, <2>4, <2>5
<1>5. ASSUME NEW t \in Services PROVE TableOwns(t, owner, holder)' /\ ServiceKept(t)'
  <2>1. TableOwns(t, owner, holder) /\ ServiceKept(t)
    BY DEF Ownership
  <2>2. TableOwns(t, owner, holder)'
    BY <2>1 DEF TableOwns
  <2>3. ASSUME t \notin raced, t = s PROVE ServiceKept(t)'
    <3>1. b = buffers[t] /\ b # 0
      BY <1>1, <2>3
    <3>2. window[b] = Newest(given[t], Length)
      BY <2>1, <2>3, <3>1 DEF ServiceKept
    <3>3. PICK x \in Seq(Readings) : x = given[t]
      BY DEF TypeInv, HistoryTyped
    <3>4. Newest(Newest(x, Length) \o r, Length) = Newest(x \o r, Length)
      BY NewestOfNewest, GatewayAssumption
    <3>5. window'[b] = Newest(given'[t], Length)
      BY <1>3, <2>3, <3>2, <3>3, <3>4
    <3> QED
      BY <3>1, <3>5 DEF ServiceKept
  <2>4. ASSUME t # s PROVE ServiceKept(t)'
    <3>1. buffers[t] # 0 => buffers[t] # b /\ buffers[t] \in Ids
      BY <1>1, <2>1, <2>4, GatewayAssumption DEF TableOwns, TypeInv, HistoryTyped, Ids
    <3> QED
      BY <1>3, <2>1, <2>4, <3>1 DEF ServiceKept
  <2> QED
    BY <2>2, <2>3, <2>4 DEF ServiceKept
<1>6. Fresh'
  BY <1>2, <1>3 DEF Ownership, Fresh
<1> QED
  BY <1>4, <1>5, <1>6 DEF Ownership

LEMMA InferKeeps ==
    ASSUME TypeInv, NEW owner \in Owners, NEW holder \in Holders, Ownership(owner, holder),
           NEW h \in Threads, Infer(h)
    PROVE  \E o \in Owners, d \in Holders : Ownership(o, d)'
<1>1. thread[h] \in ThreadState
  BY DEF TypeInv, ThreadsTyped
<1>2. CASE MakeBuffer(h)
  BY <1>2, MakeKeeps
<1>3. CASE FindBuffer(h) \/ TakeBuffer(h)
  BY <1>3, FindKeeps, TakeKeeps
<1>4. CASE Add(h)
  <2>1. /\ thread'[h].step = "judge" /\ thread'[h].call = thread[h].call
        /\ thread'[h].service = thread[h].service /\ thread'[h].buffer = thread[h].buffer
        /\ \A g \in Threads : g # h => thread'[g] = thread[g]
    BY <1>1, <1>4 DEF Add, Goto, TypeInv, ThreadsTyped, ThreadState
  <2>2. thread[h].step = "append" /\ AppendTo(h) /\ UNCHANGED <<calls, buffers, raced>>
    BY <1>4 DEF Add, Now, tables
  <2> QED
    BY <2>1, <2>2, AppendKeeps DEF HasBuffer
<1>5. CASE JudgeFails(h) \/ SkipTransformer(h) \/ FindDebouncer(h) \/ MakeDebouncer(h) \/ Flag(h)
  <2>1. PICK step \in HasBuffer : thread' = [thread EXCEPT ![h].step = step]
    BY <1>5
    DEF JudgeFails, SkipTransformer, FindDebouncer, MakeDebouncer, Flag, Goto, HasBuffer
  <2>2. /\ thread'[h].step = step /\ thread'[h].call = thread[h].call
        /\ thread'[h].service = thread[h].service /\ thread'[h].buffer = thread[h].buffer
        /\ \A g \in Threads : g # h => thread'[g] = thread[g]
    BY <1>1, <2>1 DEF TypeInv, ThreadsTyped, ThreadState
  <2>3. thread[h].step \in HasBuffer /\ UNCHANGED <<calls, buffers, window, given, raced>>
    BY <1>5
    DEF JudgeFails, SkipTransformer, FindDebouncer, MakeDebouncer, Flag, Now, HasBuffer,
        tables, contents, history
  <2> QED
    BY <2>2, <2>3, WorkKeeps
<1>6. CASE Judge(h) \/ TakeDebouncer(h)
  <2>1. /\ thread'[h].step \in HasBuffer /\ thread'[h].call = thread[h].call
        /\ thread'[h].service = thread[h].service /\ thread'[h].buffer = thread[h].buffer
        /\ \A g \in Threads : g # h => thread'[g] = thread[g]
    <3>1. PICK old \in ThreadState : old = thread[h]
      BY <1>1 DEF TypeInv, ThreadsTyped
    <3>2. CASE Judge(h)
      <4>1. PICK b : b = (Window(h) \in HighWindows)
        OBVIOUS
      <4>2. thread' = [thread EXCEPT ![h] = [old EXCEPT !.high = b, !.step = "debouncer"]]
        BY <3>1, <3>2, <4>1 DEF Judge
      <4>3. PICK new : new = [old EXCEPT !.high = b, !.step = "debouncer"]
        OBVIOUS
      <4>4. /\ new.step = "debouncer" /\ new.call = old.call
            /\ new.service = old.service /\ new.buffer = old.buffer
        BY <4>3 DEF ThreadState
      <4> QED
        BY <1>1, <3>1, <4>2, <4>3, <4>4 DEF TypeInv, ThreadsTyped, HasBuffer
    <3>3. CASE TakeDebouncer(h)
      <4>1. PICK d : d = debouncers[Service(h)]
        OBVIOUS
      <4>2. thread' = [thread EXCEPT ![h] = [old EXCEPT !.debouncer = d, !.step = "flag"]]
        BY <3>1, <3>3, <4>1 DEF TakeDebouncer
      <4>3. PICK new : new = [old EXCEPT !.debouncer = d, !.step = "flag"]
        OBVIOUS
      <4>4. /\ new.step = "flag" /\ new.call = old.call
            /\ new.service = old.service /\ new.buffer = old.buffer
        BY <4>3 DEF ThreadState
      <4> QED
        BY <1>1, <3>1, <4>2, <4>3, <4>4 DEF TypeInv, ThreadsTyped, HasBuffer
    <3> QED
      BY <1>6, <3>2, <3>3
  <2>2. thread[h].step \in HasBuffer /\ UNCHANGED <<calls, buffers, window, given, raced>>
    BY <1>6 DEF Judge, TakeDebouncer, Now, HasBuffer, tables, contents, history
  <2> QED
    BY <2>1, <2>2, WorkKeeps
<1>7. CASE Confirm(h) \/ FallBack(h) \/ FallBackFails(h) \/ NoVerdict(h)
  <2>1. /\ thread' = [thread EXCEPT ![h] = IdleThread]
        /\ UNCHANGED <<calls, buffers, window, given, raced>>
    BY <1>7 DEF Confirm, FallBack, FallBackFails, NoVerdict, Answered, tables, contents
  <2>2. thread'[h].step = "idle" /\ \A g \in Threads : g # h => thread'[g] = thread[g]
    BY <2>1 DEF IdleThread, TypeInv, ThreadsTyped
  <2> QED
    BY <2>1, <2>2, WorkKeeps
<1>8. ASSUME NEW g \in Threads, FallBackTorn(h, g) PROVE Ownership(owner, holder)'
  <2>1. /\ thread[h].step = "fall back" /\ thread[g].step = "append" /\ g # h
        /\ AppendTo(g) /\ UNCHANGED <<calls, buffers, raced>>
    BY <1>8 DEF FallBackTorn, Now, tables
  <2>2. thread[g] \in ThreadState
    BY DEF TypeInv, ThreadsTyped
  <2>3. /\ thread'[g].step = "judge" /\ thread'[g].call = thread[g].call
        /\ thread'[g].service = thread[g].service /\ thread'[g].buffer = thread[g].buffer
        /\ thread'[h].step = "idle"
        /\ \A f \in Threads : f # h /\ f # g => thread'[f] = thread[f]
    BY <1>8, <2>1, <2>2
    DEF FallBackTorn, IdleThread, TypeInv, ThreadsTyped, ThreadState
  <2> QED
    BY <2>1, <2>3, AppendKeeps DEF HasBuffer
<1> QED
  BY <1>2, <1>3, <1>4, <1>5, <1>6, <1>7, <1>8 DEF Infer

LEMMA NextOwned ==
    ASSUME BuffersInv, [Next]_vars
    PROVE  BuffersInv'
<1>1. TypeInv'
  BY NextTyped DEF BuffersInv
<1>2. PICK owner \in Owners, holder \in Holders : Ownership(owner, holder)
  BY DEF BuffersInv, Owned
<1>3. \E o \in Owners, d \in Holders : Ownership(o, d)'
  <2>1. CASE UNCHANGED vars
    <3>1. UNCHANGED <<thread, calls, buffers, window, given, raced>>
      BY <2>1 DEF vars, tables, contents, history
    <3>2. \A h \in Threads : ThreadOwns(h, owner, holder)'
      BY <1>2, <3>1 DEF Ownership, ThreadOwns
    <3>3. \A s \in Services : TableOwns(s, owner, holder)' /\ ServiceKept(s)'
      BY <1>2, <3>1 DEF Ownership, TableOwns, ServiceKept
    <3>4. Fresh'
      BY <1>2, <3>1 DEF Ownership, Fresh
    <3> QED
      BY <3>2, <3>3, <3>4 DEF Ownership
  <2>2. CASE Next
    BY <1>2, <2>2, InferKeeps, CallKeeps DEF Next, BuffersInv
  <2> QED
    BY <2>1, <2>2
<1> QED
  BY <1>1, <1>3 DEF BuffersInv, Owned

\* However calls interleave, the window a service is judged by holds its latest readings, in
\* the order of their append, unless two of its calls made its buffer at the same time
\* (_get_buffer and Infer in grpc_gateway.py).
THEOREM WindowsAreKept == Spec => []WindowKept
<1>1. Init => BuffersInv
  BY InitTyped, InitOwned DEF BuffersInv
<1>2. BuffersInv /\ [Next]_vars => BuffersInv'
  BY NextOwned
<1>3. BuffersInv => WindowKept
  BY OwnedIsKept DEF BuffersInv
<1> QED
  BY <1>1, <1>2, <1>3, PTL DEF Spec

----------------------------------------------------------------------------
(* Answers.  A service whose calls come one after the other has at most one *)
(* thread, its debouncer knows of the windows that were judged and of no    *)
(* others, and how far the thread is says what is still to do.              *)

\* What a service's answer to its k-th reading depends on: its readings, and the models.
HighAt(readings, k) ==
    k >= Length /\ SubSeq(readings, k - Length + 1, k) \in HighWindows

Verdict(models, readings, k) ==
    IF k >= Length /\ models.transformer
    THEN IF \A i \in k - Persistence + 1..k : HighAt(readings, i) THEN "anomaly" ELSE "normal"
    ELSE IF models.forest THEN "forest" ELSE "none"

\* How many windows there are to judge in the first k readings.
WindowCount(models, k) ==
    IF models.transformer /\ k >= Length THEN k - Length + 1 ELSE 0

\* The flags of a debouncer that knows of the first k readings.
Recent(models, f, readings, k) ==
    /\ Len(f) = IF WindowCount(models, k) <= Persistence THEN WindowCount(models, k)
                                                         ELSE Persistence
    /\ \A i \in 1..Len(f) : f[i] = HighAt(readings, k - Len(f) + i)

CaughtUp(models, deb, f, readings, k) ==
    IF deb = 0 THEN WindowCount(models, k) = 0 ELSE Recent(models, f, readings, k)

ToRead == {"buffer", "make buffer", "take buffer", "append"}
ToFlag == {"debouncer", "make debouncer", "take debouncer", "flag"}

\* How far the only call of a service is.
Stage(models, r, buf, deb, f, readings, given_back) ==
    /\ r.step \in ToRead =>
          /\ Len(given_back) = Len(readings) /\ Len(r.reading) = 1
          /\ CaughtUp(models, deb, f, readings, Len(readings))
    /\ r.step \notin ToRead => Len(readings) = Len(given_back) + 1
    /\ r.step = "make buffer" => buf = 0
    /\ r.step = "judge" => CaughtUp(models, deb, f, readings, Len(readings) - 1)
    /\ r.step \in ToFlag =>
          /\ CaughtUp(models, deb, f, readings, Len(readings) - 1)
          /\ r.high = HighAt(readings, Len(readings))
    /\ r.step = "make debouncer" => deb = 0
    /\ r.step \in {"take debouncer", "flag", "confirm"} => deb # 0
    /\ r.step \in {"flag", "confirm"} => r.debouncer = deb
    /\ r.step \in ToFlag \cup {"confirm"} => WindowCount(models, Len(readings)) > 0
    /\ r.step = "fall back" => WindowCount(models, Len(readings)) = 0
    /\ r.step \in {"confirm", "fall back"} => CaughtUp(models, deb, f, readings, Len(readings))

\* A service whose calls come one after the other.
Orderly(models, threads, s, buf, deb, f, readings, given_back) ==
    /\ \A g, h \in Threads : threads[g].service = s /\ threads[h].service = s => g = h
    /\ \A h \in Threads : threads[h].service = s =>
          Stage(models, threads[h], buf, deb, f, readings, given_back)
    /\ (\A h \in Threads : threads[h].service # s) =>
          /\ Len(given_back) = Len(readings)
          /\ CaughtUp(models, deb, f, readings, Len(readings))
    /\ \A k \in DOMAIN given_back : given_back[k] = Verdict(models, readings, k)

FlagsOf(contents_of, d) == IF d = None THEN <<>> ELSE contents_of[d]

OrderlyNow(s) ==
    /\ s \notin raced
    /\ Orderly(loaded, thread, s, buffers[s], debouncers[s], FlagsOf(flags, debouncers[s]),
               given[s], answers[s])

\* Whose debouncer is whose: a thread keeps to the debouncer of its service.
Keeps(r, owner, debs, n) ==
    /\ r.step = "idle" => r.service = "nobody"
    /\ r.step # "idle" => r.call \in 1..n /\ owner[r.call] = r.service
    /\ r.step = "take debouncer" => debs[r.service] # None
    /\ r.step \in {"flag", "confirm"} =>
          r.debouncer \in 1..n /\ owner[r.debouncer] = r.service

OwnDebouncer(s, owner, debs, n) ==
    debs[s] # None => debs[s] \in 1..n /\ owner[debs[s]] = s

\* Only the debouncer of a service knows of its windows.
OnlyOne(s, owner, debs, contents_of, n) ==
    \A i \in 1..n : owner[i] = s /\ i # debs[s] => contents_of[i] = <<>>

DebouncersOwned(owner) ==
    /\ \A h \in Threads : Keeps(thread[h], owner, debouncers, calls)
    /\ \A s \in Services : OwnDebouncer(s, owner, debouncers, calls)
    /\ \A i \in Ids : i > calls => flags[i] = <<>>
    /\ \A s \in Services \ disturbed : OnlyOne(s, owner, debouncers, flags, calls)

AllOrderly == \A t \in Services \ disturbed : OrderlyNow(t)

AnswersInv ==
    /\ AllOrderly
    /\ \E owner \in Owners : DebouncersOwned(owner)

LEMMA CountFacts ==
    ASSUME NEW models \in [transformer : BOOLEAN, forest : BOOLEAN], NEW k \in Nat
    PROVE  /\ WindowCount(models, k) \in Nat
           /\ WindowCount(models, k) > 0 <=> models.transformer /\ k >= Length
           /\ WindowCount(models, k) > 0 => WindowCount(models, k) = k - Length + 1
           /\ WindowCount(models, k) > 0 /\ k > 0 =>
                 WindowCount(models, k - 1) = WindowCount(models, k) - 1
  BY GatewayAssumption DEF WindowCount

\* More readings do not change what the earlier ones deserve.
LEMMA HighStays ==
    ASSUME NEW s \in Seq(Readings), NEW r \in Seq(Readings), NEW k \in Int, k <= Len(s)
    PROVE  HighAt(s \o r, k) = HighAt(s, k)
<1>1. CASE k >= Length
  <2>1. Len(s) \in Nat /\ Length \in Nat \ {0} /\ k - Length + 1 \in Int
        /\ 1 <= k - Length + 1
    BY <1>1, GatewayAssumption
  <2>2. PICK a \in Int : a = k - Length + 1
    BY <2>1
  <2>3. PICK u \in Seq(Readings) : u = s \o r
    BY ConcatFacts
  <2>4. Len(u) >= Len(s) /\ \A i \in 1 .. Len(s) : u[i] = s[i]
    BY <2>3, ConcatFacts
  <2>5. 1 <= a /\ a <= k /\ k <= Len(s) /\ k <= Len(u)
    BY <2>1, <2>2, <2>4
  <2>6. /\ SubSeq(u, a, k) \in Seq(Readings) /\ Len(SubSeq(u, a, k)) = k - a + 1
        /\ \A i \in 1 .. k - a + 1 : SubSeq(u, a, k)[i] = u[a + i - 1]
    BY <2>5
  <2>7. /\ SubSeq(s, a, k) \in Seq(Readings) /\ Len(SubSeq(s, a, k)) = k - a + 1
        /\ \A i \in 1 .. k - a + 1 : SubSeq(s, a, k)[i] = s[a + i - 1]
    BY <2>5
  <2>8. \A i \in 1 .. k - a + 1 : a + i - 1 \in 1 .. Len(s)
    BY <2>1, <2>5
  <2>9. PICK x \in Seq(Readings) :
           /\ x = SubSeq(u, a, k) /\ Len(x) = k - a + 1
           /\ \A i \in 1 .. k - a + 1 : x[i] = u[a + i - 1]
    BY <2>6
  <2>10. PICK y \in Seq(Readings) :
           /\ y = SubSeq(s, a, k) /\ Len(y) = k - a + 1
           /\ \A i \in 1 .. k - a + 1 : y[i] = s[a + i - 1]
    BY <2>7
  <2>11. \A i \in 1 .. k - a + 1 : x[i] = y[i]
    BY <2>4, <2>8, <2>9, <2>10
  <2>12. x = y
    BY <2>9, <2>10, <2>11, SameSequence
  <2> QED
    BY <2>2, <2>3, <2>9, <2>10, <2>12 DEF HighAt
<1>2. CASE ~(k >= Length)
  BY <1>2 DEF HighAt
<1> QED
  BY <1>1, <1>2

LEMMA VerdictStays ==
    ASSUME NEW models, NEW s \in Seq(Readings), NEW r \in Seq(Readings), NEW k \in Int,
           k <= Len(s)
    PROVE  Verdict(models, s \o r, k) = Verdict(models, s, k)
<1>1. \A i \in k - Persistence + 1..k : HighAt(s \o r, i) = HighAt(s, i)
  <2> SUFFICES ASSUME NEW i \in k - Persistence + 1..k PROVE HighAt(s \o r, i) = HighAt(s, i)
    OBVIOUS
  <2>1. i \in Int /\ i <= Len(s)
    BY GatewayAssumption
  <2> QED
    BY <2>1, HighStays
<1> QED
  BY <1>1 DEF Verdict

LEMMA CaughtUpStays ==
    ASSUME NEW models, NEW deb, NEW f \in Seq(BOOLEAN), NEW s \in Seq(Readings),
           NEW r \in Seq(Readings), NEW k \in Int, k <= Len(s)
    PROVE  CaughtUp(models, deb, f, s \o r, k) <=> CaughtUp(models, deb, f, s, k)
<1>1. \A i \in 1..Len(f) : HighAt(s \o r, k - Len(f) + i) = HighAt(s, k - Len(f) + i)
  <2> SUFFICES ASSUME NEW i \in 1..Len(f)
               PROVE  HighAt(s \o r, k - Len(f) + i) = HighAt(s, k - Len(f) + i)
    OBVIOUS
  <2>1. k - Len(f) + i \in Int /\ k - Len(f) + i <= Len(s)
    OBVIOUS
  <2> QED
    BY <2>1, HighStays
<1> QED
  BY <1>1 DEF CaughtUp, Recent

\* What a bounded sequence is after one more element.
OneMore(x, s, e, n) ==
    /\ Len(x) \in Nat \ {0}
    /\ Len(x) = IF Len(s) + 1 <= n THEN Len(s) + 1 ELSE n
    /\ x[Len(x)] = e
    /\ \A i \in 1..Len(x) - 1 : x[i] = s[Len(s) + 1 - Len(x) + i]

LEMMA NewestOneMore ==
    ASSUME NEW S, NEW s \in Seq(S), NEW e \in S, NEW n \in Nat \ {0}
    PROVE  OneMore(Newest(Append(s, e), n), s, e, n)
<1>0. PICK x : x = Newest(Append(s, e), n)
  OBVIOUS
<1>1. PICK t \in Seq(S) : /\ t = Append(s, e) /\ Len(t) = Len(s) + 1
                          /\ t[Len(s) + 1] = e
                          /\ \A i \in 1..Len(s) : t[i] = s[i]
  <2>1. /\ Append(s, e) \in Seq(S) /\ Len(Append(s, e)) = Len(s) + 1
        /\ Append(s, e)[Len(s) + 1] = e
        /\ \A i \in 1..Len(s) : Append(s, e)[i] = s[i]
    OBVIOUS
  <2> QED
    BY <2>1
<1>2. /\ x \in Seq(S)
      /\ Len(x) = IF Len(t) <= n THEN Len(t) ELSE n
      /\ \A i \in 1..Len(x) : x[i] = t[Len(t) - Len(x) + i]
  <2>1. /\ Newest(t, n) \in Seq(S)
        /\ Len(Newest(t, n)) = IF Len(t) <= n THEN Len(t) ELSE n
        /\ \A i \in 1..Len(Newest(t, n)) :
              Newest(t, n)[i] = t[Len(t) - Len(Newest(t, n)) + i]
    BY NewestFacts
  <2>2. x = Newest(t, n)
    BY <1>0, <1>1
  <2> QED
    BY <2>1, <2>2
<1>3. Len(s) \in Nat /\ Len(x) \in Nat \ {0} /\ Len(x) <= Len(s) + 1
  BY <1>1, <1>2
<1>4. x[Len(x)] = e
  <2>1. Len(x) \in 1..Len(x) /\ Len(t) - Len(x) + Len(x) = Len(s) + 1
    BY <1>1, <1>3
  <2> QED
    BY <1>1, <1>2, <2>1
<1>5. ASSUME NEW i \in 1..Len(x) - 1 PROVE x[i] = s[Len(s) + 1 - Len(x) + i]
  <2>1. i \in 1..Len(x) /\ Len(s) + 1 - Len(x) + i \in 1..Len(s)
    BY <1>3
  <2>2. x[i] = t[Len(s) + 1 - Len(x) + i]
    <3>1. Len(t) - Len(x) + i = Len(s) + 1 - Len(x) + i
      BY <1>1, <1>3
    <3> QED
      BY <1>2, <2>1, <3>1
  <2> QED
    BY <1>1, <2>1, <2>2
<1> QED
  BY <1>0, <1>1, <1>2, <1>3, <1>4, <1>5 DEF OneMore

\* The next flag is kept with the newest of those there were.
LEMMA FlagCatchesUp ==
    ASSUME NEW models \in [transformer : BOOLEAN, forest : BOOLEAN],
           NEW f \in Seq(BOOLEAN), NEW s \in Seq(Readings), NEW k \in Nat \ {0},
           NEW b \in BOOLEAN, b = HighAt(s, k), WindowCount(models, k) > 0,
           Recent(models, f, s, k - 1)
    PROVE  Recent(models, Newest(Append(f, b), Persistence), s, k)
<1>0. PICK x : x = Newest(Append(f, b), Persistence)
  OBVIOUS
<1>1. PICK w \in Nat : w = WindowCount(models, k - 1)
  BY CountFacts DEF WindowCount
<1>2. WindowCount(models, k) = w + 1
  <2>1. k \in Nat /\ k > 0
    OBVIOUS
  <2>2. WindowCount(models, k) \in Nat /\ WindowCount(models, k - 1) = WindowCount(models, k) - 1
    BY <2>1, CountFacts
  <2> QED
    BY <1>1, <2>2
<1>3. PICK n \in Nat : n = Len(f)
  OBVIOUS
<1>4. /\ n = IF w <= Persistence THEN w ELSE Persistence
      /\ \A i \in 1..n : f[i] = HighAt(s, k - 1 - n + i)
  BY <1>1, <1>3 DEF Recent
<1>5. /\ Len(x) \in Nat \ {0}
      /\ Len(x) = IF n + 1 <= Persistence THEN n + 1 ELSE Persistence
      /\ x[Len(x)] = b
      /\ \A i \in 1..Len(x) - 1 : x[i] = f[n + 1 - Len(x) + i]
  <2>1. PICK S : S = BOOLEAN
    OBVIOUS
  <2>2. f \in Seq(S) /\ b \in S /\ Persistence \in Nat \ {0}
    BY <2>1, GatewayAssumption
  <2>3. OneMore(Newest(Append(f, b), Persistence), f, b, Persistence)
    BY <2>2, NewestOneMore, Zenon
  <2>4. OneMore(x, f, b, Persistence)
    BY <1>0, <2>3
  <2> QED
    BY <1>3, <2>4 DEF OneMore
<1>6. Len(x) = IF w + 1 <= Persistence THEN w + 1 ELSE Persistence
  BY <1>4, <1>5, GatewayAssumption
<1>7. ASSUME NEW i \in 1..Len(x) PROVE x[i] = HighAt(s, k - Len(x) + i)
  <2>1. CASE i = Len(x)
    <3>1. k - Len(x) + i = k
      BY <1>5, <2>1
    <3> QED
      BY <1>5, <2>1, <3>1
  <2>2. CASE i # Len(x)
    <3>1. i \in 1..Len(x) - 1 /\ n + 1 - Len(x) + i \in 1..n
      BY <1>5, <2>2, GatewayAssumption
    <3>2. k - 1 - n + (n + 1 - Len(x) + i) = k - Len(x) + i
      BY <1>5
    <3> QED
      BY <1>4, <1>5, <3>1, <3>2
  <2> QED
    BY <2>1, <2>2
<1> QED
  BY <1>0, <1>2, <1>6, <1>7 DEF Recent

\* Full of high flags is what a run of high windows leaves.
LEMMA ConfirmsRuns ==
    ASSUME NEW models \in [transformer : BOOLEAN, forest : BOOLEAN],
           NEW f \in Seq(BOOLEAN), NEW s \in Seq(Readings), NEW k \in Nat,
           WindowCount(models, k) > 0, Recent(models, f, s, k)
    PROVE  (IF Confirms(f) THEN "anomaly" ELSE "normal") = Verdict(models, s, k)
<1>1. /\ models.transformer /\ k >= Length /\ WindowCount(models, k) = k - Length + 1
      /\ Length \in Nat \ {0} /\ Persistence \in Nat \ {0}
  BY CountFacts, GatewayAssumption
<1>2. /\ Len(f) \in Nat /\ DOMAIN f = 1..Len(f)
      /\ Len(f) = IF k - Length + 1 <= Persistence THEN k - Length + 1 ELSE Persistence
      /\ \A i \in 1..Len(f) : f[i] = HighAt(s, k - Len(f) + i)
  BY <1>1 DEF Recent
<1>3. CASE Len(f) = Persistence
  <2>1. ASSUME NEW i \in k - Persistence + 1..k
        PROVE  /\ i - k + Persistence \in 1..Persistence
               /\ k - Persistence + (i - k + Persistence) = i
    BY <1>1
  <2>2. ASSUME NEW i \in 1..Persistence PROVE k - Persistence + i \in k - Persistence + 1..k
    BY <1>1
  <2>3. (\A i \in 1..Persistence : f[i]) <=> \A i \in k - Persistence + 1..k : HighAt(s, i)
    <3>1. ASSUME \A i \in 1..Persistence : f[i], NEW i \in k - Persistence + 1..k
          PROVE  HighAt(s, i)
      BY <1>2, <1>3, <2>1, <3>1
    <3>2. ASSUME \A i \in k - Persistence + 1..k : HighAt(s, i), NEW i \in 1..Persistence
          PROVE  f[i]
      BY <1>2, <1>3, <2>2, <3>2
    <3> QED
      BY <3>1, <3>2
  <2> QED
    BY <1>1, <1>2, <1>3, <2>3 DEF Confirms, Verdict
<1>4. CASE Len(f) # Persistence
  <2>1. k - Length + 1 < Persistence
    BY <1>1, <1>2, <1>4
  <2>2. k - Persistence + 1 \in k - Persistence + 1..k /\ ~(k - Persistence + 1 >= Length)
    BY <1>1, <2>1
  <2>3. ~HighAt(s, k - Persistence + 1)
    BY <2>2 DEF HighAt
  <2> QED
    BY <1>1, <1>4, <2>2, <2>3 DEF Confirms, Verdict
<1> QED
  BY <1>3, <1>4

\* Looking up the buffer changes nothing an answer depends on.
LEMMA LookUpStage ==
    ASSUME NEW m, NEW r, NEW q, NEW buf, NEW later, NEW deb, NEW f, NEW rd, NEW an,
           Stage(m, r, buf, deb, f, rd, an), q.reading = r.reading,
           \/ r.step = "buffer" /\ q.step = "make buffer" /\ later = 0
           \/ r.step = "buffer" /\ q.step = "take buffer"
           \/ r.step = "make buffer" /\ q.step = "take buffer"
           \/ r.step = "take buffer" /\ q.step = "append"
    PROVE  Stage(m, q, later, deb, f, rd, an)
  BY DEF Stage, ToRead, ToFlag

LEMMA AddStage ==
    ASSUME NEW m, NEW r, NEW q, NEW buf, NEW deb, NEW f \in Seq(BOOLEAN),
           NEW rd \in Seq(Readings), NEW an \in Seq(Answer), r.reading \in Seq(Readings),
           Stage(m, r, buf, deb, f, rd, an), r.step = "append", q.step = "judge"
    PROVE  Stage(m, q, buf, deb, f, rd \o r.reading, an)
<1>1. PICK x \in Seq(Readings) : x = r.reading
  OBVIOUS
<1>2. PICK u \in Seq(Readings) : u = rd \o x /\ Len(u) = Len(rd) + Len(x)
  <2>1. rd \o x \in Seq(Readings) /\ Len(rd \o x) = Len(rd) + Len(x)
    BY ConcatFacts
  <2> QED
    BY <2>1
<1>3. Len(an) = Len(rd) /\ Len(x) = 1 /\ CaughtUp(m, deb, f, rd, Len(rd))
  BY <1>1 DEF Stage, ToRead
<1>4. Len(rd) \in Nat /\ Len(u) - 1 = Len(rd) /\ Len(u) = Len(an) + 1
  BY <1>2, <1>3
<1>5. CaughtUp(m, deb, f, rd \o x, Len(rd)) <=> CaughtUp(m, deb, f, rd, Len(rd))
  BY <1>4, CaughtUpStays
<1>6. CaughtUp(m, deb, f, u, Len(u) - 1)
  BY <1>2, <1>3, <1>4, <1>5
<1>7. Stage(m, q, buf, deb, f, u, an)
  BY <1>4, <1>6 DEF Stage, ToRead, ToFlag
<1> QED
  BY <1>1, <1>2, <1>7

LEMMA JudgeStage ==
    ASSUME NEW m, NEW r, NEW q, NEW buf, NEW deb, NEW f, NEW rd, NEW an,
           Stage(m, r, buf, deb, f, rd, an), r.step = "judge", q.step = "debouncer",
           q.high = HighAt(rd, Len(rd)), WindowCount(m, Len(rd)) > 0
    PROVE  Stage(m, q, buf, deb, f, rd, an)
  BY DEF Stage, ToRead, ToFlag

\* No window, no flag.
LEMMA NoneRecent ==
    ASSUME NEW m, NEW f, NEW rd, NEW k, WindowCount(m, k) = 0
    PROVE  Recent(m, f, rd, k) <=> Len(f) = 0
<1>1. Persistence \in Nat /\ 0 <= Persistence
  BY GatewayAssumption
<1>2. Recent(m, f, rd, k) => Len(f) = 0
  BY <1>1 DEF Recent
<1>3. ASSUME Len(f) = 0 PROVE Recent(m, f, rd, k)
  <2>1. 1..Len(f) = {}
    BY <1>3
  <2>2. \A i \in 1..Len(f) : f[i] = HighAt(rd, k - Len(f) + i)
    BY <2>1, Zenon
  <2>3. Len(f) = IF WindowCount(m, k) <= Persistence THEN WindowCount(m, k) ELSE Persistence
    BY <1>1, <1>3
  <2> QED
    BY <2>2, <2>3, Zenon DEF Recent
<1> QED
  BY <1>2, <1>3

NoWindow(m, k) == WindowCount(m, k) = 0 /\ WindowCount(m, k - 1) = 0

LEMMA NoneCaughtUp ==
    ASSUME NEW m, NEW deb, NEW f, NEW rd, NEW k, NoWindow(m, k), CaughtUp(m, deb, f, rd, k - 1)
    PROVE  CaughtUp(m, deb, f, rd, k)
<1>1. WindowCount(m, k) = 0 /\ WindowCount(m, k - 1) = 0
  BY DEF NoWindow
<1>2. CASE deb = 0
  BY <1>1, <1>2 DEF CaughtUp
<1>3. CASE deb # 0
  <2>1. Recent(m, f, rd, k - 1)
    BY <1>3 DEF CaughtUp
  <2>2. Recent(m, f, rd, k)
    BY <1>1, <2>1, NoneRecent
  <2> QED
    BY <1>3, <2>2 DEF CaughtUp
<1> QED
  BY <1>2, <1>3

LEMMA SkipStage ==
    ASSUME NEW m, NEW r, NEW q, NEW buf, NEW deb, NEW f, NEW rd, NEW an,
           Stage(m, r, buf, deb, f, rd, an), r.step = "judge", q.step = "fall back",
           NoWindow(m, Len(rd))
    PROVE  Stage(m, q, buf, deb, f, rd, an)
<1>1. CaughtUp(m, deb, f, rd, Len(rd) - 1) /\ Len(rd) = Len(an) + 1
  BY DEF Stage, ToRead
<1>2. CaughtUp(m, deb, f, rd, Len(rd))
  BY <1>1, NoneCaughtUp, Zenon
<1>3. WindowCount(m, Len(rd)) = 0
  BY DEF NoWindow
<1> QED
  BY <1>1, <1>2, <1>3 DEF Stage, ToRead, ToFlag

LEMMA FindStage ==
    ASSUME NEW m, NEW r, NEW q, NEW buf, NEW deb, NEW f, NEW rd, NEW an,
           Stage(m, r, buf, deb, f, rd, an), r.step = "debouncer", q.high = r.high,
           \/ q.step = "make debouncer" /\ deb = 0
           \/ q.step = "take debouncer" /\ deb # 0
    PROVE  Stage(m, q, buf, deb, f, rd, an)
  BY DEF Stage, ToRead, ToFlag

\* A new debouncer knows of no window, and there was none.
LEMMA MakeStage ==
    ASSUME NEW m \in [transformer : BOOLEAN, forest : BOOLEAN], NEW r, NEW q, NEW buf, NEW deb,
           NEW made, NEW f, NEW rd, NEW an, Stage(m, r, buf, deb, f, rd, an),
           r.step = "make debouncer", q.step = "take debouncer", q.high = r.high, made # 0
    PROVE  Stage(m, q, buf, made, <<>>, rd, an)
<1>1. deb = 0 /\ WindowCount(m, Len(rd) - 1) = 0
  BY DEF Stage, ToFlag, CaughtUp
<1>2. CaughtUp(m, made, <<>>, rd, Len(rd) - 1)
  <2>1. Recent(m, <<>>, rd, Len(rd) - 1)
    BY <1>1, NoneRecent
  <2> QED
    BY <2>1 DEF CaughtUp
<1> QED
  BY <1>2 DEF Stage, ToRead, ToFlag

LEMMA TakeStage ==
    ASSUME NEW m, NEW r, NEW q, NEW buf, NEW deb, NEW f, NEW rd, NEW an,
           Stage(m, r, buf, deb, f, rd, an), r.step = "take debouncer", q.step = "flag",
           q.high = r.high, q.debouncer = deb
    PROVE  Stage(m, q, buf, deb, f, rd, an)
  BY DEF Stage, ToRead, ToFlag

LEMMA FlagStage ==
    ASSUME NEW m \in [transformer : BOOLEAN, forest : BOOLEAN], NEW r, NEW q, NEW buf, NEW deb,
           NEW f \in Seq(BOOLEAN), NEW rd \in Seq(Readings), NEW an \in Seq(Answer),
           Stage(m, r, buf, deb, f, rd, an), r.step = "flag", r.high \in BOOLEAN,
           q.step = "confirm", q.debouncer = r.debouncer
    PROVE  Stage(m, q, buf, deb, Newest(Append(f, r.high), Persistence), rd, an)
<1>1. PICK k \in Nat \ {0} : k = Len(rd) /\ k = Len(an) + 1
  <2>1. Len(rd) = Len(an) + 1 /\ Len(an) \in Nat
    BY DEF Stage, ToRead
  <2> QED
    BY <2>1
<1>2. PICK b \in BOOLEAN : b = r.high
  OBVIOUS
<1>3. /\ b = HighAt(rd, k) /\ WindowCount(m, k) > 0 /\ deb # 0 /\ r.debouncer = deb
      /\ Recent(m, f, rd, k - 1)
  BY <1>1, <1>2 DEF Stage, ToFlag, CaughtUp
<1>4. Recent(m, Newest(Append(f, b), Persistence), rd, k)
  BY <1>3, FlagCatchesUp
<1>5. CaughtUp(m, deb, Newest(Append(f, b), Persistence), rd, Len(rd))
  BY <1>1, <1>3, <1>4 DEF CaughtUp
<1>6. Stage(m, q, buf, deb, Newest(Append(f, b), Persistence), rd, an)
  BY <1>1, <1>3, <1>5 DEF Stage, ToRead, ToFlag
<1> QED
  BY <1>2, <1>6

\* One more answer, the right one, leaves nothing to answer.
LEMMA AnswerAdded ==
    ASSUME NEW m, NEW rd, NEW an \in Seq(Answer), NEW answer \in Answer, Len(rd) = Len(an) + 1,
           answer = Verdict(m, rd, Len(rd)),
           \A k \in DOMAIN an : an[k] = Verdict(m, rd, k)
    PROVE  /\ Len(Append(an, answer)) = Len(rd)
           /\ \A k \in DOMAIN Append(an, answer) :
                 Append(an, answer)[k] = Verdict(m, rd, k)
<1>1. PICK x \in Seq(Answer) :
         /\ x = Append(an, answer) /\ Len(x) = Len(an) + 1 /\ x[Len(an) + 1] = answer
         /\ \A i \in 1..Len(an) : x[i] = an[i]
  <2>1. /\ Append(an, answer) \in Seq(Answer) /\ Len(Append(an, answer)) = Len(an) + 1
        /\ Append(an, answer)[Len(an) + 1] = answer
        /\ \A i \in 1..Len(an) : Append(an, answer)[i] = an[i]
    OBVIOUS
  <2> QED
    BY <2>1
<1>2. ASSUME NEW k \in DOMAIN x PROVE x[k] = Verdict(m, rd, k)
  <2>1. DOMAIN x = 1..Len(an) + 1 /\ DOMAIN an = 1..Len(an) /\ Len(an) \in Nat
    BY <1>1
  <2>2. CASE k = Len(an) + 1
    BY <1>1, <2>2
  <2>3. CASE k # Len(an) + 1
    <3>1. k \in 1..Len(an)
      BY <2>1, <2>3
    <3> QED
      BY <1>1, <2>1, <3>1
  <2> QED
    BY <2>2, <2>3
<1> QED
  BY <1>1, <1>2

LEMMA WindowFacts ==
    ASSUME NEW s \in Seq(Readings)
    PROVE  /\ Len(Newest(s, Length)) = Length <=> Len(s) >= Length
           /\ Len(s) >= Length =>
                 Newest(s, Length) = SubSeq(s, Len(s) - Length + 1, Len(s))
           /\ Len(s) > 0 => Newest(s, Length) # <<>>
<1>1. Length \in Nat \ {0} /\ Len(s) \in Nat
  BY GatewayAssumption
<1>2. /\ Newest(s, Length) \in Seq(Readings)
      /\ Len(Newest(s, Length)) = IF Len(s) <= Length THEN Len(s) ELSE Length
  BY <1>1, NewestFacts
<1>3. CASE Len(s) = Length
  <2>1. Len(s) - Length + 1 = 1 /\ Newest(s, Length) = s
    BY <1>1, <1>3 DEF Newest
  <2>2. SubSeq(s, 1, Len(s)) = s
    BY <1>1, <1>3
  <2> QED
    BY <1>1, <1>2, <1>3, <2>1, <2>2
<1>4. CASE Len(s) < Length
  BY <1>1, <1>2, <1>4 DEF Newest
<1>5. CASE Len(s) > Length
  <2>1. ~(Len(s) <= Length) /\ Len(s) >= Length /\ Len(s) > 0
    BY <1>1, <1>5
  <2>2. Newest(s, Length) = SubSeq(s, Len(s) - Length + 1, Len(s))
    BY <2>1, Zenon DEF Newest
  <2>3. Len(Newest(s, Length)) = Length
    BY <1>2, <2>1
  <2>4. Newest(s, Length) # <<>>
    BY <1>1, <2>3
  <2> QED
    BY <2>1, <2>2, <2>3, <2>4
<1> QED
  BY <1>1, <1>3, <1>4, <1>5

\* Other services do not notice.
LEMMA OrderlyFrame ==
    ASSUME NEW m, NEW T, NEW U, NEW t, NEW buf, NEW deb, NEW f, NEW rd, NEW an,
           Orderly(m, T, t, buf, deb, f, rd, an),
           \A g \in Threads : U[g] = T[g] \/ (T[g].service # t /\ U[g].service # t)
    PROVE  Orderly(m, U, t, buf, deb, f, rd, an)
<1>1. ASSUME NEW g \in Threads PROVE U[g].service = t <=> T[g].service = t
  OBVIOUS
<1>2. ASSUME NEW g \in Threads, U[g].service = t PROVE U[g] = T[g]
  BY <1>2
<1> QED
  BY <1>1, <1>2 DEF Orderly

\* A service whose only call is that of thread h, or has none.
LEMMA OrderlyOwn ==
    ASSUME NEW m, NEW U, NEW s, NEW buf, NEW deb, NEW f, NEW rd, NEW an, NEW h \in Threads,
           \A g \in Threads : g # h => U[g].service # s,
           U[h].service = s => Stage(m, U[h], buf, deb, f, rd, an),
           U[h].service # s => Len(an) = Len(rd) /\ CaughtUp(m, deb, f, rd, Len(rd)),
           \A k \in DOMAIN an : an[k] = Verdict(m, rd, k)
    PROVE  Orderly(m, U, s, buf, deb, f, rd, an)
  BY DEF Orderly

\* What a step must leave of its own service.
Left(h, s) ==
    /\ thread[h].service = s =>
          Stage(loaded, thread[h], buffers[s], debouncers[s], FlagsOf(flags, debouncers[s]),
                given[s], answers[s])
    /\ thread[h].service # s =>
          /\ Len(answers[s]) = Len(given[s])
          /\ CaughtUp(loaded, debouncers[s], FlagsOf(flags, debouncers[s]), given[s],
                      Len(given[s]))
    /\ \A k \in DOMAIN answers[s] : answers[s][k] = Verdict(loaded, given[s], k)

\* What a step must leave of the other services.
Spared(s) ==
    /\ loaded' = loaded /\ disturbed \subseteq disturbed'
    /\ \A g \in Threads :
          \/ thread'[g] = thread[g]
          \/ /\ thread[g].service \in {s, "nobody"}
             /\ thread'[g].service \in {s, "nobody"}
    /\ \A t \in Services : t # s =>
          /\ buffers'[t] = buffers[t] /\ debouncers'[t] = debouncers[t]
          /\ given'[t] = given[t] /\ answers'[t] = answers[t]
          /\ FlagsOf(flags', debouncers[t]) = FlagsOf(flags, debouncers[t])
          /\ t \in raced' => t \in raced

LEMMA OthersOrderly ==
    ASSUME NEW s, Spared(s), NEW t \in Services, t # s, OrderlyNow(t)
    PROVE  OrderlyNow(t)'
<1>1. /\ t \notin raced'
      /\ Orderly(loaded, thread, t, buffers[t], debouncers[t], FlagsOf(flags, debouncers[t]),
                 given[t], answers[t])
  BY DEF OrderlyNow, Spared
<1>2. \A g \in Threads :
         thread'[g] = thread[g] \/ (thread[g].service # t /\ thread'[g].service # t)
  BY GatewayAssumption DEF Spared
<1>3. PICK U : U = thread'
  OBVIOUS
<1>4. Orderly(loaded, U, t, buffers[t], debouncers[t], FlagsOf(flags, debouncers[t]),
              given[t], answers[t])
  BY <1>1, <1>2, <1>3, OrderlyFrame
<1>5. /\ loaded' = loaded /\ buffers'[t] = buffers[t] /\ debouncers'[t] = debouncers[t]
      /\ given'[t] = given[t] /\ answers'[t] = answers[t]
      /\ FlagsOf(flags', debouncers'[t]) = FlagsOf(flags, debouncers[t])
  BY DEF Spared
<1>6. Orderly(loaded', thread', t, buffers'[t], debouncers'[t], FlagsOf(flags', debouncers'[t]),
              given'[t], answers'[t])
  BY <1>3, <1>4, <1>5
<1> QED
  BY <1>1, <1>6 DEF OrderlyNow

\* The only call of a service moves on.
LEMMA ServiceMoves ==
    ASSUME NEW h \in Threads, NEW s \in Services, Spared(s),
           \A t \in Services \ disturbed : OrderlyNow(t),
           s \notin disturbed' =>
              /\ s \notin raced' /\ Left(h, s)'
              /\ \A g \in Threads : g # h => thread'[g].service # s
    PROVE  \A t \in Services \ disturbed' : OrderlyNow(t)'
<1> SUFFICES ASSUME NEW t \in Services, t \notin disturbed' PROVE OrderlyNow(t)'
  OBVIOUS
<1>1. CASE t # s
  <2>1. OrderlyNow(t)
    BY DEF Spared
  <2> QED
    BY <1>1, <2>1, OthersOrderly
<1>2. CASE t = s
  <2>1. /\ s \notin raced' /\ Left(h, s)'
        /\ \A g \in Threads : g # h => thread'[g].service # s
    BY <1>2
  <2>2. PICK U, m, buf, deb, f, rd, an :
           /\ U = thread' /\ m = loaded' /\ buf = buffers'[s] /\ deb = debouncers'[s]
           /\ f = FlagsOf(flags', debouncers'[s]) /\ rd = given'[s] /\ an = answers'[s]
    OBVIOUS
  <2>3. /\ \A g \in Threads : g # h => U[g].service # s
        /\ U[h].service = s => Stage(m, U[h], buf, deb, f, rd, an)
        /\ U[h].service # s => Len(an) = Len(rd) /\ CaughtUp(m, deb, f, rd, Len(rd))
        /\ \A k \in DOMAIN an : an[k] = Verdict(m, rd, k)
    BY <2>1, <2>2 DEF Left
  <2>4. Orderly(m, U, s, buf, deb, f, rd, an)
    BY <2>3, OrderlyOwn
  <2> QED
    BY <1>2, <2>1, <2>2, <2>4 DEF OrderlyNow
<1> QED
  BY <1>1, <1>2

\* Steps that touch no debouncer.
LEMMA DebouncersKept ==
    ASSUME NEW owner, DebouncersOwned(owner), UNCHANGED <<debouncers, flags, calls>>,
           disturbed \subseteq disturbed',
           \A g \in Threads :
              \/ thread'[g] = thread[g]
              \/ Keeps(thread'[g], owner, debouncers, calls)
    PROVE  DebouncersOwned(owner)'
<1>1. ASSUME NEW g \in Threads PROVE Keeps(thread[g], owner, debouncers, calls)'
  <2>1. Keeps(thread[g], owner, debouncers, calls)
    BY DEF DebouncersOwned
  <2> QED
    BY <2>1
<1>2. \A s \in Services : OwnDebouncer(s, owner, debouncers, calls)'
  BY DEF DebouncersOwned
<1>3. \A s \in Services \ disturbed' : OnlyOne(s, owner, debouncers, flags, calls)'
  BY DEF DebouncersOwned
<1>4. \A i \in Ids : i > calls' => flags'[i] = <<>>
  BY DEF DebouncersOwned
<1> QED
  BY <1>1, <1>2, <1>3, <1>4 DEF DebouncersOwned

\* The thread of an undisturbed service is its only one.
Mine(h, s) ==
    /\ s \in Services /\ s = thread[h].service /\ s \notin raced
    /\ Left(h, s)
    /\ \A g \in Threads : g # h => thread[g].service # s

LEMMA OwnService ==
    ASSUME TypeInv, AllOrderly, NEW h \in Threads, thread[h].step # "idle",
           NEW s, s = thread[h].service, s \notin disturbed
    PROVE  Mine(h, s)
<1>1. s \in Services
  BY DEF TypeInv, ThreadsTyped, Service
<1>2. OrderlyNow(s)
  BY <1>1 DEF AllOrderly
<1> QED
  BY <1>1, <1>2 DEF OrderlyNow, Orderly, Mine, Left

LEMMA FlagsOfTyped ==
    ASSUME TypeInv, NEW s \in Services
    PROVE  /\ FlagsOf(flags, debouncers[s]) \in Seq(BOOLEAN)
           /\ given[s] \in Seq(Readings) /\ answers[s] \in Seq(Answer)
           /\ loaded \in [transformer : BOOLEAN, forest : BOOLEAN]
           /\ debouncers[s] # 0 => debouncers[s] \in Ids
<1>1. debouncers[s] # 0 => debouncers[s] \in Ids
  BY GatewayAssumption DEF TypeInv, TablesTyped, Deque, Ids, None
<1>2. <<>> \in Seq(BOOLEAN)
  OBVIOUS
<1>3. FlagsOf(flags, debouncers[s]) \in Seq(BOOLEAN)
  <2>1. CASE debouncers[s] = None
    BY <1>2, <2>1 DEF FlagsOf
  <2>2. CASE debouncers[s] # None
    <3>1. debouncers[s] \in Ids
      BY <1>1, <2>2 DEF None
    <3>2. flags[debouncers[s]] \in Seq(BOOLEAN)
      BY <3>1 DEF TypeInv, ContentsTyped
    <3> QED
      BY <2>2, <3>2 DEF FlagsOf
  <2> QED
    BY <2>1, <2>2
<1> QED
  BY <1>1, <1>3, GatewayAssumption DEF TypeInv, TablesTyped, HistoryTyped

\* The window of such a thread is what its service was given last.
LEMMA OwnWindow ==
    ASSUME TypeInv, NEW owner, NEW holder, Ownership(owner, holder), NEW h \in Threads,
           NEW s \in Services, s = thread[h].service, s \notin raced,
           thread[h].step \in HasBuffer
    PROVE  Window(h) = Newest(given[s], Length)
<1>1. thread[h].buffer \in 1..calls /\ thread[h].buffer = buffers[s]
  BY DEF Ownership, ThreadOwns
<1>2. buffers[s] # 0
  BY <1>1 DEF TypeInv, HistoryTyped
<1>3. window[buffers[s]] = Newest(given[s], Length)
  BY <1>2 DEF Ownership, ServiceKept
<1> QED
  BY <1>1, <1>3 DEF Window

\* Nothing but the thread changes.
LEMMA QuietStep ==
    ASSUME TypeInv, AllOrderly, NEW owner, DebouncersOwned(owner), NEW h \in Threads,
           NEW s \in Services, s = thread[h].service, thread[h].step # "idle",
           \A g \in Threads : g # h => thread'[g] = thread[g],
           thread'[h].service = s, Keeps(thread'[h], owner, debouncers, calls),
           UNCHANGED <<loaded, tables, contents, calls, history>>,
           s \notin disturbed =>
              Stage(loaded, thread'[h], buffers[s], debouncers[s],
                    FlagsOf(flags, debouncers[s]), given[s], answers[s])
    PROVE  AllOrderly' /\ DebouncersOwned(owner)'
<1>1. UNCHANGED <<loaded, buffers, debouncers, window, flags, calls, given, answers, disturbed,
                  raced>>
  BY DEF tables, contents, history
<1>2. DebouncersOwned(owner)'
  BY <1>1, DebouncersKept
<1>3. Spared(s)
  <2>1. ASSUME NEW g \in Threads
        PROVE  \/ thread'[g] = thread[g]
               \/ thread[g].service \in {s, "nobody"} /\ thread'[g].service \in {s, "nobody"}
    BY Zenon
  <2>2. /\ loaded' = loaded /\ disturbed \subseteq disturbed'
        /\ \A t \in Services : t # s =>
              /\ buffers'[t] = buffers[t] /\ debouncers'[t] = debouncers[t]
              /\ given'[t] = given[t] /\ answers'[t] = answers[t]
              /\ FlagsOf(flags', debouncers[t]) = FlagsOf(flags, debouncers[t])
              /\ t \in raced' => t \in raced
    BY <1>1
  <2> QED
    BY <2>1, <2>2 DEF Spared
<1>4. s \notin disturbed' =>
         /\ s \notin raced' /\ Left(h, s)'
         /\ \A g \in Threads : g # h => thread'[g].service # s
  <2>1. CASE s \notin disturbed
    <3>1. Mine(h, s)
      BY <2>1, OwnService
    <3> QED
      BY <1>1, <2>1, <3>1 DEF Mine, Left
  <2> QED
    BY <1>1, <2>1
<1> QED
  BY <1>2, <1>3, <1>4, ServiceMoves DEF AllOrderly

\* The thread has nothing but its step changed.
Only(h, step) ==
    /\ thread'[h].step = step /\ thread'[h].service = thread[h].service
    /\ thread'[h].call = thread[h].call /\ thread'[h].reading = thread[h].reading
    /\ thread'[h].high = thread[h].high /\ thread'[h].debouncer = thread[h].debouncer
    /\ \A g \in Threads : g # h => thread'[g] = thread[g]

LEMMA GotoOnly ==
    ASSUME TypeInv, NEW h \in Threads, NEW step, Goto(h, step)
    PROVE  Only(h, step)
<1>1. PICK old \in ThreadState : old = thread[h]
  BY DEF TypeInv, ThreadsTyped
<1>2. PICK new : new = [old EXCEPT !.step = step]
  OBVIOUS
<1>3. /\ new.step = step /\ new.service = old.service /\ new.call = old.call
      /\ new.reading = old.reading /\ new.high = old.high /\ new.debouncer = old.debouncer
  BY <1>2 DEF ThreadState
<1>4. thread' = [thread EXCEPT ![h] = new]
  BY <1>1, <1>2 DEF Goto
<1>5. thread'[h] = new /\ \A g \in Threads : g # h => thread'[g] = thread[g]
  BY <1>4 DEF TypeInv, ThreadsTyped
<1> QED
  BY <1>1, <1>3, <1>5 DEF Only

LEMMA LookUpStep ==
    ASSUME TypeInv, AllOrderly, NEW owner, DebouncersOwned(owner), NEW h \in Threads,
           FindBuffer(h) \/ TakeBuffer(h)
    PROVE  AllOrderly' /\ DebouncersOwned(owner)'
<1>1. PICK s \in Services : s = thread[h].service /\ thread[h].step # "idle"
  BY DEF FindBuffer, TakeBuffer, Now, TypeInv, ThreadsTyped, Service
<1>2. /\ thread'[h].service = s /\ thread'[h].call = thread[h].call
      /\ thread'[h].reading = thread[h].reading
      /\ \A g \in Threads : g # h => thread'[g] = thread[g]
      /\ \/ /\ thread[h].step = "buffer" /\ thread'[h].step = "make buffer"
            /\ buffers[s] = 0
         \/ thread[h].step = "buffer" /\ thread'[h].step = "take buffer"
         \/ thread[h].step = "take buffer" /\ thread'[h].step = "append"
  <2>1. CASE FindBuffer(h)
    <3>1. PICK step \in {"make buffer", "take buffer"} :
             Goto(h, step) /\ (step = "make buffer" => buffers[s] = 0)
      BY <1>1, <2>1 DEF FindBuffer, Service, None
    <3>2. Only(h, step)
      BY <3>1, GotoOnly
    <3> QED
      BY <1>1, <2>1, <3>1, <3>2 DEF Only, FindBuffer, Now
  <2>2. CASE TakeBuffer(h)
    <3>1. PICK old, b : old \in ThreadState /\ old = thread[h] /\ b = buffers[Service(h)]
      BY DEF TypeInv, ThreadsTyped
    <3>2. PICK new : new = [old EXCEPT !.buffer = b, !.step = "append"]
      OBVIOUS
    <3>3. /\ new.step = "append" /\ new.service = old.service /\ new.call = old.call
          /\ new.reading = old.reading
      BY <3>2 DEF ThreadState
    <3>4. thread' = [thread EXCEPT ![h] = new]
      BY <2>2, <3>1, <3>2 DEF TakeBuffer
    <3>5. thread'[h] = new /\ \A g \in Threads : g # h => thread'[g] = thread[g]
      BY <3>4 DEF TypeInv, ThreadsTyped
    <3> QED
      BY <1>1, <2>2, <3>1, <3>3, <3>5 DEF TakeBuffer, Now
  <2> QED
    BY <2>1, <2>2
<1>3. UNCHANGED <<loaded, tables, contents, calls, history>>
  BY DEF FindBuffer, TakeBuffer
<1>4. Keeps(thread[h], owner, debouncers, calls)
  BY DEF DebouncersOwned
<1>5. Keeps(thread'[h], owner, debouncers, calls)
  BY <1>1, <1>2, <1>4 DEF Keeps
<1>6. ASSUME s \notin disturbed
      PROVE  Stage(loaded, thread'[h], buffers[s], debouncers[s],
                   FlagsOf(flags, debouncers[s]), given[s], answers[s])
  <2>1. Mine(h, s)
    BY <1>1, <1>6, OwnService
  <2>2. Stage(loaded, thread[h], buffers[s], debouncers[s],
              FlagsOf(flags, debouncers[s]), given[s], answers[s])
    BY <2>1 DEF Mine, Left
  <2>3. PICK r, q, b : r = thread[h] /\ q = thread'[h] /\ b = buffers[s]
    OBVIOUS
  <2>4. /\ q.reading = r.reading
        /\ \/ r.step = "buffer" /\ q.step = "make buffer" /\ b = 0
           \/ r.step = "buffer" /\ q.step = "take buffer"
           \/ r.step = "make buffer" /\ q.step = "take buffer"
           \/ r.step = "take buffer" /\ q.step = "append"
    BY <1>2, <2>3
  <2>5. Stage(loaded, r, b, debouncers[s], FlagsOf(flags, debouncers[s]), given[s], answers[s])
    BY <2>2, <2>3
  <2>6. Stage(loaded, q, b, debouncers[s], FlagsOf(flags, debouncers[s]), given[s], answers[s])
    BY <2>4, <2>5, LookUpStage
  <2> QED
    BY <2>3, <2>6
<1> QED
  BY <1>1, <1>2, <1>3, <1>5, <1>6, QuietStep

\* With no window to judge there was none before either.
LEMMA NoWindowBefore ==
    ASSUME NEW m \in [transformer : BOOLEAN, forest : BOOLEAN], NEW k \in Nat,
           ~(m.transformer /\ k >= Length)
    PROVE  NoWindow(m, k)
<1>1. ~(m.transformer /\ k - 1 >= Length)
  BY GatewayAssumption
<1> QED
  BY <1>1 DEF NoWindow, WindowCount

LEMMA JudgeStep ==
    ASSUME TypeInv, AllOrderly, NEW owner, DebouncersOwned(owner), NEW has, NEW holder,
           Ownership(has, holder), NEW h \in Threads, Judge(h)
    PROVE  AllOrderly' /\ DebouncersOwned(owner)'
<1>1. PICK s \in Services : s = thread[h].service /\ thread[h].step = "judge"
  BY DEF Judge, Now, TypeInv, ThreadsTyped, Service
<1>2. PICK b : b = (Window(h) \in HighWindows)
  OBVIOUS
<1>3. PICK old \in ThreadState : old = thread[h]
  BY DEF TypeInv, ThreadsTyped
<1>4. PICK q : q = [old EXCEPT !.high = b, !.step = "debouncer"]
  OBVIOUS
<1>5. q.step = "debouncer" /\ q.service = old.service /\ q.call = old.call /\ q.high = b
  BY <1>4 DEF ThreadState
<1>6. thread' = [thread EXCEPT ![h] = q]
  BY <1>2, <1>3, <1>4 DEF Judge
<1>7. thread'[h] = q /\ \A g \in Threads : g # h => thread'[g] = thread[g]
  BY <1>6 DEF TypeInv, ThreadsTyped
<1>8. UNCHANGED <<loaded, tables, contents, calls, history>>
  BY DEF Judge
<1>9. Keeps(thread'[h], owner, debouncers, calls)
  <2>1. Keeps(old, owner, debouncers, calls)
    BY <1>3 DEF DebouncersOwned
  <2> QED
    BY <1>1, <1>3, <1>5, <1>7, <2>1 DEF Keeps
<1>10. ASSUME s \notin disturbed
       PROVE  Stage(loaded, thread'[h], buffers[s], debouncers[s],
                    FlagsOf(flags, debouncers[s]), given[s], answers[s])
  <2>1. Mine(h, s)
    BY <1>1, <1>10, OwnService
  <2>2. Window(h) = Newest(given[s], Length)
    BY <1>1, <2>1, OwnWindow DEF Mine, HasBuffer
  <2>3. PICK rd \in Seq(Readings), m \in [transformer : BOOLEAN, forest : BOOLEAN] :
           rd = given[s] /\ m = loaded
    BY FlagsOfTyped
  <2>4. m.transformer /\ Len(Newest(rd, Length)) = Length
    BY <2>2, <2>3 DEF Judge, WindowIsFull
  <2>5. /\ Len(rd) >= Length /\ Len(rd) \in Nat
        /\ Newest(rd, Length) = SubSeq(rd, Len(rd) - Length + 1, Len(rd))
    BY <2>4, WindowFacts
  <2>6. b = HighAt(rd, Len(rd))
    BY <1>2, <2>2, <2>3, <2>5 DEF HighAt
  <2>7. WindowCount(m, Len(rd)) > 0
    BY <2>4, <2>5, GatewayAssumption DEF WindowCount
  <2>8. Stage(m, old, buffers[s], debouncers[s], FlagsOf(flags, debouncers[s]), rd, answers[s])
    BY <1>3, <2>1, <2>3 DEF Mine, Left
  <2>9. Stage(m, q, buffers[s], debouncers[s], FlagsOf(flags, debouncers[s]), rd, answers[s])
    BY <1>1, <1>3, <1>5, <2>6, <2>7, <2>8, JudgeStage
  <2> QED
    BY <1>7, <2>3, <2>9
<1> QED
  BY <1>1, <1>3, <1>5, <1>7, <1>8, <1>9, <1>10, QuietStep

LEMMA SkipStep ==
    ASSUME TypeInv, AllOrderly, NEW owner, DebouncersOwned(owner), NEW has, NEW holder,
           Ownership(has, holder), NEW h \in Threads, SkipTransformer(h)
    PROVE  AllOrderly' /\ DebouncersOwned(owner)'
<1>1. PICK s \in Services : s = thread[h].service /\ thread[h].step = "judge"
  BY DEF SkipTransformer, Now, TypeInv, ThreadsTyped, Service
<1>2. Only(h, "fall back")
  BY GotoOnly DEF SkipTransformer
<1>3. UNCHANGED <<loaded, tables, contents, calls, history>>
  BY DEF SkipTransformer
<1>4. Keeps(thread'[h], owner, debouncers, calls)
  <2>1. Keeps(thread[h], owner, debouncers, calls)
    BY DEF DebouncersOwned
  <2> QED
    BY <1>1, <1>2, <2>1 DEF Keeps, Only
<1>5. ASSUME s \notin disturbed
      PROVE  Stage(loaded, thread'[h], buffers[s], debouncers[s],
                   FlagsOf(flags, debouncers[s]), given[s], answers[s])
  <2>1. Mine(h, s)
    BY <1>1, <1>5, OwnService
  <2>2. Window(h) = Newest(given[s], Length)
    BY <1>1, <2>1, OwnWindow DEF Mine, HasBuffer
  <2>3. PICK rd \in Seq(Readings), m \in [transformer : BOOLEAN, forest : BOOLEAN] :
           rd = given[s] /\ m = loaded
    BY FlagsOfTyped
  <2>4. ~(m.transformer /\ Len(Newest(rd, Length)) = Length)
    BY <2>2, <2>3 DEF SkipTransformer, WindowIsFull
  <2>5. ~(m.transformer /\ Len(rd) >= Length) /\ Len(rd) \in Nat
    BY <2>4, WindowFacts
  <2>6. NoWindow(m, Len(rd))
    BY <2>5, NoWindowBefore
  <2>7. PICK r, q : r = thread[h] /\ q = thread'[h]
    OBVIOUS
  <2>8. r.step = "judge" /\ q.step = "fall back"
    BY <1>1, <1>2, <2>7 DEF Only
  <2>9. Stage(m, r, buffers[s], debouncers[s], FlagsOf(flags, debouncers[s]), rd, answers[s])
    BY <2>1, <2>3, <2>7 DEF Mine, Left
  <2>10. Stage(m, q, buffers[s], debouncers[s], FlagsOf(flags, debouncers[s]), rd, answers[s])
    BY <2>6, <2>8, <2>9, SkipStage
  <2> QED
    BY <2>3, <2>7, <2>10
<1> QED
  BY <1>1, <1>2, <1>3, <1>4, <1>5, QuietStep DEF Only

LEMMA DebouncerStep ==
    ASSUME TypeInv, AllOrderly, NEW owner, DebouncersOwned(owner), NEW h \in Threads,
           FindDebouncer(h) \/ TakeDebouncer(h)
    PROVE  AllOrderly' /\ DebouncersOwned(owner)'
<1>1. PICK s \in Services : s = thread[h].service /\ thread[h].step # "idle"
  BY DEF FindDebouncer, TakeDebouncer, Now, TypeInv, ThreadsTyped, Service
<1>2. PICK r, q, d : r = thread[h] /\ q = thread'[h] /\ d = debouncers[s]
  OBVIOUS
<1>3. /\ q.service = r.service /\ q.call = r.call /\ q.high = r.high
      /\ \A g \in Threads : g # h => thread'[g] = thread[g]
      /\ \/ r.step = "debouncer" /\ q.step = "make debouncer" /\ d = 0
         \/ r.step = "debouncer" /\ q.step = "take debouncer" /\ d # 0
         \/ r.step = "take debouncer" /\ q.step = "flag" /\ q.debouncer = d
  <2>1. CASE FindDebouncer(h)
    <3>1. PICK step \in {"make debouncer", "take debouncer"} :
             Goto(h, step) /\ (step = "make debouncer" <=> d = 0)
      BY <1>1, <1>2, <2>1 DEF FindDebouncer, Service, None
    <3>2. Only(h, step)
      BY <3>1, GotoOnly
    <3> QED
      BY <1>1, <1>2, <2>1, <3>1, <3>2 DEF Only, FindDebouncer, Now
  <2>2. CASE TakeDebouncer(h)
    <3>1. PICK old \in ThreadState : old = thread[h]
      BY DEF TypeInv, ThreadsTyped
    <3>2. PICK new : new = [old EXCEPT !.debouncer = d, !.step = "flag"]
      OBVIOUS
    <3>3. /\ new.step = "flag" /\ new.service = old.service /\ new.call = old.call
          /\ new.high = old.high /\ new.debouncer = d
      BY <3>2 DEF ThreadState
    <3>4. thread' = [thread EXCEPT ![h] = new]
      BY <1>1, <1>2, <2>2, <3>1, <3>2 DEF TakeDebouncer, Service
    <3>5. thread'[h] = new /\ \A g \in Threads : g # h => thread'[g] = thread[g]
      BY <3>4 DEF TypeInv, ThreadsTyped
    <3> QED
      BY <1>2, <2>2, <3>1, <3>3, <3>5 DEF TakeDebouncer, Now
  <2> QED
    BY <2>1, <2>2
<1>4. UNCHANGED <<loaded, tables, contents, calls, history>>
  BY DEF FindDebouncer, TakeDebouncer
<1>5. Keeps(r, owner, debouncers, calls) /\ OwnDebouncer(s, owner, debouncers, calls)
  BY <1>2 DEF DebouncersOwned
<1>6. Keeps(q, owner, debouncers, calls)
  BY <1>1, <1>2, <1>3, <1>5 DEF Keeps, OwnDebouncer, None
<1>7. ASSUME s \notin disturbed
      PROVE  Stage(loaded, q, buffers[s], debouncers[s], FlagsOf(flags, debouncers[s]), given[s],
                   answers[s])
  <2>1. Mine(h, s)
    BY <1>1, <1>7, OwnService
  <2>2. Stage(loaded, r, buffers[s], d, FlagsOf(flags, d), given[s], answers[s])
    BY <1>2, <2>1 DEF Mine, Left
  <2>3. Stage(loaded, q, buffers[s], d, FlagsOf(flags, d), given[s], answers[s])
    BY <1>3, <2>2, FindStage, TakeStage
  <2> QED
    BY <1>2, <2>3
<1> QED
  BY <1>1, <1>2, <1>3, <1>4, <1>6, <1>7, QuietStep

\* Steps of a service that leave the debouncers alone.
LEMMA ServiceStep ==
    ASSUME AllOrderly, NEW owner, DebouncersOwned(owner), NEW h \in Threads, NEW s \in Services,
           s = thread[h].service,
           \A g \in Threads : g # h => thread'[g] = thread[g],
           thread'[h].service \in {s, "nobody"}, Keeps(thread'[h], owner, debouncers, calls),
           UNCHANGED <<loaded, debouncers, flags, calls>>, disturbed \subseteq disturbed',
           \A t \in Services : t # s =>
              /\ buffers'[t] = buffers[t] /\ given'[t] = given[t] /\ answers'[t] = answers[t]
              /\ t \in raced' => t \in raced,
           s \notin disturbed' => Mine(h, s) /\ s \notin raced' /\ Left(h, s)'
    PROVE  AllOrderly' /\ DebouncersOwned(owner)'
<1>1. DebouncersOwned(owner)'
  BY DebouncersKept
<1>2. Spared(s)
  <2>1. ASSUME NEW g \in Threads
        PROVE  \/ thread'[g] = thread[g]
               \/ thread[g].service \in {s, "nobody"} /\ thread'[g].service \in {s, "nobody"}
    BY Zenon
  <2>2. /\ loaded' = loaded /\ disturbed \subseteq disturbed'
        /\ \A t \in Services : t # s =>
              /\ buffers'[t] = buffers[t] /\ debouncers'[t] = debouncers[t]
              /\ given'[t] = given[t] /\ answers'[t] = answers[t]
              /\ FlagsOf(flags', debouncers[t]) = FlagsOf(flags, debouncers[t])
              /\ t \in raced' => t \in raced
    OBVIOUS
  <2> QED
    BY <2>1, <2>2 DEF Spared
<1>3. s \notin disturbed' =>
         /\ s \notin raced' /\ Left(h, s)'
         /\ \A g \in Threads : g # h => thread'[g].service # s
  BY DEF Mine
<1> QED
  BY <1>1, <1>2, <1>3, ServiceMoves DEF AllOrderly

\* The buffer of a service that has none is made by its only call: no race.
LEMMA MakeBufferStep ==
    ASSUME TypeInv, AllOrderly, NEW owner, DebouncersOwned(owner), NEW h \in Threads,
           MakeBuffer(h)
    PROVE  AllOrderly' /\ DebouncersOwned(owner)'
<1>1. PICK s \in Services : s = thread[h].service /\ thread[h].step = "make buffer"
  BY DEF MakeBuffer, Now, TypeInv, ThreadsTyped, Service
<1>2. Only(h, "take buffer")
  BY GotoOnly DEF MakeBuffer
<1>3. /\ UNCHANGED <<loaded, debouncers, flags, calls, given, answers, disturbed>>
      /\ \A t \in Services : t # s => buffers'[t] = buffers[t]
      /\ raced' = IF buffers[s] = 0 THEN raced ELSE raced \cup {s}
  BY <1>1 DEF MakeBuffer, Service, contents, TypeInv, TablesTyped, None
<1>4. Keeps(thread'[h], owner, debouncers, calls)
  <2>1. Keeps(thread[h], owner, debouncers, calls)
    BY DEF DebouncersOwned
  <2> QED
    BY <1>1, <1>2, <2>1 DEF Keeps, Only
<1>5. ASSUME s \notin disturbed PROVE Mine(h, s) /\ s \notin raced' /\ Left(h, s)'
  <2>1. Mine(h, s)
    BY <1>1, <1>5, OwnService
  <2>2. PICK r, q, b, c : r = thread[h] /\ q = thread'[h] /\ b = buffers[s] /\ c = buffers'[s]
    OBVIOUS
  <2>3. q.reading = r.reading /\ r.step = "make buffer" /\ q.step = "take buffer"
        /\ q.service = s
    BY <1>1, <1>2, <2>2 DEF Only
  <2>4. Stage(loaded, r, b, debouncers[s], FlagsOf(flags, debouncers[s]), given[s], answers[s])
    BY <2>1, <2>2 DEF Mine, Left
  <2>5. b = 0
    BY <2>3, <2>4 DEF Stage
  <2>6. Stage(loaded, q, c, debouncers[s], FlagsOf(flags, debouncers[s]), given[s], answers[s])
    BY <2>3, <2>4, LookUpStage
  <2>7. s \notin raced'
    BY <1>3, <2>1, <2>2, <2>5 DEF Mine
  <2>8. \A k \in DOMAIN answers[s] : answers[s][k] = Verdict(loaded, given[s], k)
    BY <2>1 DEF Mine, Left
  <2>9. /\ loaded' = loaded /\ debouncers'[s] = debouncers[s] /\ given'[s] = given[s]
        /\ answers'[s] = answers[s]
        /\ FlagsOf(flags', debouncers'[s]) = FlagsOf(flags, debouncers[s])
    BY <1>3
  <2> QED
    BY <2>1, <2>2, <2>3, <2>6, <2>7, <2>8, <2>9 DEF Left
<1>6. thread'[h].service = s /\ \A g \in Threads : g # h => thread'[g] = thread[g]
  BY <1>1, <1>2 DEF Only
<1>7. s \notin disturbed' => Mine(h, s) /\ s \notin raced' /\ Left(h, s)'
  BY <1>3, <1>5
<1>8. \A t \in Services : t # s =>
         /\ buffers'[t] = buffers[t] /\ given'[t] = given[t] /\ answers'[t] = answers[t]
         /\ t \in raced' => t \in raced
  BY <1>3
<1>9. UNCHANGED <<loaded, debouncers, flags, calls>> /\ disturbed \subseteq disturbed'
  BY <1>3
<1> QED
  BY <1>1, <1>4, <1>6, <1>7, <1>8, <1>9, ServiceStep

\* The reading is the service's next.
LEMMA AddStep ==
    ASSUME TypeInv, AllOrderly, NEW owner, DebouncersOwned(owner), NEW h \in Threads, Add(h)
    PROVE  AllOrderly' /\ DebouncersOwned(owner)'
<1>1. PICK s \in Services : s = thread[h].service /\ thread[h].step = "append"
  BY DEF Add, Now, TypeInv, ThreadsTyped, Service
<1>2. Only(h, "judge")
  BY GotoOnly DEF Add
<1>3. PICK x \in Seq(Readings) : x = thread[h].reading
  BY DEF TypeInv, ThreadsTyped, ThreadState
<1>4. /\ UNCHANGED <<loaded, buffers, debouncers, flags, calls, answers, disturbed, raced>>
      /\ given'[s] = given[s] \o x /\ \A t \in Services : t # s => given'[t] = given[t]
  BY <1>1, <1>3 DEF Add, AppendTo, tables, Service, TypeInv, HistoryTyped
<1>5. Keeps(thread'[h], owner, debouncers, calls)
  <2>1. Keeps(thread[h], owner, debouncers, calls)
    BY DEF DebouncersOwned
  <2> QED
    BY <1>1, <1>2, <2>1 DEF Keeps, Only
<1>6. ASSUME s \notin disturbed PROVE Mine(h, s) /\ s \notin raced' /\ Left(h, s)'
  <2>1. Mine(h, s)
    BY <1>1, <1>6, OwnService
  <2>2. PICK rd \in Seq(Readings), an \in Seq(Answer), f \in Seq(BOOLEAN) :
           rd = given[s] /\ an = answers[s] /\ f = FlagsOf(flags, debouncers[s])
    BY FlagsOfTyped
  <2>3. PICK r, q, b, d, m :
           r = thread[h] /\ q = thread'[h] /\ b = buffers[s] /\ d = debouncers[s] /\ m = loaded
    OBVIOUS
  <2>4. r.reading = x /\ r.step = "append" /\ q.step = "judge" /\ q.service = s
    BY <1>1, <1>2, <1>3, <2>3 DEF Only
  <2>5. /\ Stage(m, r, b, d, f, rd, an)
        /\ \A k \in DOMAIN an : an[k] = Verdict(m, rd, k)
    BY <2>1, <2>2, <2>3 DEF Mine, Left
  <2>6. Stage(m, q, b, d, f, rd \o x, an)
    BY <2>4, <2>5, AddStage
  <2>7. ASSUME NEW k \in DOMAIN an PROVE an[k] = Verdict(m, rd \o x, k)
    <3>1. Len(an) = Len(rd)
      BY <2>4, <2>5 DEF Stage, ToRead
    <3>2. k \in Int /\ k <= Len(rd)
      BY <3>1
    <3>3. Verdict(m, rd \o x, k) = Verdict(m, rd, k)
      BY <3>2, VerdictStays
    <3> QED
      BY <2>5, <3>3
  <2>8. /\ loaded' = m /\ buffers'[s] = b /\ debouncers'[s] = d /\ given'[s] = rd \o x
        /\ answers'[s] = an /\ FlagsOf(flags', debouncers'[s]) = f
    BY <1>4, <2>2, <2>3
  <2>9. s \notin raced'
    BY <1>4, <2>1 DEF Mine
  <2> QED
    BY <2>1, <2>3, <2>4, <2>6, <2>7, <2>8, <2>9 DEF Left
<1>7. thread'[h].service = s /\ \A g \in Threads : g # h => thread'[g] = thread[g]
  BY <1>1, <1>2 DEF Only
<1>8. s \notin disturbed' => Mine(h, s) /\ s \notin raced' /\ Left(h, s)'
  BY <1>4, <1>6
<1>9. \A t \in Services : t # s =>
         /\ buffers'[t] = buffers[t] /\ given'[t] = given[t] /\ answers'[t] = answers[t]
         /\ t \in raced' => t \in raced
  BY <1>4
<1>10. UNCHANGED <<loaded, debouncers, flags, calls>> /\ disturbed \subseteq disturbed'
  BY <1>4
<1> QED
  BY <1>1, <1>5, <1>7, <1>8, <1>9, <1>10, ServiceStep

LEMMA FailStep ==
    ASSUME TypeInv, AllOrderly, NEW owner, DebouncersOwned(owner), NEW h \in Threads,
           JudgeFails(h)
    PROVE  AllOrderly' /\ DebouncersOwned(owner)'
<1>1. PICK s \in Services : s = thread[h].service /\ thread[h].step = "judge"
  BY DEF JudgeFails, Now, TypeInv, ThreadsTyped, Service
<1>2. Only(h, "fall back")
  BY GotoOnly DEF JudgeFails
<1>3. /\ UNCHANGED <<loaded, buffers, debouncers, flags, calls, given, answers, raced>>
      /\ disturbed' = disturbed \cup {s}
  BY <1>1 DEF JudgeFails, tables, contents, Service
<1>4. Keeps(thread'[h], owner, debouncers, calls)
  <2>1. Keeps(thread[h], owner, debouncers, calls)
    BY DEF DebouncersOwned
  <2> QED
    BY <1>1, <1>2, <2>1 DEF Keeps, Only
<1>5. thread'[h].service = s /\ \A g \in Threads : g # h => thread'[g] = thread[g]
  BY <1>1, <1>2 DEF Only
<1>6. \A t \in Services : t # s =>
         /\ buffers'[t] = buffers[t] /\ given'[t] = given[t] /\ answers'[t] = answers[t]
         /\ t \in raced' => t \in raced
  BY <1>3
<1>7. /\ UNCHANGED <<loaded, debouncers, flags, calls>> /\ disturbed \subseteq disturbed'
      /\ s \in disturbed'
  BY <1>3
<1> QED
  BY <1>1, <1>4, <1>5, <1>6, <1>7, ServiceStep

\* The debouncer a call makes is its own number, which no other service has.
LEMMA MakeDebouncerStep ==
    ASSUME TypeInv, AllOrderly, NEW owner, DebouncersOwned(owner), NEW h \in Threads,
           MakeDebouncer(h)
    PROVE  AllOrderly' /\ DebouncersOwned(owner)'
<1>0. PICK c : c = thread[h].call
  OBVIOUS
<1>1. PICK s \in Services : /\ s = thread[h].service /\ c = thread[h].call
                           /\ thread[h].step = "make debouncer"
  BY <1>0 DEF MakeDebouncer, Now, TypeInv, ThreadsTyped, Service
<1>2. Only(h, "take debouncer")
  BY GotoOnly DEF MakeDebouncer
<1>3. /\ UNCHANGED <<loaded, buffers, flags, calls, given, answers, disturbed, raced>>
      /\ debouncers'[s] = c /\ \A t \in Services : t # s => debouncers'[t] = debouncers[t]
  BY <1>1 DEF MakeDebouncer, Service, contents, history, TypeInv, TablesTyped
<1>4. Keeps(thread[h], owner, debouncers, calls)
  BY DEF DebouncersOwned
<1>5. c \in 1..calls /\ owner[c] = s /\ c # 0 /\ c \in Ids
  <2>1. c \in 1..calls /\ owner[c] = s
    BY <1>1, <1>4 DEF Keeps
  <2> QED
    BY <2>1, GatewayAssumption DEF TypeInv, HistoryTyped, Ids
<1>6. s \notin disturbed => Mine(h, s)
  BY <1>1, OwnService
<1>7. ASSUME s \notin disturbed PROVE debouncers[s] = 0
  BY <1>1, <1>6, <1>7 DEF Mine, Left, Stage
<1>8. ASSUME s \notin disturbed PROVE flags[c] = <<>>
  <2>1. OnlyOne(s, owner, debouncers, flags, calls)
    BY <1>8 DEF DebouncersOwned
  <2> QED
    BY <1>5, <1>7, <1>8, <2>1 DEF OnlyOne
<1>9. ASSUME s \notin disturbed PROVE s \notin raced' /\ Left(h, s)'
  <2>1. PICK rd, an, f, m, b :
           /\ rd = given[s] /\ an = answers[s] /\ f = FlagsOf(flags, debouncers[s])
           /\ m = loaded /\ b = buffers[s]
    OBVIOUS
  <2>2. m \in [transformer : BOOLEAN, forest : BOOLEAN]
    BY <2>1, FlagsOfTyped
  <2>3. PICK r, q : r = thread[h] /\ q = thread'[h]
    OBVIOUS
  <2>4. /\ r.step = "make debouncer" /\ q.step = "take debouncer" /\ q.high = r.high
        /\ q.service = s
    BY <1>1, <1>2, <2>3 DEF Only
  <2>5. /\ Stage(m, r, b, debouncers[s], f, rd, an)
        /\ \A k \in DOMAIN an : an[k] = Verdict(m, rd, k)
        /\ s \notin raced
    BY <1>6, <1>9, <2>1, <2>3 DEF Mine, Left
  <2>6. Stage(m, q, b, c, <<>>, rd, an)
    BY <1>5, <2>2, <2>4, <2>5, MakeStage
  <2>7. FlagsOf(flags', debouncers'[s]) = <<>>
    BY <1>3, <1>5, <1>8, <1>9 DEF FlagsOf, None
  <2>8. /\ loaded' = m /\ buffers'[s] = b /\ debouncers'[s] = c /\ given'[s] = rd
        /\ answers'[s] = an /\ raced' = raced
    BY <1>3, <2>1
  <2> QED
    BY <2>3, <2>4, <2>5, <2>6, <2>7, <2>8 DEF Left
<1>10. AllOrderly'
  <2>1. Spared(s)
    <3>1. ASSUME NEW g \in Threads
          PROVE  \/ thread'[g] = thread[g]
                 \/ /\ thread[g].service \in {s, "nobody"}
                    /\ thread'[g].service \in {s, "nobody"}
      BY <1>1, <1>2, Zenon DEF Only
    <3>2. /\ loaded' = loaded /\ disturbed \subseteq disturbed'
          /\ \A t \in Services : t # s =>
                /\ buffers'[t] = buffers[t] /\ debouncers'[t] = debouncers[t]
                /\ given'[t] = given[t] /\ answers'[t] = answers[t]
                /\ FlagsOf(flags', debouncers[t]) = FlagsOf(flags, debouncers[t])
                /\ t \in raced' => t \in raced
      BY <1>3
    <3> QED
      BY <3>1, <3>2 DEF Spared
  <2>2. s \notin disturbed' =>
           /\ s \notin raced' /\ Left(h, s)'
           /\ \A g \in Threads : g # h => thread'[g].service # s
    BY <1>2, <1>3, <1>6, <1>9 DEF Mine, Only
  <2> QED
    BY <2>1, <2>2, ServiceMoves DEF AllOrderly
<1>11. ASSUME NEW g \in Threads PROVE Keeps(thread'[g], owner, debouncers', calls)
  <2>1. Keeps(thread[g], owner, debouncers, calls)
    BY DEF DebouncersOwned
  <2>2. CASE g = h
    <3>1. PICK q : q = thread'[g]
      OBVIOUS
    <3>2. q.step = "take debouncer" /\ q.service = s /\ q.call = c
      BY <1>1, <1>2, <2>2, <3>1 DEF Only
    <3>3. debouncers'[s] # None
      BY <1>3, <1>5 DEF None
    <3>4. Keeps(q, owner, debouncers', calls)
      BY <1>5, <3>2, <3>3 DEF Keeps
    <3> QED
      BY <3>1, <3>4
  <2>3. CASE g # h
    <3>1. thread'[g] = thread[g]
      BY <1>2, <2>3 DEF Only
    <3>2. thread[g].step = "take debouncer" => thread[g].service \in Services
      BY DEF TypeInv, ThreadsTyped, Service
    <3>3. thread[g].step = "take debouncer" => debouncers'[thread[g].service] # None
      BY <1>3, <1>5, <2>1, <3>2 DEF Keeps, None
    <3> QED
      BY <2>1, <3>1, <3>3 DEF Keeps
  <2> QED
    BY <2>2, <2>3
<1>12. ASSUME NEW t \in Services PROVE OwnDebouncer(t, owner, debouncers', calls)
  BY <1>3, <1>5 DEF DebouncersOwned, OwnDebouncer
<1>13. ASSUME NEW t \in Services, t \notin disturbed
       PROVE  OnlyOne(t, owner, debouncers', flags, calls)
  <2>1. OnlyOne(t, owner, debouncers, flags, calls)
    BY <1>13 DEF DebouncersOwned
  <2>2. CASE t = s
    <3>1. debouncers[t] = 0
      BY <1>7, <1>13, <2>2
    <3> QED
      BY <2>1, <3>1 DEF OnlyOne
  <2>3. CASE t # s
    BY <1>3, <2>1, <2>3 DEF OnlyOne
  <2> QED
    BY <2>2, <2>3
<1>14. DebouncersOwned(owner)'
  <2>1. \A i \in Ids : i > calls => flags[i] = <<>>
    BY DEF DebouncersOwned
  <2>2. calls' = calls /\ flags' = flags /\ disturbed' = disturbed
    BY <1>3
  <2> QED
    BY <1>11, <1>12, <1>13, <2>1, <2>2 DEF DebouncersOwned
<1> QED
  BY <1>10, <1>14

\* A flag goes to the debouncer of its service and to no other.
LEMMA FlagStep ==
    ASSUME TypeInv, AllOrderly, NEW owner, DebouncersOwned(owner), NEW h \in Threads, Flag(h)
    PROVE  AllOrderly' /\ DebouncersOwned(owner)'
<1>0. PICK d : d = thread[h].debouncer
  OBVIOUS
<1>1. PICK s \in Services : /\ s = thread[h].service /\ d = thread[h].debouncer
                           /\ thread[h].step = "flag"
  BY <1>0 DEF Flag, Now, TypeInv, ThreadsTyped, Service
<1>2. Only(h, "confirm")
  BY GotoOnly DEF Flag
<1>3. d \in 1..calls /\ owner[d] = s /\ d # 0 /\ d \in Ids /\ d <= calls /\ calls \in Nat
  <2>1. Keeps(thread[h], owner, debouncers, calls)
    BY DEF DebouncersOwned
  <2>2. d \in 1..calls /\ owner[d] = s
    BY <1>1, <2>1 DEF Keeps
  <2> QED
    BY <2>2, GatewayAssumption DEF TypeInv, HistoryTyped, Ids
<1>4. PICK b \in BOOLEAN : b = thread[h].high
  BY DEF TypeInv, ThreadsTyped, ThreadState
<1>5. /\ UNCHANGED <<loaded, buffers, debouncers, calls, given, answers, disturbed, raced>>
      /\ flags'[d] = Newest(Append(flags[d], b), Persistence)
      /\ \A i \in Ids : i # d => flags'[i] = flags[i]
  BY <1>1, <1>3, <1>4 DEF Flag, tables, history, TypeInv, ContentsTyped
<1>6. s \notin disturbed => Mine(h, s)
  BY <1>1, OwnService
<1>7. ASSUME s \notin disturbed PROVE debouncers[s] = d
  BY <1>1, <1>6, <1>7 DEF Mine, Left, Stage
<1>8. ASSUME NEW t \in Services, t # s
      PROVE  FlagsOf(flags', debouncers[t]) = FlagsOf(flags, debouncers[t])
  <2>1. CASE debouncers[t] = None
    BY <2>1 DEF FlagsOf
  <2>2. CASE debouncers[t] # None
    <3>1. OwnDebouncer(t, owner, debouncers, calls)
      BY DEF DebouncersOwned
    <3>2. debouncers[t] # d
      BY <1>3, <1>8, <2>2, <3>1 DEF OwnDebouncer
    <3>3. debouncers[t] \in Ids
      BY <2>2, FlagsOfTyped DEF None
    <3>4. flags'[debouncers[t]] = flags[debouncers[t]]
      BY <1>5, <3>2, <3>3
    <3> QED
      BY <2>2, <3>4 DEF FlagsOf
  <2> QED
    BY <2>1, <2>2
<1>9. ASSUME s \notin disturbed PROVE s \notin raced' /\ Left(h, s)'
  <2>1. PICK rd \in Seq(Readings), an \in Seq(Answer), f \in Seq(BOOLEAN),
             m \in [transformer : BOOLEAN, forest : BOOLEAN] :
           rd = given[s] /\ an = answers[s] /\ f = FlagsOf(flags, debouncers[s]) /\ m = loaded
    BY FlagsOfTyped
  <2>2. PICK r, q, bf : r = thread[h] /\ q = thread'[h] /\ bf = buffers[s]
    OBVIOUS
  <2>3. /\ r.step = "flag" /\ r.high = b /\ q.step = "confirm" /\ q.debouncer = r.debouncer
        /\ q.service = s
    BY <1>1, <1>2, <1>4, <2>2 DEF Only
  <2>4. /\ Stage(m, r, bf, d, f, rd, an)
        /\ \A k \in DOMAIN an : an[k] = Verdict(m, rd, k)
        /\ s \notin raced
    BY <1>6, <1>7, <1>9, <2>1, <2>2 DEF Mine, Left
  <2>5. Stage(m, q, bf, d, Newest(Append(f, b), Persistence), rd, an)
    <3>1. r.high \in BOOLEAN
      BY <2>3
    <3>2. Stage(m, q, bf, d, Newest(Append(f, r.high), Persistence), rd, an)
      BY <2>3, <2>4, <3>1, FlagStage
    <3> QED
      BY <2>3, <3>2
  <2>6. f = flags[d] /\ FlagsOf(flags', debouncers'[s]) = flags'[d] /\ debouncers'[s] = d
    BY <1>3, <1>5, <1>7, <1>9, <2>1 DEF FlagsOf, None
  <2>7. FlagsOf(flags', debouncers'[s]) = Newest(Append(f, b), Persistence)
    BY <1>5, <2>6
  <2>8. /\ loaded' = m /\ buffers'[s] = bf /\ given'[s] = rd /\ answers'[s] = an
        /\ raced' = raced
    BY <1>5, <2>1, <2>2
  <2> QED
    BY <2>2, <2>3, <2>4, <2>5, <2>6, <2>7, <2>8 DEF Left
<1>10. AllOrderly'
  <2>1. Spared(s)
    <3>1. ASSUME NEW g \in Threads
          PROVE  \/ thread'[g] = thread[g]
                 \/ /\ thread[g].service \in {s, "nobody"}
                    /\ thread'[g].service \in {s, "nobody"}
      BY <1>1, <1>2, Zenon DEF Only
    <3>2. /\ loaded' = loaded /\ disturbed \subseteq disturbed'
          /\ \A t \in Services : t # s =>
                /\ buffers'[t] = buffers[t] /\ debouncers'[t] = debouncers[t]
                /\ given'[t] = given[t] /\ answers'[t] = answers[t]
                /\ FlagsOf(flags', debouncers[t]) = FlagsOf(flags, debouncers[t])
                /\ t \in raced' => t \in raced
      BY <1>5, <1>8
    <3> QED
      BY <3>1, <3>2 DEF Spared
  <2>2. s \notin disturbed' =>
           /\ s \notin raced' /\ Left(h, s)'
           /\ \A g \in Threads : g # h => thread'[g].service # s
    BY <1>2, <1>5, <1>6, <1>9 DEF Mine, Only
  <2> QED
    BY <2>1, <2>2, ServiceMoves DEF AllOrderly
<1>11. ASSUME NEW g \in Threads PROVE Keeps(thread'[g], owner, debouncers, calls)
  <2>1. Keeps(thread[g], owner, debouncers, calls)
    BY DEF DebouncersOwned
  <2>2. CASE g = h
    BY <1>1, <1>2, <1>3, <2>1, <2>2 DEF Keeps, Only
  <2>3. CASE g # h
    BY <1>2, <2>1, <2>3 DEF Only
  <2> QED
    BY <2>2, <2>3
<1>12. ASSUME NEW t \in Services, t \notin disturbed
       PROVE  OnlyOne(t, owner, debouncers, flags', calls)
  <2>1. OnlyOne(t, owner, debouncers, flags, calls)
    BY <1>12 DEF DebouncersOwned
  <2>2. ASSUME NEW i \in 1..calls, owner[i] = t, i # debouncers[t] PROVE flags'[i] = <<>>
    <3>1. i # d
      BY <1>3, <1>7, <1>12, <2>2
    <3>2. i \in Ids
      BY GatewayAssumption DEF TypeInv, HistoryTyped, Ids
    <3> QED
      BY <1>5, <2>1, <2>2, <3>1, <3>2 DEF OnlyOne
  <2> QED
    BY <2>2 DEF OnlyOne
<1>13. DebouncersOwned(owner)'
  <2>1. \A i \in Ids : i > calls => flags'[i] = <<>>
    BY <1>3, <1>5 DEF DebouncersOwned, Ids
  <2>2. \A t \in Services : OwnDebouncer(t, owner, debouncers, calls)
    BY DEF DebouncersOwned
  <2>3. calls' = calls /\ debouncers' = debouncers /\ disturbed' = disturbed
    BY <1>5
  <2> QED
    BY <1>11, <1>12, <2>1, <2>2, <2>3 DEF DebouncersOwned
<1> QED
  BY <1>10, <1>13

\* The call is over, and has its answer.
LEMMA AnswerStep ==
    ASSUME TypeInv, AllOrderly, NEW owner, DebouncersOwned(owner), NEW h \in Threads,
           NEW s \in Services, s = thread[h].service, thread[h].step # "idle",
           NEW answer \in Answer, Answered(h, answer),
           UNCHANGED <<loaded, tables, contents, calls, given, disturbed, raced>>,
           Mine(h, s) =>
              /\ Len(given[s]) = Len(answers[s]) + 1
              /\ CaughtUp(loaded, debouncers[s], FlagsOf(flags, debouncers[s]), given[s],
                          Len(given[s]))
              /\ answer = Verdict(loaded, given[s], Len(given[s]))
    PROVE  AllOrderly' /\ DebouncersOwned(owner)'
<1>1. UNCHANGED <<loaded, buffers, debouncers, flags, calls, given, disturbed, raced>>
  BY DEF tables, contents
<1>2. /\ thread'[h].step = "idle" /\ thread'[h].service = "nobody"
      /\ \A g \in Threads : g # h => thread'[g] = thread[g]
      /\ answers'[s] = Append(answers[s], answer)
      /\ \A t \in Services : t # s => answers'[t] = answers[t]
  BY DEF Answered, IdleThread, Service, TypeInv, ThreadsTyped, HistoryTyped
<1>3. Keeps(thread'[h], owner, debouncers, calls)
  BY <1>2 DEF Keeps
<1>4. ASSUME s \notin disturbed PROVE Mine(h, s) /\ s \notin raced' /\ Left(h, s)'
  <2>1. Mine(h, s)
    BY <1>4, OwnService
  <2>2. PICK rd \in Seq(Readings), an \in Seq(Answer), f \in Seq(BOOLEAN) :
           rd = given[s] /\ an = answers[s] /\ f = FlagsOf(flags, debouncers[s])
    BY FlagsOfTyped
  <2>3. PICK d, m : d = debouncers[s] /\ m = loaded
    OBVIOUS
  <2>4. /\ \A k \in DOMAIN an : an[k] = Verdict(m, rd, k)
        /\ Len(rd) = Len(an) + 1 /\ CaughtUp(m, d, f, rd, Len(rd))
        /\ answer = Verdict(m, rd, Len(rd))
    BY <2>1, <2>2, <2>3 DEF Mine, Left
  <2>5. PICK x : x = Append(an, answer)
    OBVIOUS
  <2>6. Len(x) = Len(rd) /\ \A k \in DOMAIN x : x[k] = Verdict(m, rd, k)
    BY <2>4, <2>5, AnswerAdded
  <2>7. /\ loaded' = m /\ debouncers'[s] = d /\ given'[s] = rd /\ answers'[s] = x
        /\ FlagsOf(flags', debouncers'[s]) = f
    BY <1>1, <1>2, <2>2, <2>3, <2>5
  <2>8. s \notin raced'
    BY <1>1, <2>1 DEF Mine
  <2>9. thread'[h].service # s
    BY <1>2, GatewayAssumption
  <2> QED
    BY <2>1, <2>4, <2>6, <2>7, <2>8, <2>9 DEF Left
<1>5. s \notin disturbed' => Mine(h, s) /\ s \notin raced' /\ Left(h, s)'
  BY <1>1, <1>4
<1>6. \A t \in Services : t # s =>
         /\ buffers'[t] = buffers[t] /\ given'[t] = given[t] /\ answers'[t] = answers[t]
         /\ t \in raced' => t \in raced
  BY <1>1, <1>2
<1>7. UNCHANGED <<loaded, debouncers, flags, calls>> /\ disturbed \subseteq disturbed'
  BY <1>1
<1>8. thread'[h].service \in {s, "nobody"}
  BY <1>2
<1> QED
  BY <1>2, <1>3, <1>5, <1>6, <1>7, <1>8, ServiceStep

LEMMA ConfirmStep ==
    ASSUME TypeInv, AllOrderly, NEW owner, DebouncersOwned(owner), NEW h \in Threads, Confirm(h)
    PROVE  AllOrderly' /\ DebouncersOwned(owner)'
<1>1. PICK s \in Services : s = thread[h].service /\ thread[h].step = "confirm"
  BY DEF Confirm, Now, TypeInv, ThreadsTyped, Service
<1>2. PICK answer \in Answer :
         /\ answer = IF Confirms(flags[thread[h].debouncer]) THEN "anomaly" ELSE "normal"
         /\ Answered(h, answer)
  BY DEF Confirm, Answer
<1>3. UNCHANGED <<loaded, tables, contents, calls, given, disturbed, raced>>
  BY DEF Confirm
<1>4. ASSUME Mine(h, s)
      PROVE  /\ Len(given[s]) = Len(answers[s]) + 1
             /\ CaughtUp(loaded, debouncers[s], FlagsOf(flags, debouncers[s]), given[s],
                         Len(given[s]))
             /\ answer = Verdict(loaded, given[s], Len(given[s]))
  <2>1. PICK rd \in Seq(Readings), an \in Seq(Answer), f \in Seq(BOOLEAN),
             m \in [transformer : BOOLEAN, forest : BOOLEAN] :
           rd = given[s] /\ an = answers[s] /\ f = FlagsOf(flags, debouncers[s]) /\ m = loaded
    BY FlagsOfTyped
  <2>2. PICK r, d, b : r = thread[h] /\ d = debouncers[s] /\ b = buffers[s]
    OBVIOUS
  <2>3. Stage(m, r, b, d, f, rd, an) /\ r.step = "confirm"
    BY <1>1, <1>4, <2>1, <2>2 DEF Mine, Left
  <2>4. /\ Len(rd) = Len(an) + 1 /\ CaughtUp(m, d, f, rd, Len(rd)) /\ r.debouncer = d /\ d # 0
        /\ WindowCount(m, Len(rd)) > 0
    BY <2>3 DEF Stage, ToRead, ToFlag
  <2>5. f = flags[d] /\ Recent(m, f, rd, Len(rd))
    BY <2>1, <2>2, <2>4 DEF FlagsOf, None, CaughtUp
  <2>6. PICK k \in Nat : k = Len(rd)
    BY <2>1
  <2>7. (IF Confirms(f) THEN "anomaly" ELSE "normal") = Verdict(m, rd, k)
    <3>1. WindowCount(m, k) > 0 /\ Recent(m, f, rd, k)
      BY <2>4, <2>5, <2>6
    <3> QED
      BY <3>1, ConfirmsRuns
  <2>8. answer = Verdict(m, rd, Len(rd))
    BY <1>2, <2>2, <2>4, <2>5, <2>6, <2>7
  <2> QED
    BY <2>1, <2>2, <2>4, <2>8
<1> QED
  BY <1>1, <1>2, <1>3, <1>4, AnswerStep

LEMMA FallBackStep ==
    ASSUME TypeInv, AllOrderly, NEW owner, DebouncersOwned(owner), NEW has, NEW holder,
           Ownership(has, holder), NEW h \in Threads, FallBack(h) \/ NoVerdict(h)
    PROVE  AllOrderly' /\ DebouncersOwned(owner)'
<1>1. PICK s \in Services : s = thread[h].service /\ thread[h].step = "fall back"
  BY DEF FallBack, NoVerdict, Now, TypeInv, ThreadsTyped, Service
<1>2. PICK answer \in Answer :
         /\ answer = IF ForestCanJudge(h) THEN "forest" ELSE "none"
         /\ Answered(h, answer)
  BY DEF FallBack, NoVerdict, Answer
<1>3. UNCHANGED <<loaded, tables, contents, calls, given, disturbed, raced>>
  BY DEF FallBack, NoVerdict
<1>4. ASSUME Mine(h, s)
      PROVE  /\ Len(given[s]) = Len(answers[s]) + 1
             /\ CaughtUp(loaded, debouncers[s], FlagsOf(flags, debouncers[s]), given[s],
                         Len(given[s]))
             /\ answer = Verdict(loaded, given[s], Len(given[s]))
  <2>1. PICK rd \in Seq(Readings), an \in Seq(Answer), f \in Seq(BOOLEAN),
             m \in [transformer : BOOLEAN, forest : BOOLEAN] :
           rd = given[s] /\ an = answers[s] /\ f = FlagsOf(flags, debouncers[s]) /\ m = loaded
    BY FlagsOfTyped
  <2>2. PICK r, d, b : r = thread[h] /\ d = debouncers[s] /\ b = buffers[s]
    OBVIOUS
  <2>3. Stage(m, r, b, d, f, rd, an) /\ r.step = "fall back"
    BY <1>1, <1>4, <2>1, <2>2 DEF Mine, Left
  <2>4. /\ Len(rd) = Len(an) + 1 /\ CaughtUp(m, d, f, rd, Len(rd))
        /\ WindowCount(m, Len(rd)) = 0
    BY <2>3 DEF Stage, ToRead, ToFlag
  <2>5. PICK k \in Nat \ {0} : k = Len(rd)
    <3>1. Len(an) \in Nat /\ Len(rd) \in Nat \ {0}
      BY <2>4
    <3> QED
      BY <3>1
  <2>6. Window(h) = Newest(given[s], Length)
    BY <1>1, <1>4, OwnWindow DEF Mine, HasBuffer
  <2>7. Window(h) # <<>>
    <3>1. Newest(rd, Length) # <<>>
      BY <2>5, WindowFacts
    <3> QED
      BY <2>1, <2>6, <3>1
  <2>8. answer = IF m.forest THEN "forest" ELSE "none"
    BY <1>2, <2>1, <2>7 DEF ForestCanJudge
  <2>9. ~(k >= Length /\ m.transformer)
    <3>1. ~(WindowCount(m, k) > 0)
      BY <2>4, <2>5
    <3> QED
      BY <3>1, CountFacts
  <2>10. answer = Verdict(m, rd, k)
    BY <2>8, <2>9 DEF Verdict
  <2> QED
    BY <2>1, <2>2, <2>4, <2>5, <2>10
<1> QED
  BY <1>1, <1>2, <1>3, <1>4, AnswerStep

\* A service that the forest has failed is disturbed.
LEMMA FallBackFailsStep ==
    ASSUME TypeInv, AllOrderly, NEW owner, DebouncersOwned(owner), NEW h \in Threads,
           FallBackFails(h)
    PROVE  AllOrderly' /\ DebouncersOwned(owner)'
<1>1. PICK s \in Services : s = thread[h].service /\ thread[h].step = "fall back"
  BY DEF FallBackFails, Now, TypeInv, ThreadsTyped, Service
<1>2. /\ thread' = [thread EXCEPT ![h] = IdleThread]
      /\ answers' = [answers EXCEPT ![s] = Append(@, "none")]
      /\ disturbed' = disturbed \cup {s}
      /\ UNCHANGED <<loaded, buffers, debouncers, flags, calls, given, raced>>
  BY <1>1 DEF FallBackFails, Answered, Service, tables, contents
<1>3. /\ thread'[h].step = "idle" /\ thread'[h].service = "nobody"
      /\ \A g \in Threads : g # h => thread'[g] = thread[g]
  BY <1>2 DEF IdleThread, TypeInv, ThreadsTyped
<1>4. Keeps(thread'[h], owner, debouncers, calls)
  BY <1>3 DEF Keeps
<1>5. \A t \in Services : t # s =>
         /\ buffers'[t] = buffers[t] /\ given'[t] = given[t] /\ answers'[t] = answers[t]
         /\ t \in raced' => t \in raced
  BY <1>2 DEF TypeInv, HistoryTyped
<1>6. /\ UNCHANGED <<loaded, debouncers, flags, calls>> /\ disturbed \subseteq disturbed'
      /\ s \in disturbed'
  BY <1>2
<1> QED
  BY <1>1, <1>3, <1>4, <1>5, <1>6, ServiceStep

\* A buffer is torn by another call of the same service, which is then disturbed.
LEMMA TornStep ==
    ASSUME TypeInv, AllOrderly, NEW owner, DebouncersOwned(owner), NEW has, NEW holder,
           Ownership(has, holder), NEW h \in Threads, NEW g \in Threads, FallBackTorn(h, g)
    PROVE  AllOrderly' /\ DebouncersOwned(owner)'
<1>1. PICK s \in Services : s = thread[h].service /\ thread[h].step = "fall back"
  BY DEF FallBackTorn, Now, TypeInv, ThreadsTyped, Service
<1>2. thread[g].step = "append" /\ g # h /\ thread[g].buffer = thread[h].buffer
  BY DEF FallBackTorn, Now
<1>3. thread[g].service = s
  <2>1. ThreadOwns(h, has, holder) /\ ThreadOwns(g, has, holder)
    BY DEF Ownership
  <2> QED
    BY <1>1, <1>2, <2>1 DEF ThreadOwns, HasBuffer
<1>4. s \in disturbed
  <2>1. s \notin disturbed => Mine(h, s)
    BY <1>1, OwnService
  <2> QED
    BY <1>2, <1>3, <2>1 DEF Mine
<1>5. UNCHANGED <<loaded, buffers, debouncers, flags, calls, disturbed, raced>>
  BY DEF FallBackTorn, tables
<1>6. /\ \A t \in Services : t # s => given'[t] = given[t]
      /\ \A t \in Services : t # s => answers'[t] = answers[t]
  BY <1>1, <1>3 DEF FallBackTorn, AppendTo, Service, TypeInv, HistoryTyped
<1>7. PICK old \in ThreadState : old = thread[g]
  BY DEF TypeInv, ThreadsTyped
<1>8. PICK q : q = [old EXCEPT !.step = "judge"]
  OBVIOUS
<1>9. q.step = "judge" /\ q.service = old.service /\ q.call = old.call
  BY <1>8 DEF ThreadState
<1>10. thread' = [thread EXCEPT ![g] = q, ![h] = IdleThread]
  BY <1>7, <1>8 DEF FallBackTorn
<1>11. /\ thread'[g] = q /\ thread'[h] = IdleThread
       /\ \A f \in Threads : f # g /\ f # h => thread'[f] = thread[f]
  BY <1>2, <1>10 DEF TypeInv, ThreadsTyped
<1>12. IdleThread.step = "idle" /\ IdleThread.service = "nobody"
  BY DEF IdleThread
<1>13. Keeps(q, owner, debouncers, calls)
  <2>1. Keeps(old, owner, debouncers, calls)
    BY <1>7 DEF DebouncersOwned
  <2> QED
    BY <1>2, <1>7, <1>9, <2>1 DEF Keeps
<1>14. Keeps(IdleThread, owner, debouncers, calls)
  BY <1>12 DEF Keeps
<1>15. ASSUME NEW f \in Threads
       PROVE  \/ thread'[f] = thread[f]
              \/ /\ thread[f].service \in {s, "nobody"} /\ thread'[f].service \in {s, "nobody"}
                 /\ Keeps(thread'[f], owner, debouncers, calls)
  <2>1. CASE f = g
    BY <1>3, <1>7, <1>9, <1>11, <1>13, <2>1
  <2>2. CASE f = h
    BY <1>1, <1>11, <1>12, <1>14, <2>2
  <2>3. CASE f # g /\ f # h
    BY <1>11, <2>3
  <2> QED
    BY <2>1, <2>2, <2>3
<1>16. DebouncersOwned(owner)'
  <2>1. disturbed \subseteq disturbed' /\ UNCHANGED <<debouncers, flags, calls>>
    BY <1>5
  <2>2. \A f \in Threads : \/ thread'[f] = thread[f]
                           \/ Keeps(thread'[f], owner, debouncers, calls)
    BY <1>15
  <2> QED
    BY <2>1, <2>2, DebouncersKept
<1>17. Spared(s)
  <2>1. ASSUME NEW f \in Threads
        PROVE  \/ thread'[f] = thread[f]
               \/ /\ thread[f].service \in {s, "nobody"}
                  /\ thread'[f].service \in {s, "nobody"}
    BY <1>15
  <2>2. /\ loaded' = loaded /\ disturbed \subseteq disturbed'
        /\ \A t \in Services : t # s =>
              /\ buffers'[t] = buffers[t] /\ debouncers'[t] = debouncers[t]
              /\ given'[t] = given[t] /\ answers'[t] = answers[t]
              /\ FlagsOf(flags', debouncers[t]) = FlagsOf(flags, debouncers[t])
              /\ t \in raced' => t \in raced
    BY <1>5, <1>6
  <2> QED
    BY <2>1, <2>2 DEF Spared
<1>18. s \in disturbed'
  BY <1>4, <1>5
<1> QED
  BY <1>16, <1>17, <1>18, ServiceMoves DEF AllOrderly

LEMMA CallStep ==
    ASSUME TypeInv, AllOrderly, NEW owner \in Owners, DebouncersOwned(owner),
           NEW h \in Threads, NEW s \in Services, Call(h, s)
    PROVE  AllOrderly' /\ \E o \in Owners : DebouncersOwned(o)'
<1>1. PICK c \in Ids : c = calls + 1
  <2>1. calls + 1 \in Ids
    BY GatewayAssumption DEF Call, TypeInv, HistoryTyped, Ids
  <2> QED
    BY <2>1
<1>2. PICK r \in {<<>>} \cup {<<x>> : x \in Readings} :
         /\ thread' = [thread EXCEPT ![h] =
               [IdleThread EXCEPT !.step = "buffer", !.service = s, !.call = calls + 1,
                                  !.reading = r]]
         /\ disturbed' = IF Busy(s) \/ r = <<>> THEN disturbed \cup {s} ELSE disturbed
  BY DEF Call
<1>3. PICK q : q = [IdleThread EXCEPT !.step = "buffer", !.service = s, !.call = calls + 1,
                                     !.reading = r]
  OBVIOUS
<1>4. q.step = "buffer" /\ q.service = s /\ q.call = c /\ q.reading = r
  BY <1>1, <1>3 DEF IdleThread
<1>5. thread'[h] = q /\ \A g \in Threads : g # h => thread'[g] = thread[g]
  BY <1>2, <1>3 DEF TypeInv, ThreadsTyped
<1>6. /\ UNCHANGED <<loaded, buffers, debouncers, flags, given, answers, raced>>
      /\ calls' = c /\ disturbed \subseteq disturbed' /\ thread[h].step = "idle"
  BY <1>1, <1>2 DEF Call, tables, contents, Now
<1>7. thread[h].service = "nobody"
  BY <1>6 DEF DebouncersOwned, Keeps
<1>8. ASSUME s \notin disturbed'
      PROVE  /\ s \notin raced' /\ Left(h, s)'
             /\ \A g \in Threads : g # h => thread'[g].service # s
  <2>1. s \notin disturbed /\ ~Busy(s) /\ r # <<>>
    BY <1>2, <1>8
  <2>2. \A g \in Threads : thread[g].service # s
    BY <2>1 DEF Busy, Service
  <2>3. OrderlyNow(s)
    BY <2>1 DEF AllOrderly
  <2>4. PICK rd, an, f, m, b, d :
           /\ rd = given[s] /\ an = answers[s] /\ f = FlagsOf(flags, debouncers[s])
           /\ m = loaded /\ b = buffers[s] /\ d = debouncers[s]
    OBVIOUS
  <2>5. /\ Len(an) = Len(rd) /\ CaughtUp(m, d, f, rd, Len(rd)) /\ s \notin raced
        /\ \A k \in DOMAIN an : an[k] = Verdict(m, rd, k)
    BY <2>2, <2>3, <2>4 DEF OrderlyNow, Orderly
  <2>6. Len(q.reading) = 1
    <3>1. PICK x \in Readings : r = <<x>>
      BY <2>1
    <3> QED
      BY <1>4, <3>1
  <2>7. Stage(m, q, b, d, f, rd, an)
    BY <1>4, <2>5, <2>6 DEF Stage, ToRead, ToFlag
  <2>8. /\ loaded' = m /\ buffers'[s] = b /\ debouncers'[s] = d /\ given'[s] = rd
        /\ answers'[s] = an /\ FlagsOf(flags', debouncers'[s]) = f /\ raced' = raced
    BY <1>6, <2>4
  <2>9. \A g \in Threads : g # h => thread'[g].service # s
    BY <1>5, <2>2
  <2> QED
    BY <1>4, <1>5, <2>5, <2>7, <2>8, <2>9 DEF Left
<1>9. AllOrderly'
  <2>1. Spared(s)
    <3>1. ASSUME NEW g \in Threads
          PROVE  \/ thread'[g] = thread[g]
                 \/ /\ thread[g].service \in {s, "nobody"}
                    /\ thread'[g].service \in {s, "nobody"}
      BY <1>4, <1>5, <1>7
    <3>2. /\ loaded' = loaded /\ disturbed \subseteq disturbed'
          /\ \A t \in Services : t # s =>
                /\ buffers'[t] = buffers[t] /\ debouncers'[t] = debouncers[t]
                /\ given'[t] = given[t] /\ answers'[t] = answers[t]
                /\ FlagsOf(flags', debouncers[t]) = FlagsOf(flags, debouncers[t])
                /\ t \in raced' => t \in raced
      BY <1>6
    <3> QED
      BY <3>1, <3>2 DEF Spared
  <2> QED
    BY <1>8, <2>1, ServiceMoves DEF AllOrderly
<1>10. PICK o \in Owners : o = [owner EXCEPT ![c] = s]
  <2>1. [owner EXCEPT ![c] = s] \in Owners
    BY DEF Owners
  <2> QED
    BY <2>1
<1>11. o[c] = s /\ \A i \in Ids : i # c => o[i] = owner[i]
  BY <1>10 DEF Owners
<1>12. /\ calls \in Nat /\ c = calls + 1 /\ c \in 1..c
       /\ \A i \in 1..calls : i \in 1..c /\ i \in Ids /\ i # c
       /\ \A i \in 1..c : i # c => i \in 1..calls
  <2>1. calls \in Nat /\ MaxCalls \in Nat /\ calls <= MaxCalls
    BY GatewayAssumption DEF TypeInv, HistoryTyped
  <2> QED
    BY <1>1, <2>1 DEF Ids
<1>13. ASSUME NEW g \in Threads PROVE Keeps(thread'[g], o, debouncers, c)
  <2>1. CASE g = h
    BY <1>4, <1>5, <1>11, <1>12, <2>1 DEF Keeps
  <2>2. CASE g # h
    <3>1. Keeps(thread[g], owner, debouncers, calls)
      BY DEF DebouncersOwned
    <3>2. Keeps(thread[g], o, debouncers, c)
      BY <1>11, <1>12, <3>1 DEF Keeps
    <3> QED
      BY <1>5, <2>2, <3>2
  <2> QED
    BY <2>1, <2>2
<1>14. ASSUME NEW t \in Services PROVE OwnDebouncer(t, o, debouncers, c)
  <2>1. OwnDebouncer(t, owner, debouncers, calls)
    BY DEF DebouncersOwned
  <2> QED
    BY <1>11, <1>12, <2>1 DEF OwnDebouncer
<1>15. \A i \in Ids : i > calls => flags[i] = <<>>
  BY DEF DebouncersOwned
<1>16. ASSUME NEW t \in Services, t \notin disturbed'
       PROVE  OnlyOne(t, o, debouncers, flags, c)
  <2>1. OnlyOne(t, owner, debouncers, flags, calls)
    BY <1>6, <1>16 DEF DebouncersOwned
  <2>2. flags[c] = <<>>
    BY <1>12, <1>15
  <2>3. ASSUME NEW i \in 1..c, o[i] = t, i # debouncers[t] PROVE flags[i] = <<>>
    <3>1. CASE i = c
      BY <2>2, <3>1
    <3>2. CASE i # c
      <4>1. i \in 1..calls /\ o[i] = owner[i]
        BY <1>11, <1>12, <3>2
      <4> QED
        BY <2>1, <2>3, <4>1 DEF OnlyOne
    <3> QED
      BY <3>1, <3>2
  <2> QED
    BY <2>3 DEF OnlyOne
<1>17. DebouncersOwned(o)'
  <2>1. \A i \in Ids : i > c => flags[i] = <<>>
    BY <1>12, <1>15 DEF Ids
  <2>2. calls' = c /\ flags' = flags /\ debouncers' = debouncers
    BY <1>6
  <2> QED
    BY <1>13, <1>14, <1>16, <2>1, <2>2 DEF DebouncersOwned
<1> QED
  BY <1>9, <1>10, <1>17

LEMMA InferStep ==
    ASSUME TypeInv, AllOrderly, NEW owner, DebouncersOwned(owner), NEW has, NEW holder,
           Ownership(has, holder), NEW h \in Threads, Infer(h)
    PROVE  AllOrderly' /\ DebouncersOwned(owner)'
<1>1. CASE FindBuffer(h) \/ TakeBuffer(h)
  BY <1>1, LookUpStep
<1>2. CASE MakeBuffer(h) \/ Add(h) \/ JudgeFails(h)
  BY <1>2, MakeBufferStep, AddStep, FailStep
<1>3. CASE Judge(h) \/ SkipTransformer(h)
  BY <1>3, JudgeStep, SkipStep
<1>4. CASE FindDebouncer(h) \/ TakeDebouncer(h)
  BY <1>4, DebouncerStep
<1>5. CASE MakeDebouncer(h) \/ Flag(h)
  BY <1>5, MakeDebouncerStep, FlagStep
<1>6. CASE Confirm(h)
  BY <1>6, ConfirmStep
<1>7. CASE FallBack(h) \/ NoVerdict(h)
  BY <1>7, FallBackStep
<1>8. CASE \E g \in Threads : FallBackTorn(h, g)
  BY <1>8, TornStep
<1>9. CASE FallBackFails(h)
  BY <1>9, FallBackFailsStep
<1> QED
  BY <1>1, <1>2, <1>3, <1>4, <1>5, <1>6, <1>7, <1>8, <1>9 DEF Infer

LEMMA InitAnswers == Init => AnswersInv
<1> SUFFICES ASSUME Init PROVE AnswersInv
  OBVIOUS
<1>1. ASSUME NEW s \in Services PROVE OrderlyNow(s)
  <2>1. \A h \in Threads : thread[h].service = "nobody"
    BY DEF Init, IdleThread
  <2>2. "nobody" # s
    BY GatewayAssumption
  <2>3. debouncers[s] = 0 /\ given[s] = <<>> /\ answers[s] = <<>> /\ raced = {}
    BY DEF Init, None
  <2>4. WindowCount(loaded, 0) = 0
    BY GatewayAssumption DEF WindowCount
  <2>5. Len(<<>>) = 0 /\ DOMAIN <<>> = {}
    OBVIOUS
  <2>6. CaughtUp(loaded, 0, FlagsOf(flags, 0), <<>>, 0)
    BY <2>4 DEF CaughtUp
  <2>7. /\ CaughtUp(loaded, debouncers[s], FlagsOf(flags, debouncers[s]), given[s],
                     Len(given[s]))
        /\ Len(answers[s]) = Len(given[s]) /\ DOMAIN answers[s] = {}
    BY <2>3, <2>5, <2>6
  <2> QED
    BY <2>1, <2>2, <2>3, <2>7 DEF OrderlyNow, Orderly
<1>2. PICK o \in Owners : o = [i \in Ids |-> "nobody"]
  <2>1. [i \in Ids |-> "nobody"] \in Owners
    BY DEF Owners
  <2> QED
    BY <2>1
<1>3. \A h \in Threads : Keeps(thread[h], o, debouncers, calls)
  BY DEF Init, IdleThread, Keeps
<1>4. \A s \in Services : OwnDebouncer(s, o, debouncers, calls)
  BY DEF Init, OwnDebouncer
<1>5. \A s \in Services : OnlyOne(s, o, debouncers, flags, calls)
  BY DEF Init, OnlyOne
<1>6. \A i \in Ids : flags[i] = <<>>
  BY DEF Init
<1> QED
  BY <1>1, <1>2, <1>3, <1>4, <1>5, <1>6 DEF AnswersInv, AllOrderly, DebouncersOwned

LEMMA NextAnswers ==
    ASSUME BuffersInv, AnswersInv, [Next]_vars
    PROVE  AnswersInv'
<1>1. PICK has \in Owners, holder \in Holders : Ownership(has, holder)
  BY DEF BuffersInv, Owned
<1>2. PICK owner \in Owners : DebouncersOwned(owner)
  BY DEF AnswersInv
<1>3. TypeInv /\ AllOrderly
  BY DEF BuffersInv, AnswersInv
<1>4. AllOrderly' /\ \E o \in Owners : DebouncersOwned(o)'
  <2>1. ASSUME NEW h \in Threads, Infer(h)
        PROVE  AllOrderly' /\ \E o \in Owners : DebouncersOwned(o)'
    BY <1>1, <1>2, <1>3, <2>1, InferStep
  <2>2. ASSUME NEW h \in Threads, NEW s \in Services, Call(h, s)
        PROVE  AllOrderly' /\ \E o \in Owners : DebouncersOwned(o)'
    BY <1>2, <1>3, <2>2, CallStep
  <2>3. CASE UNCHANGED vars
    <3>1. UNCHANGED <<loaded, buffers, debouncers, flags, thread, calls, given, answers,
                      disturbed, raced>>
      BY <2>3 DEF vars, tables, contents, history
    <3>2. DebouncersOwned(owner)'
      BY <1>2, <3>1, DebouncersKept
    <3>3. AllOrderly'
      BY <1>3, <3>1 DEF AllOrderly, OrderlyNow
    <3> QED
      BY <1>2, <3>2, <3>3
  <2> QED
    BY <2>1, <2>2, <2>3 DEF Next
<1> QED
  BY <1>4 DEF AnswersInv

LEMMA OrderlyIsExact == AnswersInv => AnswersExact
<1> SUFFICES ASSUME AnswersInv, NEW s \in Services \ disturbed, NEW k \in DOMAIN answers[s]
             PROVE  answers[s][k] = Expected(s, k)
  BY DEF AnswersExact
<1>1. answers[s][k] = Verdict(loaded, given[s], k)
  BY DEF AnswersInv, AllOrderly, OrderlyNow, Orderly
<1>2. \A i \in k - Persistence + 1..k : HighAt(given[s], i) <=> IsHigh(s, i)
  BY DEF HighAt, IsHigh, WindowAt
<1>3. Expected(s, k) = Verdict(loaded, given[s], k)
  BY <1>2 DEF Expected, Verdict
<1> QED
  BY <1>1, <1>3

\* However the calls of different services interleave, a service whose own calls come one after
\* the other gets every time the answer its readings deserve: an anomaly exactly when the last
\* Persistence windows are all high (AnomalyDebouncer.check and Infer in grpc_gateway.py).
THEOREM AnswersAreExact == Spec => []AnswersExact
<1>1. Init => BuffersInv /\ AnswersInv
  BY InitTyped, InitOwned, InitAnswers DEF BuffersInv
<1>2. BuffersInv /\ AnswersInv /\ [Next]_vars => (BuffersInv /\ AnswersInv)'
  BY NextOwned, NextAnswers
<1>3. AnswersInv => AnswersExact
  BY OrderlyIsExact
<1> QED
  BY <1>1, <1>2, <1>3, PTL DEF Spec
=============================================================================
