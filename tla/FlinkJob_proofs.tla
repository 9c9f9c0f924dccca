---------------------------- MODULE FlinkJob_proofs ----------------------------
(***************************************************************************)
(* Proofs about the windows of the Flink job, for any contents of the      *)
(* partitions, any windows, lag and limits: the type invariant, that no    *)
(* span is lost, that what readers of the two topics see implements        *)
(* ExactlyOnce, whatever crashes, declined checkpoints and replays happen, *)
(* and how the records in the topics agree with the rows in the database.  *)
(***************************************************************************)
EXTENDS FlinkJob, TLAPS, LeastElement, SequenceTheorems

----------------------------------------------------------------------------
(* Windows. *)

LEMMA Multiples ==
    ASSUME NEW T \in Nat \ {0}, NEW i \in Int, NEW j \in Int, i < j
    PROVE  T * i + T <= T * j
<1>1. PICK d \in Nat : j = i + 1 + d
  <2>1. j - i - 1 \in Nat /\ j = i + 1 + (j - i - 1)
    OBVIOUS
  <2> QED
    BY <2>1
<1>2. T * (i + 1 + d) = T * i + T + T * d /\ T * d >= 0
  OBVIOUS
<1> QED
  BY <1>1, <1>2

LEMMA MultipleBelow ==
    ASSUME NEW T \in Nat \ {0}, NEW t \in Nat
    PROVE  \E i \in Nat : T * i <= t /\ t < T * i + T /\ i <= t
<1>1. t \div T \in Int /\ T * (t \div T) <= t /\ t < T * (t \div T) + T
  OBVIOUS
<1>2. t \div T \in Nat /\ t \div T <= t
  BY <1>1
<1> QED
  BY <1>1, <1>2

LEMMA TumblingFacts ==
    ASSUME NEW w \in TumblingWindows
    PROVE  \E i \in Int : \E x \in Int :
              /\ x = Tumble * i /\ x + Tumble \in Nat
              /\ w = [branch |-> "tumbling", start |-> x, end |-> x + Tumble]
<1>1. PICK i \in -Tumble..LastTime :
         /\ w = [branch |-> "tumbling", start |-> Tumble * i, end |-> Tumble * i + Tumble]
         /\ Tumble * i <= LastTime /\ Tumble * i + Tumble > 0
  BY Zenon DEF TumblingWindows, Assigned
<1>2. i \in Int /\ Tumble \in Nat /\ Tumble \in Nat
  BY FlinkAssumption
<1>3. PICK x \in Int : x = Tumble * i
  BY <1>2
<1>4. x + Tumble \in Nat
  BY <1>1, <1>2, <1>3
<1>5. w = [branch |-> "tumbling", start |-> x, end |-> x + Tumble]
  BY <1>1, <1>3
<1> QED
  BY <1>2, <1>3, <1>4, <1>5

LEMMA SlidingFacts ==
    ASSUME NEW w \in SlidingWindows
    PROVE  \E i \in Int : \E x \in Int :
              /\ x = Slide * i /\ x + Length \in Nat
              /\ w = [branch |-> "sliding", start |-> x, end |-> x + Length]
<1>1. PICK i \in -Length..LastTime :
         /\ w = [branch |-> "sliding", start |-> Slide * i, end |-> Slide * i + Length]
         /\ Slide * i <= LastTime /\ Slide * i + Length > 0
  BY Zenon DEF SlidingWindows, Assigned
<1>2. i \in Int /\ Slide \in Nat /\ Length \in Nat
  BY FlinkAssumption
<1>3. PICK x \in Int : x = Slide * i
  BY <1>2
<1>4. x + Length \in Nat
  BY <1>1, <1>2, <1>3
<1>5. w = [branch |-> "sliding", start |-> x, end |-> x + Length]
  BY <1>1, <1>3
<1> QED
  BY <1>2, <1>3, <1>4, <1>5

LEMMA WindowFacts ==
    ASSUME NEW w \in Windows
    PROVE  /\ w.end \in Nat /\ w.start \in Int /\ w.branch \in Branches
           /\ w \in TumblingWindows <=> w.branch = "tumbling"
           /\ w \in SlidingWindows <=> w.branch = "sliding"
<1>1. CASE w \in TumblingWindows
  <2>1. w.branch = "tumbling" /\ w.start \in Int /\ w.end \in Nat
    BY <1>1, TumblingFacts
  <2>2. w \notin SlidingWindows
    BY <2>1, SlidingFacts
  <2> QED
    BY <1>1, <2>1, <2>2 DEF Branches
<1>2. CASE w \in SlidingWindows
  <2>1. w.branch = "sliding" /\ w.start \in Int /\ w.end \in Nat
    BY <1>2, SlidingFacts
  <2>2. w \notin TumblingWindows
    BY <2>1, TumblingFacts
  <2> QED
    BY <1>2, <2>1, <2>2 DEF Branches
<1> QED
  BY <1>1, <1>2 DEF Windows

\* Two sliding windows end a multiple of Slide apart.
LEMMA SlidingEnds ==
    ASSUME NEW v \in SlidingWindows, NEW w \in SlidingWindows, v.end < w.end
    PROVE  v.end + Slide <= w.end
<1>1. PICK i \in Int : \E x \in Int : x = Slide * i /\ v.end = x + Length
  BY SlidingFacts
<1>2. PICK j \in Int : \E x \in Int : x = Slide * j /\ w.end = x + Length
  BY SlidingFacts
<1>3. Slide \in Nat \ {0} /\ Length \in Int
  BY FlinkAssumption
<1>4. Slide * i < Slide * j
  BY <1>1, <1>2, <1>3
<1>5. ~(j < i)
  <2>1. j < i => Slide * j + Slide <= Slide * i
    BY <1>3, Multiples
  <2> QED
    BY <1>1, <1>2, <1>3, <1>4, <2>1
<1>6. i # j
  <2>1. i = j => Slide * i = Slide * j
    OBVIOUS
  <2> QED
    BY <1>1, <1>2, <1>4, <2>1
<1>7. Slide * i + Slide <= Slide * j
  BY <1>3, <1>5, <1>6, Multiples
<1> QED
  BY <1>1, <1>2, <1>3, <1>7

LEMMA SameSlidingEnd ==
    ASSUME NEW v \in SlidingWindows, NEW w \in SlidingWindows, v.end = w.end
    PROVE  v = w
<1>1. PICK x \in Int : v = [branch |-> "sliding", start |-> x, end |-> x + Length]
  BY SlidingFacts
<1>2. PICK y \in Int : w = [branch |-> "sliding", start |-> y, end |-> y + Length]
  BY SlidingFacts
<1>3. v.end = x + Length /\ w.end = y + Length /\ Length \in Int
  BY <1>1, <1>2, FlinkAssumption
<1>4. x = y
  BY <1>1, <1>2, <1>3
<1> QED
  BY <1>1, <1>2, <1>4

\* Tumbling windows partition the time.
LEMMA OneTumblingWindow ==
    ASSUME NEW time \in Times
    PROVE  \E w \in TumblingWindows :
              /\ w \in WindowsAt(time)
              /\ \A v \in TumblingWindows : v \in WindowsAt(time) => v = w
<1>1. Tumble \in Nat \ {0} /\ LastTime \in Nat /\ time \in Nat /\ time <= LastTime
  BY FlinkAssumption DEF Times
<1>2. PICK i \in Nat : Tumble * i <= time /\ time < Tumble * i + Tumble /\ i <= time
  BY <1>1, MultipleBelow
<1>3. PICK w : w = [branch |-> "tumbling", start |-> Tumble * i, end |-> Tumble * i + Tumble]
  OBVIOUS
<1>4. w \in TumblingWindows
  <2>1. i \in -Tumble..LastTime /\ Tumble * i <= LastTime /\ Tumble * i + Tumble > 0
    BY <1>1, <1>2
  <2> QED
    BY <1>3, <2>1 DEF TumblingWindows, Assigned
<1>5. w \in WindowsAt(time)
  BY <1>2, <1>3, <1>4 DEF WindowsAt, Windows
<1>6. ASSUME NEW v \in TumblingWindows, v \in WindowsAt(time) PROVE v = w
  <2>1. PICK j \in Int : \E x \in Int :
            x = Tumble * j /\ v = [branch |-> "tumbling", start |-> x, end |-> x + Tumble]
    BY TumblingFacts
  <2>2. Tumble * j <= time /\ time < Tumble * j + Tumble /\ Tumble * j \in Int
    BY <1>1, <1>6, <2>1 DEF WindowsAt
  <2>3. Tumble * i \in Int
    BY <1>1
  <2>4. ~(i < j)
    <3>1. i < j => Tumble * i + Tumble <= Tumble * j
      BY <1>1, Multiples
    <3> QED
      BY <1>1, <1>2, <2>2, <2>3, <3>1
  <2>5. ~(j < i)
    <3>1. j < i => Tumble * j + Tumble <= Tumble * i
      BY <1>1, Multiples
    <3> QED
      BY <1>1, <1>2, <2>2, <2>3, <3>1
  <2>6. i = j
    BY <2>4, <2>5
  <2> QED
    BY <1>3, <2>1, <2>6
<1> QED
  BY <1>4, <1>5, <1>6

\* There is a window that fires next.
LEMMA DueHasFirst ==
    ASSUME Due # {}
    PROVE  \E w \in Due : \A v \in Due :
              \/ w.end < v.end
              \/ w.end = v.end /\ (w.branch = "tumbling" \/ v.branch = "sliding")
<1> DEFINE Before(w, v) ==
            \/ w.end < v.end
            \/ w.end = v.end /\ (w.branch = "tumbling" \/ v.branch = "sliding")
<1>1. \A w \in Due : w.end \in Nat /\ w.branch \in Branches
  BY WindowFacts DEF Due
<1>2. PICK ends \in SUBSET Nat : ends = {w.end : w \in Due}
  <2>1. {w.end : w \in Due} \in SUBSET Nat
    BY <1>1
  <2> QED
    BY <2>1
<1>3. ends # {}
  BY <1>2
<1>4. PICK e \in ends : \A f \in ends : e <= f
  BY <1>3, LeastExists
<1>5. \A v \in Due : e < v.end \/ e = v.end
  BY <1>1, <1>2, <1>4
<1>6. \E w \in Due : \A v \in Due : Before(w, v)
  <2>1. CASE \E w \in Due : w.end = e /\ w.branch = "tumbling"
    BY <1>5, <2>1
  <2>2. CASE ~ \E w \in Due : w.end = e /\ w.branch = "tumbling"
    <3>1. PICK w \in Due : w.end = e
      BY <1>2
    <3>2. \A v \in Due : v.end = e => v.branch = "sliding"
      BY <1>1, <2>2 DEF Branches
    <3>3. \A v \in Due : Before(w, v)
      BY <1>5, <3>1, <3>2
    <3> HIDE DEF Before
    <3> QED
      BY <3>1, <3>3
  <2> QED
    BY <2>1, <2>2
<1> QED
  BY <1>6

LEMMA NextDueFacts ==
    ASSUME Due # {}
    PROVE  NextDue \in Due
  BY DueHasFirst DEF NextDue

\* The event judged is one of the window's.
LEMMA LatestFacts ==
    ASSUME NEW S, NEW elements \in Seq(S), elements # <<>>, \A e \in S : e.at \in Times
    PROVE  \E i \in DOMAIN elements : Latest(elements) = elements[i]
<1>1. /\ DOMAIN elements = 1..Len(elements) /\ Len(elements) \in Nat /\ 1 \in DOMAIN elements
      /\ \A i \in DOMAIN elements : elements[i].at \in 0..LastTime
  BY DEF Times
<1>2. PICK times \in SUBSET (0..LastTime) : times = {elements[i].at : i \in DOMAIN elements}
  <2>1. {elements[i].at : i \in DOMAIN elements} \in SUBSET (0..LastTime)
    BY <1>1
  <2> QED
    BY <2>1
<1>3. times # {} /\ LastTime \in Nat
  BY <1>1, <1>2, FlinkAssumption
<1>4. PICK t \in times : \A u \in times : u <= t
  BY <1>3, GreatestExists
<1>5. PICK newest \in SUBSET Nat :
         newest = {i \in DOMAIN elements : \A j \in DOMAIN elements :
                                              elements[j].at <= elements[i].at}
  <2>1. {i \in DOMAIN elements : \A j \in DOMAIN elements :
             elements[j].at <= elements[i].at} \in SUBSET Nat
    BY <1>1
  <2> QED
    BY <2>1
<1>6. newest # {}
  <2>1. PICK i \in DOMAIN elements : elements[i].at = t
    BY <1>2
  <2>2. i \in newest
    BY <1>2, <1>4, <1>5, <2>1
  <2> QED
    BY <2>2
<1>7. PICK n \in newest : \A m \in newest : n <= m
  BY <1>6, LeastExists
<1>8. PICK c : c = CHOOSE i \in newest : \A j \in newest : i <= j
  OBVIOUS
<1>9. c \in newest
  BY <1>7, <1>8
<1>10. Latest(elements) = elements[c]
  BY <1>5, <1>8 DEF Latest
<1>11. c \in DOMAIN elements
  BY <1>5, <1>9
<1> QED
  BY <1>10, <1>11

----------------------------------------------------------------------------
(* Types. *)

TypeInv == TypeOK /\ log \in Logs

LEMMA LogFacts ==
    ASSUME log \in Logs, NEW p \in Partitions
    PROVE  /\ DOMAIN log[p] = 1..Len(log[p]) /\ Len(log[p]) \in Nat
           /\ \A i \in DOMAIN log[p] : log[p][i].at \in -1..LastTime
<1>1. PICK contents \in Logs : contents = log
  OBVIOUS
<1>2. PICK R : R = {contents[p][i] : i \in DOMAIN contents[p]}
  OBVIOUS
<1>3. contents[p] \in Seq(R) /\ \A r \in R : r.at \in -1..LastTime
  BY <1>2, FlinkAssumption
<1> QED
  BY <1>1, <1>2, <1>3

LEMMA SpanFacts ==
    /\ \A p \in Partitions : \A i \in DOMAIN log[p] : <<p, i>> \in Spans
    /\ \A s \in Spans : \E p \in Partitions : \E i \in DOMAIN log[p] : s = <<p, i>>
  BY DEF Spans

LEMMA SpansAreItems ==
    ASSUME log \in Logs
    PROVE  Spans \subseteq AllItems
<1>1. SUFFICES ASSUME NEW s \in Spans PROVE s \in AllItems
  OBVIOUS
<1>2. PICK p \in Partitions : \E i \in DOMAIN log[p] : s = <<p, i>>
  BY SpanFacts
<1>3. PICK i \in DOMAIN log[p] : s = <<p, i>>
  BY <1>2
<1>4. i \in Nat
  BY LogFacts
<1> QED
  BY <1>3, <1>4 DEF AllItems

LEMMA TimeFacts == Times \subseteq Nat /\ 0 \in Times /\ NoTime = -1
  BY FlinkAssumption DEF Times, NoTime

\* What the types are made of does not change.
LEMMA SameTypes ==
    ASSUME log' = log
    PROVE  Spans' = Spans /\ Ids' = Ids /\ Pane' = Pane /\ JobState' = JobState /\ Output' = Output
<1>1. Spans' = Spans
  BY DEF Spans
<1>2. Ids' = Ids
  BY DEF Ids
<1>3. Pane' = Pane
  BY <1>1, <1>2 DEF Pane
<1>4. JobState' = JobState
  BY <1>1, <1>3 DEF JobState
<1> QED
  BY <1>1, <1>2, <1>3, <1>4 DEF Output

LEMMA JobFacts ==
    ASSUME NEW st \in JobState
    PROVE  /\ st.pos \in [Partitions -> Nat] /\ st.panes \in [Windows -> Seq(Pane)]
           /\ st.late \subseteq Branches \X Spans /\ st.bad \subseteq Spans
  BY DEF JobState

LEMMA IsJobState ==
    ASSUME NEW pos \in [Partitions -> Nat], NEW panes \in [Windows -> Seq(Pane)],
           NEW late \in SUBSET (Branches \X Spans), NEW bad \in SUBSET Spans
    PROVE  [pos |-> pos, panes |-> panes, late |-> late, bad |-> bad] \in JobState
  BY DEF JobState

LEMMA InitTyped == Init => TypeInv
<1>1. SUFFICES ASSUME Init PROVE TypeInv
  OBVIOUS
<1>2. EmptyJob \in JobState
  <2>1. [p \in Partitions |-> 0] \in [Partitions -> Nat]
    OBVIOUS
  <2>2. [w \in Windows |-> <<>>] \in [Windows -> Seq(Pane)]
    OBVIOUS
  <2>3. {} \in SUBSET (Branches \X Spans) /\ {} \in SUBSET Spans
    OBVIOUS
  <2> QED
    BY <2>1, <2>2, <2>3, IsJobState DEF EmptyJob
<1>3. EmptyWorker \in [maxTime : Times \cup {NoTime}, watermark : Int,
                       schema : BOOLEAN, tries : 0..Attempts - 1]
  BY FlinkAssumption DEF EmptyWorker, NoTime
<1>4. <<>> \in Output /\ ckpt \in [job : JobState, records : Output]
  BY <1>1, <1>2 DEF Init, Output
<1>5. rows \in [TumblingWindows -> Seq(SUBSET Spans)]
  BY <1>1 DEF Init
<1> QED
  BY <1>1, <1>2, <1>3, <1>4, <1>5, FlinkAssumption DEF Init, TypeInv, TypeOK

\* What the next record is put down as.
LEMMA NextSpanFacts ==
    ASSUME TypeInv, NEW p \in Partitions, CanRead(p)
    PROVE  /\ NextSpan(p) \in Spans /\ RecordOf(NextSpan(p)) = log[p][job.pos[p] + 1]
           /\ job.pos[p] \in Nat /\ job.pos[p] + 1 \in DOMAIN log[p]
<1>1. job.pos[p] \in Nat /\ job.pos[p] < Len(log[p])
  BY JobFacts DEF TypeInv, TypeOK, CanRead
<1>2. job.pos[p] + 1 \in DOMAIN log[p]
  BY <1>1, LogFacts DEF TypeInv
<1> QED
  BY <1>1, <1>2, SpanFacts DEF NextSpan, RecordOf

LEMMA ReadingFacts ==
    ASSUME NEW p \in Partitions, NEW i \in DOMAIN log[p]
    PROVE  log[p][i].reading \in {id[2] : id \in Ids}
<1>1. PICK r : r = log[p][i].reading
  OBVIOUS
<1>2. r \in UNION {{log[q][j].reading : j \in DOMAIN log[q]} : q \in Partitions}
  BY <1>1
<1>3. <<0, r>> \in Ids
  BY <1>2, TimeFacts DEF Ids
<1> QED
  BY <1>1, <1>3

LEMMA UndecodableTyped ==
    ASSUME TypeInv, NEW p \in Partitions, Undecodable(p)
    PROVE  job' \in JobState
<1>1. NextSpan(p) \in Spans /\ job \in JobState /\ job.pos[p] + 1 \in Nat
  BY NextSpanFacts DEF Undecodable, TypeInv, TypeOK
<1>2. job' = [pos |-> [job.pos EXCEPT ![p] = @ + 1], panes |-> job.panes, late |-> job.late,
              bad |-> job.bad \cup {NextSpan(p)}]
  BY <1>1 DEF Undecodable, JobState
<1>3. [job.pos EXCEPT ![p] = @ + 1] \in [Partitions -> Nat]
  BY <1>1, JobFacts
<1>4. job.bad \cup {NextSpan(p)} \in SUBSET Spans
  BY <1>1, JobFacts
<1> QED
  BY <1>1, <1>2, <1>3, <1>4, JobFacts, IsJobState

LEMMA AddTyped ==
    ASSUME TypeInv, NEW e \in Pane
    PROVE  Add(e) \in [Windows -> Seq(Pane)]
<1>1. job.panes \in [Windows -> Seq(Pane)]
  BY JobFacts DEF TypeInv, TypeOK
<1>2. ASSUME NEW w \in Windows
      PROVE  /\ job.panes[w] \in Seq(Pane)
             /\ Append(job.panes[w], e) \in Seq(Pane)
  BY <1>1
<1> QED
  BY <1>2 DEF Add

LEMMA ReadTyped ==
    ASSUME TypeInv, NEW p \in Partitions, Read(p)
    PROVE  job' \in JobState /\ worker' \in [maxTime : Times \cup {NoTime}, watermark : Int,
                                             schema : BOOLEAN, tries : 0..Attempts - 1]
<1>1. PICK r : r = RecordOf(NextSpan(p))
  OBVIOUS
<1>2. PICK time \in Times :
         /\ job' = [job EXCEPT !.pos[p] = @ + 1,
                       !.panes = Add([span |-> NextSpan(p), at |-> time, reading |-> r.reading]),
                       !.late = @ \cup {<<b, NextSpan(p)>> : b \in LateFor(time)}]
         /\ worker' = [worker EXCEPT !.maxTime = IF time > @ THEN time ELSE @,
                                     !.schema = @ \/ r.format = "avro"]
  BY <1>1 DEF Read
<1>3. NextSpan(p) \in Spans /\ job \in JobState /\ job.pos[p] + 1 \in Nat
  BY NextSpanFacts DEF Read, TypeInv, TypeOK
<1>4. PICK e : e = [span |-> NextSpan(p), at |-> time, reading |-> r.reading]
  OBVIOUS
<1>5. e \in Pane
  BY <1>1, <1>3, <1>4, NextSpanFacts, ReadingFacts DEF Pane, Read
<1>6. PICK late : late = {<<b, NextSpan(p)>> : b \in LateFor(time)}
  OBVIOUS
<1>7. late \subseteq Branches \X Spans
  BY <1>3, <1>6 DEF LateFor
<1>8. job' = [pos |-> [job.pos EXCEPT ![p] = @ + 1], panes |-> Add(e),
              late |-> job.late \cup late, bad |-> job.bad]
  BY <1>2, <1>3, <1>4, <1>6 DEF JobState
<1>9. job' \in JobState
  <2>1. [job.pos EXCEPT ![p] = @ + 1] \in [Partitions -> Nat]
    BY <1>3, JobFacts
  <2>2. job.late \cup late \in SUBSET (Branches \X Spans)
    BY <1>3, <1>7, JobFacts
  <2> QED
    BY <1>3, <1>5, <1>8, <2>1, <2>2, AddTyped, JobFacts, IsJobState
<1>10. worker' \in [maxTime : Times \cup {NoTime}, watermark : Int,
                    schema : BOOLEAN, tries : 0..Attempts - 1]
  <2>1. (worker.schema \/ r.format = "avro") \in BOOLEAN
    OBVIOUS
  <2>2. PICK m : m = IF time > worker.maxTime THEN time ELSE worker.maxTime
    OBVIOUS
  <2>3. m \in Times \cup {NoTime}
    BY <2>2 DEF TypeInv, TypeOK
  <2>4. PICK known \in BOOLEAN : known = (worker.schema \/ r.format = "avro")
    BY <2>1
  <2>5. worker' = [worker EXCEPT !.maxTime = m, !.schema = known]
    BY <1>2, <2>2, <2>4
  <2> QED
    BY <2>3, <2>5 DEF TypeInv, TypeOK
<1> QED
  BY <1>9, <1>10

\* The window that fires, and its elements.
LEMMA FiringFacts ==
    ASSUME TypeInv, Firing
    PROVE  /\ NextDue \in Due /\ NextDue \in Windows
           /\ Elements \in Seq(Pane) /\ Elements # <<>> /\ Elements = job.panes[NextDue]
           /\ DOMAIN Elements = 1..Len(Elements) /\ Len(Elements) \in Nat
           /\ SpansIn(Elements) \subseteq Spans
<1>1. NextDue \in Due /\ NextDue \in Windows /\ job.panes[NextDue] # <<>>
  BY NextDueFacts DEF Firing, Due
<1>2. Elements \in Seq(Pane) /\ Elements # <<>> /\ Elements = job.panes[NextDue]
  BY <1>1, JobFacts DEF Elements, TypeInv, TypeOK
<1>3. DOMAIN Elements = 1..Len(Elements) /\ Len(Elements) \in Nat
  BY <1>2
<1>4. \A i \in DOMAIN Elements : Elements[i].span \in Spans
  <2>1. \A e \in Pane : e.span \in Spans
    BY DEF Pane
  <2>2. \A i \in DOMAIN Elements : Elements[i] \in Pane
    BY <1>2
  <2> QED
    BY <2>1, <2>2
<1>5. SpansIn(Elements) \subseteq Spans
  BY <1>4 DEF SpansIn
<1> QED
  BY <1>1, <1>2, <1>3, <1>5

LEMMA LatestTyped ==
    ASSUME TypeInv, Firing
    PROVE  /\ Latest(Elements) \in Pane
           /\ \E i \in DOMAIN Elements : Latest(Elements) = Elements[i]
<1>1. \A e \in Pane : e.at \in Times
  BY DEF Pane
<1>2. PICK i \in DOMAIN Elements : Latest(Elements) = Elements[i]
  BY <1>1, FiringFacts, LatestFacts
<1>3. Elements[i] \in Pane
  BY FiringFacts
<1> QED
  BY <1>2, <1>3

Record == [win : Windows, spans : SUBSET Spans]

LEMMA ResultTyped ==
    ASSUME TypeInv, Firing
    PROVE  Result \in Record
<1>1. Latest(Elements).span \in Spans
  BY LatestTyped DEF Pane
<1> QED
  BY <1>1, FiringFacts DEF Result, Record

LEMMA WithPanes ==
    ASSUME NEW st \in JobState, NEW panes
    PROVE  [st EXCEPT !.panes = panes] =
              [pos |-> st.pos, panes |-> panes, late |-> st.late, bad |-> st.bad]
  BY DEF JobState

LEMMA PurgedTyped ==
    ASSUME TypeInv, Firing
    PROVE  /\ Purged \in JobState
           /\ Purged = [pos |-> job.pos, panes |-> [job.panes EXCEPT ![NextDue] = <<>>],
                        late |-> job.late, bad |-> job.bad]
<1>1. job \in JobState
  BY DEF TypeInv, TypeOK
<1>2. PICK w \in Windows : w = NextDue
  BY FiringFacts
<1>3. [job.panes EXCEPT ![w] = <<>>] \in [Windows -> Seq(Pane)]
  <2>1. <<>> \in Seq(Pane) /\ job.panes \in [Windows -> Seq(Pane)]
    BY <1>1, JobFacts
  <2> QED
    BY <2>1
<1>4. Purged = [pos |-> job.pos, panes |-> [job.panes EXCEPT ![w] = <<>>],
                late |-> job.late, bad |-> job.bad]
  <2>1. Purged = [job EXCEPT !.panes[w] = <<>>]
    BY <1>2 DEF Purged
  <2>2. PICK panes : panes = [job.panes EXCEPT ![w] = <<>>]
    OBVIOUS
  <2>3. Purged = [job EXCEPT !.panes = panes]
    BY <2>1, <2>2
  <2> QED
    BY <1>1, <2>2, <2>3, WithPanes
<1> QED
  BY <1>1, <1>2, <1>3, <1>4, JobFacts, IsJobState

LEMMA StoresTyped ==
    ASSUME TypeInv, Firing, StoreResult \/ UNCHANGED <<rows, events>>
    PROVE  rows' \in [TumblingWindows -> Seq(SUBSET Spans)] /\ events' \subseteq Ids
<1>1. rows \in [TumblingWindows -> Seq(SUBSET Spans)] /\ events \subseteq Ids
  BY DEF TypeInv, TypeOK
<1>2. CASE UNCHANGED <<rows, events>>
  BY <1>1, <1>2
<1>3. CASE StoreResult /\ NextDue.branch = "tumbling"
  <2>1. NextDue \in TumblingWindows
    BY <1>3, FiringFacts, WindowFacts
  <2>2. PICK set \in SUBSET Spans : set = SpansIn(Elements)
    BY FiringFacts
  <2>3. Append(rows[NextDue], set) \in Seq(SUBSET Spans)
    BY <1>1, <2>1, <2>2
  <2>4. /\ events' = events
        /\ rows' = rows \/ rows' = [rows EXCEPT ![NextDue] = Append(rows[NextDue], set)]
    BY <1>3, <2>2 DEF StoreResult
  <2> QED
    BY <1>1, <2>1, <2>3, <2>4
<1>4. CASE StoreResult /\ NextDue.branch # "tumbling"
  <2>1. rows' = rows /\ events' = events \cup {AnomalyId(Elements)}
    BY <1>4 DEF StoreResult
  <2>2. AnomalyId(Elements) \in Ids
    <3>1. Latest(Elements).at \in Times /\ Latest(Elements).reading \in {id[2] : id \in Ids}
      BY LatestTyped DEF Pane
    <3>2. PICK id \in Ids : Latest(Elements).reading = id[2]
      BY <3>1
    <3> QED
      BY <3>1, <3>2 DEF AnomalyId, Ids
  <2> QED
    BY <1>1, <2>1, <2>2
<1> QED
  BY <1>2, <1>3, <1>4

LEMMA OutputFacts ==
    /\ Output = Seq(Record)
    /\ <<>> \in Output
    /\ \A r, s \in Output : r \o s \in Output
    /\ \A r \in Output, x \in Record : Append(r, x) \in Output
<1>1. Output = Seq(Record)
  BY DEF Output, Record
<1>2. \A r, s \in Seq(Record) : r \o s \in Seq(Record)
  BY ConcatProperties
<1>3. \A r \in Seq(Record), x \in Record : Append(r, x) \in Seq(Record)
  OBVIOUS
<1> QED
  BY <1>1, <1>2, <1>3

WorkerState == [maxTime : Times \cup {NoTime}, watermark : Int,
                schema : BOOLEAN, tries : 0..Attempts - 1]

\* TypeOK of the next state, in the terms of this one.
TypedNext ==
    /\ job' \in JobState /\ worker' \in WorkerState
    /\ txn' \in Output /\ held' \in Output /\ topic' \in Output
    /\ snap' = NoSnapshot \/ snap' \in [job : JobState, records : Output]
    /\ ckpt' \in [job : JobState, records : Output]
    /\ rows' \in [TumblingWindows -> Seq(SUBSET Spans)]
    /\ events' \subseteq Ids
    /\ indexed' \in BOOLEAN
    /\ declined' \in 0..Tolerated
    /\ restarts' \in 0..RestartAttempts
    /\ status' \in {"running", "failed"}

LEMMA TypedNextIsTypeInv ==
    ASSUME TypeInv, log' = log, TypedNext
    PROVE  TypeInv'
  BY SameTypes DEF TypeInv, TypeOK, TypedNext, WorkerState

LEMMA TakeBackTyped ==
    ASSUME TypeInv, restarts < RestartAttempts, TakeBack
    PROVE  /\ job' \in JobState /\ worker' \in WorkerState /\ topic' \in Output
           /\ snap' = NoSnapshot /\ ckpt' \in [job : JobState, records : Output]
           /\ declined' \in 0..Tolerated /\ restarts' \in 0..RestartAttempts
           /\ status' \in {"running", "failed"}
<1>1. ckpt.job \in JobState /\ ckpt.records \in Output /\ topic \in Output
  BY DEF TypeInv, TypeOK
<1>2. topic' \in Output
  BY <1>1, OutputFacts DEF TakeBack
<1>3. ckpt' \in [job : JobState, records : Output]
  BY <1>1, OutputFacts DEF TakeBack, TypeInv, TypeOK
<1>4. worker' \in WorkerState
  <2>1. PICK known \in {FALSE, worker.schema} : worker' = [EmptyWorker EXCEPT !.schema = known]
    BY DEF TakeBack
  <2>2. known \in BOOLEAN
    BY <2>1 DEF TypeInv, TypeOK
  <2>3. worker' = [maxTime |-> NoTime, watermark |-> NoTime, schema |-> known, tries |-> 0]
    BY <2>1 DEF EmptyWorker
  <2>4. NoTime \in Times \cup {NoTime} /\ NoTime \in Int /\ 0 \in 0..Attempts - 1
    BY FlinkAssumption DEF NoTime
  <2> QED
    BY <2>2, <2>3, <2>4 DEF WorkerState
<1>5. job' = ckpt.job /\ snap' = NoSnapshot /\ declined' = 0 /\ status' = status
      /\ restarts' = restarts + 1
  BY DEF TakeBack
<1>6. declined' \in 0..Tolerated
  BY <1>5, FlinkAssumption
<1>7. restarts \in 0..RestartAttempts /\ status \in {"running", "failed"}
  BY DEF TypeInv, TypeOK
<1>8. restarts' \in 0..RestartAttempts
  BY <1>5, <1>7, FlinkAssumption
<1> QED
  BY <1>1, <1>2, <1>3, <1>4, <1>5, <1>6, <1>7, <1>8

LEMMA JobFailsTyped ==
    ASSUME TypeInv, JobFails
    PROVE  /\ job' \in JobState /\ worker' \in WorkerState
           /\ txn' \in Output /\ held' \in Output /\ topic' \in Output
           /\ snap' = NoSnapshot \/ snap' \in [job : JobState, records : Output]
           /\ ckpt' \in [job : JobState, records : Output]
           /\ declined' \in 0..Tolerated /\ restarts' \in 0..RestartAttempts
           /\ status' \in {"running", "failed"}
<1>1. CASE restarts < RestartAttempts /\ Restore
  BY <1>1, TakeBackTyped, OutputFacts DEF Restore
<1>2. CASE ~(restarts < RestartAttempts /\ Restore)
  BY <1>2 DEF JobFails, TypeInv, TypeOK, sinks, WorkerState
<1> QED
  BY <1>1, <1>2

LEMMA StartTyped ==
    ASSUME TypeInv
    PROVE  /\ job \in JobState /\ worker \in WorkerState
           /\ txn \in Output /\ held \in Output /\ topic \in Output
           /\ snap = NoSnapshot \/ snap \in [job : JobState, records : Output]
           /\ ckpt \in [job : JobState, records : Output]
           /\ rows \in [TumblingWindows -> Seq(SUBSET Spans)]
           /\ events \subseteq Ids
           /\ indexed \in BOOLEAN
           /\ declined \in 0..Tolerated
           /\ restarts \in 0..RestartAttempts
           /\ status \in {"running", "failed"}
  BY DEF TypeInv, TypeOK, WorkerState

LEMMA LogKept ==
    ASSUME [Next]_vars
    PROVE  log' = log
  BY DEF Next, vars, stores, sinks, Undecodable, Read, EmitWatermark, FireNothing, Fire,
              FireRetried, FireFails, Barrier, Complete, Decline, Commit, Crash

LEMMA NextTyped == TypeInv /\ [Next]_vars => TypeInv'
<1>1. SUFFICES ASSUME TypeInv, [Next]_vars PROVE TypeInv'
  OBVIOUS
<1>2. log' = log
  BY <1>1, LogKept
<1>3. CASE \E p \in Partitions : Undecodable(p) \/ Read(p)
  <2>1. PICK p \in Partitions : Undecodable(p) \/ Read(p)
    BY <1>3
  <2>2. job' \in JobState
    BY <1>1, <2>1, UndecodableTyped, ReadTyped
  <2>3. worker' \in WorkerState
    BY <1>1, <2>1, StartTyped, ReadTyped DEF Undecodable, WorkerState
  <2>4. UNCHANGED <<stores, sinks, restarts, status>>
    BY <2>1 DEF Undecodable, Read
  <2>5. TypedNext
    BY <1>1, <2>2, <2>3, <2>4, StartTyped DEF TypedNext, stores, sinks
  <2> QED
    BY <1>1, <1>2, <2>5, TypedNextIsTypeInv
<1>4. CASE EmitWatermark
  <2>1. worker.maxTime \in Int
    <3>1. worker.maxTime \in Times \cup {NoTime}
      BY <1>1, StartTyped DEF WorkerState
    <3>2. \A t \in Times \cup {NoTime} : t \in Int
      BY FlinkAssumption DEF Times, NoTime
    <3> QED
      BY <3>1, <3>2
  <2>2. PICK mark \in Int : mark = worker.maxTime - Lag - 1
    BY <2>1, FlinkAssumption
  <2>3. worker' = [worker EXCEPT !.watermark = mark]
    BY <1>4, <2>2 DEF EmitWatermark
  <2>4. worker' \in WorkerState
    BY <1>1, <2>2, <2>3, StartTyped DEF WorkerState
  <2>5. TypedNext
    BY <1>1, <1>4, <2>4, StartTyped DEF TypedNext, EmitWatermark, stores, sinks
  <2> QED
    BY <1>1, <1>2, <2>5, TypedNextIsTypeInv
<1>5. CASE FireNothing
  <2>1. TypedNext
    BY <1>1, <1>5, StartTyped, PurgedTyped DEF TypedNext, FireNothing, stores, sinks
  <2> QED
    BY <1>1, <1>2, <2>1, TypedNextIsTypeInv
<1>6. CASE Fire
  <2>1. Firing /\ job' \in JobState
    BY <1>1, <1>6, PurgedTyped DEF Fire
  <2>2. txn' \in Output
    BY <1>1, <1>6, <2>1, StartTyped, ResultTyped, OutputFacts DEF Fire
  <2>3. worker' \in WorkerState
    <3>1. 0 \in 0..Attempts - 1
      BY FlinkAssumption
    <3>2. worker' = [worker EXCEPT !.tries = 0] /\ worker \in WorkerState
      BY <1>1, <1>6, StartTyped DEF Fire
    <3> QED
      BY <3>1, <3>2 DEF WorkerState
  <2>4. rows' \in [TumblingWindows -> Seq(SUBSET Spans)] /\ events' \subseteq Ids
    BY <1>1, <1>6, <2>1, StoresTyped DEF Fire
  <2>5. TypedNext
    BY <1>1, <1>6, <2>1, <2>2, <2>3, <2>4, StartTyped DEF TypedNext, Fire
  <2> QED
    BY <1>1, <1>2, <2>5, TypedNextIsTypeInv
<1>7. CASE FireRetried
  <2>1. rows' \in [TumblingWindows -> Seq(SUBSET Spans)] /\ events' \subseteq Ids
    BY <1>1, <1>7, StoresTyped DEF FireRetried, Attempted
  <2>2. worker.tries \in 0..Attempts - 1 /\ worker.tries + 1 < Attempts
    BY <1>1, <1>7 DEF FireRetried, TypeInv, TypeOK
  <2>3. worker.tries + 1 \in 0..Attempts - 1
    BY <2>2, FlinkAssumption
  <2>4. worker' \in WorkerState
    BY <1>1, <1>7, <2>3, StartTyped DEF FireRetried, WorkerState
  <2>5. TypedNext
    BY <1>1, <1>7, <2>1, <2>4, StartTyped DEF TypedNext, FireRetried, sinks
  <2> QED
    BY <1>1, <1>2, <2>5, TypedNextIsTypeInv
<1>8. CASE FireFails
  <2>1. rows' \in [TumblingWindows -> Seq(SUBSET Spans)] /\ events' \subseteq Ids
    BY <1>1, <1>8, StoresTyped DEF FireFails, Attempted
  <2>2. TypedNext
    BY <1>1, <1>8, <2>1, StartTyped, JobFailsTyped DEF TypedNext, FireFails
  <2> QED
    BY <1>1, <1>2, <2>2, TypedNextIsTypeInv
<1>9. CASE Crash
  <2>1. TypedNext
    BY <1>1, <1>9, StartTyped, JobFailsTyped DEF TypedNext, Crash, stores
  <2> QED
    BY <1>1, <1>2, <2>1, TypedNextIsTypeInv
<1>10. CASE Barrier
  <2>1. held \o txn \in Output /\ <<>> \in Output /\ job \in JobState
    BY <1>1, StartTyped, OutputFacts
  <2>2. snap' \in [job : JobState, records : Output]
    BY <1>10, <2>1 DEF Barrier
  <2>3. TypedNext
    BY <1>1, <1>10, <2>1, <2>2, StartTyped DEF TypedNext, Barrier, stores
  <2> QED
    BY <1>1, <1>2, <2>3, TypedNextIsTypeInv
<1>11. CASE Complete
  <2>1. snap \in [job : JobState, records : Output]
    BY <1>1, <1>11, StartTyped DEF Complete
  <2>2. ckpt.records \o snap.records \in Output /\ snap.job \in JobState /\ <<>> \in Output
    BY <1>1, <2>1, StartTyped, OutputFacts
  <2>3. ckpt' \in [job : JobState, records : Output]
    BY <1>11, <2>2 DEF Complete
  <2>4. TypedNext
    BY <1>1, <1>11, <2>2, <2>3, StartTyped, FlinkAssumption DEF TypedNext, Complete, stores
  <2> QED
    BY <1>1, <1>2, <2>4, TypedNextIsTypeInv
<1>12. CASE Decline
  <2>1. declined' \in 0..Tolerated
    BY <1>1, <1>12, FlinkAssumption DEF Decline, TypeInv, TypeOK
  <2>2. TypedNext
    BY <1>1, <1>12, <2>1, StartTyped DEF TypedNext, Decline, stores
  <2> QED
    BY <1>1, <1>2, <2>2, TypedNextIsTypeInv
<1>13. CASE Commit
  <2>1. topic' \in Output
    BY <1>1, <1>13, StartTyped, OutputFacts DEF Commit
  <2>2. ckpt' \in [job : JobState, records : Output]
    BY <1>1, <1>13, StartTyped, OutputFacts DEF Commit
  <2>3. TypedNext
    BY <1>1, <1>13, <2>1, <2>2, StartTyped DEF TypedNext, Commit, stores
  <2> QED
    BY <1>1, <1>2, <2>3, TypedNextIsTypeInv
<1>14. CASE UNCHANGED vars
  <2>1. TypedNext
    BY <1>1, <1>14, StartTyped DEF TypedNext, vars, stores, sinks
  <2> QED
    BY <1>1, <1>2, <2>1, TypedNextIsTypeInv
<1> QED
  BY <1>1, <1>3, <1>4, <1>5, <1>6, <1>7, <1>8, <1>9, <1>10, <1>11, <1>12, <1>13, <1>14 DEF Next

\* Every variable keeps its type, with the checkpoint under way and the last one.
THEOREM TypeCorrect == Spec => []TypeOK
<1>1. Init => TypeInv
  BY InitTyped
<1>2. TypeInv /\ [Next]_vars => TypeInv'
  BY NextTyped
<1>3. TypeInv => TypeOK
  BY DEF TypeInv
<1> QED
  BY <1>1, <1>2, <1>3, PTL DEF Spec

----------------------------------------------------------------------------
(* Where a span is.  All of this speaks of any records and any state of the job, so that   *)
(* it can be said of the running job, of a snapshot and of a checkpoint.                   *)

\* The job has read past it.
IsPast(st, s) == 1 <= s[2] /\ s[2] <= st.pos[s[1]]

Gone(st, b) == st.bad \cup {s \in AllItems : <<b, s>> \in st.late}

\* It is in a window, with a time.
Seen(st, w, s, u) ==
    \E i \in DOMAIN st.panes[w] : st.panes[w][i].span = s /\ st.panes[w][i].at = u

\* It is in a record.
Holds(b, R, k, s) == k \in DOMAIN R /\ s \in ItemsFor(b, R[k])

NotYet(R, st, s) ==
    ~IsPast(st, s) =>
        /\ \A b \in Branches : s \notin Gone(st, b) /\ \A k : ~Holds(b, R, k, s)
        /\ \A w \in Windows : \A u : ~Seen(st, w, s, u)

Once(R, st, s) ==
    \A b \in Branches :
        /\ \A k, l : Holds(b, R, k, s) /\ Holds(b, R, l, s) => k = l
        /\ s \in Gone(st, b) =>
              /\ \A k : ~Holds(b, R, k, s)
              /\ \A w \in Windows : \A u : w.branch = b => ~Seen(st, w, s, u)

Counted(R, st, s) ==
    /\ IsPast(st, s) => \/ s \in Gone(st, "tumbling")
                        \/ \E k : Holds("tumbling", R, k, s)
                        \/ \E w \in TumblingWindows : \E u : Seen(st, w, s, u)
    /\ \A v, w \in TumblingWindows : \A t, u : Seen(st, v, s, t) /\ Seen(st, w, s, u) => v = w
    /\ \A w \in TumblingWindows : \A k, u : Holds("tumbling", R, k, s) => ~Seen(st, w, s, u)

\* A span that was reported is no longer new in the windows it is still in.
Reported(R, st, s) ==
    \E t \in Times : \A w \in SlidingWindows : \A u :
        Seen(st, w, s, u) =>
            /\ u = t /\ t < w.end
            /\ \A k : Holds("sliding", R, k, s) => t < w.end - Slide

LineageOf(R, st, s) ==
    NotYet(R, st, s) /\ Once(R, st, s) /\ Counted(R, st, s) /\ Reported(R, st, s)

Lineage(R, st) == \A s \in AllItems : LineageOf(R, st, s)

LEMMA BranchFacts ==
    /\ Branches = {"tumbling", "sliding"}
    /\ \A w \in TumblingWindows : w \in Windows /\ w.branch = "tumbling"
    /\ \A w \in SlidingWindows : w \in Windows /\ w.branch = "sliding"
    /\ \A w \in Windows : \/ w \in TumblingWindows /\ w.branch = "tumbling"
                          \/ w \in SlidingWindows /\ w.branch = "sliding"
<1>1. \A w \in Windows : /\ w.branch \in Branches
                         /\ w \in TumblingWindows <=> w.branch = "tumbling"
                         /\ w \in SlidingWindows <=> w.branch = "sliding"
  BY WindowFacts
<1>2. Windows = TumblingWindows \cup SlidingWindows /\ Branches = {"tumbling", "sliding"}
  BY DEF Windows, Branches
<1> QED
  BY <1>1, <1>2

\* A span of which nothing changes keeps its lineage.
LEMMA SameLineage ==
    ASSUME NEW R, NEW st, NEW Q, NEW new, NEW s, LineageOf(R, st, s),
           IsPast(new, s) <=> IsPast(st, s),
           \A b \in Branches : s \in Gone(new, b) <=> s \in Gone(st, b),
           \A b \in Branches : \A k : Holds(b, Q, k, s) <=> Holds(b, R, k, s),
           \A w \in Windows : \A u : Seen(new, w, s, u) <=> Seen(st, w, s, u)
    PROVE  LineageOf(Q, new, s)
<1>1. NotYet(Q, new, s)
  BY DEF LineageOf, NotYet
<1>2. Once(Q, new, s)
  BY DEF LineageOf, Once
<1>3. Counted(Q, new, s)
  BY BranchFacts DEF LineageOf, Counted
<1>4. Reported(Q, new, s)
  BY BranchFacts DEF LineageOf, Reported
<1> QED
  BY <1>1, <1>2, <1>3, <1>4 DEF LineageOf

\* Nothing has been read, and nothing is anywhere.
LEMMA EmptyLineage == Lineage(<<>>, EmptyJob)
<1>1. SUFFICES ASSUME NEW s \in AllItems PROVE LineageOf(<<>>, EmptyJob, s)
  BY DEF Lineage
<1>2. s[1] \in Partitions /\ s[2] \in Nat
  BY DEF AllItems
<1>3. ~IsPast(EmptyJob, s)
  BY <1>2 DEF IsPast, EmptyJob
<1>4. \A b, k : ~Holds(b, <<>>, k, s)
  BY DEF Holds
<1>5. \A b : s \notin Gone(EmptyJob, b)
  BY DEF Gone, EmptyJob
<1>6. \A w \in Windows : \A u : ~Seen(EmptyJob, w, s, u)
  BY DEF Seen, EmptyJob
<1>7. NotYet(<<>>, EmptyJob, s) /\ Once(<<>>, EmptyJob, s)
  BY <1>4, <1>5, <1>6 DEF NotYet, Once
<1>8. Counted(<<>>, EmptyJob, s)
  BY <1>3, <1>4, <1>6, BranchFacts DEF Counted
<1>9. Reported(<<>>, EmptyJob, s)
  BY <1>6, BranchFacts, TimeFacts DEF Reported
<1> QED
  BY <1>7, <1>8, <1>9 DEF LineageOf

\* The span n of partition p is read past.
Passed(st, new, p, n) ==
    /\ st.pos \in [Partitions -> Nat]
    /\ new.pos = [st.pos EXCEPT ![p] = @ + 1]
    /\ n = <<p, st.pos[p] + 1>>

LEMMA PassedFacts ==
    ASSUME NEW st, NEW new, NEW p \in Partitions, NEW n, Passed(st, new, p, n)
    PROVE  /\ n \in AllItems /\ ~IsPast(st, n) /\ IsPast(new, n)
           /\ \A s \in AllItems : s # n => (IsPast(new, s) <=> IsPast(st, s))
<1>0. /\ st.pos \in [Partitions -> Nat]
      /\ new.pos = [st.pos EXCEPT ![p] = @ + 1]
      /\ n = <<p, st.pos[p] + 1>>
  BY DEF Passed
<1>1. PICK pos \in [Partitions -> Nat] : pos = st.pos
  BY <1>0
<1>2. PICK m \in Nat : m = pos[p]
  OBVIOUS
<1>3. n \in AllItems /\ n[1] = p /\ n[2] = m + 1
  BY <1>0, <1>1, <1>2 DEF AllItems
<1>4. ~IsPast(st, n)
  BY <1>0, <1>1, <1>2, <1>3 DEF IsPast
<1>5. new.pos[p] = m + 1
  BY <1>0, <1>1, <1>2
<1>6. IsPast(new, n)
  BY <1>2, <1>3, <1>5 DEF IsPast
<1>7. ASSUME NEW s \in AllItems, s # n
      PROVE  IsPast(new, s) <=> IsPast(st, s)
  <2>1. PICK q \in Partitions : \E i \in Nat : s = <<q, i>>
    BY DEF AllItems
  <2>2. PICK i \in Nat : s = <<q, i>>
    BY <2>1
  <2>3. s[1] = q /\ s[2] = i
    BY <2>2
  <2>4. CASE q = p
    <3>1. i # m + 1
      BY <1>0, <1>1, <1>2, <1>7, <2>2, <2>4
    <3>2. i <= m + 1 <=> i <= m
      BY <1>2, <3>1
    <3> QED
      BY <1>1, <1>2, <1>5, <2>3, <2>4, <3>2 DEF IsPast
  <2>5. CASE q # p
    <3>1. new.pos[q] = st.pos[q]
      BY <1>0, <1>1, <2>5
    <3> QED
      BY <2>3, <3>1 DEF IsPast
  <2> QED
    BY <2>4, <2>5
<1> QED
  BY <1>3, <1>4, <1>6, <1>7

\* A span that cannot be decoded is given up for both branches.
LEMMA BadLineage ==
    ASSUME NEW R, NEW st, NEW new, NEW p \in Partitions, NEW n, Lineage(R, st),
           Passed(st, new, p, n), new.panes = st.panes, new.late = st.late,
           new.bad = st.bad \cup {n}
    PROVE  Lineage(R, new)
<1>1. SUFFICES ASSUME NEW s \in AllItems PROVE LineageOf(R, new, s)
  BY DEF Lineage
<1>2. LineageOf(R, st, s)
  BY DEF Lineage
<1>3. \A b : s \in Gone(new, b) <=> s \in Gone(st, b) \/ s = n
  BY DEF Gone
<1>4. \A w, u : Seen(new, w, s, u) <=> Seen(st, w, s, u)
  BY DEF Seen
<1>5. /\ ~IsPast(st, n) /\ IsPast(new, n)
      /\ s # n => (IsPast(new, s) <=> IsPast(st, s))
  BY PassedFacts
<1>6. CASE s # n
  BY <1>2, <1>3, <1>4, <1>5, <1>6, SameLineage
<1>7. CASE s = n
  <2>1. ~IsPast(st, s) /\ IsPast(new, s)
    BY <1>5, <1>7
  <2>2. /\ \A b \in Branches : \A k : ~Holds(b, R, k, s)
        /\ \A w \in Windows : \A u : ~Seen(new, w, s, u)
    BY <1>2, <1>4, <2>1 DEF LineageOf, NotYet
  <2>3. NotYet(R, new, s) /\ Once(R, new, s)
    BY <2>1, <2>2 DEF NotYet, Once
  <2>4. Counted(R, new, s)
    BY <1>3, <1>7, <2>2, BranchFacts DEF Counted
  <2>5. Reported(R, new, s)
    BY <2>2, BranchFacts, TimeFacts DEF Reported
  <2> QED
    BY <2>3, <2>4, <2>5 DEF LineageOf
<1> QED
  BY <1>6, <1>7

\* A span goes into the open windows at its time; for a branch without one it is late.
IsAdded(st, new, n, e, time, open, late) ==
    /\ e.span = n /\ e.at = time
    /\ st.panes \in [Windows -> Seq(Pane)]
    /\ new.panes = [w \in Windows |-> IF w \in open THEN Append(st.panes[w], e)
                                                    ELSE st.panes[w]]
    /\ new.late = st.late \cup {<<b, n>> : b \in late}
    /\ new.bad = st.bad
    /\ \A b \in Branches :
           b \in late <=> \A w \in WindowsAt(time) : w.branch = b => w \notin open

LEMMA ReadLineage ==
    ASSUME NEW R, NEW st, NEW new, NEW p \in Partitions, NEW n, NEW e, NEW time \in Times,
           NEW open \in SUBSET WindowsAt(time), NEW late \in SUBSET Branches,
           Lineage(R, st), Passed(st, new, p, n), IsAdded(st, new, n, e, time, open, late)
    PROVE  Lineage(R, new)
<1>0. /\ e.span = n /\ e.at = time
      /\ st.panes \in [Windows -> Seq(Pane)]
      /\ new.panes = [w \in Windows |-> IF w \in open THEN Append(st.panes[w], e)
                                                      ELSE st.panes[w]]
      /\ new.late = st.late \cup {<<b, n>> : b \in late}
      /\ new.bad = st.bad
      /\ \A b \in Branches :
             b \in late <=> \A w \in WindowsAt(time) : w.branch = b => w \notin open
  BY DEF IsAdded
<1>1. SUFFICES ASSUME NEW s \in AllItems PROVE LineageOf(R, new, s)
  BY DEF Lineage
<1>2. LineageOf(R, st, s)
  BY DEF Lineage
<1>3. \A b : s \in Gone(new, b) <=> s \in Gone(st, b) \/ (s = n /\ b \in late)
  BY <1>0 DEF Gone
<1>4. ASSUME NEW w \in Windows, NEW u
      PROVE  Seen(new, w, s, u) <=> Seen(st, w, s, u) \/ (w \in open /\ s = n /\ u = time)
  <2>1. PICK old \in Seq(Pane) : old = st.panes[w]
    BY <1>0
  <2>2. CASE w \notin open
    <3>1. new.panes[w] = st.panes[w]
      BY <1>0, <2>2
    <3> QED
      BY <2>2, <3>1 DEF Seen
  <2>3. CASE w \in open
    <3>1. PICK longer : longer = Append(old, e)
      OBVIOUS
    <3>2. new.panes[w] = longer
      BY <1>0, <2>1, <2>3, <3>1
    <3>3. /\ DOMAIN longer = DOMAIN old \cup {Len(old) + 1}
          /\ longer[Len(old) + 1] = e
          /\ \A i \in DOMAIN old : longer[i] = old[i]
      BY <3>1
    <3>4. /\ Seen(new, w, s, u) <=> \E i \in DOMAIN longer : longer[i].span = s /\ longer[i].at = u
          /\ Seen(st, w, s, u) <=> \E i \in DOMAIN old : old[i].span = s /\ old[i].at = u
      BY <2>1, <3>2 DEF Seen
    <3>5. (\E i \in DOMAIN longer : longer[i].span = s /\ longer[i].at = u)
            <=> \/ \E i \in DOMAIN old : old[i].span = s /\ old[i].at = u
                \/ e.span = s /\ e.at = u
      BY <3>3
    <3>6. Seen(new, w, s, u) <=> Seen(st, w, s, u) \/ (e.span = s /\ e.at = u)
      BY <3>4, <3>5
    <3>7. e.span = n /\ e.at = time
      BY <1>0
    <3> QED
      BY <2>3, <3>6, <3>7
  <2> QED
    BY <2>2, <2>3
<1>5. /\ ~IsPast(st, n) /\ IsPast(new, n)
      /\ s # n => (IsPast(new, s) <=> IsPast(st, s))
  BY PassedFacts
<1>6. CASE s # n
  BY <1>2, <1>3, <1>4, <1>5, <1>6, SameLineage
<1>7. CASE s = n
  <2>1. ~IsPast(st, s) /\ IsPast(new, s)
    BY <1>5, <1>7
  <2>2. /\ \A b \in Branches : s \notin Gone(st, b) /\ \A k : ~Holds(b, R, k, s)
        /\ \A w \in Windows : \A u : ~Seen(st, w, s, u)
    BY <1>2, <2>1 DEF LineageOf, NotYet
  <2>3. \A w \in Windows : \A u : Seen(new, w, s, u) <=> w \in open /\ u = time
    BY <1>4, <1>7, <2>2
  <2>4. \A b \in Branches : s \in Gone(new, b) <=> b \in late
    BY <1>3, <1>7, <2>2
  <2>5. NotYet(R, new, s)
    BY <2>1 DEF NotYet
  <2>6. Once(R, new, s)
    <3>1. \A b \in Branches : \A w \in open : w.branch = b => b \notin late
      BY <1>0
    <3> QED
      BY <2>2, <2>3, <2>4, <3>1 DEF Once
  <2>7. Counted(R, new, s)
    <3>1. PICK w \in TumblingWindows : /\ w \in WindowsAt(time)
                                       /\ \A v \in TumblingWindows : v \in WindowsAt(time) => v = w
      BY OneTumblingWindow
    <3>2. CASE w \in open
      <4>1. Seen(new, w, s, time)
        BY <2>3, <3>2, BranchFacts
      <4> QED
        BY <2>2, <2>3, <3>1, <4>1, BranchFacts DEF Counted
    <3>3. CASE w \notin open
      <4>1. \A v \in WindowsAt(time) : v.branch = "tumbling" => v = w
        BY <3>1, BranchFacts DEF WindowsAt
      <4>2. s \in Gone(new, "tumbling")
        BY <1>0, <2>4, <3>3, <4>1, BranchFacts
      <4> QED
        BY <2>2, <2>3, <3>1, <4>2, BranchFacts DEF Counted
    <3> QED
      BY <3>2, <3>3
  <2>8. Reported(R, new, s)
    <3>1. \A w \in SlidingWindows : \A u : Seen(new, w, s, u) => u = time /\ time < w.end
      BY <2>3, BranchFacts DEF WindowsAt
    <3> QED
      BY <2>2, <3>1, BranchFacts DEF Reported
  <2> QED
    BY <2>5, <2>6, <2>7, <2>8 DEF LineageOf
<1> QED
  BY <1>6, <1>7

\* The elements of a window are dropped.
IsPurged(st, new, w) ==
    /\ st.panes \in [Windows -> Seq(Pane)]
    /\ new.panes = [st.panes EXCEPT ![w] = <<>>]
    /\ new.pos = st.pos /\ new.late = st.late /\ new.bad = st.bad

LEMMA PurgedFacts ==
    ASSUME NEW st, NEW new, NEW w \in Windows, IsPurged(st, new, w), NEW s
    PROVE  /\ \A b : s \in Gone(new, b) <=> s \in Gone(st, b)
           /\ IsPast(new, s) <=> IsPast(st, s)
           /\ \A v \in Windows : \A u : Seen(new, v, s, u) <=> v # w /\ Seen(st, v, s, u)
<1>1. ASSUME NEW v \in Windows, NEW u
      PROVE  Seen(new, v, s, u) <=> v # w /\ Seen(st, v, s, u)
  <2>1. CASE v = w
    <3>1. new.panes[v] = <<>>
      BY <2>1 DEF IsPurged
    <3> QED
      BY <2>1, <3>1 DEF Seen
  <2>2. CASE v # w
    <3>1. new.panes[v] = st.panes[v]
      BY <2>2 DEF IsPurged
    <3> QED
      BY <2>2, <3>1 DEF Seen
  <2> QED
    BY <2>1, <2>2
<1> QED
  BY <1>1 DEF IsPurged, Gone, IsPast

LEMMA AppendedFacts ==
    ASSUME NEW R \in Output, NEW r \in Record, NEW Q, Q = Append(R, r), NEW b, NEW s
    PROVE  /\ \A k : Holds(b, Q, k, s) <=>
                  Holds(b, R, k, s) \/ (k = Len(R) + 1 /\ s \in ItemsFor(b, r))
           /\ ~Holds(b, R, Len(R) + 1, s)
<1>1. R \in Seq(Record)
  BY OutputFacts
<1>2. /\ DOMAIN R = 1..Len(R) /\ Len(R) \in Nat
      /\ DOMAIN Q = DOMAIN R \cup {Len(R) + 1}
      /\ Q[Len(R) + 1] = r
      /\ \A i \in DOMAIN R : Q[i] = R[i]
  BY <1>1
<1>3. Len(R) + 1 \notin DOMAIN R
  BY <1>2
<1> QED
  BY <1>2, <1>3 DEF Holds

\* A sliding window that shows nothing is dropped.
LEMMA DropLineage ==
    ASSUME NEW R, NEW st, NEW new, NEW w \in SlidingWindows, Lineage(R, st), IsPurged(st, new, w)
    PROVE  Lineage(R, new)
<1>1. SUFFICES ASSUME NEW s \in AllItems PROVE LineageOf(R, new, s)
  BY DEF Lineage
<1>2. LineageOf(R, st, s)
  BY DEF Lineage
<1>3. /\ \A b : s \in Gone(new, b) <=> s \in Gone(st, b)
      /\ IsPast(new, s) <=> IsPast(st, s)
      /\ \A v \in Windows : \A u : Seen(new, v, s, u) <=> v # w /\ Seen(st, v, s, u)
  BY PurgedFacts, BranchFacts
<1>4. NotYet(R, new, s)
  BY <1>2, <1>3 DEF LineageOf, NotYet
<1>5. Once(R, new, s)
  BY <1>2, <1>3 DEF LineageOf, Once
<1>6. \A v \in TumblingWindows : \A u : Seen(new, v, s, u) <=> Seen(st, v, s, u)
  BY <1>3, BranchFacts
<1>7. Counted(R, new, s)
  BY <1>2, <1>3, <1>6 DEF LineageOf, Counted
<1>8. Reported(R, new, s)
  BY <1>2, <1>3, BranchFacts DEF LineageOf, Reported
<1> QED
  BY <1>4, <1>5, <1>7, <1>8 DEF LineageOf

\* The spans of a tumbling window go into its record, all of them.
LEMMA AggregateLineage ==
    ASSUME NEW R \in Output, NEW r \in Record, NEW Q, Q = Append(R, r),
           NEW st, NEW new, NEW w \in TumblingWindows, Lineage(R, st), IsPurged(st, new, w),
           r.win = w, r.spans = SpansIn(st.panes[w])
    PROVE  Lineage(Q, new)
<1>1. SUFFICES ASSUME NEW s \in AllItems PROVE LineageOf(Q, new, s)
  BY DEF Lineage
<1>2. LineageOf(R, st, s)
  BY DEF Lineage
<1>3. /\ \A b : s \in Gone(new, b) <=> s \in Gone(st, b)
      /\ IsPast(new, s) <=> IsPast(st, s)
      /\ \A v \in Windows : \A u : Seen(new, v, s, u) <=> v # w /\ Seen(st, v, s, u)
  BY PurgedFacts, BranchFacts
<1>4. PICK last : last = Len(R) + 1
  OBVIOUS
<1>5. \A b, k : Holds(b, Q, k, s) <=> Holds(b, R, k, s) \/ (k = last /\ s \in ItemsFor(b, r))
  BY <1>4, AppendedFacts
<1>6. w \in Windows /\ w.branch = "tumbling"
  BY BranchFacts
<1>7. \A b : s \in ItemsFor(b, r) <=> b = "tumbling" /\ \E u : Seen(st, w, s, u)
  BY <1>6 DEF ItemsFor, SpansIn, Seen
<1>8. CASE \A u : ~Seen(st, w, s, u)
  <2>1. \A b, k : Holds(b, Q, k, s) <=> Holds(b, R, k, s)
    BY <1>5, <1>7, <1>8
  <2>2. \A v \in Windows : \A u : Seen(new, v, s, u) <=> Seen(st, v, s, u)
    BY <1>3, <1>8
  <2> QED
    BY <1>2, <1>3, <2>1, <2>2, SameLineage
<1>9. CASE \E u : Seen(st, w, s, u)
  <2>1. IsPast(st, s) /\ \A k : ~Holds("tumbling", R, k, s)
    BY <1>2, <1>6, <1>9 DEF LineageOf, NotYet, Counted
  <2>2. s \notin Gone(st, "tumbling")
    BY <1>2, <1>6, <1>9, BranchFacts DEF LineageOf, Once
  <2>3. \A v \in TumblingWindows : \A u : ~Seen(new, v, s, u)
    BY <1>2, <1>3, <1>9, BranchFacts DEF LineageOf, Counted
  <2>4. \A k : Holds("tumbling", Q, k, s) <=> k = last
    BY <1>5, <1>7, <1>9, <2>1
  <2>5. \A k : Holds("sliding", Q, k, s) <=> Holds("sliding", R, k, s)
    BY <1>5, <1>7
  <2>6. NotYet(Q, new, s)
    BY <1>3, <2>1 DEF NotYet
  <2>7. Once(Q, new, s)
    <3>1. ASSUME NEW b \in Branches
          PROVE  /\ \A k, l : Holds(b, Q, k, s) /\ Holds(b, Q, l, s) => k = l
                 /\ s \in Gone(new, b) =>
                       /\ \A k : ~Holds(b, Q, k, s)
                       /\ \A v \in Windows : \A u : v.branch = b => ~Seen(new, v, s, u)
      <4>1. CASE b = "tumbling"
        BY <1>3, <2>2, <2>4, <4>1
      <4>2. CASE b = "sliding"
        BY <1>2, <1>3, <2>5, <4>2, BranchFacts DEF LineageOf, Once
      <4> QED
        BY <4>1, <4>2, BranchFacts
    <3> QED
      BY <3>1 DEF Once
  <2>8. Counted(Q, new, s)
    BY <2>3, <2>4 DEF Counted
  <2>9. Reported(Q, new, s)
    BY <1>2, <1>3, <2>5, BranchFacts DEF LineageOf, Reported
  <2> QED
    BY <2>6, <2>7, <2>8, <2>9 DEF LineageOf
<1> QED
  BY <1>8, <1>9

\* A span that is news in a sliding window goes into an anomaly's record.  Every other
\* window it is in ends later, and there it is no news.
IsNews(st, w, n, a) ==
    /\ Seen(st, w, n, a) /\ a >= w.end - Slide
    /\ \A v \in SlidingWindows : \A u : v # w /\ Seen(st, v, n, u) => w.end < v.end

LEMMA AnomalyLineage ==
    ASSUME NEW R \in Output, NEW r \in Record, NEW Q, Q = Append(R, r),
           NEW st, NEW new, NEW w \in SlidingWindows, Lineage(R, st), IsPurged(st, new, w),
           NEW n, NEW a, r.win = w, r.spans = {n}, IsNews(st, w, n, a)
    PROVE  Lineage(Q, new)
<1>0. /\ Seen(st, w, n, a) /\ a >= w.end - Slide
      /\ \A v \in SlidingWindows : \A u : v # w /\ Seen(st, v, n, u) => w.end < v.end
  BY DEF IsNews
<1>1. SUFFICES ASSUME NEW s \in AllItems PROVE LineageOf(Q, new, s)
  BY DEF Lineage
<1>2. LineageOf(R, st, s)
  BY DEF Lineage
<1>3. /\ \A b : s \in Gone(new, b) <=> s \in Gone(st, b)
      /\ IsPast(new, s) <=> IsPast(st, s)
      /\ \A v \in Windows : \A u : Seen(new, v, s, u) <=> v # w /\ Seen(st, v, s, u)
  BY PurgedFacts, BranchFacts
<1>4. PICK last : last = Len(R) + 1
  OBVIOUS
<1>5. \A b, k : Holds(b, Q, k, s) <=> Holds(b, R, k, s) \/ (k = last /\ s \in ItemsFor(b, r))
  BY <1>4, AppendedFacts
<1>6. w \in Windows /\ w.branch = "sliding"
  BY BranchFacts
<1>7. \A b : s \in ItemsFor(b, r) <=> b = "sliding" /\ s = n
  BY <1>6 DEF ItemsFor
<1>8. \A k : Holds("tumbling", Q, k, s) <=> Holds("tumbling", R, k, s)
  BY <1>5, <1>7
<1>9. \A v \in TumblingWindows : \A u : Seen(new, v, s, u) <=> Seen(st, v, s, u)
  BY <1>3, BranchFacts
<1>10. Counted(Q, new, s)
  BY <1>2, <1>3, <1>8, <1>9 DEF LineageOf, Counted
<1>11. CASE s # n
  <2>1. \A b, k : Holds(b, Q, k, s) <=> Holds(b, R, k, s)
    BY <1>5, <1>7, <1>11
  <2>2. NotYet(Q, new, s)
    BY <1>2, <1>3, <2>1 DEF LineageOf, NotYet
  <2>3. Once(Q, new, s)
    BY <1>2, <1>3, <2>1 DEF LineageOf, Once
  <2>4. Reported(Q, new, s)
    BY <1>2, <1>3, <2>1, BranchFacts DEF LineageOf, Reported
  <2> QED
    BY <1>10, <2>2, <2>3, <2>4 DEF LineageOf
<1>12. CASE s = n
  <2>1. PICK t \in Times : \A v \in SlidingWindows : \A u :
           Seen(st, v, s, u) => /\ u = t /\ t < v.end
                                /\ \A k : Holds("sliding", R, k, s) => t < v.end - Slide
    BY <1>2 DEF LineageOf, Reported
  <2>2. t = a /\ t < w.end
    BY <1>0, <1>12, <2>1
  <2>3. t \in Int /\ w.end \in Int /\ Slide \in Int
    BY <1>6, TimeFacts, WindowFacts, FlinkAssumption
  <2>4. \A k : ~Holds("sliding", R, k, s)
    BY <1>0, <1>12, <2>1, <2>2, <2>3
  <2>5. \A k : Holds("sliding", Q, k, s) <=> k = last
    BY <1>5, <1>7, <1>12, <2>4
  <2>6. IsPast(st, s) /\ s \notin Gone(st, "sliding")
    BY <1>0, <1>2, <1>6, <1>12, BranchFacts DEF LineageOf, NotYet, Once
  <2>7. NotYet(Q, new, s)
    BY <1>3, <2>6 DEF NotYet
  <2>8. Once(Q, new, s)
    <3>1. ASSUME NEW b \in Branches
          PROVE  /\ \A k, l : Holds(b, Q, k, s) /\ Holds(b, Q, l, s) => k = l
                 /\ s \in Gone(new, b) =>
                       /\ \A k : ~Holds(b, Q, k, s)
                       /\ \A v \in Windows : \A u : v.branch = b => ~Seen(new, v, s, u)
      <4>1. CASE b = "sliding"
        BY <1>3, <2>5, <2>6, <4>1
      <4>2. CASE b = "tumbling"
        BY <1>2, <1>3, <1>8, <4>2, BranchFacts DEF LineageOf, Once
      <4> QED
        BY <4>1, <4>2, BranchFacts
    <3> QED
      BY <3>1 DEF Once
  <2>9. Reported(Q, new, s)
    <3>1. ASSUME NEW v \in SlidingWindows, NEW u, Seen(new, v, s, u)
          PROVE  u = t /\ t < v.end /\ t < v.end - Slide
      <4>1. v # w /\ Seen(st, v, s, u)
        BY <1>3, <3>1, BranchFacts
      <4>2. w.end < v.end
        BY <1>0, <1>12, <4>1
      <4>3. w.end + Slide <= v.end /\ v.end \in Int
        BY <4>2, SlidingEnds, BranchFacts, WindowFacts
      <4> QED
        BY <2>1, <2>2, <2>3, <4>1, <4>3
    <3> QED
      BY <3>1 DEF Reported
  <2> QED
    BY <1>10, <2>7, <2>8, <2>9 DEF LineageOf
<1> QED
  BY <1>11, <1>12

----------------------------------------------------------------------------
(* The records that are written, and the job states they belong to. *)

\* Those a checkpoint covers, committed or about to be; and those of the running job.
Covered == topic \o ckpt.records
Everything == topic \o ckpt.records \o held \o txn

\* What was given up stays given up.
GoneGrows(st, new) == \A b \in Branches : Gone(st, b) \subseteq Gone(new, b)

Lineages ==
    /\ Lineage(Everything, job)
    /\ Lineage(Covered, ckpt.job)
    /\ GoneGrows(ckpt.job, job)
    /\ snap # NoSnapshot =>
          /\ Lineage(Covered \o snap.records, snap.job)
          /\ snap.records = held
          /\ GoneGrows(ckpt.job, snap.job) /\ GoneGrows(snap.job, job)

IInv == TypeInv /\ Lineages

LEMMA RecordFacts ==
    ASSUME NEW s \in Output, NEW t \in Output, NEW u \in Output
    PROVE  /\ s \o t \in Output /\ (s \o t) \o u = s \o (t \o u)
           /\ s \o <<>> = s /\ <<>> \o s = s
<1>1. s \in Seq(Record) /\ t \in Seq(Record) /\ u \in Seq(Record)
  BY OutputFacts
<1>2. s \o t \in Output
  BY OutputFacts
<1>3. (s \o t) \o u = s \o (t \o u)
  BY <1>1, ConcatAssociative
<1>4. s \o <<>> = s /\ <<>> \o s = s
  BY <1>1, ConcatEmptySeq
<1> QED
  BY <1>2, <1>3, <1>4

LEMMA RecordsAssociate == \A s, t, u \in Output : (s \o t) \o u = s \o (t \o u)
<1>1. TAKE s, t, u \in Output
<1>2. s \in Seq(Record) /\ t \in Seq(Record) /\ u \in Seq(Record)
  BY <1>1, OutputFacts
<1> QED
  BY <1>2, ConcatAssociative

LEMMA AppendToRecords ==
    ASSUME NEW s \in Output, NEW t \in Output, NEW r \in Record
    PROVE  s \o Append(t, r) = Append(s \o t, r)
<1>1. PICK one : one = <<r>>
  OBVIOUS
<1>2. one \in Output
  <2>1. <<r>> \in Seq(Record)
    OBVIOUS
  <2> QED
    BY <1>1, <2>1, OutputFacts
<1>3. s \in Seq(Record) /\ t \in Seq(Record) /\ s \o t \in Seq(Record)
  BY RecordFacts, OutputFacts
<1>4. Append(t, r) = t \o one /\ Append(s \o t, r) = (s \o t) \o one
  BY <1>1, <1>3, AppendIsConcat
<1>5. (s \o t) \o one = s \o (t \o one)
  BY Zenon, <1>2, RecordsAssociate
<1> QED
  BY <1>4, <1>5

LEMMA WrittenTyped ==
    ASSUME TypeInv
    PROVE  /\ topic \in Output /\ ckpt.records \in Output /\ held \in Output /\ txn \in Output
           /\ Covered \in Output /\ Everything \in Output
           /\ Everything = (Covered \o held) \o txn /\ Covered \o held \in Output
<1>1. topic \in Output /\ ckpt.records \in Output /\ held \in Output /\ txn \in Output
  BY StartTyped
<1>2. Covered \in Output
  BY <1>1, RecordFacts DEF Covered
<1>3. Covered \o held \in Output
  BY <1>1, <1>2, RecordFacts
<1>4. Everything = (Covered \o held) \o txn
  BY DEF Everything, Covered
<1>5. Everything \in Output
  BY <1>1, <1>3, <1>4, RecordFacts
<1> QED
  BY <1>1, <1>2, <1>3, <1>4, <1>5

LEMMA GrowsFacts ==
    /\ \A st : GoneGrows(st, st)
    /\ \A st, mid, new : GoneGrows(st, mid) /\ GoneGrows(mid, new) => GoneGrows(st, new)
  BY DEF GoneGrows

LEMMA InitLineages == Init => Lineages
<1>1. SUFFICES ASSUME Init PROVE Lineages
  OBVIOUS
<1>2. topic = <<>> /\ held = <<>> /\ txn = <<>> /\ ckpt.records = <<>> /\ snap = NoSnapshot
  BY <1>1 DEF Init
<1>3. <<>> \in Output /\ <<>> \o <<>> = <<>>
  BY RecordFacts, OutputFacts
<1>4. Everything = <<>> /\ Covered = <<>>
  BY <1>2, <1>3 DEF Everything, Covered
<1>5. job = EmptyJob /\ ckpt.job = EmptyJob
  BY <1>1 DEF Init
<1> QED
  BY <1>2, <1>4, <1>5, EmptyLineage, GrowsFacts DEF Lineages

\* A step of the running job leaves its snapshots as they are.
LEMMA RunningLineages ==
    ASSUME IInv, UNCHANGED <<held, snap, ckpt, topic>>,
           Lineage(Everything', job'), GoneGrows(job, job')
    PROVE  Lineages'
<1>1. Covered' = Covered /\ ckpt' = ckpt /\ snap' = snap /\ held' = held
  BY DEF Covered
<1>2. GoneGrows(ckpt.job, job')
  BY GrowsFacts DEF IInv, Lineages
<1>3. snap # NoSnapshot => GoneGrows(snap.job, job')
  BY GrowsFacts DEF IInv, Lineages
<1> QED
  BY <1>1, <1>2, <1>3 DEF IInv, Lineages

\* Nor does one that leaves the job alone.
LEMMA IdleLineages ==
    ASSUME IInv, UNCHANGED <<job, txn, held, snap, ckpt, topic>>
    PROVE  Lineages'
<1>1. Everything' = Everything /\ job' = job
  BY DEF Everything
<1> QED
  BY <1>1, RunningLineages, GrowsFacts DEF IInv, Lineages

LEMMA UndecodableLineages ==
    ASSUME IInv, NEW p \in Partitions, Undecodable(p)
    PROVE  Lineages'
<1>1. PICK new : new = job'
  OBVIOUS
<1>2. job \in JobState /\ Lineage(Everything, job)
  BY StartTyped DEF IInv, Lineages
<1>3. new = [job EXCEPT !.pos[p] = @ + 1, !.bad = @ \cup {NextSpan(p)}]
  BY <1>1 DEF Undecodable
<1>4. /\ new.pos = [job.pos EXCEPT ![p] = @ + 1] /\ new.panes = job.panes
      /\ new.late = job.late /\ new.bad = job.bad \cup {NextSpan(p)}
  BY <1>2, <1>3 DEF JobState
<1>5. Passed(job, new, p, NextSpan(p))
  BY <1>2, <1>4, JobFacts DEF Passed, NextSpan
<1>6. Lineage(Everything, new)
  BY <1>2, <1>4, <1>5, BadLineage
<1>7. GoneGrows(job, new)
  BY <1>4 DEF GoneGrows, Gone
<1>8. Everything' = Everything /\ UNCHANGED <<held, snap, ckpt, topic>>
  BY DEF Undecodable, sinks, Everything
<1> QED
  BY <1>1, <1>6, <1>7, <1>8, RunningLineages

LEMMA ReadLineages ==
    ASSUME IInv, NEW p \in Partitions, Read(p)
    PROVE  Lineages'
<1>1. PICK new : new = job'
  OBVIOUS
<1>2. job \in JobState /\ Lineage(Everything, job)
  BY StartTyped DEF IInv, Lineages
<1>3. PICK r : r = RecordOf(NextSpan(p))
  OBVIOUS
<1>4. PICK time \in Times :
         new = [job EXCEPT !.pos[p] = @ + 1,
                  !.panes = Add([span |-> NextSpan(p), at |-> time, reading |-> r.reading]),
                  !.late = @ \cup {<<b, NextSpan(p)>> : b \in LateFor(time)}]
  BY <1>1, <1>3 DEF Read
<1>5. PICK e : e = [span |-> NextSpan(p), at |-> time, reading |-> r.reading]
  OBVIOUS
<1>6. PICK open : open = {w \in WindowsAt(time) : ~Closed(w, worker.watermark)}
  OBVIOUS
<1>7. /\ new.pos = [job.pos EXCEPT ![p] = @ + 1] /\ new.bad = job.bad
      /\ new.panes = Add(e)
      /\ new.late = job.late \cup {<<b, NextSpan(p)>> : b \in LateFor(time)}
  BY <1>2, <1>4, <1>5 DEF JobState
<1>8. new.panes = [w \in Windows |-> IF w \in open THEN Append(job.panes[w], e)
                                                   ELSE job.panes[w]]
  BY <1>5, <1>6, <1>7 DEF Add
<1>9. Passed(job, new, p, NextSpan(p))
  BY <1>2, <1>7, JobFacts DEF Passed, NextSpan
<1>10. LateFor(time) \in SUBSET Branches
  BY DEF LateFor
<1>11. \A b \in Branches :
          b \in LateFor(time) <=> \A w \in WindowsAt(time) : w.branch = b => w \notin open
  BY <1>6 DEF LateFor
<1>12. e.span = NextSpan(p) /\ e.at = time /\ open \in SUBSET WindowsAt(time)
  BY <1>5, <1>6
<1>13. job.panes \in [Windows -> Seq(Pane)]
  BY <1>2, JobFacts
<1>14. Lineage(Everything, new)
  <2>1. IsAdded(job, new, NextSpan(p), e, time, open, LateFor(time))
    BY <1>7, <1>8, <1>11, <1>12, <1>13 DEF IsAdded
  <2> QED
    BY <1>2, <1>9, <1>10, <1>12, <2>1, ReadLineage
<1>15. GoneGrows(job, new)
  BY <1>7 DEF GoneGrows, Gone
<1>16. Everything' = Everything /\ UNCHANGED <<held, snap, ckpt, topic>>
  BY DEF Read, sinks, Everything
<1> QED
  BY <1>1, <1>14, <1>15, <1>16, RunningLineages

\* The window that fires is dropped.
LEMMA FiringPurges ==
    ASSUME TypeInv, Firing, NEW new, new = Purged
    PROVE  /\ IsPurged(job, new, NextDue)
           /\ \A b : Gone(new, b) = Gone(job, b)
<1>1. job \in JobState
  BY StartTyped
<1>2. /\ new.panes = [job.panes EXCEPT ![NextDue] = <<>>]
      /\ new.pos = job.pos /\ new.late = job.late /\ new.bad = job.bad
  BY PurgedTyped
<1> QED
  BY <1>1, <1>2, JobFacts DEF IsPurged, Gone

\* The sliding windows that are left end after the one that fires.
LEMMA FiresFirst ==
    ASSUME TypeInv, Firing, NextDue.branch = "sliding",
           NEW v \in SlidingWindows, v # NextDue, NEW s, NEW u, Seen(job, v, s, u)
    PROVE  NextDue.end < v.end
<1>1. job.panes[v] # <<>>
  BY DEF Seen
<1>2. NextDue \in SlidingWindows /\ v \in Windows
  BY FiringFacts, BranchFacts
<1>3. PICK w \in SlidingWindows : w = NextDue
  BY <1>2
<1>4. v.end \in Nat /\ w.end \in Nat
  BY <1>2, <1>3, BranchFacts, WindowFacts
<1>5. v.end # w.end
  BY <1>3, SameSlidingEnd
<1>6. Closed(w, worker.watermark) /\ worker.watermark \in Int
  BY <1>3, FiringFacts DEF Due, TypeInv, TypeOK
<1>7. CASE v \in Due
  <2>1. \E x \in Due : \A y \in Due :
           \/ x.end < y.end
           \/ x.end = y.end /\ (x.branch = "tumbling" \/ y.branch = "sliding")
    BY DueHasFirst DEF Firing
  <2>2. w.end < v.end \/ w.end = v.end
    BY <1>3, <1>7, <2>1 DEF NextDue
  <2> QED
    BY <1>3, <1>4, <1>5, <2>2
<1>8. CASE v \notin Due
  <2>1. ~Closed(v, worker.watermark)
    BY <1>1, <1>2, <1>8 DEF Due
  <2> QED
    BY <1>3, <1>4, <1>6, <2>1 DEF Closed
<1> QED
  BY <1>7, <1>8

LEMMA FireNothingLineages ==
    ASSUME IInv, FireNothing
    PROVE  Lineages'
<1>1. PICK new : new = Purged /\ new = job'
  BY DEF FireNothing
<1>2. TypeInv /\ Firing /\ NextDue.branch # "tumbling" /\ Lineage(Everything, job)
  BY DEF IInv, Lineages, FireNothing, HasResult
<1>3. IsPurged(job, new, NextDue) /\ \A b : Gone(new, b) = Gone(job, b)
  BY <1>1, <1>2, FiringPurges
<1>4. NextDue \in SlidingWindows
  BY <1>2, FiringFacts, BranchFacts
<1>5. Lineage(Everything, new)
  BY <1>2, <1>3, <1>4, DropLineage
<1>6. GoneGrows(job, new)
  BY <1>3 DEF GoneGrows
<1>7. Everything' = Everything /\ UNCHANGED <<held, snap, ckpt, topic>>
  BY DEF FireNothing, sinks, Everything
<1> QED
  BY <1>1, <1>5, <1>6, <1>7, RunningLineages

LEMMA FireRecords ==
    ASSUME TypeInv, Fire, NEW r \in Record, r = Result
    PROVE  Everything' = Append(Everything, r)
<1>1. Everything' = (Covered \o held) \o Append(txn, r)
  BY DEF Fire, Everything, Covered
<1>2. (Covered \o held) \o Append(txn, r) = Append((Covered \o held) \o txn, r)
  BY WrittenTyped, AppendToRecords
<1> QED
  BY <1>1, <1>2, WrittenTyped

LEMMA FireLineages ==
    ASSUME IInv, Fire
    PROVE  Lineages'
<1>1. PICK new : new = Purged /\ new = job'
  BY DEF Fire
<1>2. TypeInv /\ Firing /\ HasResult /\ Lineage(Everything, job)
  BY DEF IInv, Lineages, Fire
<1>3. IsPurged(job, new, NextDue) /\ \A b : Gone(new, b) = Gone(job, b)
  BY <1>1, <1>2, FiringPurges
<1>4. PICK r \in Record : r = Result
  BY <1>2, ResultTyped
<1>5. PICK Q : Q = Append(Everything, r)
  OBVIOUS
<1>6. Everything' = Q
  BY <1>2, <1>4, <1>5, FireRecords
<1>7. Everything \in Output /\ NextDue \in Windows
  BY <1>2, WrittenTyped, FiringFacts
<1>8. PICK w : w = NextDue
  OBVIOUS
<1>9. r.win = w /\ IsPurged(job, new, w)
  BY <1>3, <1>4, <1>8 DEF Result
<1>10. ASSUME w.branch = "tumbling" PROVE Lineage(Q, new)
  <2>1. w \in TumblingWindows
    BY <1>7, <1>8, <1>10, BranchFacts
  <2>2. r.spans = SpansIn(job.panes[w])
    BY <1>4, <1>8, <1>10 DEF Result, Elements
  <2> QED
    BY <1>2, <1>5, <1>7, <1>9, <2>1, <2>2, AggregateLineage
<1>11. ASSUME w.branch # "tumbling" PROVE Lineage(Q, new)
  <2>1. w \in SlidingWindows /\ w.branch = "sliding"
    BY <1>7, <1>8, <1>11, BranchFacts
  <2>2. PICK n, a : n = Latest(Elements).span /\ a = Latest(Elements).at
    OBVIOUS
  <2>3. r.spans = {n}
    BY <1>4, <1>8, <1>11, <2>2 DEF Result
  <2>4. Seen(job, w, n, a)
    BY <1>2, <1>8, <2>2, LatestTyped DEF Seen, Elements
  <2>5. a >= w.end - Slide
    BY <1>2, <1>8, <1>11, <2>2 DEF HasResult, IsAnomaly
  <2>6. \A v \in SlidingWindows : \A u : v # w /\ Seen(job, v, n, u) => w.end < v.end
    BY <1>2, <1>8, <2>1, FiresFirst
  <2>7. IsNews(job, w, n, a)
    BY <2>4, <2>5, <2>6 DEF IsNews
  <2> QED
    BY <1>2, <1>5, <1>7, <1>9, <2>1, <2>3, <2>7, AnomalyLineage
<1>12. Lineage(Q, new)
  BY <1>10, <1>11
<1>13. GoneGrows(job, new)
  BY <1>3 DEF GoneGrows
<1>14. UNCHANGED <<held, snap, ckpt, topic>>
  BY DEF Fire
<1> QED
  BY <1>1, <1>6, <1>12, <1>13, <1>14, RunningLineages

LEMMA BarrierRecords ==
    ASSUME TypeInv, Barrier
    PROVE  /\ Covered' = Covered /\ Everything' = Everything
           /\ Covered \o (held \o txn) = Everything
<1>1. topic' = topic /\ ckpt' = ckpt /\ held' = held \o txn /\ txn' = <<>>
  BY DEF Barrier
<1>2. /\ Covered \in Output /\ held \in Output /\ txn \in Output /\ held \o txn \in Output
      /\ Everything = (Covered \o held) \o txn
  BY WrittenTyped, RecordFacts
<1>3. Covered' = Covered
  BY <1>1 DEF Covered
<1>4. (Covered \o held) \o txn = Covered \o (held \o txn)
  <2>1. Covered \in Output /\ held \in Output /\ txn \in Output
    BY <1>2
  <2> QED
    BY Zenon, <2>1, RecordsAssociate
<1>5. Everything' = (Covered \o (held \o txn)) \o <<>>
  BY <1>1 DEF Everything, Covered
<1>6. (Covered \o (held \o txn)) \o <<>> = Covered \o (held \o txn)
  BY <1>2, RecordFacts
<1> QED
  BY <1>2, <1>3, <1>4, <1>5, <1>6

LEMMA BarrierLineages ==
    ASSUME IInv, Barrier
    PROVE  Lineages'
<1>1. /\ ckpt' = ckpt /\ job' = job /\ held' = held \o txn
      /\ snap'.job = job /\ snap'.records = held \o txn
  BY DEF Barrier
<1>2. /\ Covered' = Covered /\ Everything' = Everything
      /\ Covered \o (held \o txn) = Everything
  BY BarrierRecords DEF IInv
<1> QED
  BY <1>1, <1>2, GrowsFacts DEF IInv, Lineages

LEMMA CompleteRecords ==
    ASSUME IInv, Complete
    PROVE  Covered' = Covered \o held /\ Everything' = Everything
<1>1. /\ topic' = topic /\ held' = <<>> /\ txn' = txn
      /\ ckpt'.records = ckpt.records \o snap.records /\ snap.records = held
  BY DEF Complete, IInv, Lineages
<1>2. /\ topic \in Output /\ ckpt.records \in Output /\ held \in Output /\ txn \in Output
      /\ Covered \in Output /\ Covered \o held \in Output
      /\ Everything = (Covered \o held) \o txn
  BY WrittenTyped DEF IInv
<1>3. Covered' = Covered \o held
  <2>1. Covered' = topic \o (ckpt.records \o held)
    BY <1>1 DEF Covered
  <2>2. (topic \o ckpt.records) \o held = topic \o (ckpt.records \o held)
    <3>1. topic \in Output /\ ckpt.records \in Output /\ held \in Output
      BY <1>2
    <3> QED
      BY Zenon, <3>1, RecordsAssociate
  <2> QED
    BY <2>1, <2>2 DEF Covered
<1>4. Everything' = (Covered' \o <<>>) \o txn
  BY <1>1 DEF Everything, Covered
<1>5. (Covered \o held) \o <<>> = Covered \o held
  BY <1>2, RecordFacts
<1> QED
  BY <1>2, <1>3, <1>4, <1>5

LEMMA CompleteLineages ==
    ASSUME IInv, Complete
    PROVE  Lineages'
<1>1. /\ job' = job /\ snap' = NoSnapshot /\ ckpt'.job = snap.job /\ snap # NoSnapshot
  BY DEF Complete
<1>2. /\ Lineage(Covered \o held, snap.job) /\ snap.records = held
      /\ GoneGrows(snap.job, job) /\ Lineage(Everything, job)
  BY <1>1 DEF IInv, Lineages
<1>3. Covered' = Covered \o held /\ Everything' = Everything
  BY CompleteRecords
<1> QED
  BY <1>1, <1>2, <1>3 DEF Lineages

LEMMA DeclineLineages ==
    ASSUME IInv, Decline
    PROVE  Lineages'
<1>1. Everything' = Everything /\ Covered' = Covered /\ job' = job /\ ckpt' = ckpt
      /\ snap' = NoSnapshot
  BY DEF Decline, Everything, Covered
<1> QED
  BY <1>1 DEF IInv, Lineages

\* Records that are committed stay where they are in the whole.
LEMMA CommittedFacts ==
    ASSUME TypeInv, topic' = topic \o ckpt.records, ckpt'.records = <<>>
    PROVE  Covered' = Covered
<1>1. Covered' = Covered \o <<>>
  BY DEF Covered
<1>2. Covered \o <<>> = Covered
  BY WrittenTyped, RecordFacts
<1> QED
  BY <1>1, <1>2

LEMMA CommitRecords ==
    ASSUME TypeInv, Commit
    PROVE  Covered' = Covered /\ Everything' = Everything /\ ckpt'.job = ckpt.job
<1>1. /\ topic' = topic \o ckpt.records /\ ckpt' = [ckpt EXCEPT !.records = <<>>]
      /\ UNCHANGED <<txn, held>>
  BY DEF Commit
<1>2. ckpt'.records = <<>> /\ ckpt'.job = ckpt.job
  BY <1>1 DEF TypeInv, TypeOK
<1>3. Covered' = Covered
  BY <1>1, <1>2, CommittedFacts
<1> QED
  BY <1>1, <1>2, <1>3 DEF Everything, Covered

LEMMA CommitLineages ==
    ASSUME IInv, Commit
    PROVE  Lineages'
  BY CommitRecords DEF Commit, IInv, Lineages

LEMMA TakeBackFacts ==
    ASSUME TypeInv, TakeBack
    PROVE  /\ Covered' = Covered /\ job' = ckpt.job /\ ckpt'.job = ckpt.job
           /\ snap' = NoSnapshot /\ ckpt'.records = <<>> /\ topic' = topic \o ckpt.records
<1>1. /\ topic' = topic \o ckpt.records /\ ckpt' = [ckpt EXCEPT !.records = <<>>]
      /\ job' = ckpt.job /\ snap' = NoSnapshot
  BY DEF TakeBack
<1>2. ckpt'.records = <<>> /\ ckpt'.job = ckpt.job
  BY <1>1 DEF TypeInv, TypeOK
<1> QED
  BY <1>1, <1>2, CommittedFacts

LEMMA RestoreRecords ==
    ASSUME TypeInv, Restore
    PROVE  Covered' = Covered /\ Everything' = Covered
<1>1. Covered' = Covered
  BY TakeBackFacts DEF Restore
<1>2. Everything' = (Covered' \o <<>>) \o <<>>
  BY DEF Restore, Everything, Covered
<1>3. Covered \o <<>> = Covered
  BY WrittenTyped, RecordFacts
<1> QED
  BY <1>1, <1>2, <1>3

LEMMA JobFailsLineages ==
    ASSUME IInv, JobFails
    PROVE  Lineages'
<1>1. CASE Restore
  <2>1. /\ Covered' = Covered /\ job' = ckpt.job /\ ckpt'.job = ckpt.job /\ snap' = NoSnapshot
        /\ Everything' = Covered
    BY <1>1, TakeBackFacts, RestoreRecords DEF IInv, Restore
  <2> QED
    BY <1>1, <2>1, GrowsFacts DEF IInv, Lineages
<1>2. CASE ~Restore
  BY <1>2, IdleLineages DEF JobFails, sinks
<1> QED
  BY <1>1, <1>2

LEMMA NextLineages == IInv /\ [Next]_vars => IInv'
<1>1. SUFFICES ASSUME IInv, [Next]_vars PROVE Lineages'
  BY NextTyped DEF IInv
<1>2. ASSUME NEW p \in Partitions, Undecodable(p) \/ Read(p)
      PROVE  Lineages'
  BY <1>1, <1>2, UndecodableLineages, ReadLineages
<1>3. CASE EmitWatermark \/ FireRetried \/ UNCHANGED vars
  BY <1>1, <1>3, IdleLineages DEF EmitWatermark, FireRetried, vars, sinks
<1>4. CASE FireNothing
  BY <1>1, <1>4, FireNothingLineages
<1>5. CASE Fire
  BY <1>1, <1>5, FireLineages
<1>6. CASE FireFails \/ Crash
  BY <1>1, <1>6, JobFailsLineages DEF FireFails, Crash
<1>7. CASE Barrier
  BY <1>1, <1>7, BarrierLineages
<1>8. CASE Complete
  BY <1>1, <1>8, CompleteLineages
<1>9. CASE Decline
  BY <1>1, <1>9, DeclineLineages
<1>10. CASE Commit
  BY <1>1, <1>10, CommitLineages
<1> QED
  BY <1>1, <1>2, <1>3, <1>4, <1>5, <1>6, <1>7, <1>8, <1>9, <1>10 DEF Next

----------------------------------------------------------------------------
(* No span is lost. *)

LEMMA LostIsGone ==
    ASSUME TypeInv, NEW st \in JobState, NEW b
    PROVE  Lost(st, b) = Gone(st, b)
<1>1. st.late \subseteq Branches \X Spans
  BY JobFacts
<1>2. Spans \subseteq AllItems
  BY SpansAreItems DEF TypeInv
<1>3. \A s : <<b, s>> \in st.late => s \in Spans
  BY <1>1
<1> QED
  BY <1>2, <1>3 DEF Lost, Gone

LEMMA NotLost ==
    ASSUME TypeInv, NEW R, NEW st \in JobState, Lineage(R, st),
           NEW s \in Spans, s[2] <= st.pos[s[1]]
    PROVE  s \in OpenSpans(st) \cup Lost(st, "tumbling") \cup SpansOf("tumbling", R)
<1>1. s \in AllItems /\ 1 <= s[2]
  <2>1. PICK p \in Partitions : \E i \in DOMAIN log[p] : s = <<p, i>>
    BY SpanFacts
  <2>2. PICK i \in DOMAIN log[p] : s = <<p, i>>
    BY <2>1
  <2>3. i \in Nat /\ 1 <= i
    BY LogFacts DEF TypeInv
  <2> QED
    BY <2>2, <2>3 DEF AllItems
<1>2. IsPast(st, s)
  BY <1>1 DEF IsPast
<1>3. \/ s \in Gone(st, "tumbling")
      \/ \E k : Holds("tumbling", R, k, s)
      \/ \E w \in TumblingWindows : \E u : Seen(st, w, s, u)
  BY <1>1, <1>2 DEF Lineage, LineageOf, Counted
<1>4. CASE s \in Gone(st, "tumbling")
  BY <1>4, LostIsGone
<1>5. CASE \E k : Holds("tumbling", R, k, s)
  BY <1>5 DEF Holds, SpansOf
<1>6. CASE \E w \in TumblingWindows : \E u : Seen(st, w, s, u)
  BY <1>6 DEF Seen, OpenSpans, SpansIn
<1> QED
  BY <1>3, <1>4, <1>5, <1>6

\* No crash, replay or declined checkpoint loses a span: whatever the job has read past, and
\* whatever it would have read past if it were restored, is in an open window, was given up,
\* or is in a record that is committed or will be.
THEOREM NothingIsLost == Spec => []NoSpanLost
<1>1. Init => IInv
  BY InitTyped, InitLineages DEF IInv
<1>2. IInv /\ [Next]_vars => IInv'
  BY NextLineages
<1>3. IInv => NoSpanLost
  <2>1. SUFFICES ASSUME IInv, NEW s \in Spans
                 PROVE  /\ s[2] <= job.pos[s[1]] =>
                              s \in OpenSpans(job) \cup Lost(job, "tumbling")
                                       \cup SpansOf("tumbling", Everything)
                        /\ s[2] <= ckpt.job.pos[s[1]] =>
                              s \in OpenSpans(ckpt.job) \cup Lost(ckpt.job, "tumbling")
                                       \cup SpansOf("tumbling", Covered)
    BY DEF NoSpanLost, Everything, Covered
  <2>2. job \in JobState /\ ckpt.job \in JobState /\ TypeInv
    BY <2>1, StartTyped DEF IInv
  <2>3. Lineage(Everything, job) /\ Lineage(Covered, ckpt.job)
    BY <2>1 DEF IInv, Lineages
  <2> QED
    BY <2>2, <2>3, NotLost
<1> QED
  BY <1>1, <1>2, <1>3, PTL DEF Spec

----------------------------------------------------------------------------
(* What the readers of a topic see implements ExactlyOnce. *)

ItemsIn(records) == UNION {records[i] : i \in DOMAIN records}

Apart(records) ==
    \A i, j \in DOMAIN records : i # j => records[i] \cap records[j] = {}

LEMMA ItemsTyped ==
    ASSUME TypeInv, NEW b, NEW R \in Output
    PROVE  /\ RecordsOf(b, R) \in Seq(SUBSET AllItems)
           /\ DOMAIN RecordsOf(b, R) = DOMAIN R /\ Len(RecordsOf(b, R)) = Len(R)
           /\ \A i \in DOMAIN R : RecordsOf(b, R)[i] = ItemsFor(b, R[i])
           /\ DOMAIN R = 1..Len(R) /\ Len(R) \in Nat
<1>1. R \in Seq(Record)
  BY OutputFacts
<1>2. DOMAIN R = 1..Len(R) /\ Len(R) \in Nat /\ \A i \in DOMAIN R : R[i] \in Record
  BY <1>1
<1>3. Spans \subseteq AllItems
  BY SpansAreItems DEF TypeInv
<1>4. \A r \in Record : ItemsFor(b, r) \in SUBSET AllItems
  BY <1>3 DEF Record, ItemsFor
<1>5. RecordsOf(b, R) = [i \in 1..Len(R) |-> ItemsFor(b, R[i])]
  BY <1>2 DEF RecordsOf
<1>6. RecordsOf(b, R) \in [1..Len(R) -> SUBSET AllItems]
  BY <1>2, <1>4, <1>5
<1>7. RecordsOf(b, R) \in Seq(SUBSET AllItems)
  BY <1>2, <1>6
<1>8. Len(RecordsOf(b, R)) = Len(R)
  BY <1>2, <1>6, <1>7
<1> QED
  BY <1>2, <1>5, <1>7, <1>8

\* The records C are committed after R.
LEMMA CommitPublishes ==
    ASSUME TypeInv, NEW b \in Branches, NEW R \in Output, NEW C \in Output, C # <<>>,
           NEW st, Lineage(R \o C, st)
    PROVE  LET P == RecordsOf(b, R)
               Q == RecordsOf(b, R \o C)
           IN  \E n \in 1..Len(Q) :
                  LET batch == SubSeq(Q, n, Len(Q))
                  IN  /\ P = SubSeq(Q, 1, n - 1)
                      /\ Apart(batch)
                      /\ ItemsIn(batch) \cap (ItemsIn(P) \cup Gone(st, b)) = {}
                      /\ ItemsIn(batch) \subseteq AllItems
<1>1. PICK P : P = RecordsOf(b, R)
  OBVIOUS
<1>2. PICK All \in Output : All = R \o C
  BY RecordFacts
<1>3. PICK Q : Q = RecordsOf(b, All)
  OBVIOUS
<1>4. /\ Len(R) \in Nat /\ Len(C) \in Nat /\ Len(C) >= 1
      /\ Len(All) = Len(R) + Len(C)
      /\ \A i \in 1..Len(R) : All[i] = R[i]
  <2>1. R \in Seq(Record) /\ C \in Seq(Record)
    BY OutputFacts
  <2> QED
    BY <1>2, <2>1
<1>5. PICK m \in Nat, c \in Nat : m = Len(R) /\ c = Len(C) /\ c >= 1
  BY <1>4
<1>6. /\ P \in Seq(SUBSET AllItems) /\ Len(P) = m /\ DOMAIN P = 1..m
      /\ \A i \in 1..m : P[i] = ItemsFor(b, R[i])
  BY <1>1, <1>5, ItemsTyped
<1>7. /\ Q \in Seq(SUBSET AllItems) /\ Len(Q) = m + c /\ DOMAIN Q = 1..m + c
      /\ DOMAIN All = 1..m + c
      /\ \A i \in 1..m + c : Q[i] = ItemsFor(b, All[i]) /\ Q[i] \in SUBSET AllItems
  <2>1. Len(All) = m + c
    BY <1>4, <1>5
  <2>2. /\ Q \in Seq(SUBSET AllItems) /\ DOMAIN Q = DOMAIN All /\ Len(Q) = Len(All)
        /\ \A i \in DOMAIN All : Q[i] = ItemsFor(b, All[i])
        /\ DOMAIN All = 1..Len(All)
    BY <1>3, ItemsTyped
  <2>3. \A i \in DOMAIN Q : Q[i] \in SUBSET AllItems
    BY <2>2
  <2> QED
    BY <2>1, <2>2, <2>3
<1>8. PICK batch : batch = SubSeq(Q, m + 1, m + c)
  OBVIOUS
<1>9. DOMAIN batch = 1..c /\ \A i \in 1..c : batch[i] = Q[m + i]
  <2>1. \A i \in m + 1 .. m + c : Q[i] \in SUBSET AllItems
    BY <1>7
  <2>2. /\ batch \in Seq(SUBSET AllItems) /\ Len(batch) = c
        /\ \A i \in 1..m + c - (m + 1) + 1 : batch[i] = Q[m + 1 + i - 1]
    BY <1>5, <1>8, <2>1, SubSeqProperties
  <2>3. \A i \in 1..c : batch[i] = Q[m + i]
    <3>1. ASSUME NEW i \in 1..c PROVE batch[i] = Q[m + i]
      <4>1. i \in 1..m + c - (m + 1) + 1 /\ m + 1 + i - 1 = m + i
        OBVIOUS
      <4> QED
        BY <2>2, <4>1
    <3> QED
      BY <3>1
  <2> QED
    BY <2>2, <2>3
<1>10. P = SubSeq(Q, 1, m)
  <2>1. \A i \in 1..m : Q[i] \in SUBSET AllItems
    BY <1>7
  <2>2. /\ SubSeq(Q, 1, m) \in Seq(SUBSET AllItems) /\ Len(SubSeq(Q, 1, m)) = m
        /\ \A i \in 1..m - 1 + 1 : SubSeq(Q, 1, m)[i] = Q[1 + i - 1]
    BY <2>1, SubSeqProperties
  <2>3. \A i \in 1..m : Q[i] = P[i]
    BY <1>4, <1>5, <1>6, <1>7
  <2>4. ASSUME NEW i \in 1..m PROVE SubSeq(Q, 1, m)[i] = P[i]
    <3>1. i \in 1..m - 1 + 1 /\ 1 + i - 1 = i
      OBVIOUS
    <3> QED
      BY <2>2, <2>3, <3>1
  <2> QED
    BY <1>6, <2>2, <2>4, SeqEqual
<1>11. \A i \in 1..m + c : \A s : s \in Q[i] => s \in AllItems /\ Holds(b, All, i, s)
  BY <1>7 DEF Holds
<1>12. \A s \in AllItems : Once(All, st, s)
  BY <1>2 DEF Lineage, LineageOf
<1>13. ASSUME NEW i \in 1..m + c, NEW j \in 1..m + c, NEW s, s \in Q[i], s \in Q[j]
       PROVE  i = j
  BY <1>11, <1>12, <1>13 DEF Once
<1>14. Apart(batch)
  <2>1. ASSUME NEW i \in 1..c, NEW j \in 1..c, NEW s, s \in batch[i], s \in batch[j]
        PROVE  i = j
    <3>1. m + i \in 1..m + c /\ m + j \in 1..m + c
      OBVIOUS
    <3>2. s \in Q[m + i] /\ s \in Q[m + j]
      BY <1>9, <2>1
    <3>3. m + i = m + j
      BY <1>13, <3>1, <3>2
    <3> QED
      BY <3>3
  <2> QED
    BY <1>9, <2>1 DEF Apart
<1>15. ASSUME NEW s \in ItemsIn(batch)
       PROVE  s \in AllItems /\ s \notin ItemsIn(P) /\ s \notin Gone(st, b)
  <2>1. PICK i \in 1..c : s \in batch[i]
    BY <1>9, <1>15 DEF ItemsIn
  <2>2. PICK k \in 1..m + c : k = m + i
    OBVIOUS
  <2>3. s \in Q[k]
    BY <1>9, <2>1, <2>2
  <2>4. s \in AllItems /\ Holds(b, All, k, s)
    BY <1>11, <2>3
  <2>5. s \notin Gone(st, b)
    BY <1>12, <2>4 DEF Once
  <2>6. ASSUME NEW j \in 1..m, s \in P[j] PROVE FALSE
    <3>1. j \in 1..m + c /\ s \in Q[j]
      BY <1>4, <1>5, <1>6, <1>7, <2>6
    <3>2. j = k
      BY <1>13, <2>3, <3>1
    <3> QED
      BY <2>2, <3>2
  <2>7. s \notin ItemsIn(P)
    BY <1>6, <2>6 DEF ItemsIn
  <2> QED
    BY <2>4, <2>5, <2>7
<1>16. m + 1 \in 1..Len(Q) /\ m + 1 - 1 = m /\ Len(Q) = m + c
  BY <1>5, <1>7
<1>17. LET rest == SubSeq(Q, m + 1, Len(Q))
       IN  /\ P = SubSeq(Q, 1, m + 1 - 1)
           /\ Apart(rest)
           /\ ItemsIn(rest) \cap (ItemsIn(P) \cup Gone(st, b)) = {}
           /\ ItemsIn(rest) \subseteq AllItems
  BY <1>8, <1>10, <1>14, <1>15, <1>16
<1> QED
  BY <1>1, <1>2, <1>3, <1>16, <1>17

\* What a step does to the checkpoint and to the topic.
LEMMA CheckpointSteps ==
    ASSUME IInv, [Next]_vars
    PROVE  \/ topic' = topic /\ ckpt'.job = ckpt.job
           \/ topic' = topic \o ckpt.records /\ ckpt'.job = ckpt.job
           \/ topic' = topic /\ GoneGrows(ckpt.job, ckpt'.job)
<1>1. CASE UNCHANGED <<topic, ckpt>>
  BY <1>1
<1>2. CASE Commit
  <2>1. ckpt'.job = ckpt.job
    BY <1>2 DEF Commit, IInv, TypeInv, TypeOK
  <2> QED
    BY <1>2, <2>1 DEF Commit
<1>3. CASE Restore
  BY <1>3, TakeBackFacts DEF Restore, IInv
<1>4. CASE Complete
  BY <1>4 DEF Complete, IInv, Lineages
<1>5. Commit \/ Complete \/ Restore \/ UNCHANGED <<topic, ckpt>>
  BY DEF Next, vars, sinks, Undecodable, Read, EmitWatermark, FireNothing, Fire,
         FireRetried, FireFails, Crash, JobFails, Barrier, Decline
<1> QED
  BY <1>1, <1>2, <1>3, <1>4, <1>5

\* ExactlyOnce, of the records of one branch.
Publishes(b) ==
    \E n \in 1..Len(RecordsOf(b, topic)') :
        LET batch == SubSeq(RecordsOf(b, topic)', n, Len(RecordsOf(b, topic)'))
        IN  /\ RecordsOf(b, topic) = SubSeq(RecordsOf(b, topic)', 1, n - 1)
            /\ Apart(batch)
            /\ ItemsIn(batch) \cap (ItemsIn(RecordsOf(b, topic)) \cup Lost(ckpt.job, b)) = {}
            /\ ItemsIn(batch) \subseteq AllItems
            /\ Lost(ckpt.job, b)' = Lost(ckpt.job, b)

GivesUp(b) ==
    /\ Lost(ckpt.job, b) \subseteq Lost(ckpt.job, b)'
    /\ Lost(ckpt.job, b)' \subseteq AllItems \ ItemsIn(RecordsOf(b, topic))
    /\ RecordsOf(b, topic)' = RecordsOf(b, topic)

Stutters(b) ==
    /\ Lost(ckpt.job, b)' = Lost(ckpt.job, b)
    /\ RecordsOf(b, topic)' = RecordsOf(b, topic)

LEMMA InitImplements ==
    ASSUME Init, NEW b \in Branches
    PROVE  RecordsOf(b, topic) = <<>> /\ Lost(ckpt.job, b) = {}
<1>1. topic = <<>> /\ ckpt.job = EmptyJob
  BY DEF Init
<1>2. RecordsOf(b, <<>>) = <<>>
  BY DEF RecordsOf
<1>3. Lost(EmptyJob, b) = {}
  BY DEF Lost, EmptyJob
<1> QED
  BY <1>1, <1>2, <1>3

LEMMA StepImplements ==
    ASSUME IInv, [Next]_vars, NEW b \in Branches
    PROVE  Publishes(b) \/ GivesUp(b) \/ Stutters(b)
<1>1. IInv' /\ log' = log
  <2>1. IInv'
    BY NextLineages
  <2>2. log' = log
    BY LogKept
  <2> QED
    BY <2>1, <2>2
<1>2. Spans' = Spans
  BY <1>1, SameTypes
<1>3. /\ TypeInv /\ ckpt.job \in JobState /\ topic \in Output /\ ckpt.records \in Output
      /\ Lineage(Covered, ckpt.job)
  BY StartTyped DEF IInv, Lineages
<1>4. PICK old, new, top : old = ckpt.job /\ new = ckpt'.job /\ top = topic'
  OBVIOUS
<1>5. RecordsOf(b, topic)' = RecordsOf(b, top)
  BY <1>4 DEF RecordsOf, ItemsFor
<1>6. Lost(ckpt.job, b)' = Lost(new, b) /\ Lost(ckpt.job, b) = Lost(old, b)
  BY <1>2, <1>4 DEF Lost
<1>7. Lost(old, b) = Gone(old, b)
  BY <1>3, <1>4, LostIsGone
<1>8. CASE topic' = topic /\ ckpt'.job = ckpt.job
  BY <1>4, <1>5, <1>6, <1>8 DEF Stutters
<1>9. CASE topic' = topic \o ckpt.records /\ ckpt'.job = ckpt.job
  <2>1. new = old
    BY <1>4, <1>9
  <2>2. CASE ckpt.records = <<>>
    <3>1. topic \o ckpt.records = topic
      BY <1>3, <2>2, RecordFacts
    <3> QED
      BY <1>4, <1>5, <1>6, <1>9, <2>1, <3>1 DEF Stutters
  <2>3. CASE ckpt.records # <<>>
    <3>1. top = topic \o ckpt.records /\ Lineage(topic \o ckpt.records, old)
      BY <1>3, <1>4, <1>9 DEF Covered
    <3>2. PICK P, Q : P = RecordsOf(b, topic) /\ Q = RecordsOf(b, topic \o ckpt.records)
      OBVIOUS
    <3>3. \E n \in 1..Len(Q) :
             LET batch == SubSeq(Q, n, Len(Q))
             IN  /\ P = SubSeq(Q, 1, n - 1)
                 /\ Apart(batch)
                 /\ ItemsIn(batch) \cap (ItemsIn(P) \cup Gone(old, b)) = {}
                 /\ ItemsIn(batch) \subseteq AllItems
      BY <1>3, <2>3, <3>1, <3>2, CommitPublishes
    <3>4. RecordsOf(b, topic)' = Q /\ RecordsOf(b, topic) = P
      BY <1>5, <3>1, <3>2
    <3>5. Lost(ckpt.job, b)' = Gone(old, b) /\ Lost(ckpt.job, b) = Gone(old, b)
      BY <1>6, <1>7, <2>1
    <3> QED
      BY <3>3, <3>4, <3>5 DEF Publishes
  <2> QED
    BY <2>2, <2>3
<1>10. CASE topic' = topic /\ GoneGrows(ckpt.job, ckpt'.job)
  <2>1. top = topic /\ GoneGrows(old, new)
    BY <1>4, <1>10
  <2>2. new \in JobState
    <3>1. ckpt' \in [job : JobState, records : Output]
      <4>1. (ckpt \in [job : JobState, records : Output])'
        BY <1>1 DEF IInv, TypeInv, TypeOK
      <4> QED
        BY <1>1, <4>1, SameTypes
    <3> QED
      BY <1>4, <3>1
  <2>3. Lost(new, b) = Gone(new, b)
    BY <1>3, <2>2, LostIsGone
  <2>4. PICK more \in Output : more = ckpt'.records
    <3>1. (ckpt \in [job : JobState, records : Output])'
      BY <1>1 DEF IInv, TypeInv, TypeOK
    <3> QED
      BY <1>1, <3>1, SameTypes
  <2>5. Lineage(topic \o more, new)
    <3>1. Lineage(Covered, ckpt.job)'
      BY <1>1 DEF IInv, Lineages
    <3>2. Covered' = topic \o more
      BY <2>1, <2>4, <1>4 DEF Covered
    <3> QED
      BY <1>4, <3>1, <3>2
  <2>6. Gone(new, b) \subseteq AllItems
    <3>1. new.bad \subseteq AllItems
      BY <1>3, <2>2, JobFacts, SpansAreItems DEF TypeInv
    <3> QED
      BY <3>1 DEF Gone
  <2>7. ASSUME NEW s \in Gone(new, b), s \in ItemsIn(RecordsOf(b, topic))
        PROVE  FALSE
    <3>1. /\ DOMAIN RecordsOf(b, topic) = DOMAIN topic
          /\ \A i \in DOMAIN topic : RecordsOf(b, topic)[i] = ItemsFor(b, topic[i])
      BY <1>3, ItemsTyped
    <3>2. PICK i \in DOMAIN topic : s \in ItemsFor(b, topic[i])
      BY <2>7, <3>1 DEF ItemsIn
    <3>3. i \in DOMAIN (topic \o more) /\ (topic \o more)[i] = topic[i]
      <4>1. topic \in Seq(Record) /\ more \in Seq(Record)
        BY <1>3, <2>4, OutputFacts
      <4> QED
        BY <4>1
    <3>4. Holds(b, topic \o more, i, s)
      BY <3>2, <3>3 DEF Holds
    <3>5. Once(topic \o more, new, s)
      BY <2>5, <2>6, <2>7 DEF Lineage, LineageOf
    <3> QED
      BY <2>7, <3>4, <3>5 DEF Once
  <2>8. Lost(new, b) \subseteq AllItems \ ItemsIn(RecordsOf(b, topic))
    BY <2>3, <2>6, <2>7
  <2>9. Lost(old, b) \subseteq Lost(new, b)
    BY <1>7, <2>1, <2>3 DEF GoneGrows
  <2> QED
    BY <1>5, <1>6, <2>1, <2>8, <2>9 DEF GivesUp
<1> QED
  BY <1>8, <1>9, <1>10, CheckpointSteps

\* Whatever happens to the job, aggregated-metrics counts every span at most once, and none
\* that was given up.
THEOREM AggregatesExactlyOnce == Spec => EachSpanCountedOnce
<1>1. Init => IInv
  BY InitTyped, InitLineages DEF IInv
<1>2. IInv /\ [Next]_vars => IInv'
  BY NextLineages
<1>3. Init => Aggregates!Init
  BY InitImplements, BranchFacts DEF Aggregates!Init
<1>4. IInv /\ [Next]_vars => [Aggregates!Next]_(Aggregates!vars)
  <2>1. SUFFICES ASSUME IInv, [Next]_vars
                 PROVE  Aggregates!Next \/ UNCHANGED Aggregates!vars
    OBVIOUS
  <2>2. Publishes("tumbling") \/ GivesUp("tumbling") \/ Stutters("tumbling")
    BY <2>1, StepImplements, BranchFacts
  <2>3. CASE Publishes("tumbling")
    BY <2>3 DEF Publishes, Apart, ItemsIn, Aggregates!Next, Aggregates!Publish,
                Aggregates!Disjoint, Aggregates!ItemsOf
  <2>4. CASE GivesUp("tumbling")
    BY <2>4 DEF GivesUp, ItemsIn, Aggregates!Next, Aggregates!GiveUp, Aggregates!ItemsOf
  <2>5. CASE Stutters("tumbling")
    BY <2>5 DEF Stutters, Aggregates!vars
  <2> QED
    BY <2>2, <2>3, <2>4, <2>5
<1> QED
  BY <1>1, <1>2, <1>3, <1>4, PTL DEF Spec, EachSpanCountedOnce, Aggregates!Spec

\* The same for anomaly-events: no span is reported by two anomalies.
THEOREM AnomaliesExactlyOnce == Spec => EachSpanReportedOnce
<1>1. Init => IInv
  BY InitTyped, InitLineages DEF IInv
<1>2. IInv /\ [Next]_vars => IInv'
  BY NextLineages
<1>3. Init => Anomalies!Init
  BY InitImplements, BranchFacts DEF Anomalies!Init
<1>4. IInv /\ [Next]_vars => [Anomalies!Next]_(Anomalies!vars)
  <2>1. SUFFICES ASSUME IInv, [Next]_vars
                 PROVE  Anomalies!Next \/ UNCHANGED Anomalies!vars
    OBVIOUS
  <2>2. Publishes("sliding") \/ GivesUp("sliding") \/ Stutters("sliding")
    BY <2>1, StepImplements, BranchFacts
  <2>3. CASE Publishes("sliding")
    BY <2>3 DEF Publishes, Apart, ItemsIn, Anomalies!Next, Anomalies!Publish,
                Anomalies!Disjoint, Anomalies!ItemsOf
  <2>4. CASE GivesUp("sliding")
    BY <2>4 DEF GivesUp, ItemsIn, Anomalies!Next, Anomalies!GiveUp, Anomalies!ItemsOf
  <2>5. CASE Stutters("sliding")
    BY <2>5 DEF Stutters, Anomalies!vars
  <2> QED
    BY <2>2, <2>3, <2>4, <2>5
<1> QED
  BY <1>1, <1>2, <1>3, <1>4, PTL DEF Spec, EachSpanReportedOnce, Anomalies!Spec

----------------------------------------------------------------------------
(* What is in the database.  As above, of any contents, tables and records. *)

\* A time and a reading are those the record says, or its time of arrival.
Tells(contents, time, reading, s) ==
    /\ reading = contents[s[1]][s[2]].reading
    /\ contents[s[1]][s[2]].at # NoTime => time = contents[s[1]][s[2]].at

Faithful(contents, st) ==
    \A w \in Windows : \A i \in DOMAIN st.panes[w] :
        Tells(contents, st.panes[w][i].at, st.panes[w][i].reading, st.panes[w][i].span)

\* The side effect of a record is there: its anomaly's row, or a row of its window.
IsStored(contents, table, ids, r) ==
    IF r.win.branch = "sliding"
    THEN \E id \in ids : \E s \in r.spans : Tells(contents, id[1], id[2], s)
    ELSE table[r.win] # <<>>

Stored(contents, table, ids, R) == \A i \in DOMAIN R : IsStored(contents, table, ids, R[i])

\* The row of a window is the one that was published.
IsExact(table, r) == r.win.branch # "sliding" => table[r.win] = <<r.spans>>

Exact(table, R) == \A i \in DOMAIN R : IsExact(table, R[i])

\* A closed window takes no more: it stays empty once it has fired.
Finished(st, mark, w) == Closed(w, mark) /\ st.panes[w] = <<>>

FiredOnce(R, st, mark) ==
    /\ \A i \in DOMAIN R : Finished(st, mark, R[i].win)
    /\ \A i, j \in DOMAIN R : R[i].win = R[j].win => i = j

\* The row of a window that has not fired yet was written by an attempt that failed, or by
\* one that will be made again; it is what the window will publish.
Foretold(table, st, mark) ==
    \A w \in TumblingWindows :
        table[w] # <<>> => /\ Closed(w, mark)
                           /\ st.panes[w] # <<>> => table[w] = <<SpansIn(st.panes[w])>>

SnapshotsFaithful ==
    /\ Faithful(log, job) /\ Faithful(log, ckpt.job)
    /\ snap # NoSnapshot => Faithful(log, snap.job)

SinkInv ==
    /\ SnapshotsFaithful
    /\ Stored(log, rows, events, Everything)
    /\ restarts = 0 => FiredOnce(Everything, job, worker.watermark)
    /\ indexed /\ restarts = 0 => /\ Foretold(rows, job, worker.watermark)
                                  /\ Exact(rows, Everything)

LEMMA InitSinks == Init => SinkInv
<1>1. SUFFICES ASSUME Init PROVE SinkInv
  OBVIOUS
<1>2. topic = <<>> /\ held = <<>> /\ txn = <<>> /\ ckpt.records = <<>> /\ snap = NoSnapshot
      /\ job = EmptyJob /\ ckpt.job = EmptyJob /\ rows = [w \in TumblingWindows |-> <<>>]
  BY <1>1 DEF Init
<1>3. <<>> \in Output /\ <<>> \o <<>> = <<>>
  BY RecordFacts, OutputFacts
<1>4. Everything = <<>>
  BY <1>2, <1>3 DEF Everything
<1>5. Faithful(log, EmptyJob)
  BY DEF Faithful, EmptyJob
<1>6. SnapshotsFaithful
  BY <1>2, <1>5 DEF SnapshotsFaithful
<1>7. Stored(log, rows, events, <<>>) /\ FiredOnce(<<>>, job, worker.watermark) /\ Exact(rows, <<>>)
  BY DEF Stored, FiredOnce, Exact
<1>8. Foretold(rows, job, worker.watermark)
  BY <1>2 DEF Foretold
<1> QED
  BY <1>4, <1>6, <1>7, <1>8 DEF SinkInv

\* Of records that begin as others do.
LEMMA PrefixFacts ==
    ASSUME NEW R \in Output, NEW C \in Output
    PROVE  /\ DOMAIN R \subseteq DOMAIN (R \o C)
           /\ \A i \in DOMAIN R : (R \o C)[i] = R[i]
<1>1. R \in Seq(Record) /\ C \in Seq(Record)
  BY OutputFacts
<1> QED
  BY <1>1

LEMMA AppendFacts ==
    ASSUME NEW R \in Output, NEW r \in Record, NEW Q, Q = Append(R, r)
    PROVE  /\ DOMAIN Q = DOMAIN R \cup {Len(R) + 1} /\ Len(R) + 1 \notin DOMAIN R
           /\ Q[Len(R) + 1] = r /\ \A i \in DOMAIN R : Q[i] = R[i]
<1>1. R \in Seq(Record)
  BY OutputFacts
<1>2. /\ DOMAIN R = 1..Len(R) /\ Len(R) \in Nat
      /\ DOMAIN Q = DOMAIN R \cup {Len(R) + 1}
      /\ Q[Len(R) + 1] = r
      /\ \A i \in DOMAIN R : Q[i] = R[i]
  BY <1>1
<1>3. Len(R) + 1 \notin DOMAIN R
  BY <1>2
<1> QED
  BY <1>2, <1>3

LEMMA RecordWindows ==
    ASSUME NEW R \in Output, NEW i \in DOMAIN R
    PROVE  /\ R[i] \in Record /\ R[i].win \in Windows
           /\ R[i].win.branch # "sliding" => R[i].win \in TumblingWindows
<1>1. R[i] \in Record
  BY OutputFacts
<1>2. R[i].win \in Windows
  BY <1>1 DEF Record
<1> QED
  BY <1>1, <1>2, BranchFacts

\* Everything begins with what is covered, and that with the topic.
LEMMA CoveredFirst ==
    ASSUME TypeInv
    PROVE  /\ DOMAIN topic \subseteq DOMAIN Covered /\ DOMAIN Covered \subseteq DOMAIN Everything
           /\ \A i \in DOMAIN topic : Covered[i] = topic[i]
           /\ \A i \in DOMAIN Covered : Everything[i] = Covered[i]
<1>1. /\ topic \in Output /\ ckpt.records \in Output /\ held \in Output /\ txn \in Output
      /\ Covered \in Output /\ Covered \o held \in Output
      /\ Everything = (Covered \o held) \o txn
  BY WrittenTyped
<1>2. /\ DOMAIN topic \subseteq DOMAIN Covered
      /\ \A i \in DOMAIN topic : Covered[i] = topic[i]
  BY <1>1, PrefixFacts DEF Covered
<1>3. PICK C \in Output : C = Covered \o held
  BY <1>1
<1>4. DOMAIN Covered \subseteq DOMAIN C /\ \A i \in DOMAIN Covered : C[i] = Covered[i]
  BY <1>1, <1>3, PrefixFacts
<1>5. DOMAIN C \subseteq DOMAIN Everything /\ \A i \in DOMAIN C : Everything[i] = C[i]
  BY <1>1, <1>3, PrefixFacts
<1> QED
  BY <1>2, <1>4, <1>5

\* What an attempt to write a result does to the tables, whether it fails or not.
Writes ==
    /\ Firing
    /\ StoreResult \/ UNCHANGED <<rows, events>>

LEMMA WriteFacts ==
    ASSUME TypeInv, Writes
    PROVE  /\ events \subseteq events'
           /\ \A w \in TumblingWindows : rows[w] # <<>> => rows'[w] # <<>>
           /\ \A w \in TumblingWindows : w # NextDue => rows'[w] = rows[w]
<1>1. rows \in [TumblingWindows -> Seq(SUBSET Spans)]
  BY StartTyped
<1>2. CASE UNCHANGED <<rows, events>>
  BY <1>2
<1>3. CASE StoreResult /\ NextDue.branch # "tumbling"
  BY <1>3 DEF StoreResult
<1>4. CASE StoreResult /\ NextDue.branch = "tumbling"
  <2>1. PICK v \in TumblingWindows : v = NextDue
    BY <1>4, FiringFacts, WindowFacts DEF Writes
  <2>2. PICK longer : longer = Append(rows[v], SpansIn(Elements))
    OBVIOUS
  <2>3. longer # <<>>
    <3>1. SpansIn(Elements) \in SUBSET Spans /\ rows[v] \in Seq(SUBSET Spans)
      BY <1>1, <2>1, FiringFacts DEF Writes
    <3> QED
      BY <2>2, <3>1
  <2>4. events' = events /\ (rows' = rows \/ rows' = [rows EXCEPT ![v] = longer])
    BY <1>4, <2>1, <2>2 DEF StoreResult
  <2> QED
    BY <1>1, <2>1, <2>3, <2>4
<1> QED
  BY <1>2, <1>3, <1>4 DEF Writes

LEMMA WriteKeepsStored ==
    ASSUME TypeInv, Writes, NEW contents, NEW R \in Output, Stored(contents, rows, events, R)
    PROVE  Stored(contents, rows', events', R)
<1>1. SUFFICES ASSUME NEW i \in DOMAIN R
               PROVE  IsStored(contents, rows', events', R[i])
  BY DEF Stored
<1>2. IsStored(contents, rows, events, R[i])
  BY DEF Stored
<1>3. CASE R[i].win.branch = "sliding"
  BY <1>2, <1>3, WriteFacts DEF IsStored
<1>4. CASE R[i].win.branch # "sliding"
  BY <1>2, <1>4, RecordWindows, WriteFacts DEF IsStored
<1> QED
  BY <1>3, <1>4

\* A record of a window that is finished is not of the one that fires.
LEMMA FinishedIsNotDue ==
    ASSUME TypeInv, Firing, NEW mark, NEW w, Finished(job, mark, w)
    PROVE  w # NextDue
  BY FiringFacts DEF Finished

LEMMA WriteKeepsExact ==
    ASSUME TypeInv, Writes, NEW R \in Output, NEW mark, FiredOnce(R, job, mark), Exact(rows, R)
    PROVE  Exact(rows', R)
<1>1. SUFFICES ASSUME NEW i \in DOMAIN R, R[i].win.branch # "sliding"
               PROVE  rows'[R[i].win] = <<R[i].spans>>
  BY DEF Exact, IsExact
<1>2. R[i].win # NextDue
  BY FinishedIsNotDue DEF FiredOnce, Writes
<1>3. R[i].win \in TumblingWindows
  BY <1>1, RecordWindows
<1>4. rows[R[i].win] = <<R[i].spans>>
  BY <1>1 DEF Exact, IsExact
<1> QED
  BY <1>2, <1>3, <1>4, WriteFacts

\* With the index, whatever the attempts before it did, a write leaves the row of the window's
\* elements.
LEMMA WriteForetold ==
    ASSUME TypeInv, Writes, indexed, Foretold(rows, job, worker.watermark)
    PROVE  /\ Foretold(rows', job, worker.watermark)
           /\ StoreResult /\ NextDue.branch = "tumbling" => rows'[NextDue] = <<SpansIn(Elements)>>
<1>1. rows \in [TumblingWindows -> Seq(SUBSET Spans)]
  BY StartTyped
<1>2. /\ Closed(NextDue, worker.watermark) /\ Elements = job.panes[NextDue]
      /\ Elements # <<>> /\ NextDue \in Windows
  BY FiringFacts DEF Writes, Due
<1>3. ASSUME NextDue.branch = "tumbling"
      PROVE  /\ rows'[NextDue] \in {rows[NextDue], <<SpansIn(Elements)>>}
             /\ StoreResult => rows'[NextDue] = <<SpansIn(Elements)>>
             /\ rows[NextDue] # <<>> => rows[NextDue] = <<SpansIn(Elements)>>
  <2>1. PICK v \in TumblingWindows : v = NextDue
    BY <1>2, <1>3, WindowFacts
  <2>2. PICK set : set = SpansIn(Elements)
    OBVIOUS
  <2>3. rows[v] # <<>> => rows[v] = <<set>>
    BY <1>2, <2>1, <2>2 DEF Foretold
  <2>4. rows[v] = <<>> => Append(rows[v], set) = <<set>>
    OBVIOUS
  <2>5. StoreResult => rows'[v] = <<set>>
    <3>1. StoreResult => rows' = IF rows[v] # <<>> THEN rows
                                 ELSE [rows EXCEPT ![v] = Append(rows[v], set)]
      BY <1>3, <2>1, <2>2 DEF StoreResult
    <3> QED
      BY <1>1, <2>3, <2>4, <3>1
  <2>6. rows'[v] = rows[v] \/ rows'[v] = <<set>>
    BY <2>5 DEF Writes
  <2> QED
    BY <2>1, <2>2, <2>3, <2>5, <2>6
<1>4. ASSUME NEW w \in TumblingWindows, rows'[w] # <<>>
      PROVE  /\ Closed(w, worker.watermark)
             /\ job.panes[w] # <<>> => rows'[w] = <<SpansIn(job.panes[w])>>
  <2>1. CASE w = NextDue
    <3>1. NextDue.branch = "tumbling"
      BY <2>1, BranchFacts
    <3> QED
      BY <1>2, <1>3, <1>4, <2>1, <3>1
  <2>2. CASE w # NextDue
    <3>1. rows'[w] = rows[w]
      BY <2>2, WriteFacts
    <3> QED
      BY <1>4, <3>1 DEF Foretold
  <2> QED
    BY <2>1, <2>2
<1> QED
  BY <1>3, <1>4 DEF Foretold

\* What was closed stays closed, and the panes of closed windows take nothing.
Settles(st, mark, new, later) ==
    \A w \in Windows : Closed(w, mark) => /\ Closed(w, later)
                                          /\ new.panes[w] \in {st.panes[w], <<>>}

LEMMA FiredOnceSettles ==
    ASSUME NEW R \in Output, NEW st, NEW mark, NEW new, NEW later,
           FiredOnce(R, st, mark), Settles(st, mark, new, later)
    PROVE  FiredOnce(R, new, later)
<1>1. ASSUME NEW i \in DOMAIN R PROVE Finished(new, later, R[i].win)
  BY RecordWindows DEF FiredOnce, Finished, Settles
<1> QED
  BY <1>1 DEF FiredOnce

LEMMA ForetoldSettles ==
    ASSUME NEW table, NEW st, NEW mark, NEW new, NEW later,
           Foretold(table, st, mark), Settles(st, mark, new, later)
    PROVE  Foretold(table, new, later)
<1>1. ASSUME NEW w \in TumblingWindows, table[w] # <<>>
      PROVE  /\ Closed(w, later)
             /\ new.panes[w] # <<>> => table[w] = <<SpansIn(new.panes[w])>>
  <2>1. Closed(w, mark) /\ (st.panes[w] # <<>> => table[w] = <<SpansIn(st.panes[w])>>)
    BY <1>1 DEF Foretold
  <2>2. Closed(w, later) /\ new.panes[w] \in {st.panes[w], <<>>}
    BY <2>1, BranchFacts DEF Settles
  <2> QED
    BY <2>1, <2>2
<1> QED
  BY <1>1 DEF Foretold

\* A step that writes nothing and restores nothing.
LEMMA SettledSinks ==
    ASSUME IInv, SinkInv, UNCHANGED <<log, rows, events, indexed, restarts>>,
           Everything' = Everything, SnapshotsFaithful',
           Settles(job, worker.watermark, job', worker'.watermark)
    PROVE  SinkInv'
<1>1. PICK new, later : new = job' /\ later = worker'.watermark
  OBVIOUS
<1>2. Everything \in Output /\ Settles(job, worker.watermark, new, later)
  BY <1>1, WrittenTyped DEF IInv
<1>3. restarts = 0 => FiredOnce(Everything, new, later)
  BY <1>2, FiredOnceSettles DEF SinkInv
<1>4. indexed /\ restarts = 0 => Foretold(rows, new, later)
  BY <1>2, ForetoldSettles DEF SinkInv
<1> QED
  BY <1>1, <1>3, <1>4 DEF SinkInv

\* One that leaves the panes and the watermark alone as well.
LEMMA SameSettles == Settles(job, worker.watermark, job, worker.watermark)
  BY DEF Settles

LEMMA UndecodableSinks ==
    ASSUME IInv, SinkInv, NEW p \in Partitions, Undecodable(p)
    PROVE  SinkInv'
<1>1. PICK new : new = job'
  OBVIOUS
<1>2. job \in JobState
  BY StartTyped DEF IInv
<1>3. new = [job EXCEPT !.pos[p] = @ + 1, !.bad = @ \cup {NextSpan(p)}]
  BY <1>1 DEF Undecodable
<1>4. new.panes = job.panes
  BY <1>2, <1>3 DEF JobState
<1>5. Faithful(log, new) /\ Settles(job, worker.watermark, new, worker.watermark)
  BY <1>4 DEF SinkInv, SnapshotsFaithful, Faithful, Settles
<1>6. Everything' = Everything /\ UNCHANGED <<log, rows, events, indexed, restarts, worker, snap, ckpt>>
  BY DEF Undecodable, sinks, stores, Everything
<1>7. SnapshotsFaithful'
  BY <1>1, <1>5, <1>6 DEF SinkInv, SnapshotsFaithful
<1> QED
  BY <1>1, <1>5, <1>6, <1>7, SettledSinks

LEMMA ReadSinks ==
    ASSUME IInv, SinkInv, NEW p \in Partitions, Read(p)
    PROVE  SinkInv'
<1>1. PICK new, r : new = job' /\ r = RecordOf(NextSpan(p))
  OBVIOUS
<1>2. job \in JobState /\ worker \in WorkerState /\ Faithful(log, job)
  BY StartTyped DEF IInv, SinkInv, SnapshotsFaithful
<1>3. PICK time \in Times :
         /\ r.at # NoTime => time = r.at
         /\ new = [job EXCEPT !.pos[p] = @ + 1,
                     !.panes = Add([span |-> NextSpan(p), at |-> time, reading |-> r.reading]),
                     !.late = @ \cup {<<b, NextSpan(p)>> : b \in LateFor(time)}]
         /\ worker' = [worker EXCEPT !.maxTime = IF time > @ THEN time ELSE @,
                                     !.schema = @ \/ r.format = "avro"]
  BY <1>1 DEF Read
<1>4. PICK e : e = [span |-> NextSpan(p), at |-> time, reading |-> r.reading]
  OBVIOUS
<1>5. new.panes = Add(e) /\ worker'.watermark = worker.watermark
  BY <1>2, <1>3, <1>4 DEF JobState, WorkerState
<1>6. Tells(log, e.at, e.reading, e.span)
  BY <1>1, <1>3, <1>4 DEF Tells, RecordOf
<1>7. \A w \in Windows : /\ new.panes[w] \in {job.panes[w], Append(job.panes[w], e)}
                         /\ Closed(w, worker.watermark) => new.panes[w] = job.panes[w]
  BY <1>5 DEF Add
<1>8. Settles(job, worker.watermark, new, worker'.watermark)
  BY <1>5, <1>7 DEF Settles
<1>9. Faithful(log, new)
  <2>1. SUFFICES ASSUME NEW w \in Windows, NEW i \in DOMAIN new.panes[w]
                 PROVE  Tells(log, new.panes[w][i].at, new.panes[w][i].reading,
                                   new.panes[w][i].span)
    BY DEF Faithful
  <2>2. PICK old \in Seq(Pane) : old = job.panes[w]
    BY <1>2, JobFacts
  <2>3. \A j \in DOMAIN old : Tells(log, old[j].at, old[j].reading, old[j].span)
    BY <1>2, <2>2 DEF Faithful
  <2>4. (i \in DOMAIN old /\ new.panes[w][i] = old[i]) \/ new.panes[w][i] = e
    <3>1. PICK longer : longer = Append(old, e)
      OBVIOUS
    <3>2. /\ DOMAIN longer = DOMAIN old \cup {Len(old) + 1}
          /\ longer[Len(old) + 1] = e
          /\ \A j \in DOMAIN old : longer[j] = old[j]
      BY <3>1
    <3>3. new.panes[w] = old \/ new.panes[w] = longer
      BY <1>7, <2>2, <3>1
    <3>4. i \in DOMAIN new.panes[w]
      BY <2>1
    <3> QED
      BY <3>2, <3>3, <3>4
  <2> QED
    BY <1>6, <2>3, <2>4
<1>10. Everything' = Everything /\ UNCHANGED <<log, rows, events, indexed, restarts, snap, ckpt>>
  BY DEF Read, sinks, stores, Everything
<1>11. SnapshotsFaithful'
  BY <1>1, <1>9, <1>10 DEF SinkInv, SnapshotsFaithful
<1> QED
  BY <1>1, <1>8, <1>10, <1>11, SettledSinks

LEMMA EmitWatermarkSinks ==
    ASSUME IInv, SinkInv, EmitWatermark
    PROVE  SinkInv'
<1>1. worker \in WorkerState /\ worker' \in WorkerState
  <2>1. TypeInv'
    BY NextTyped DEF IInv, Next
  <2> QED
    BY <2>1, StartTyped DEF IInv, TypeInv, TypeOK, WorkerState
<1>2. worker'.watermark > worker.watermark
  BY <1>1 DEF EmitWatermark, WorkerState
<1>3. PICK mark \in Int, later \in Int : mark = worker.watermark /\ later = worker'.watermark
  BY <1>1 DEF WorkerState
<1>4. \A w \in Windows : Closed(w, mark) => Closed(w, later)
  BY <1>2, <1>3, WindowFacts DEF Closed
<1>5. Settles(job, mark, job, later)
  BY <1>4 DEF Settles
<1>6. Everything' = Everything /\ UNCHANGED <<log, rows, events, indexed, restarts, job, snap, ckpt>>
  BY DEF EmitWatermark, sinks, stores, Everything
<1>7. SnapshotsFaithful'
  BY <1>6 DEF SinkInv, SnapshotsFaithful
<1> QED
  BY <1>3, <1>5, <1>6, <1>7, SettledSinks

\* The window that fires is empty afterwards, and no other changes.
LEMMA PurgeFacts ==
    ASSUME TypeInv, Firing, NEW new, new = Purged
    PROVE  /\ new.panes[NextDue] = <<>>
           /\ Settles(job, worker.watermark, new, worker.watermark)
           /\ Faithful(log, job) => Faithful(log, new)
<1>1. /\ new.panes = [job.panes EXCEPT ![NextDue] = <<>>]
      /\ job.panes \in [Windows -> Seq(Pane)] /\ NextDue \in Windows
  BY PurgedTyped, FiringFacts, StartTyped, JobFacts
<1>2. \A w \in Windows : new.panes[w] = IF w = NextDue THEN <<>> ELSE job.panes[w]
  BY <1>1
<1>3. new.panes[NextDue] = <<>> /\ Settles(job, worker.watermark, new, worker.watermark)
  BY <1>1, <1>2 DEF Settles
<1>4. ASSUME Faithful(log, job) PROVE Faithful(log, new)
  <2>1. SUFFICES ASSUME NEW w \in Windows, NEW i \in DOMAIN new.panes[w]
                 PROVE  Tells(log, new.panes[w][i].at, new.panes[w][i].reading,
                                   new.panes[w][i].span)
    BY DEF Faithful
  <2>2. new.panes[w] = job.panes[w]
    <3>1. w = NextDue => DOMAIN new.panes[w] = {}
      BY <1>3
    <3> QED
      BY <1>2, <2>1, <3>1
  <2> QED
    BY <1>4, <2>1, <2>2 DEF Faithful
<1> QED
  BY <1>3, <1>4

LEMMA FireNothingSinks ==
    ASSUME IInv, SinkInv, FireNothing
    PROVE  SinkInv'
<1>1. PICK new : new = Purged /\ new = job'
  BY DEF FireNothing
<1>2. TypeInv /\ Firing /\ Faithful(log, job)
  BY DEF IInv, SinkInv, SnapshotsFaithful, FireNothing
<1>3. Faithful(log, new) /\ Settles(job, worker.watermark, new, worker.watermark)
  BY <1>1, <1>2, PurgeFacts
<1>4. Everything' = Everything /\ UNCHANGED <<log, rows, events, indexed, restarts, worker, snap, ckpt>>
  BY DEF FireNothing, sinks, stores, Everything
<1>5. SnapshotsFaithful'
  BY <1>1, <1>3, <1>4 DEF SinkInv, SnapshotsFaithful
<1> QED
  BY <1>1, <1>3, <1>4, <1>5, SettledSinks

\* The result that is written now is stored.
LEMMA ResultIsStored ==
    ASSUME TypeInv, Faithful(log, job), Firing, StoreResult
    PROVE  IsStored(log, rows', events', Result)
<1>1. Result.win = NextDue /\ NextDue \in Windows
  BY FiringFacts DEF Result
<1>2. CASE NextDue.branch = "tumbling"
  <2>1. rows \in [TumblingWindows -> Seq(SUBSET Spans)]
    BY StartTyped
  <2>2. PICK v \in TumblingWindows : v = NextDue
    BY <1>1, <1>2, WindowFacts
  <2>3. PICK longer : longer = Append(rows[v], SpansIn(Elements))
    OBVIOUS
  <2>4. longer # <<>>
    <3>1. SpansIn(Elements) \in SUBSET Spans /\ rows[v] \in Seq(SUBSET Spans)
      BY <2>1, <2>2, FiringFacts
    <3> QED
      BY <2>3, <3>1
  <2>5. rows' = IF indexed /\ rows[v] # <<>> THEN rows ELSE [rows EXCEPT ![v] = longer]
    BY <1>2, <2>2, <2>3 DEF StoreResult
  <2>6. rows'[v] # <<>>
    BY <2>1, <2>4, <2>5
  <2> QED
    BY <1>1, <1>2, <2>2, <2>6 DEF IsStored
<1>3. CASE NextDue.branch # "tumbling"
  <2>1. PICK e : e = Latest(Elements)
    OBVIOUS
  <2>2. PICK i \in DOMAIN Elements : e = Elements[i]
    BY <2>1, LatestTyped
  <2>3. Tells(log, e.at, e.reading, e.span)
    BY <1>1, <2>2, FiringFacts DEF Faithful
  <2>4. <<e.at, e.reading>> \in events' /\ Result.spans = {e.span}
    BY <1>3, <2>1 DEF StoreResult, AnomalyId, Result
  <2>5. \E id \in events' : \E s \in Result.spans : Tells(log, id[1], id[2], s)
    <3>1. PICK id \in events' : id = <<e.at, e.reading>>
      BY <2>4
    <3>2. id[1] = e.at /\ id[2] = e.reading
      BY <3>1
    <3> QED
      BY <2>3, <2>4, <3>2
  <2>6. NextDue.branch = "sliding"
    BY <1>1, <1>3, BranchFacts
  <2> QED
    BY <1>1, <2>5, <2>6 DEF IsStored
<1> QED
  BY <1>2, <1>3

LEMMA FireSinks ==
    ASSUME IInv, SinkInv, Fire
    PROVE  SinkInv'
<1>1. PICK new : new = Purged /\ new = job'
  BY DEF Fire
<1>2. /\ TypeInv /\ Firing /\ StoreResult /\ Writes /\ Faithful(log, job)
      /\ Everything \in Output
  BY WrittenTyped DEF IInv, SinkInv, SnapshotsFaithful, Fire, Writes
<1>3. PICK r \in Record : r = Result
  BY <1>2, ResultTyped
<1>4. PICK Q : Q = Append(Everything, r)
  OBVIOUS
<1>5. Everything' = Q
  BY <1>2, <1>3, <1>4, FireRecords
<1>6. UNCHANGED <<log, indexed, restarts, snap, ckpt>> /\ worker'.watermark = worker.watermark
  <2>1. worker' = [worker EXCEPT !.tries = 0] /\ worker \in WorkerState
    BY <1>2, StartTyped DEF Fire
  <2> QED
    BY <2>1 DEF Fire, WorkerState
<1>7. /\ new.panes[NextDue] = <<>> /\ Faithful(log, new)
      /\ Settles(job, worker.watermark, new, worker.watermark)
  BY <1>1, <1>2, PurgeFacts
<1>8. /\ DOMAIN Q = DOMAIN Everything \cup {Len(Everything) + 1}
      /\ Q[Len(Everything) + 1] = r /\ \A i \in DOMAIN Everything : Q[i] = Everything[i]
  BY <1>2, <1>4, AppendFacts
<1>9. r.win = NextDue
  BY <1>3 DEF Result
<1>10. SnapshotsFaithful'
  BY <1>1, <1>6, <1>7 DEF SinkInv, SnapshotsFaithful
<1>11. Stored(log, rows', events', Q)
  <2>1. Stored(log, rows', events', Everything)
    BY <1>2, WriteKeepsStored DEF SinkInv
  <2>2. IsStored(log, rows', events', r)
    BY <1>2, <1>3, ResultIsStored
  <2> QED
    BY <1>8, <2>1, <2>2 DEF Stored
<1>12. ASSUME restarts = 0 PROVE FiredOnce(Q, new, worker.watermark)
  <2>1. FiredOnce(Everything, job, worker.watermark)
    BY <1>12 DEF SinkInv
  <2>2. FiredOnce(Everything, new, worker.watermark)
    BY <1>2, <1>7, <2>1, FiredOnceSettles
  <2>3. \A i \in DOMAIN Everything : Everything[i].win # r.win
    BY <1>2, <1>9, <2>1, FinishedIsNotDue DEF FiredOnce
  <2>4. Finished(new, worker.watermark, r.win)
    BY <1>2, <1>7, <1>9, FiringFacts DEF Finished, Due
  <2> QED
    BY <1>8, <2>2, <2>3, <2>4 DEF FiredOnce
<1>13. ASSUME indexed, restarts = 0
       PROVE  Foretold(rows', new, worker.watermark) /\ Exact(rows', Q)
  <2>1. /\ Foretold(rows, job, worker.watermark) /\ Exact(rows, Everything)
        /\ FiredOnce(Everything, job, worker.watermark)
    BY <1>13 DEF SinkInv
  <2>2. /\ Foretold(rows', job, worker.watermark)
        /\ NextDue.branch = "tumbling" => rows'[NextDue] = <<SpansIn(Elements)>>
    BY <1>2, <1>13, <2>1, WriteForetold
  <2>3. Foretold(rows', new, worker.watermark)
    BY <1>7, <2>2, ForetoldSettles
  <2>4. Exact(rows', Everything)
    BY <1>2, <2>1, WriteKeepsExact
  <2>5. IsExact(rows', r)
    <3>1. ASSUME r.win.branch # "sliding" PROVE rows'[r.win] = <<r.spans>>
      <4>1. NextDue.branch = "tumbling"
        BY <1>2, <1>9, <3>1, FiringFacts, BranchFacts
      <4>2. r.spans = SpansIn(Elements)
        BY <1>3, <4>1 DEF Result
      <4> QED
        BY <1>9, <2>2, <4>1, <4>2
    <3> QED
      BY <3>1 DEF IsExact
  <2>6. Exact(rows', Q)
    BY <1>8, <2>4, <2>5 DEF Exact
  <2> QED
    BY <2>3, <2>6
<1> QED
  BY <1>1, <1>5, <1>6, <1>10, <1>11, <1>12, <1>13 DEF SinkInv

\* An attempt that fails may have written all the same.
LEMMA FailedAttemptSinks ==
    ASSUME IInv, SinkInv, Writes, UNCHANGED <<log, job, indexed, sinks, restarts>>,
           worker'.watermark = worker.watermark
    PROVE  SinkInv'
<1>1. TypeInv /\ Everything \in Output
  BY WrittenTyped DEF IInv
<1>2. Everything' = Everything /\ snap' = snap /\ ckpt' = ckpt
  BY DEF sinks, Everything
<1>3. SnapshotsFaithful'
  BY <1>2 DEF SinkInv, SnapshotsFaithful
<1>4. Stored(log, rows', events', Everything)
  BY <1>1, WriteKeepsStored DEF SinkInv
<1>5. indexed /\ restarts = 0 => /\ Foretold(rows', job, worker.watermark)
                                 /\ Exact(rows', Everything)
  BY <1>1, WriteForetold, WriteKeepsExact DEF SinkInv
<1> QED
  BY <1>2, <1>3, <1>4, <1>5 DEF SinkInv

\* After a restart there is no more to say of the rows than that they are there.
LEMMA RestoreSinks ==
    ASSUME IInv, SinkInv, Restore, UNCHANGED <<log, indexed>>,
           Writes \/ UNCHANGED <<rows, events>>
    PROVE  SinkInv'
<1>1. TypeInv /\ Everything \in Output
  BY WrittenTyped DEF IInv
<1>2. /\ job' = ckpt.job /\ ckpt'.job = ckpt.job /\ snap' = NoSnapshot
      /\ Everything' = Covered
  BY <1>1, TakeBackFacts, RestoreRecords DEF Restore
<1>3. SnapshotsFaithful'
  BY <1>2 DEF SinkInv, SnapshotsFaithful
<1>4. Stored(log, rows', events', Everything)
  BY <1>1, WriteKeepsStored DEF SinkInv
<1>5. Stored(log, rows', events', Covered)
  BY <1>1, <1>4, CoveredFirst DEF Stored
<1>6. restarts' # 0
  <2>1. restarts \in 0..RestartAttempts /\ restarts' = restarts + 1
    BY <1>1, StartTyped DEF Restore, TakeBack
  <2> QED
    BY <2>1, FlinkAssumption
<1> QED
  BY <1>2, <1>3, <1>5, <1>6 DEF SinkInv

LEMMA JobFailsSinks ==
    ASSUME IInv, SinkInv, JobFails, UNCHANGED <<log, indexed>>,
           Writes \/ UNCHANGED <<rows, events>>
    PROVE  SinkInv'
<1>1. CASE Restore
  BY <1>1, RestoreSinks
<1>2. CASE ~Restore
  <2>1. UNCHANGED <<job, worker, sinks, restarts>>
    BY <1>2 DEF JobFails
  <2>2. CASE Writes
    BY <2>1, <2>2, FailedAttemptSinks
  <2>3. CASE UNCHANGED <<rows, events>>
    <3>1. Everything' = Everything /\ SnapshotsFaithful'
      BY <2>1 DEF sinks, Everything, SinkInv, SnapshotsFaithful
    <3> QED
      BY <2>1, <2>3, <3>1, SameSettles, SettledSinks
  <2> QED
    BY <2>2, <2>3
<1> QED
  BY <1>1, <1>2

\* A checkpoint under way, completed, declined or committed.
LEMMA CheckpointSinks ==
    ASSUME IInv, SinkInv, Barrier \/ Complete \/ Decline \/ Commit
    PROVE  SinkInv'
<1>1. UNCHANGED <<log, rows, events, indexed, restarts, job, worker>>
  BY DEF Barrier, Complete, Decline, Commit, stores
<1>2. Everything' = Everything
  <2>1. TypeInv
    BY DEF IInv
  <2>2. CASE Decline
    BY <2>2 DEF Decline, Everything
  <2> QED
    BY <2>1, <2>2, BarrierRecords, CompleteRecords, CommitRecords
<1>3. SnapshotsFaithful'
  <2>1. Faithful(log, job) /\ Faithful(log, ckpt.job)
        /\ (snap # NoSnapshot => Faithful(log, snap.job))
    BY DEF SinkInv, SnapshotsFaithful
  <2>2. CASE Barrier
    BY <1>1, <2>1, <2>2 DEF Barrier, SnapshotsFaithful
  <2>3. CASE Complete
    BY <1>1, <2>1, <2>3 DEF Complete, SnapshotsFaithful
  <2>4. CASE Decline
    BY <1>1, <2>1, <2>4 DEF Decline, SnapshotsFaithful
  <2>5. CASE Commit
    <3>1. ckpt'.job = ckpt.job
      BY <2>5, CommitRecords DEF IInv
    <3> QED
      BY <1>1, <2>1, <2>5, <3>1 DEF Commit, SnapshotsFaithful
  <2> QED
    BY <2>2, <2>3, <2>4, <2>5
<1> QED
  BY <1>1, <1>2, <1>3, SameSettles, SettledSinks

LEMMA NextSinks == IInv /\ SinkInv /\ [Next]_vars => SinkInv'
<1>1. SUFFICES ASSUME IInv, SinkInv, [Next]_vars PROVE SinkInv'
  OBVIOUS
<1>2. ASSUME NEW p \in Partitions, Undecodable(p) \/ Read(p)
      PROVE  SinkInv'
  BY <1>1, <1>2, UndecodableSinks, ReadSinks
<1>3. CASE EmitWatermark
  BY <1>1, <1>3, EmitWatermarkSinks
<1>4. CASE FireNothing
  BY <1>1, <1>4, FireNothingSinks
<1>5. CASE Fire
  BY <1>1, <1>5, FireSinks
<1>6. CASE FireRetried
  <2>1. worker'.watermark = worker.watermark
    BY <1>1, <1>6, StartTyped DEF FireRetried, WorkerState, IInv
  <2> QED
    BY <1>1, <1>6, <2>1, FailedAttemptSinks DEF FireRetried, Attempted, Writes
<1>7. CASE FireFails
  BY <1>1, <1>7, JobFailsSinks DEF FireFails, Attempted, Writes
<1>8. CASE Crash
  BY <1>1, <1>8, JobFailsSinks DEF Crash, stores
<1>9. CASE Barrier \/ Complete \/ Decline \/ Commit
  BY <1>1, <1>9, CheckpointSinks
<1>10. CASE UNCHANGED vars
  <2>1. /\ Everything' = Everything /\ SnapshotsFaithful'
        /\ UNCHANGED <<log, rows, events, indexed, restarts, job, worker>>
    BY <1>1, <1>10 DEF vars, stores, sinks, Everything, SinkInv, SnapshotsFaithful
  <2> QED
    BY <1>1, <2>1, SameSettles, SettledSinks
<1> QED
  BY <1>1, <1>2, <1>3, <1>4, <1>5, <1>6, <1>7, <1>8, <1>9, <1>10 DEF Next

\* No record becomes visible without its side effect, and with the unique index the row is
\* the one that was published, until a restart lets a window be filled differently.
THEOREM CommittedStored == Spec => []CommittedIsStored
<1>1. Init => IInv /\ SinkInv
  BY InitTyped, InitLineages, InitSinks DEF IInv
<1>2. IInv /\ SinkInv /\ [Next]_vars => (IInv /\ SinkInv)'
  BY NextLineages, NextSinks
<1>3. IInv /\ SinkInv => CommittedIsStored
  <2>1. SUFFICES ASSUME IInv, SinkInv, NEW i \in DOMAIN topic, NEW r, r = topic[i]
                 PROVE  IF r.win.branch = "sliding"
                        THEN \E id \in events : \E s \in r.spans :
                                /\ id[2] = RecordOf(s).reading
                                /\ RecordOf(s).at # NoTime => id[1] = RecordOf(s).at
                        ELSE /\ rows[r.win] # <<>>
                             /\ indexed /\ restarts = 0 => rows[r.win] = <<r.spans>>
    BY DEF CommittedIsStored
  <2>2. i \in DOMAIN Everything /\ Everything[i] = r
    BY <2>1, CoveredFirst DEF IInv
  <2>3. IsStored(log, rows, events, r)
    BY <2>1, <2>2 DEF SinkInv, Stored
  <2>4. indexed /\ restarts = 0 => IsExact(rows, r)
    BY <2>1, <2>2 DEF SinkInv, Exact
  <2> QED
    BY <2>3, <2>4 DEF IsStored, IsExact, Tells, RecordOf
<1> QED
  BY <1>1, <1>2, <1>3, PTL DEF Spec

\* Until a restart sets the watermark back, a window yields one record, and no more.
THEOREM WindowsOnce == Spec => []WindowsPublishedOnce
<1>1. Init => IInv /\ SinkInv
  BY InitTyped, InitLineages, InitSinks DEF IInv
<1>2. IInv /\ SinkInv /\ [Next]_vars => (IInv /\ SinkInv)'
  BY NextLineages, NextSinks
<1>3. IInv /\ SinkInv => WindowsPublishedOnce
  BY DEF SinkInv, FiredOnce, WindowsPublishedOnce, Everything
<1> QED
  BY <1>1, <1>2, <1>3, PTL DEF Spec
=============================================================================
