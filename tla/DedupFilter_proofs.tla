------------------------ MODULE DedupFilter_proofs ------------------------
(***************************************************************************)
(* Safety of the deduplication operator, for every set of span ids, Ttl,   *)
(* Bloom capacity and bound.  IInv is inductive: its heart is Covered, the *)
(* reason a warm filter may be believed, which speaks of the clock, the    *)
(* two generations, the restart and the state entry at once.               *)
(***************************************************************************)
EXTENDS DedupFilter, TLAPS

\* The clock readings the filter keeps are in order and in the past.
Clocks ==
    /\ bloom.started <= bloom.rotated
    /\ bloom.rotated <= now
    /\ \A b \in bursts : b <= now

\* Every state entry is expired, or from before this worker started, or held
\* by a generation that outlives it, or a victim of an early replacement.
Covered ==
    \A k \in SpanIds :
        seen[k] # Unset =>
            \/ seen[k] + Ttl <= now
            \/ seen[k] <= bloom.started
            \/ k \in bloom.cur
            \/ k \in bloom.prev /\ seen[k] <= bloom.rotated
            \/ \E b \in bursts : seen[k] <= b

\* The state entry of a span is the time of its last emission.
Agree(s, history) ==
    /\ Len(history) <= Len(log)
    /\ \A k \in SpanIds :
        /\ s[k] # Unset =>
            /\ s[k] <= now
            /\ \E i \in Emissions(history, k) : history[i].at = s[k]
        /\ \A i \in Emissions(history, k) : s[k] # Unset /\ history[i].at <= s[k]

\* A span in hand is the next record, and was rightly judged new.
HoldingIsNew ==
    holding # NoSpan =>
        /\ Len(out) < Len(log)
        /\ holding = NextRecord
        /\ IsLive(holding) => \E b \in bursts : seen[holding] <= b

IInv ==
    /\ TypeOK
    /\ Clocks
    /\ Covered
    /\ Agree(seen, out)
    /\ Agree(ckpt.seen, ckpt.out)
    /\ HoldingIsNew
    /\ Apart(out) /\ Apart(ckpt.out)
    /\ Justified(out) /\ Justified(ckpt.out)
----------------------------------------------------------------------------
(* What the operations of the filter return. *)

\* A rotation keeps the filter well formed and moves the current generation.
LEMMA RotateFacts ==
    ASSUME NEW b \in Bloom, now \in Time
    PROVE  /\ RotateIfDue(b) \in Bloom
           /\ RotateIfDue(b).started = b.started
           /\ now - b.rotated < Ttl => RotateIfDue(b) = b
           /\ now - b.rotated >= Ttl =>
                /\ RotateIfDue(b).cur = {}
                /\ RotateIfDue(b).prev = b.cur
                /\ RotateIfDue(b).rotated = now
<1>n. NextGeneration(b) \in Bloom
  BY DEF NextGeneration, Bloom
<1>1. CASE now - b.rotated >= Ttl
  <2>1. RotateIfDue(b) = NextGeneration(b)
    BY <1>1 DEF RotateIfDue
  <2>2. /\ NextGeneration(b).started = b.started
        /\ NextGeneration(b).cur = {}
        /\ NextGeneration(b).prev = b.cur
        /\ NextGeneration(b).rotated = now
    BY DEF NextGeneration, Bloom
  <2> QED
    BY <1>n, <1>1, <2>1, <2>2, DedupAssumption DEF Time, Bloom
<1>2. CASE ~(now - b.rotated >= Ttl)
  <2>1. RotateIfDue(b) = b
    BY <1>2 DEF RotateIfDue
  <2> QED
    BY <1>2, <2>1
<1> QED
  BY <1>1, <1>2

\* An addition puts the key in the current generation, after the rotation that
\* was due and, for lack of room, an early replacement.
LEMMA AddFacts ==
    ASSUME NEW b \in Bloom, NEW k \in SpanIds, now \in Time
    PROVE  LET r == RotateIfDue(b)
               a == BloomAdd(b, k)
           IN  /\ a \in Bloom
               /\ a.started = b.started
               /\ k \in a.cur
               /\ ~IsBurst(b) => /\ a.cur = r.cur \cup {k}
                                 /\ a.prev = r.prev
                                 /\ a.rotated = r.rotated
               /\ IsBurst(b) => /\ a.prev = r.cur
                                /\ a.rotated = now
  BY RotateFacts DEF BloomAdd, NextGeneration, Bloom

\* The history after one more verdict: what its entries are.
LEMMA AppendFacts ==
    ASSUME NEW h \in Seq(Verdict), NEW v \in Verdict
    PROVE  /\ Append(h, v) \in Seq(Verdict)
           /\ Len(Append(h, v)) = Len(h) + 1
           /\ Len(h) \in Nat
           /\ DOMAIN h = 1 .. Len(h)
           /\ DOMAIN Append(h, v) = 1 .. (Len(h) + 1)
           /\ \A i \in 1 .. Len(h) : Append(h, v)[i] = h[i]
           /\ Append(h, v)[Len(h) + 1] = v
  OBVIOUS

----------------------------------------------------------------------------
(* Type correctness. *)

LEMMA InitTypeOK == Init => TypeOK
  BY DedupAssumption DEF Init, TypeOK, EmptyBloom, Bloom, SeenMap, Time, Verdict

LEMMA NextTypeOK == TypeOK /\ [Next]_vars => TypeOK'
<1> SUFFICES ASSUME TypeOK, [Next]_vars PROVE TypeOK'
  OBVIOUS
<1> USE DEF TypeOK
<1>r. CanTakeRecord => NextRecord \in SpanIds
  BY DEF CanTakeRecord, NextRecord
<1>p. PreChecked \in Bloom
  BY RotateFacts DEF PreChecked
<1>1. CASE Tick
  BY <1>1, DedupAssumption DEF Tick, Time
<1>2. CASE \E k \in SpanIds : Produce(k)
  BY <1>2 DEF Produce
<1>3. CASE SkipLookup
  BY <1>3, <1>r, RotateFacts DEF SkipLookup
<1>4. CASE LookupMiss
  BY <1>4, <1>r, <1>p DEF LookupMiss
<1>5. CASE Drop
  <2>1. bloom' \in Bloom
    BY <1>5, <1>r, <1>p, AddFacts DEF Drop
  <2>2. bursts' \in SUBSET Time
    BY <1>5 DEF Drop, BurstsAfterAdd
  <2>3. out' \in Seq(Verdict)
    BY <1>5, AppendFacts DEF Drop, Verdict
  <2> QED
    BY <1>5, <2>1, <2>2, <2>3 DEF Drop
<1>6. CASE Record
  <2>0. holding \in SpanIds
    BY <1>6 DEF Record
  <2>1. bloom' \in Bloom
    BY <1>6, <2>0, AddFacts DEF Record
  <2>2. bursts' \in SUBSET Time
    BY <1>6 DEF Record, BurstsAfterAdd
  <2>3. out' \in Seq(Verdict)
    BY <1>6, AppendFacts DEF Record, Verdict
  <2>4. seen' \in SeenMap
    BY <1>6, <2>0 DEF Record, SeenMap
  <2> QED
    BY <1>6, <2>1, <2>2, <2>3, <2>4 DEF Record
<1>7. CASE Checkpoint
  BY <1>7 DEF Checkpoint
<1>8. CASE Restart
  BY <1>8, DedupAssumption DEF Restart, EmptyBloom, Bloom
<1>9. CASE UNCHANGED vars
  BY <1>9 DEF vars
<1> QED
  BY <1>1, <1>2, <1>3, <1>4, <1>5, <1>6, <1>7, <1>8, <1>9 DEF Next

\* Every variable keeps its type.
THEOREM TypeCorrect == Spec => []TypeOK
  BY InitTypeOK, NextTypeOK, PTL DEF Spec
----------------------------------------------------------------------------
(* The clocks and the filter. *)

\* The clock and the histories of records and early replacements only grow.
LEMMA TypeFacts ==
    ASSUME TypeOK
    PROVE  /\ now \in Int /\ seen \in SeenMap /\ ckpt.seen \in SeenMap
           /\ out \in Seq(Verdict) /\ ckpt.out \in Seq(Verdict) /\ log \in Seq(SpanIds)
           /\ Len(out) \in Nat /\ Len(log) \in Nat
<1>1. /\ now \in Time /\ log \in Seq(SpanIds) /\ out \in Seq(Verdict)
      /\ seen \in SeenMap
  BY DEF TypeOK
<1>2. ckpt.seen \in SeenMap /\ ckpt.out \in Seq(Verdict)
  BY DEF TypeOK
<1>3. now \in Int
  BY <1>1, DedupAssumption DEF Time
<1> QED
  BY <1>1, <1>2, <1>3

LEMMA Grows ==
    ASSUME TypeOK, [Next]_vars
    PROVE  /\ now <= now'
           /\ bursts \subseteq bursts'
           /\ Len(log) <= Len(log')
           /\ \A i \in 1 .. Len(log) : log'[i] = log[i]
<1> USE DEF TypeOK, Time
<1>1. CASE Tick
  BY <1>1 DEF Tick
<1>2. CASE \E k \in SpanIds : Produce(k)
  BY <1>2 DEF Produce
<1>3. CASE SkipLookup \/ LookupMiss \/ Checkpoint \/ Restart
  BY <1>3 DEF SkipLookup, LookupMiss, Checkpoint, Restart
<1>4. CASE Drop \/ Record
  BY <1>4 DEF Drop, Record, BurstsAfterAdd
<1>5. CASE UNCHANGED vars
  BY <1>5 DEF vars
<1> QED
  BY <1>1, <1>2, <1>3, <1>4, <1>5 DEF Next

\* An addition leaves the clocks of a filter in order.
LEMMA ClocksAfterAdd ==
    ASSUME NEW b \in Bloom, b.started <= b.rotated, b.rotated <= now,
           NEW k \in SpanIds, now \in Time
    PROVE  /\ BloomAdd(b, k).started <= BloomAdd(b, k).rotated
           /\ BloomAdd(b, k).rotated <= now
<1>1. b.started \in Int /\ b.rotated \in Int /\ now \in Int
  BY DEF Bloom, Time
<1>2. \/ BloomAdd(b, k).rotated = now
      \/ BloomAdd(b, k).rotated = b.rotated
  BY <1>1, RotateFacts, AddFacts, DedupAssumption
<1>3. BloomAdd(b, k).started = b.started
  BY AddFacts
<1> QED
  BY <1>1, <1>2, <1>3

LEMMA ClocksNext == TypeOK /\ Clocks /\ [Next]_vars => Clocks'
<1> SUFFICES ASSUME TypeOK, Clocks, [Next]_vars PROVE Clocks'
  OBVIOUS
<1> USE DEF TypeOK, Clocks
<1>t. now \in Nat /\ bloom.rotated \in Nat /\ bloom.started \in Nat
  BY DedupAssumption DEF Time, Bloom
<1>r. /\ RotateIfDue(bloom).started <= RotateIfDue(bloom).rotated
      /\ RotateIfDue(bloom).rotated <= now
  <2>1. \/ RotateIfDue(bloom) = bloom
        \/ RotateIfDue(bloom).rotated = now
    BY <1>t, RotateFacts, DedupAssumption
  <2>2. RotateIfDue(bloom).started = bloom.started
    BY RotateFacts
  <2>3. bloom.started <= bloom.rotated /\ bloom.rotated <= now
    OBVIOUS
  <2> HIDE DEF TypeOK, Clocks
  <2> QED
    BY <1>t, <2>1, <2>2, <2>3
<1>p. /\ PreChecked \in Bloom
      /\ PreChecked.started <= PreChecked.rotated
      /\ PreChecked.rotated <= now
  BY <1>r, RotateFacts DEF PreChecked
<1>a. ASSUME NEW b \in Bloom, b.started <= b.rotated, b.rotated <= now,
             NEW k \in SpanIds
      PROVE  /\ BloomAdd(b, k).started <= BloomAdd(b, k).rotated
             /\ BloomAdd(b, k).rotated <= now
  BY <1>a, <1>t, ClocksAfterAdd
<1>1. CASE Tick
  BY <1>1, <1>t DEF Tick, Time
<1>2. CASE \E k \in SpanIds : Produce(k)
  BY <1>2 DEF Produce
<1>3. CASE SkipLookup
  BY <1>3, <1>r DEF SkipLookup
<1>4. CASE LookupMiss
  BY <1>4, <1>p DEF LookupMiss
<1>5. CASE Drop
  <2>1. NextRecord \in SpanIds
    BY <1>5 DEF Drop, CanTakeRecord, NextRecord
  <2> QED
    BY <1>5, <1>p, <1>a, <1>t, <2>1 DEF Drop, BurstsAfterAdd
<1>6. CASE Record
  <2>1. holding \in SpanIds
    BY <1>6 DEF Record
  <2> QED
    BY <1>6, <1>a, <1>t, <2>1 DEF Record, BurstsAfterAdd
<1>7. CASE Checkpoint
  BY <1>7 DEF Checkpoint
<1>8. CASE Restart
  BY <1>8, <1>t DEF Restart, EmptyBloom
<1>9. CASE UNCHANGED vars
  BY <1>9 DEF vars
<1> QED
  BY <1>1, <1>2, <1>3, <1>4, <1>5, <1>6, <1>7, <1>8, <1>9 DEF Next

\* The cover of one entry: t is the entry of span k, b a filter.
CoveredBy(k, t, b) ==
    \/ t + Ttl <= now
    \/ t <= b.started
    \/ k \in b.cur
    \/ k \in b.prev /\ t <= b.rotated
    \/ \E e \in bursts : t <= e

\* A rotation that is due only gives up entries that are expired.
LEMMA RotateCovers ==
    ASSUME NEW b \in Bloom, now \in Time, NEW k \in SpanIds, NEW t \in Time,
           t <= now, CoveredBy(k, t, b)
    PROVE  CoveredBy(k, t, RotateIfDue(b))
<1> USE DEF CoveredBy, Time, Bloom
<1>1. CASE now - b.rotated < Ttl
  BY <1>1, RotateFacts
<1>2. CASE now - b.rotated >= Ttl
  <2>1. CASE k \in b.cur
    BY <1>2, <2>1, RotateFacts
  <2>2. CASE k \in b.prev /\ t <= b.rotated
    BY <1>2, <2>2, RotateFacts, DedupAssumption
  <2>3. CASE t + Ttl <= now \/ t <= b.started \/ \E e \in bursts : t <= e
    BY <2>3, RotateFacts
  <2> QED
    BY <2>1, <2>2, <2>3
<1> QED
  BY <1>1, <1>2, DedupAssumption

\* An addition keeps every entry covered: an early replacement accounts for
\* the entries it gives up.
LEMMA AddCovers ==
    ASSUME NEW b \in Bloom, now \in Time, NEW k \in SpanIds, NEW a \in SpanIds,
           NEW t \in Time, t <= now, CoveredBy(k, t, b), bursts \subseteq Time
    PROVE  LET n == BloomAdd(b, a)
           IN  \/ t + Ttl <= now
               \/ t <= n.started
               \/ k \in n.cur
               \/ k \in n.prev /\ t <= n.rotated
               \/ \E e \in BurstsAfterAdd(b) : t <= e
<1>1. CoveredBy(k, t, RotateIfDue(b))
  BY RotateCovers
<1>2. CASE IsBurst(b)
  BY <1>2 DEF BurstsAfterAdd
<1>3. CASE ~IsBurst(b)
  BY <1>1, <1>3, AddFacts, RotateFacts DEF BurstsAfterAdd, CoveredBy
<1> QED
  BY <1>2, <1>3

LEMMA CoveredNext ==
    ASSUME TypeOK, Clocks, Covered, Agree(seen, out),
           Agree(ckpt.seen, ckpt.out), [Next]_vars
    PROVE  Covered'
<1> SUFFICES ASSUME NEW k \in SpanIds, seen'[k] # Unset
             PROVE  CoveredBy(k, seen[k], bloom)'
  BY DEF Covered, CoveredBy
<1>t. /\ now \in Time /\ bloom \in Bloom /\ bursts \subseteq Time
      /\ seen \in SeenMap /\ ckpt.seen \in SeenMap
  BY DEF TypeOK
<1>k. seen[k] # Unset => /\ seen[k] \in Time
                         /\ seen[k] <= now
                         /\ CoveredBy(k, seen[k], bloom)
  BY <1>t DEF Covered, CoveredBy, Agree, SeenMap
<1>0. CASE seen'[k] = seen[k] /\ bloom' = bloom /\ bursts' = bursts
  <2>1. now <= now' /\ now' \in Time
    BY Grows, NextTypeOK DEF TypeOK
  <2> QED
    BY <1>0, <1>k, <1>t, <2>1, DedupAssumption DEF CoveredBy, Time
<1>1. CASE Tick \/ (\E x \in SpanIds : Produce(x)) \/ Checkpoint \/ UNCHANGED vars
  BY <1>0, <1>1 DEF Tick, Produce, Checkpoint, vars
<1>r. seen[k] # Unset => CoveredBy(k, seen[k], RotateIfDue(bloom))
  BY <1>k, <1>t, RotateCovers
<1>p. /\ PreChecked \in Bloom
      /\ seen[k] # Unset => CoveredBy(k, seen[k], PreChecked)
  BY <1>k, <1>r, <1>t, RotateFacts DEF PreChecked
<1>3. CASE SkipLookup
  BY <1>3, <1>r DEF SkipLookup, CoveredBy
<1>4. CASE LookupMiss
  BY <1>4, <1>p DEF LookupMiss, CoveredBy
<1>5. CASE Drop
  <2>1. NextRecord \in SpanIds
    BY <1>5 DEF Drop, CanTakeRecord, NextRecord, TypeOK
  <2>2. bloom' = BloomAdd(PreChecked, NextRecord)
        /\ bursts' = BurstsAfterAdd(PreChecked) /\ seen' = seen /\ now' = now
    BY <1>5 DEF Drop
  <2> QED
    BY <1>k, <1>p, <1>t, <2>1, <2>2, AddCovers DEF CoveredBy
<1>6. CASE Record
  <2>1. holding \in SpanIds
    BY <1>6 DEF Record, TypeOK
  <2>2. bloom' = BloomAdd(bloom, holding)
        /\ bursts' = BurstsAfterAdd(bloom) /\ now' = now
    BY <1>6 DEF Record
  <2>3. CASE k = holding
    BY <1>t, <2>1, <2>2, <2>3, AddFacts DEF CoveredBy
  <2>4. CASE k # holding
    <3>1. seen'[k] = seen[k]
      BY <1>6, <1>t, <2>4 DEF Record, SeenMap
    <3> QED
      BY <1>k, <1>t, <2>1, <2>2, <3>1, AddCovers DEF CoveredBy
  <2> QED
    BY <2>3, <2>4
<1>7. CASE Restart
  <2>1. seen'[k] = ckpt.seen[k] /\ bloom'.started = now
    BY <1>7 DEF Restart, EmptyBloom
  <2>2. ckpt.seen[k] <= now
    BY <2>1 DEF Agree
  <2> QED
    BY <2>1, <2>2 DEF CoveredBy
<1> QED
  BY <1>1, <1>3, <1>4, <1>5, <1>6, <1>7 DEF Next

\* What a warm filter does not hold after the rotation that is due is not live,
\* or the victim of an early replacement.
LEMMA MissIsNew ==
    ASSUME TypeOK, Clocks, Covered, Agree(seen, out)
    PROVE  PreCheckComplete
<1> SUFFICES ASSUME NEW k \in SpanIds, IsLive(k), IsWarm(bloom),
                    ~Holds(RotateIfDue(bloom), k)
             PROVE  \E b \in bursts : seen[k] <= b
  BY DEF PreCheckComplete
<1>1. /\ seen[k] \in Time /\ seen[k] <= now /\ seen[k] + Ttl > now
      /\ now \in Time /\ bloom \in Bloom
  BY DedupAssumption DEF IsLive, TypeOK, SeenMap, Agree, Time
<1>2. CoveredBy(k, seen[k], RotateIfDue(bloom))
  <2>1. CoveredBy(k, seen[k], bloom)
    BY DEF Covered, CoveredBy, IsLive
  <2> QED
    BY <1>1, <2>1, RotateCovers
<1>3. RotateIfDue(bloom).started = bloom.started /\ bloom.started \in Time
  BY <1>1, RotateFacts DEF Bloom
<1>4. ~(seen[k] <= bloom.started)
  BY <1>1, <1>3, DedupAssumption DEF IsWarm, Time
<1> QED
  BY <1>1, <1>2, <1>3, <1>4, DedupAssumption DEF CoveredBy, Holds, Time
----------------------------------------------------------------------------
(* The history of verdicts. *)

\* A verdict that drops a record adds no emission; one that emits the record
\* of span k adds that record to the emissions of k and to no others.
LEMMA AppendEmissions ==
    ASSUME NEW h \in Seq(Verdict), NEW v \in Verdict, NEW k \in SpanIds,
           Len(h) < Len(log), log \in Seq(SpanIds)
    PROVE  Emissions(Append(h, v), k) =
             IF v.kind = "emitted" /\ log[Len(h) + 1] = k
             THEN Emissions(h, k) \cup {Len(h) + 1}
             ELSE Emissions(h, k)
<1> USE AppendFacts
<1>1. ASSUME NEW i \in Emissions(Append(h, v), k), i # Len(h) + 1
      PROVE  i \in Emissions(h, k)
  BY <1>1 DEF Emissions
<1>2. Emissions(h, k) \subseteq Emissions(Append(h, v), k)
  BY DEF Emissions
<1>3. (Len(h) + 1) \in Emissions(Append(h, v), k)
        <=> v.kind = "emitted" /\ log[Len(h) + 1] = k
  BY DEF Emissions
<1>4. (Len(h) + 1) \notin Emissions(h, k)
  BY DEF Emissions
<1>5. CASE v.kind = "emitted" /\ log[Len(h) + 1] = k
  BY <1>1, <1>2, <1>3, <1>5
<1>6. CASE ~(v.kind = "emitted" /\ log[Len(h) + 1] = k)
  <2>1. Emissions(Append(h, v), k) = Emissions(h, k)
    BY <1>1, <1>2, <1>3, <1>6
  <2> QED
    BY <1>6, <2>1
<1> QED
  BY <1>5, <1>6

\* The records a history covers stay what they are when the source grows.
LEMMA StableEmissions ==
    ASSUME TypeOK, [Next]_vars, NEW h \in Seq(Verdict), Len(h) <= Len(log),
           NEW k \in SpanIds
    PROVE  {i \in DOMAIN h : log'[i] = k /\ h[i].kind = "emitted"}
             = Emissions(h, k)
<1>1. DOMAIN h = 1..Len(h) /\ Len(h) \in Nat /\ Len(log) \in Nat
  BY DEF TypeOK
<1>2. \A i \in 1..Len(log) : log'[i] = log[i]
  BY Grows
<1>3. \A i \in DOMAIN h : log'[i] = log[i]
  BY <1>1, <1>2
<1> QED
  BY <1>3 DEF Emissions

\* A pair of an entry map and a history that a step leaves alone still agree.
LEMMA AgreeStable ==
    ASSUME TypeOK, [Next]_vars, NEW s \in SeenMap, NEW h \in Seq(Verdict),
           Agree(s, h)
    PROVE  /\ Len(h) <= Len(log')
           /\ \A k \in SpanIds :
                LET E == {i \in DOMAIN h : log'[i] = k /\ h[i].kind = "emitted"}
                IN  /\ s[k] # Unset => /\ s[k] <= now'
                                       /\ \E i \in E : h[i].at = s[k]
                    /\ \A i \in E : s[k] # Unset /\ h[i].at <= s[k]
<1>1. /\ now <= now' /\ now \in Int /\ now' \in Int
      /\ Len(log) <= Len(log') /\ Len(log) \in Nat /\ Len(log') \in Nat
  <2>1. TypeOK'
    BY NextTypeOK
  <2>2. now' \in Int /\ Len(log') \in Nat
    BY <2>1, DedupAssumption DEF TypeOK, Time
  <2> QED
    BY <2>2, Grows, TypeFacts
<1>2. Len(h) <= Len(log) /\ Len(h) \in Nat
  BY DEF Agree
<1>3. ASSUME NEW k \in SpanIds, s[k] # Unset
      PROVE  s[k] <= now'
  BY <1>1, <1>3, DedupAssumption DEF Agree, SeenMap, Time
<1> QED
  BY <1>1, <1>2, <1>3, StableEmissions DEF Agree

LEMMA AgreeNext ==
    ASSUME TypeOK, Agree(seen, out), Agree(ckpt.seen, ckpt.out), HoldingIsNew,
           [Next]_vars
    PROVE  Agree(seen, out)' /\ Agree(ckpt.seen, ckpt.out)'
<1>t. /\ seen \in SeenMap /\ ckpt.seen \in SeenMap /\ now \in Int
      /\ out \in Seq(Verdict) /\ ckpt.out \in Seq(Verdict) /\ log \in Seq(SpanIds)
  BY TypeFacts
<1>1. ASSUME seen' = seen, out' = out
      PROVE  Agree(seen, out)'
  <2> DEFINE s == seen
             h == out
  <2>1. Agree(s, h) /\ s \in SeenMap /\ h \in Seq(Verdict)
    BY <1>t
  <2>2. seen' = s /\ out' = h
    BY <1>1
  <2> HIDE DEF s, h
  <2>3. /\ Len(h) <= Len(log')
        /\ \A k \in SpanIds :
             LET E == {i \in DOMAIN h : log'[i] = k /\ h[i].kind = "emitted"}
             IN  /\ s[k] # Unset => /\ s[k] <= now'
                                    /\ \E i \in E : h[i].at = s[k]
                 /\ \A i \in E : s[k] # Unset /\ h[i].at <= s[k]
    BY <2>1, AgreeStable
  <2> QED
    BY <2>2, <2>3 DEF Agree, Emissions
<1>2. ASSUME ckpt' = ckpt
      PROVE  Agree(ckpt.seen, ckpt.out)'
  <2> DEFINE s == ckpt.seen
             h == ckpt.out
  <2>1. Agree(s, h) /\ s \in SeenMap /\ h \in Seq(Verdict)
    BY <1>t
  <2>2. ckpt'.seen = s /\ ckpt'.out = h
    BY <1>2
  <2> HIDE DEF s, h
  <2> QED
    BY <2>1, <2>2, AgreeStable DEF Agree, Emissions
<1>3. CASE Tick \/ (\E x \in SpanIds : Produce(x)) \/ SkipLookup \/ LookupMiss
             \/ UNCHANGED vars
  BY <1>1, <1>2, <1>3 DEF Tick, Produce, SkipLookup, LookupMiss, vars
<1>4. CASE Drop
  <2> DEFINE v == [kind |-> "dropped", at |-> now]
  <2>1. Len(out) < Len(log) /\ v \in Verdict
    BY <1>4, <1>t DEF Drop, CanTakeRecord, Verdict, TypeOK
  <2>2. out' = Append(out, v) /\ seen' = seen /\ now' = now /\ log' = log /\ ckpt' = ckpt
    BY <1>4 DEF Drop
  <2>3. \A k \in SpanIds : Emissions(Append(out, v), k) = Emissions(out, k)
    BY <1>t, <2>1, AppendEmissions
  <2>4. \A k \in SpanIds : \A i \in Emissions(out, k) : Append(out, v)[i] = out[i]
    BY <1>t, <2>1, AppendFacts DEF Emissions
  <2>5. Len(Append(out, v)) <= Len(log)
    BY <1>t, <2>1, AppendFacts
  <2>6. Agree(seen, Append(out, v))
    BY <2>3, <2>4, <2>5 DEF Agree
  <2> QED
    BY <1>2, <2>2, <2>6 DEF Agree, Emissions
<1>5. CASE Record
  <2> DEFINE v == [kind |-> "emitted", at |-> now]
             h == Append(out, v)
             s == [seen EXCEPT ![holding] = now]
  <2>1. /\ holding \in SpanIds /\ Len(out) < Len(log) /\ v \in Verdict
        /\ log[Len(out) + 1] = holding
    BY <1>5 DEF Record, HoldingIsNew, NextRecord, TypeOK, Verdict
  <2>2. out' = h /\ seen' = s /\ now' = now /\ log' = log /\ ckpt' = ckpt
    BY <1>5 DEF Record
  <2>3. \A k \in SpanIds : \A i \in Emissions(out, k) : h[i] = out[i]
    BY <1>t, <2>1, AppendFacts DEF Emissions
  <2>4. Len(h) <= Len(log) /\ h[Len(out) + 1] = v
    BY <1>t, <2>1, AppendFacts
  <2>5. ASSUME NEW k \in SpanIds
        PROVE  /\ s[k] # Unset => /\ s[k] <= now
                                  /\ \E i \in Emissions(h, k) : h[i].at = s[k]
               /\ \A i \in Emissions(h, k) : s[k] # Unset /\ h[i].at <= s[k]
    <3>1. CASE k = holding
      <4>1. s[k] = now
        BY <1>t, <3>1 DEF SeenMap
      <4>2. Emissions(h, k) = Emissions(out, k) \cup {Len(out) + 1}
        BY <1>t, <2>1, <3>1, AppendEmissions
      <4>3. now # Unset
        BY DedupAssumption DEF TypeOK, Time, Unset
      <4>4. ASSUME NEW i \in Emissions(out, k) PROVE h[i].at <= now
        <5>1. h[i] = out[i] /\ out[i] \in Verdict
          BY <1>t, <2>3 DEF Emissions
        <5>2. out[i].at \in Int /\ seen[k] \in Int
          BY <1>t, <5>1, DedupAssumption DEF Verdict, Time, SeenMap, Unset
        <5>3. out[i].at <= seen[k] /\ seen[k] <= now
          BY DEF Agree
        <5> HIDE DEF h
        <5> QED
          BY <1>t, <5>1, <5>2, <5>3
      <4>5. h[Len(out) + 1].at = now
        BY <2>4
      <4> HIDE DEF h, s
      <4> QED
        BY <1>t, <4>1, <4>2, <4>3, <4>4, <4>5
    <3>2. CASE k # holding
      <4>1. s[k] = seen[k]
        BY <1>t, <3>2 DEF SeenMap
      <4>2. Emissions(h, k) = Emissions(out, k)
        BY <1>t, <2>1, <3>2, AppendEmissions
      <4> QED
        BY <2>3, <4>1, <4>2 DEF Agree
    <3> QED
      BY <3>1, <3>2
  <2>6. Agree(s, h)
    BY <2>4, <2>5 DEF Agree
  <2> QED
    BY <1>2, <2>2, <2>6 DEF Agree, Emissions
<1>6. CASE Checkpoint
  BY <1>1, <1>6 DEF Checkpoint, Agree, Emissions
<1>7. CASE Restart
  <2>1. ckpt' = ckpt /\ seen' = ckpt'.seen /\ out' = ckpt'.out
    BY <1>7 DEF Restart
  <2> QED
    BY <1>2, <2>1 DEF Agree, Emissions
<1> QED
  BY <1>3, <1>4, <1>5, <1>6, <1>7 DEF Next

LEMMA HoldingNext ==
    ASSUME TypeOK, Clocks, Covered, Agree(seen, out), HoldingIsNew, [Next]_vars
    PROVE  HoldingIsNew'
<1>t. /\ now \in Int /\ now' \in Int /\ now <= now' /\ seen \in SeenMap
      /\ Len(out) \in Nat /\ Len(log) \in Nat /\ Len(log') \in Nat
      /\ bursts \subseteq bursts'
      /\ Len(log) <= Len(log') /\ \A i \in 1 .. Len(log) : log'[i] = log[i]
  <2>1. TypeOK'
    BY NextTypeOK
  <2>2. now' \in Int /\ Len(log') \in Nat
    BY <2>1, DedupAssumption DEF TypeOK, Time
  <2> QED
    BY <2>2, Grows, TypeFacts
<1>0. ASSUME seen' = seen, out' = out, holding' = holding
      PROVE  HoldingIsNew'
  <2> SUFFICES ASSUME holding # NoSpan
               PROVE  /\ Len(out) < Len(log') /\ holding = log'[Len(out) + 1]
                      /\ IsLive(holding)' => \E b \in bursts' : seen[holding] <= b
    BY <1>0 DEF HoldingIsNew, NextRecord
  <2>1. Len(out) < Len(log) /\ holding = log[Len(out) + 1]
    BY DEF HoldingIsNew, NextRecord
  <2>2. seen[holding] \in Int
    BY <1>t, DedupAssumption DEF SeenMap, Time, Unset, TypeOK
  <2>3. IsLive(holding)' => IsLive(holding)
    BY <1>0, <1>t, <2>2, DedupAssumption DEF IsLive
  <2> QED
    BY <1>t, <2>1, <2>3 DEF HoldingIsNew
<1>1. CASE Tick \/ (\E x \in SpanIds : Produce(x)) \/ Checkpoint \/ UNCHANGED vars
  BY <1>0, <1>1 DEF Tick, Produce, Checkpoint, vars
<1>2. CASE SkipLookup
  <2>1. NextRecord \in SpanIds
    BY <1>2 DEF SkipLookup, CanTakeRecord, NextRecord, TypeOK
  <2>2. IsLive(NextRecord) => \E b \in bursts : seen[NextRecord] <= b
    BY <1>2, <2>1, MissIsNew DEF SkipLookup, PreCheckComplete
  <2> QED
    BY <1>2, <2>1, <2>2 DEF SkipLookup, CanTakeRecord, HoldingIsNew, NextRecord, IsLive
<1>3. CASE LookupMiss
  BY <1>3 DEF LookupMiss, CanTakeRecord, HoldingIsNew, NextRecord, IsLive
<1>4. CASE Drop \/ Record \/ Restart
  BY <1>4 DEF Drop, CanTakeRecord, Record, Restart, HoldingIsNew
<1> QED
  BY <1>1, <1>2, <1>3, <1>4 DEF Next
\* Two emissions that were far enough apart, or excused, stay so.
LEMMA ApartNext ==
    ASSUME TypeOK, Clocks, Agree(seen, out), Agree(ckpt.seen, ckpt.out),
           HoldingIsNew, Apart(out), Apart(ckpt.out), [Next]_vars
    PROVE  Apart(out)' /\ Apart(ckpt.out)'
<1>t. /\ seen \in SeenMap /\ now \in Int /\ bursts \subseteq bursts'
      /\ out \in Seq(Verdict) /\ ckpt.out \in Seq(Verdict) /\ log \in Seq(SpanIds)
  BY Grows, TypeFacts
<1>0. ASSUME NEW h \in Seq(Verdict), Len(h) <= Len(log), Apart(h)
      PROVE  \A k \in SpanIds :
               \A i, j \in {n \in DOMAIN h : log'[n] = k /\ h[n].kind = "emitted"} :
                 i < j => \/ h[j].at - h[i].at >= Ttl
                          \/ \E b \in bursts' : h[i].at <= b /\ b <= h[j].at
  <2>1. TAKE k \in SpanIds
  <2>2. {n \in DOMAIN h : log'[n] = k /\ h[n].kind = "emitted"} = Emissions(h, k)
    BY <1>0, StableEmissions
  <2> QED
    BY <1>0, <1>t, <2>1, <2>2 DEF Apart
<1>1. ASSUME out' = out
      PROVE  Apart(out)'
  <2> DEFINE h == out
  <2>1. Len(h) <= Len(log) /\ Apart(h) /\ h \in Seq(Verdict) /\ out' = h
    BY <1>1, <1>t DEF Agree
  <2> HIDE DEF h
  <2>2. \A k \in SpanIds :
          \A i, j \in {n \in DOMAIN h : log'[n] = k /\ h[n].kind = "emitted"} :
            i < j => \/ h[j].at - h[i].at >= Ttl
                     \/ \E b \in bursts' : h[i].at <= b /\ b <= h[j].at
    BY <1>0, <2>1
  <2> QED
    BY <2>1, <2>2 DEF Apart, Emissions
<1>2. ASSUME ckpt' = ckpt
      PROVE  Apart(ckpt.out)'
  <2> DEFINE h == ckpt.out
  <2>1. Len(h) <= Len(log) /\ Apart(h) /\ h \in Seq(Verdict) /\ ckpt'.out = h
    BY <1>2, <1>t DEF Agree
  <2> HIDE DEF h
  <2>2. \A k \in SpanIds :
          \A i, j \in {n \in DOMAIN h : log'[n] = k /\ h[n].kind = "emitted"} :
            i < j => \/ h[j].at - h[i].at >= Ttl
                     \/ \E b \in bursts' : h[i].at <= b /\ b <= h[j].at
    BY <1>0, <2>1
  <2> QED
    BY <2>1, <2>2 DEF Apart, Emissions
<1>3. CASE Tick \/ (\E x \in SpanIds : Produce(x)) \/ SkipLookup \/ LookupMiss
             \/ UNCHANGED vars
  BY <1>1, <1>2, <1>3 DEF Tick, Produce, SkipLookup, LookupMiss, vars
<1>4. CASE Drop
  <2> DEFINE v == [kind |-> "dropped", at |-> now]
             h == Append(out, v)
  <2>1. Len(out) < Len(log) /\ v \in Verdict
    BY <1>4, <1>t DEF Drop, CanTakeRecord, Verdict, TypeOK
  <2>2. out' = h /\ log' = log /\ ckpt' = ckpt
    BY <1>4 DEF Drop
  <2>3. \A k \in SpanIds : Emissions(h, k) = Emissions(out, k)
    BY <1>t, <2>1, AppendEmissions
  <2>4. \A k \in SpanIds : \A i \in Emissions(out, k) : h[i] = out[i]
    BY <1>t, <2>1, AppendFacts DEF Emissions
  <2> HIDE DEF h
  <2>5. \A k \in SpanIds : \A i, j \in Emissions(h, k) :
          i < j => \/ h[j].at - h[i].at >= Ttl
                   \/ \E b \in bursts' : h[i].at <= b /\ b <= h[j].at
    BY <1>t, <2>3, <2>4 DEF Apart
  <2> QED
    BY <1>2, <2>2, <2>5 DEF Apart, Emissions
<1>5. CASE Record
  <2> DEFINE v == [kind |-> "emitted", at |-> now]
             h == Append(out, v)
             n == Len(out) + 1
  <2>1. /\ holding \in SpanIds /\ Len(out) < Len(log) /\ v \in Verdict
        /\ log[n] = holding
    BY <1>5 DEF Record, HoldingIsNew, NextRecord, TypeOK, Verdict
  <2>2. out' = h /\ log' = log /\ ckpt' = ckpt
    BY <1>5 DEF Record
  <2>3. \A k \in SpanIds : \A i \in Emissions(out, k) : h[i] = out[i] /\ i < n
    BY <1>t, <2>1, AppendFacts DEF Emissions
  <2>4. h[n].at = now /\ n \in Nat
    BY <1>t, <2>1, AppendFacts
  <2>5. \A k \in SpanIds \ {holding} : Emissions(h, k) = Emissions(out, k)
    BY <1>t, <2>1, AppendEmissions
  <2>6. Emissions(h, holding) = Emissions(out, holding) \cup {n}
    BY <1>t, <2>1, AppendEmissions
  <2> HIDE DEF h, n
  <2>7. ASSUME NEW i \in Emissions(out, holding)
        PROVE  \/ now - out[i].at >= Ttl
               \/ \E b \in bursts : out[i].at <= b /\ b <= now
    <3>1. seen[holding] # Unset /\ out[i].at <= seen[holding]
      BY <2>1 DEF Agree
    <3>2. out[i] \in Verdict
      BY <1>t DEF Emissions
    <3>3. out[i].at \in Int /\ seen[holding] \in Int
      BY <1>t, <2>1, <3>2, DedupAssumption DEF Verdict, Time, SeenMap, Unset
    <3>4. CASE IsLive(holding)
      <4>1. PICK b \in bursts : seen[holding] <= b
        BY <1>5, <3>4 DEF HoldingIsNew, Record
      <4>2. b <= now /\ b \in Int
        BY <4>1, DedupAssumption DEF Clocks, TypeOK, Time
      <4> QED
        BY <1>t, <3>1, <3>3, <4>1, <4>2
    <3>5. CASE ~IsLive(holding)
      BY <1>t, <3>1, <3>3, <3>5, DedupAssumption DEF IsLive
    <3> QED
      BY <3>4, <3>5
  <2>8. ASSUME NEW k \in SpanIds, NEW i \in Emissions(h, k), NEW j \in Emissions(h, k),
               i < j
        PROVE  \/ h[j].at - h[i].at >= Ttl
               \/ \E b \in bursts' : h[i].at <= b /\ b <= h[j].at
    <3>0. bursts \subseteq bursts'
      BY <1>t
    <3>1. CASE k # holding
      <4>1. /\ i \in Emissions(out, k) /\ j \in Emissions(out, k)
            /\ h[i] = out[i] /\ h[j] = out[j]
        BY <2>3, <2>5, <3>1
      <4> QED
        BY <2>8, <3>0, <4>1 DEF Apart
    <3>2. CASE k = holding /\ j # n /\ i # n
      <4>1. /\ i \in Emissions(out, k) /\ j \in Emissions(out, k)
            /\ h[i] = out[i] /\ h[j] = out[j]
        BY <2>1, <2>3, <2>6, <3>2
      <4> QED
        BY <2>8, <3>0, <4>1 DEF Apart
    <3>3. CASE k = holding /\ j = n /\ i # n
      <4>1. i \in Emissions(out, holding)
        BY <2>6, <3>3
      <4>2. h[i] = out[i]
        BY <2>1, <2>3, <4>1
      <4> QED
        BY <1>t, <2>4, <2>7, <3>3, <4>1, <4>2
    <3>4. CASE k = holding /\ i = n
      <4>1. j < n
        BY <2>1, <2>3, <2>4, <2>6, <2>8, <3>4
      <4>2. j \in Int
        BY <1>t, <2>4, <2>6, <3>4 DEF Emissions
      <4> QED
        BY <2>4, <2>8, <3>4, <4>1, <4>2
    <3> QED
      BY <3>1, <3>2, <3>3, <3>4
  <2> QED
    BY <1>2, <2>2, <2>8 DEF Apart, Emissions
<1>6. CASE Checkpoint
  BY <1>1, <1>6 DEF Checkpoint, Apart, Emissions
<1>7. CASE Restart
  <2>1. ckpt' = ckpt /\ out' = ckpt'.out
    BY <1>7 DEF Restart
  <2> QED
    BY <1>2, <2>1 DEF Apart, Emissions
<1> QED
  BY <1>3, <1>4, <1>5, <1>6, <1>7 DEF Next

\* A dropped record keeps the emission that justifies it.
LEMMA JustifiedNext ==
    ASSUME TypeOK, Agree(seen, out), Agree(ckpt.seen, ckpt.out), HoldingIsNew,
           Justified(out), Justified(ckpt.out), [Next]_vars
    PROVE  Justified(out)' /\ Justified(ckpt.out)'
<1>t. /\ seen \in SeenMap /\ now \in Int
      /\ out \in Seq(Verdict) /\ ckpt.out \in Seq(Verdict) /\ log \in Seq(SpanIds)
  BY TypeFacts
<1>0. ASSUME NEW h \in Seq(Verdict), Len(h) <= Len(log), Justified(h)
      PROVE  \A j \in DOMAIN h : h[j].kind = "dropped" =>
               \E i \in {n \in DOMAIN h : log'[n] = log'[j] /\ h[n].kind = "emitted"} :
                 i < j /\ h[j].at - h[i].at < Ttl
  <2>1. \A j \in DOMAIN h : log'[j] = log[j]
    BY <1>0, <1>t, Grows DEF TypeOK
  <2> QED
    BY <1>0, <2>1 DEF Justified, Emissions
<1>1. ASSUME out' = out
      PROVE  Justified(out)'
  <2> DEFINE h == out
  <2>1. Len(h) <= Len(log) /\ Justified(h) /\ h \in Seq(Verdict) /\ out' = h
    BY <1>1, <1>t DEF Agree
  <2> HIDE DEF h
  <2> QED
    BY <1>0, <2>1 DEF Justified, Emissions
<1>2. ASSUME ckpt' = ckpt
      PROVE  Justified(ckpt.out)'
  <2> DEFINE h == ckpt.out
  <2>1. Len(h) <= Len(log) /\ Justified(h) /\ h \in Seq(Verdict) /\ ckpt'.out = h
    BY <1>2, <1>t DEF Agree
  <2> HIDE DEF h
  <2> QED
    BY <1>0, <2>1 DEF Justified, Emissions
<1>3. CASE Tick \/ (\E x \in SpanIds : Produce(x)) \/ SkipLookup \/ LookupMiss
             \/ UNCHANGED vars
  BY <1>1, <1>2, <1>3 DEF Tick, Produce, SkipLookup, LookupMiss, vars
<1>4. ASSUME NEW v \in Verdict, out' = Append(out, v), log' = log,
             Len(out) < Len(log),
             v.kind = "dropped" =>
               \E i \in Emissions(out, log[Len(out) + 1]) : v.at - out[i].at < Ttl
      PROVE  Justified(out)'
  <2> DEFINE h == Append(out, v)
             n == Len(out) + 1
  <2>1. /\ DOMAIN h = DOMAIN out \cup {n}
        /\ \A i \in DOMAIN out : h[i] = out[i] /\ i < n
        /\ h[n] = v
    BY <1>t, AppendFacts
  <2>2. \A k : Emissions(out, k) \subseteq Emissions(h, k)
    BY <2>1 DEF Emissions
  <2>3. v.kind = "dropped" =>
          \E i \in Emissions(out, log[n]) : v.at - out[i].at < Ttl
    BY <1>4
  <2>4. \A k : Emissions(out, k) \subseteq DOMAIN out
    BY DEF Emissions
  <2> HIDE DEF h, n
  <2>5. ASSUME NEW j \in DOMAIN h, h[j].kind = "dropped"
        PROVE  \E i \in Emissions(h, log[j]) : i < j /\ h[j].at - h[i].at < Ttl
    <3>1. CASE j \in DOMAIN out
      <4>1. PICK i \in Emissions(out, log[j]) : i < j /\ out[j].at - out[i].at < Ttl
        BY <2>1, <2>5, <3>1 DEF Justified
      <4> QED
        BY <2>1, <2>2, <2>4, <3>1, <4>1
    <3>2. CASE j = n
      <4>1. PICK i \in Emissions(out, log[n]) : v.at - out[i].at < Ttl
        BY <2>1, <2>3, <2>5, <3>2
      <4> QED
        BY <2>1, <2>2, <2>4, <3>2, <4>1
    <3> QED
      BY <2>1, <3>1, <3>2
  <2>6. out' = h
    BY <1>4 DEF h
  <2> QED
    BY <1>4, <2>5, <2>6 DEF Justified, Emissions
<1>5. CASE Drop
  <2> DEFINE v == [kind |-> "dropped", at |-> now]
  <2>1. /\ Len(out) < Len(log) /\ v \in Verdict /\ NextRecord \in SpanIds
        /\ out' = Append(out, v) /\ log' = log /\ ckpt' = ckpt
    BY <1>5, <1>t DEF Drop, CanTakeRecord, NextRecord, Verdict, TypeOK
  <2>2. PICK i \in Emissions(out, NextRecord) : out[i].at = seen[NextRecord]
    BY <1>5, <2>1 DEF Drop, IsLive, Agree
  <2>3. seen[NextRecord] \in Int /\ now < seen[NextRecord] + Ttl
    BY <1>5, <1>t, <2>1, DedupAssumption DEF Drop, IsLive, SeenMap, Time, Unset
  <2>4. v.at - out[i].at < Ttl
    BY <1>t, <2>2, <2>3, DedupAssumption
  <2> QED
    BY <1>2, <1>4, <2>1, <2>2, <2>4 DEF NextRecord
<1>6. CASE Record
  <2> DEFINE v == [kind |-> "emitted", at |-> now]
  <2>1. /\ Len(out) < Len(log) /\ v \in Verdict
        /\ out' = Append(out, v) /\ log' = log /\ ckpt' = ckpt
    BY <1>6, <1>t DEF Record, HoldingIsNew, Verdict, TypeOK
  <2> QED
    BY <1>2, <1>4, <2>1
<1>7. CASE Checkpoint
  BY <1>1, <1>7 DEF Checkpoint, Justified, Emissions
<1>8. CASE Restart
  <2>1. ckpt' = ckpt /\ out' = ckpt'.out
    BY <1>8 DEF Restart
  <2> QED
    BY <1>2, <2>1 DEF Justified, Emissions
<1> QED
  BY <1>3, <1>5, <1>6, <1>7, <1>8 DEF Next

----------------------------------------------------------------------------
(* The theorems. *)

LEMMA InitIInv == Init => IInv
<1> SUFFICES ASSUME Init PROVE IInv
  OBVIOUS
<1>1. TypeOK
  BY InitTypeOK
<1>2. Clocks /\ Covered /\ HoldingIsNew
  BY DedupAssumption DEF Init, Clocks, Covered, HoldingIsNew, EmptyBloom
<1>3. out = <<>> /\ ckpt.out = <<>> /\ log = <<>> /\ ckpt.seen = seen
  BY DEF Init
<1>4. \A k \in SpanIds : seen[k] = Unset /\ Emissions(<<>>, k) = {}
  BY DEF Init, Emissions
<1>5. Agree(seen, <<>>)
  BY <1>3, <1>4 DEF Agree
<1>6. Apart(<<>>) /\ Justified(<<>>)
  BY <1>4 DEF Apart, Justified
<1> QED
  BY <1>1, <1>2, <1>3, <1>5, <1>6 DEF IInv

LEMMA NextIInv == IInv /\ [Next]_vars => IInv'
  BY NextTypeOK, ClocksNext, CoveredNext, AgreeNext, HoldingNext, ApartNext,
     JustifiedNext
     DEF IInv

\* A warm filter that misses a span is right to, whatever restarts came
\* before, unless a generation was replaced early since the span was recorded:
\* the lookup SkipLookup saves would have found nothing.
THEOREM PreCheckIsComplete == Spec => []PreCheckComplete
<1>1. IInv => PreCheckComplete
  BY MissIsNew DEF IInv
<1> QED
  BY <1>1, InitIInv, NextIInv, PTL DEF Spec

\* No span is emitted twice within Ttl in the history that survives restarts,
\* unless a generation was replaced early between the two emissions.
THEOREM NoReEmissionHolds == Spec => []NoReEmission
<1>1. IInv => NoReEmission
  BY DEF IInv, NoReEmission
<1> QED
  BY <1>1, InitIInv, NextIInv, PTL DEF Spec

\* No span is dropped that was not emitted within the last Ttl.
THEOREM DropsAreJustified == Spec => []DropsJustified
<1>1. IInv => DropsJustified
  BY DEF IInv, DropsJustified
<1> QED
  BY <1>1, InitIInv, NextIInv, PTL DEF Spec
=============================================================================
